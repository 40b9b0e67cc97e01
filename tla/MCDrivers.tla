------------------------------ MODULE MCDrivers ------------------------------
(***************************************************************************)
(* What tasks wait for outside the runtime, on small instances: the readiness *)
(* of descriptors, the selector behind it, timers, sockets.  They share no     *)
(* state here, so a behaviour is one of the component in focus while the      *)
(* others rest in their initial states.                                      *)
(***************************************************************************)
EXTENDS IoReadiness, TLC

CONSTANTS Uninit, Zero, NoProc, Garbage,
          one, two    \* two of a kind: registrations, threads, sleep futures

VARIABLES focus,
          infos, index, mutex, count, pipe, selector, apc, op, events, asked, signal, owed, swept,
          now, last, wheel, proc, sleep, panic,
          backlog, client, server, stream, sent, broken, rbuf, taken, told,
          sock, peer, queue, call, named, wanted, answered, lost, received

\* The readiness word of a registration, with ticks of four bits, and a readiness
\* to compare it with.
Word == INSTANCE ReadinessWord WITH Width <- 4
Plain == INSTANCE IoReadiness WITH
    Tasks <- {"r"}, Readers <- {"r"}, Futures <- {}, Infos <- {one}, TickMod <- 16,
    MaxRead <- 1, MaxWrite <- 1, MaxOpen <- 1
\* Two threads that register descriptors, with room for two: one is the waker's.
Selector == INSTANCE PollSelector WITH
    Accessors <- {one, two}, Files <- {1, 2}, Ids <- {7}, Capacity <- 2, MaxEvents <- 1,
    Internal <- 9, Waker <- 8, Nobody <- "nobody"
\* Two levels of four slots, with deadlines in both and beyond one turn.
Wheel == INSTANCE TimeWheel WITH
    Slots <- 4, Levels <- 2, Pool <- 2, TicksPerMs <- 2, MaxTick <- 13, Durations <- {0, 3, 16},
    Sleepers <- {one, two}
\* Four bytes through a pipe and a buffer of three.
Tcp == INSTANCE TcpStreams WITH
    Conns <- {"c"}, MaxBytes <- 4, PipeSize <- 3, BufSize <- 3, pipe <- stream
\* Two datagrams between two sockets that two tasks share, with a
\* queue of one.
Udp == INSTANCE UdpSockets WITH
    Socks <- {"s", "t"}, Tasks <- {one, two}, MaxSend <- 2, QueueSize <- 1
\* The two are alike.
Symmetry == Permutations({one, two})

ASSUME Selector!SelectorAssumption
ASSUME Wheel!WheelAssumption

\* The packed word of a registration behaves as its set and its tick: packing
\* loses neither, and mark_state, clear_readiness and is_ready on the word are
\* those of IoReadiness, whatever tick the caller still holds.
WordIsFaithful ==
    \A ready \in SUBSET Plain!Interests, t \in 0..15 :
        LET Packed(x) == Word!FromComponents(Word!FromInterest(x.ready), x.tick)
            r == [Plain!NewInfo EXCEPT !.ready = ready, !.tick = t]
        IN  /\ Word!Flags(Packed(r)) = ready /\ Word!ExtractTick(Packed(r)) = t
            /\ \A ev \in SUBSET Plain!Interests :
                 /\ Word!MarkState(Packed(r), ev) = Packed(Plain!Set(r, ev))
                 /\ Word!Intersects(Packed(r), Word!FromInterest(ev)) = (ready \cap ev # {})
            /\ \A i \in Plain!Interests, held \in 0..15 :
                 Word!ClearReadiness(Packed(r), {i}, held) = Packed(Plain!Clear(r, i, held))
ASSUME WordIsFaithful

ioVars == <<avail, fed, fdst, cur, gen, entry, info, tracking, release, pending, drv, task>>
selectorVars == <<infos, index, mutex, count, pipe, selector, apc, op, events, asked, signal, owed, swept>>
wheelVars == <<now, last, wheel, proc, sleep, panic>>
tcpVars == <<backlog, client, server, stream, sent, broken, rbuf, taken, told>>
udpVars == <<sock, peer, queue, call, named, wanted, answered, lost, received>>
allVars == <<focus, ioVars, selectorVars, wheelVars, tcpVars, udpVars, woken>>
MCInit ==
    /\ focus \in {"io", "selector", "wheel", "tcp", "udp"}
    /\ Init /\ Selector!Init /\ Wheel!Init
    /\ Tcp!Init /\ (focus # "tcp" => rbuf["c"] = Tcp!NewBuf(3))
    /\ Udp!Init
MCNext ==
    /\ UNCHANGED focus
    /\ \/ focus = "io" /\ Next /\ UNCHANGED <<selectorVars, wheelVars, tcpVars, udpVars>>
       \/ focus = "selector" /\ Selector!Next
          /\ UNCHANGED <<ioVars, wheelVars, tcpVars, udpVars, woken>>
       \/ focus = "wheel" /\ Wheel!Next /\ UNCHANGED <<ioVars, selectorVars, tcpVars, udpVars>>
       \/ focus = "tcp" /\ Tcp!Next
          /\ UNCHANGED <<ioVars, selectorVars, wheelVars, udpVars, woken>>
       \/ focus = "udp" /\ Udp!Next
          /\ UNCHANGED <<ioVars, selectorVars, wheelVars, tcpVars, woken>>
MCSpec == MCInit /\ [][MCNext]_allVars

-----------------------------------------------------------------------------
(* The properties, as the modules state them; WaiterIsWoken and UsedIsAlive    *)
(* are those of IoReadiness.                                                  *)

\* The tables of the selector map each descriptor to what its user asked for, and
\* selector and accesses do not wait for each other in vain: select does not wait
\* for accesses that are over, does not sit in poll while an access waits for the
\* table, unless another access has read its byte, and sees a wake of the
\* SelectWaker at the latest when it is called again.
SelectorHandsOver ==
    /\ focus = "io" => TypeOK
    /\ focus = "selector" =>
        /\ Selector!TypeOK /\ Selector!TableIsMap
        /\ Selector!ConditionNotLost /\ Selector!AccessGetsThrough /\ Selector!WakeIsSeen

\* No timer is beyond the levels of the wheel or finds it without an entry: a
\* pending sleep has a timer, not before its deadline, or its waker was called once
\* its time had come, so that no entry goes without its wake; and
\* next_process_time is the earliest deadline in the whole wheel.
SleepIsServed == focus = "wheel" => Wheel!TypeOK /\ Wheel!NoPanic /\ Wheel!SleepIsArmed /\ Wheel!NextIsEarliest
\* A round of the wheel fires all timers that are due and no others.
IsTimerSet == Wheel!IsTimerSet

\* The bytes of a stream reach the program in order, each once, and a poll_read
\* without data means the end of the stream; filled() and initialized() of the
\* ReadBuf hand out no byte never written.  A datagram whose send answered Ok is
\* in one place, where send_to was asked to send it, and is received at most once.
SocketsAreFaithful ==
    /\ focus = "tcp" => Tcp!TypeOK /\ Tcp!LayoutHolds /\ Tcp!BytesInOrder /\ Tcp!PollEndIsEnd
    /\ focus = "udp" => Udp!TypeOK /\ Udp!DatagramsOnce
=============================================================================
