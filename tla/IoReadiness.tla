------------------------------ MODULE IoReadiness ------------------------------
(* Asynchronous I/O on one descriptor: the driver (io/driver.rs), the shared      *)
(* registration with its readiness word and its wakers (io/async_registration.rs) *)
(* and the calls on a bridged descriptor (io/bridgedfd.rs), over a selector that  *)
(* reports what was armed once (PollSelector).  The descriptor may be closed and  *)
(* opened again; the driver keeps raw pointers to registrations meanwhile.        *)
EXTENDS Naturals, FiniteSets

CONSTANTS
    Tasks,      \* tasks that read from or write to the descriptor
    Readers,    \* those that read; the others write
    Futures,    \* those that use async_call and its ReadinessFuture; the others
                \* use poll_read or poll_write and the slot of the registration
    Infos,      \* addresses of registrations
    TickMod,    \* 2^16 in the code: the tick is 16 bits wide
    MaxRead,    \* bound: how often data arrives
    MaxWrite,   \* bound: how often there is space to write
    MaxOpen,    \* bound: how often the descriptor is opened
    None

Entries == [info : Infos, gen : Nat, events : SUBSET {"readable", "writable"}]

\* poll_read and poll_write borrow the descriptor mutably: one task at most reads
\* through them, and one at most writes.
ASSUME ReadinessAssumption ==
    /\ Readers \subseteq Tasks /\ Futures \subseteq Tasks
    /\ \A t, u \in Tasks \ Futures : (t \in Readers) = (u \in Readers) => t = u
    /\ None \notin Tasks /\ None \notin Infos /\ None \notin Entries
    /\ TickMod \in Nat \ {0} /\ MaxRead \in Nat /\ MaxWrite \in Nat

VARIABLES
    avail,      \* what the kernel has: number of items to read, of places to write
    fed,        \* how many it has got so far
    fdst,       \* the BridgedFd: "closed", "created", "open", "dereg"
    cur,        \* the address of its registration
    gen,        \* how often it was opened
    entry,      \* the selector's entry: None or [info, gen, events]
    info,       \* the registrations: [ready, tick, slot, waiters]
    tracking,   \* Registrations: the addresses that are kept alive
    release,    \* waiting_release
    pending,    \* pending_release_count
    drv,        \* the driver: [pc, info, gen, events, wakers]
    task,       \* the tasks: [pc, tick]
    woken       \* tasks that were woken

fdVars == <<fdst, cur, gen, entry>>
regVars == <<tracking, release, pending>>
vars == <<avail, fed, fdVars, info, regVars, drv, task, woken>>

READABLE == "readable"
WRITABLE == "writable"
Interests == {READABLE, WRITABLE}
MaxData == [i \in Interests |-> IF i = READABLE THEN MaxRead ELSE MaxWrite]
Interest(t) == IF t \in Readers THEN READABLE ELSE WRITABLE

\* The steps at which a task holds a readiness, with its tick.
Holding == {"remove", "io", "rearm", "clear"}

\* The readiness word and its tick, the slots and the list of wakers.
NewInfo == [ready |-> {}, tick |-> 0, slot |-> [i \in Interests |-> None], waiters |-> {}]
DriverIdle == [pc |-> "idle", info |-> None, gen |-> 0, events |-> {}, wakers |-> {}]

Init ==
    /\ avail = [i \in Interests |-> 0] /\ fed = [i \in Interests |-> 0]
    /\ fdst = "closed" /\ cur = None /\ gen = 0 /\ entry = None
    /\ info = [a \in Infos |-> NewInfo] /\ tracking = {} /\ release = {} /\ pending = FALSE
    /\ drv = DriverIdle /\ task = [t \in Tasks |-> [pc |-> "idle", tick |-> 0]] /\ woken = {}

\* The environment: data arrives, or the peer makes room.
Feed(i) ==
    /\ fed[i] < MaxData[i] /\ fed' = [fed EXCEPT ![i] = @ + 1] /\ avail' = [avail EXCEPT ![i] = @ + 1]
    /\ UNCHANGED <<fdVars, info, regVars, drv, task, woken>>

-----------------------------------------------------------------------------
(* IoDriverHandle and Registrations                                          *)

\* create_registration_info: a slot of the map, or NoSpaceLeft.
OpenCreate(a) ==
    /\ fdst = "closed" /\ gen < MaxOpen /\ a \notin tracking
    /\ tracking' = tracking \cup {a} /\ info' = [info EXCEPT ![a] = NewInfo]
    /\ fdst' = "created" /\ cur' = a /\ gen' = gen + 1
    /\ UNCHANGED <<avail, fed, entry, release, pending, drv, task, woken>>

\* add_io_source: registered with the selector for both interests ...
OpenRegister ==
    /\ fdst = "created" /\ fdst' = "open"
    /\ entry' = [info |-> cur, gen |-> gen, events |-> Interests]
    /\ UNCHANGED <<avail, fed, cur, gen, info, regVars, drv, task, woken>>

\* ... or refused, and released at once.
OpenFails ==
    /\ fdst = "created" /\ fdst' = "closed" /\ tracking' = tracking \ {cur} /\ cur' = None
    /\ UNCHANGED <<avail, fed, gen, entry, info, release, pending, drv, task, woken>>

\* remove_io_source, when nobody uses the descriptor: out of the selector ...
CloseDeregister ==
    /\ fdst = "open" /\ \A t \in Tasks : task[t].pc = "idle"
    /\ fdst' = "dereg" /\ entry' = None
    /\ UNCHANGED <<avail, fed, cur, gen, info, regVars, drv, task, woken>>

\* Mutant: the registration is released at once.
CloseReleases ==
    /\ fdst = "dereg" /\ fdst' = "closed" /\ cur' = None /\ tracking' = tracking \ {cur}
    /\ UNCHANGED <<avail, fed, gen, entry, info, release, pending, drv, task, woken>>

\* ... and put aside until the driver is not between select and wake.
CloseSchedule ==
    /\ fdst = "dereg" /\ fdst' = "closed" /\ cur' = None
    /\ release' = release \cup {cur} /\ pending' = TRUE
    /\ UNCHANGED <<avail, fed, gen, entry, info, tracking, drv, task, woken>>

-----------------------------------------------------------------------------
(* IoDriver::process_io                                                      *)

DriverGoto(p) == drv' = [drv EXCEPT !.pc = p]

\* cleanup_disposed_registrations looks at the flag first, then takes the lock.
\* (A freed registration is set back only to have fewer states.)
ProcessIo ==
    /\ drv.pc = "idle" /\ DriverGoto(IF pending THEN "cleanup" ELSE "poll")
    /\ UNCHANGED <<avail, fed, fdVars, info, regVars, task, woken>>

Cleanup ==
    /\ drv.pc = "cleanup" /\ DriverGoto("poll")
    /\ tracking' = tracking \ release /\ release' = {} /\ pending' = FALSE
    /\ info' = [a \in Infos |-> IF a \in release THEN NewInfo ELSE info[a]]
    /\ UNCHANGED <<avail, fed, fdVars, task, woken>>

\* select: what was armed and is ready is reported and disarmed; or a timeout.
SelectEvents == IF entry = None THEN {} ELSE {i \in entry.events : avail[i] > 0}
PollEvents ==
    /\ drv.pc = "poll" /\ SelectEvents # {}
    /\ drv' = [drv EXCEPT !.pc = "mark", !.info = entry.info, !.gen = entry.gen, !.events = SelectEvents]
    /\ entry' = [entry EXCEPT !.events = @ \ SelectEvents]
    /\ UNCHANGED <<avail, fed, fdst, cur, gen, info, regVars, task, woken>>
PollTimesOut ==
    /\ drv.pc = "poll" /\ SelectEvents = {} /\ drv' = DriverIdle
    /\ UNCHANGED <<avail, fed, fdVars, info, regVars, task, woken>>

\* The 16-bit tick of a ReadinessState wraps.
IncrementTick(k) == (k + 1) % TickMod

\* Bound: the tick does not come back, all the way around, to the one some task
\* still holds.  (After exactly TickMod marks a stale clear would be accepted.)
NotOvertaken ==
    \A t \in Tasks : task[t].pc \in Holding /\ drv.info = cur => IncrementTick(info[cur].tick) # task[t].tick

\* The two uses of set_readiness, on a registration r: TickOp::Set advances the
\* tick, TickOp::Clear changes nothing when the tick is another one by now.
Set(r, ev) == [r EXCEPT !.ready = @ \cup ev, !.tick = IncrementTick(@)]
Clear(r, i, tick) == IF r.tick = tick THEN [r EXCEPT !.ready = @ \ {i}] ELSE r

\* RegistrationInfo::wake: mark_state ...
MarkState ==
    /\ drv.pc = "mark" /\ NotOvertaken
    /\ info' = [info EXCEPT ![drv.info] = Set(@, drv.events)]
    /\ drv' = [drv EXCEPT !.pc = "wake_all", !.events = info'[drv.info].ready]
    /\ UNCHANGED <<avail, fed, fdVars, regVars, task, woken>>

\* ... then under the lock the wakers of what is ready are taken out.
WakeAll ==
    LET r == drv.events
        slots == {info[drv.info].slot[i] : i \in r} \ {None}
        waiters == {t \in info[drv.info].waiters : Interest(t) \in r}
    IN  /\ drv.pc = "wake_all"
        /\ drv' = [drv EXCEPT !.pc = "notify", !.wakers = slots \cup waiters]
        /\ info' = [info EXCEPT
                ![drv.info].slot = [i \in Interests |-> IF i \in r THEN None ELSE @[i]],
                ![drv.info].waiters = @ \ waiters]
        /\ UNCHANGED <<avail, fed, fdVars, regVars, task, woken>>

\* They are called out of the lock.
NotifyWakers ==
    /\ drv.pc = "notify" /\ woken' = woken \cup drv.wakers /\ drv' = DriverIdle
    /\ UNCHANGED <<avail, fed, fdVars, info, regVars, task>>

-----------------------------------------------------------------------------
(* poll_read, poll_write and async_call of a BridgedFd                       *)

TaskGoto(t, p) == task' = [task EXCEPT ![t].pc = p]
IsReady(t) == Interest(t) \in info[cur].ready
GotReadiness(t) == task' = [task EXCEPT ![t] = [pc |-> "io", tick |-> info[cur].tick]]

\* A call begins, or its task is polled again.
Call(t) ==
    /\ fdst = "open" /\ task[t].pc = "idle" /\ TaskGoto(t, "ready?")
    /\ UNCHANGED <<avail, fed, fdVars, info, regVars, drv, woken>>
PollTask(t) ==
    /\ task[t].pc \in {"pending", "again"} /\ woken' = woken \ {t}
    /\ TaskGoto(t, IF t \in Futures THEN "polled" ELSE "ready?")
    /\ UNCHANGED <<avail, fed, fdVars, info, regVars, drv>>

\* The readiness word is read without the lock ...
FirstLook(t) ==
    /\ task[t].pc = "ready?"
    /\ IF IsReady(t) THEN GotReadiness(t) ELSE TaskGoto(t, "lock")
    /\ UNCHANGED <<avail, fed, fdVars, info, regVars, drv, woken>>

\* ... and again with it, before the waker goes into the slot or the list.
Register(t) ==
    /\ task[t].pc = "lock"
    /\ IF IsReady(t) THEN GotReadiness(t) /\ UNCHANGED info
       ELSE /\ TaskGoto(t, "pending")
            /\ info' = IF t \in Futures THEN [info EXCEPT ![cur].waiters = @ \cup {t}]
                       ELSE [info EXCEPT ![cur].slot[Interest(t)] = t]
    /\ UNCHANGED <<avail, fed, fdVars, regVars, drv, woken>>

\* A ReadinessFuture that was polled before only looks; it does not go into the
\* list again.
PollFuture(t) ==
    /\ task[t].pc = "polled"
    /\ IF IsReady(t) THEN task' = [task EXCEPT ![t] = [pc |-> "remove", tick |-> info[cur].tick]]
       ELSE TaskGoto(t, "again")
    /\ UNCHANGED <<avail, fed, fdVars, info, regVars, drv, woken>>
\* List::remove walks a ring of two or more for ever when the item is not in
\* it (IntrusiveList).
RemoveReturns(t) == t \in Futures => t \in info[cur].waiters \/ Cardinality(info[cur].waiters) < 2
RemoveFuture(t) ==
    /\ task[t].pc = "remove" /\ RemoveReturns(t) /\ TaskGoto(t, "io")
    /\ info' = [info EXCEPT ![cur].waiters = @ \ {t}]
    /\ UNCHANGED <<avail, fed, fdVars, regVars, drv, woken>>

\* The call is given up: a future leaves the list, a waker stays in its slot.
Cancel(t) ==
    /\ task[t].pc \in {"pending", "again"} /\ RemoveReturns(t) /\ TaskGoto(t, "idle")
    /\ info' = [info EXCEPT ![cur].waiters = @ \ {t}] /\ woken' = woken \ {t}
    /\ UNCHANGED <<avail, fed, fdVars, regVars, drv>>

\* The system call: done, or WouldBlock, and then Proxy::io_call arms the
\* selector again.
DoIo(t) ==
    /\ task[t].pc = "io"
    /\ IF avail[Interest(t)] > 0
       THEN avail' = [avail EXCEPT ![Interest(t)] = @ - 1] /\ task' = [task EXCEPT ![t] = [pc |-> "idle", tick |-> 0]]
       ELSE TaskGoto(t, "rearm") /\ UNCHANGED avail
    /\ UNCHANGED <<fed, fdVars, info, regVars, drv, woken>>
Rearm(t) ==
    /\ task[t].pc = "rearm" /\ TaskGoto(t, "clear") /\ entry' = [entry EXCEPT !.events = Interests]
    /\ UNCHANGED <<avail, fed, fdst, cur, gen, info, regVars, drv, woken>>

\* Mutant: cleared whatever has happened since.
ClearAlways(t) ==
    /\ task[t].pc = "clear" /\ task' = [task EXCEPT ![t] = [pc |-> "ready?", tick |-> 0]]
    /\ info' = [info EXCEPT ![cur].ready = @ \ {Interest(t)}]
    /\ UNCHANGED <<avail, fed, fdVars, regVars, drv, woken>>

\* clear_readiness, unless the driver has marked the registration since.
ClearReadiness(t) ==
    /\ task[t].pc = "clear" /\ task' = [task EXCEPT ![t] = [pc |-> "ready?", tick |-> 0]]
    /\ info' = [info EXCEPT ![cur] = Clear(@, Interest(t), task[t].tick)]
    /\ UNCHANGED <<avail, fed, fdVars, regVars, drv, woken>>

-----------------------------------------------------------------------------
Driver == ProcessIo \/ Cleanup \/ PollEvents \/ PollTimesOut \/ MarkState \/ WakeAll \/ NotifyWakers
\* poll_read and poll_write; async_call; the calls of both on the descriptor.
SlotCall(t) == t \notin Futures /\ (FirstLook(t) \/ Register(t) \/ DoIo(t) \/ Rearm(t) \/ ClearReadiness(t))
AsyncCall(t) ==
    /\ t \in Futures
    /\ \/ FirstLook(t) \/ Register(t) \/ PollFuture(t) \/ RemoveFuture(t)
       \/ DoIo(t) \/ Rearm(t) \/ ClearReadiness(t)
TaskStep(t) == SlotCall(t) \/ AsyncCall(t)

Next ==
    \/ Driver \/ OpenRegister \/ OpenFails \/ CloseDeregister \/ CloseSchedule
    \/ \E a \in Infos : OpenCreate(a)
    \/ \E i \in Interests : Feed(i)
    \/ \E t \in Tasks : TaskStep(t) \/ Call(t) \/ PollTask(t) \/ Cancel(t)
Spec == Init /\ [][Next]_vars

-----------------------------------------------------------------------------
Registration ==
    [ready : SUBSET Interests, tick : 0..(TickMod - 1), slot : [Interests -> Tasks \cup {None}],
     waiters : SUBSET Tasks]
Labels == {"idle", "ready?", "lock", "pending", "again", "polled"} \cup Holding
Position == [pc : Labels, tick : Nat]
TypeOK ==
    /\ avail \in [Interests -> Nat] /\ fed \in [Interests -> Nat]
    /\ \A i \in Interests : avail[i] <= fed[i] /\ fed[i] <= MaxData[i]
    /\ fdst \in {"closed", "created", "open", "dereg"} /\ cur \in Infos \cup {None} /\ gen \in Nat
    /\ entry \in Entries \cup {None}
    /\ (cur = None) = (fdst = "closed") /\ (entry # None) = (fdst = "open")
    /\ info \in [Infos -> Registration]
    /\ tracking \subseteq Infos /\ release \subseteq tracking /\ pending \in BOOLEAN
    /\ drv \in [pc : {"idle", "cleanup", "poll", "mark", "wake_all", "notify"}, info : Infos \cup {None},
                gen : Nat, events : SUBSET Interests, wakers : SUBSET Tasks]
    /\ task \in [Tasks -> Position]
    /\ woken \subseteq Tasks

Listed(t) == IF t \in Futures THEN t \in info[cur].waiters ELSE info[cur].slot[Interest(t)] = t
Marking(i) == drv.pc = "mark" /\ drv.gen = gen /\ i \in drv.events
WakingAll(i) == drv.pc = "wake_all" /\ drv.gen = gen /\ i \in drv.events

\* Task t is on its way to be woken, or its waker is where the driver looks and, if
\* the kernel has something for it, the selector is armed for it or the driver is
\* about to mark and wake.
WillHear(t) ==
    \/ t \in woken
    \/ drv.pc = "notify" /\ t \in drv.wakers
    \/ /\ Listed(t)
       /\ \/ WakingAll(Interest(t))
          \/ Marking(Interest(t))
          \/ ~IsReady(t) /\ (avail[Interest(t)] = 0 \/ Interest(t) \in entry.events)

\* A call that waits hears of it when it can go on: no event falls between a
\* WouldBlock, the new arming, the clearing of the readiness and the registration
\* of the waker.  A future that was woken and found nothing is left out.
WaiterIsWoken == \A t \in Tasks : task[t].pc = "pending" => WillHear(t)

\* The same of every call: "User will be waken once the interest is ready."
\* (AsyncRegistration::request_readiness)
EveryWaiterIsWoken == \A t \in Tasks : task[t].pc \in {"pending", "again"} => WillHear(t)

\* The driver, which holds the address of a registration from select to wake,
\* only touches one that is still alive, and never one that has been given to a
\* later descriptor meanwhile.
UsedIsAlive ==
    drv.pc \in {"mark", "wake_all"} => drv.info \in tracking /\ (drv.info = cur => drv.gen = gen)
=============================================================================
