----------------------------- MODULE PollSelector -----------------------------
(* The poll(2) selector (mio/selector/unix/poll.rs).  One thread selects; it     *)
(* holds the mutex of the descriptor table while it is blocked in poll.  Every   *)
(* other thread that changes the table counts itself in, writes a byte into the  *)
(* internal pipe to get the selector out of poll, locks, changes, counts itself  *)
(* out and empties the pipe.                                                     *)
EXTENDS Naturals, Sequences, FiniteSets

CONSTANTS
    Accessors,  \* threads that register, reregister or deregister
    Files,      \* the descriptors they use
    Ids,        \* the identifiers given to them
    Capacity,   \* fd_capacity; the table has one more entry
    MaxEvents,  \* capacity of the container select fills
    Internal,   \* the read end of the internal pipe
    Waker,      \* the read end of the pipe of a SelectWaker
    Nobody

\* Descriptor 0 is left out: Fds::remove takes it for a negated one when it has
\* to move it, and panics.
SelectorAssumption == Capacity \in Nat /\ Files \subseteq Nat \ {0, Internal, Waker}

VARIABLES
    infos,      \* infos and pollfds: a sequence of [fd, id, events, dead]
    index,      \* fd_to_index
    mutex,      \* who holds it
    count,      \* num_of_accesses
    pipe,       \* are there bytes in the internal pipe
    selector,   \* "out", "check", "cv" (waiting on the condition), "lock", "poll"
    apc,        \* where each accessor is
    op,         \* what it has come to do
    events,     \* what the last select returned
    asked,      \* what the users have asked for: fd -> [id, events, dead]
    signal,     \* are there bytes in the pipe of the SelectWaker
    owed,       \* has it been woken since its event was last returned
    swept       \* accessors whose byte was read by another accessor

tableVars == <<infos, index, asked>>
wakerVars == <<signal, owed>>
vars == <<tableVars, mutex, count, pipe, selector, apc, op, events, wakerVars, swept>>

Unset == [id |-> 0, events |-> {}, dead |-> FALSE]
Entry(fd, id, ev) == [fd |-> fd, id |-> id, events |-> ev, dead |-> FALSE]
NoOp == <<"none", 0, 0>>
Contains(fd) == fd \in DOMAIN index
IsFull == Len(infos) = Capacity + 1

\* Every user asks for READABLE.  A POLLHUP or POLLERR alone is an event with no
\* interest.
PollEventsFromInterest == {"in"}
InterestFromPollEvents(r) == r \cap PollEventsFromInterest

\* Selector::new: the internal pipe is the first entry.
Init ==
    /\ infos = <<Entry(Internal, 0, PollEventsFromInterest)>> /\ index = [f \in {Internal} |-> 1]
    /\ mutex = Nobody /\ count = 0 /\ pipe = FALSE /\ selector = "out"
    /\ apc = [a \in Accessors |-> "idle"] /\ op = [a \in Accessors |-> NoOp]
    /\ events = {} /\ signal = FALSE /\ owed = FALSE /\ swept = {}
    /\ asked = [f \in {} |-> Unset]

-----------------------------------------------------------------------------
(* Fds                                                                       *)

\* Fds::add: AlreadyDone, NoSpaceLeft, or one more entry at the end.
Add(fd, id) ==
    IF Contains(fd) \/ IsFull THEN UNCHANGED tableVars
    ELSE /\ infos' = Append(infos, Entry(fd, id, PollEventsFromInterest))
         /\ index' = [f \in DOMAIN index \cup {fd} |-> IF f = fd THEN Len(infos) + 1 ELSE index[f]]
         /\ asked' = [f \in DOMAIN asked \cup {fd} |->
                        IF f = fd THEN [id |-> id, events |-> PollEventsFromInterest, dead |-> FALSE] ELSE asked[f]]

\* Fds::update: NotFound, NotSupported after an error, or armed again.
Update(fd, id) ==
    IF ~Contains(fd) \/ infos[index[fd]].dead THEN UNCHANGED tableVars
    ELSE /\ infos' = [infos EXCEPT ![index[fd]].id = id, ![index[fd]].events = PollEventsFromInterest]
         /\ asked' = [asked EXCEPT ![fd] = [id |-> id, events |-> PollEventsFromInterest, dead |-> FALSE]]
         /\ UNCHANGED index

\* swap_remove in both vectors; the last entry takes the place.
SwapRemove(fd) ==
    /\ infos' = SubSeq([infos EXCEPT ![index[fd]] = infos[Len(infos)]], 1, Len(infos) - 1)
    /\ index' = [f \in DOMAIN index \ {fd} |-> IF f = infos[Len(infos)].fd THEN index[fd] ELSE index[f]]

Remove(fd) ==
    IF ~Contains(fd) THEN UNCHANGED tableVars
    ELSE SwapRemove(fd) /\ asked' = [f \in DOMAIN asked \ {fd} |-> asked[f]]

-----------------------------------------------------------------------------
(* Inner::access_fds                                                         *)

AccessGoto(a, p) == apc' = [apc EXCEPT ![a] = p]

AccessBegin(a, o, fd, id) ==
    /\ apc[a] = "idle" /\ AccessGoto(a, "wake") /\ op' = [op EXCEPT ![a] = <<o, fd, id>>]
    /\ count' = count + 1
    /\ UNCHANGED <<tableVars, mutex, pipe, selector, events, wakerVars, swept>>

\* poll_waker.wake(): one more byte, or a full pipe.
AccessWake(a) ==
    /\ apc[a] = "wake" /\ AccessGoto(a, "lock") /\ pipe' = TRUE
    /\ UNCHANGED <<tableVars, mutex, count, selector, op, events, wakerVars, swept>>

\* Mutant: the access that was alone at the start, not the last one, notifies.
NotifiesFirst(n) == n = Cardinality(Accessors)

\* The last access that is counted out notifies.
Notifies(n) == n = 1

\* Inner::register, reregister and deregister: the closure that runs under the lock.
Accessor(o) ==
    CASE o[1] \in {"register", "create_waker"} -> Add(o[2], o[3])
      [] o[1] = "reregister" -> Update(o[2], o[3])
      [] o[1] \in {"deregister", "drop_waker"} -> Remove(o[2])

\* The pipe of a SelectWaker that is dropped goes with it.
ClosePipe(o) == IF o[1] = "drop_waker" THEN signal' = FALSE /\ owed' = FALSE ELSE UNCHANGED wakerVars

\* The table is changed and the access counted out under the lock.
AccessTable(a) ==
    /\ apc[a] = "lock" /\ mutex = Nobody /\ Accessor(op[a]) /\ ClosePipe(op[a])
    /\ count' = count - 1 /\ AccessGoto(a, IF Notifies(count) THEN "clear-notify" ELSE "clear")
    /\ op' = [op EXCEPT ![a] = NoOp] /\ swept' = swept \ {a}
    /\ UNCHANGED <<mutex, pipe, selector, events>>

\* poll_waker.clear() reads what is there, whoever wrote it.
AccessClear(a) ==
    /\ apc[a] \in {"clear", "clear-notify"} /\ pipe' = FALSE
    /\ AccessGoto(a, IF apc[a] = "clear" THEN "idle" ELSE "notify")
    /\ swept' = swept \cup {b \in Accessors \ {a} : apc[b] = "lock"}
    /\ UNCHANGED <<tableVars, mutex, count, selector, op, events, wakerVars>>

AccessNotify(a) ==
    /\ apc[a] = "notify" /\ AccessGoto(a, "idle")
    /\ selector' = IF selector = "cv" THEN "lock" ELSE selector
    /\ UNCHANGED <<tableVars, mutex, count, pipe, op, events, wakerVars, swept>>

\* There is one SelectWaker at a time; its owner creates it, wakes it and drops it.
WakerIdle == \A a \in Accessors : op[a][2] # Waker
CreateWaker(a, id) == ~Contains(Waker) /\ WakerIdle /\ AccessBegin(a, "create_waker", Waker, id)
DropWaker(a) == Contains(Waker) /\ WakerIdle /\ AccessBegin(a, "drop_waker", Waker, 0)
Wake ==
    /\ Contains(Waker) /\ WakerIdle /\ signal' = TRUE /\ owed' = TRUE
    /\ UNCHANGED <<tableVars, mutex, count, pipe, selector, apc, op, events, swept>>

-----------------------------------------------------------------------------
(* Inner::select                                                             *)

\* Poll::poll forgets the events of the last call.
SelectLock ==
    /\ selector \in {"out", "lock"} /\ mutex = Nobody
    /\ mutex' = "selector" /\ selector' = "check"
    /\ events' = IF selector = "out" THEN {} ELSE events
    /\ UNCHANGED <<tableVars, count, pipe, apc, op, wakerVars, swept>>

\* While there are accesses it waits, and gives up the mutex.
SelectCheck ==
    /\ selector = "check"
    /\ IF count # 0 THEN selector' = "cv" /\ mutex' = Nobody ELSE selector' = "poll" /\ UNCHANGED mutex
    /\ UNCHANGED <<tableVars, count, pipe, apc, op, events, wakerVars, swept>>

\* A condition variable may return for no reason.
SpuriousWake ==
    /\ selector = "cv" /\ selector' = "lock"
    /\ UNCHANGED <<tableVars, mutex, count, pipe, apc, op, events, wakerVars, swept>>

\* revents of an entry when the kernel has k; poll reports "hup" even when
\* nothing was asked for, and ignores a negated descriptor.
Revents(x, k) ==
    IF x.fd = Internal \/ x.dead THEN {} ELSE IF x.fd = Waker THEN IF signal THEN {"in"} ELSE {} ELSE k[x.fd] \cap (x.events \cup {"hup"})
Reported(k) == {i \in DOMAIN infos : Revents(infos[i], k) # {}}

\* Only the internal pipe is ready, or a signal came: start again, with the whole
\* timeout.
PollRestarts ==
    /\ selector = "poll" /\ selector' = "check"
    /\ UNCHANGED <<tableVars, mutex, count, pipe, apc, op, events, wakerVars, swept>>

\* An entry that was reported is not armed any more, and dead after an error; that
\* of a waker stays armed.
Disarm(x, r) == IF x.fd = Waker THEN x ELSE [x EXCEPT !.events = @ \ r, !.dead = "hup" \in r]

\* The entries select goes through before the container is full (NoSpaceLeft);
\* the others stay armed.
Taken(k) == {i \in Reported(k) : Cardinality({j \in Reported(k) : j < i}) < MaxEvents}

\* The byte of the waker is read when its event is put into the container.
SignalAfter(taken) == signal /\ Waker \notin taken
InterestOf(x, k) == IF x.fd = Waker THEN {} ELSE InterestFromPollEvents(Revents(x, k))

\* What is ready in the kernel is any k; the internal pipe may be ready too and
\* is left as it is.
PollReturns(k) ==
    /\ selector = "poll" /\ Reported(k) # {}
    /\ selector' = "out" /\ mutex' = Nobody
    /\ events' = {[id |-> infos[i].id, interest |-> InterestOf(infos[i], k)] : i \in Taken(k)}
    /\ infos' = [i \in DOMAIN infos |->
                    IF i \in Taken(k) THEN Disarm(infos[i], Revents(infos[i], k)) ELSE infos[i]]
    /\ LET taken == {infos[i].fd : i \in Taken(k)} IN
        signal' = SignalAfter(taken) /\ owed' = (owed /\ Waker \notin taken)
    /\ asked' = [f \in DOMAIN asked |->
                    IF f = Waker THEN asked[f] ELSE LET r == k[f] \cap (asked[f].events \cup {"hup"}) IN
                    IF f \notin {infos[i].fd : i \in Taken(k)} THEN asked[f]
                    ELSE [asked[f] EXCEPT !.events = @ \ r, !.dead = "hup" \in r]]
    /\ UNCHANGED <<index, count, pipe, apc, op, swept>>

PollTimeout ==
    /\ selector = "poll" /\ ~pipe /\ ~signal /\ selector' = "out" /\ mutex' = Nobody
    /\ UNCHANGED <<tableVars, count, pipe, apc, op, events, wakerVars, swept>>

-----------------------------------------------------------------------------
Access(a) == AccessWake(a) \/ AccessTable(a) \/ AccessClear(a) \/ AccessNotify(a)
Select == SelectLock \/ SelectCheck \/ PollRestarts \/ PollTimeout

Next ==
    \/ Select \/ SpuriousWake \/ Wake
    \/ \E k \in [DOMAIN index \ {Internal, Waker} -> {{}, {"in"}, {"hup"}, {"in", "hup"}}] : PollReturns(k)
    \/ \E a \in Accessors :
        \/ Access(a) \/ DropWaker(a) \/ (\E i \in Ids : CreateWaker(a, i))
        \/ \E o \in {"register", "reregister", "deregister"}, f \in Files, i \in Ids : AccessBegin(a, o, f, i)
Spec == Init /\ [][Next]_vars

-----------------------------------------------------------------------------
TypeOK ==
    /\ Len(infos) \in 1..(Capacity + 1) /\ count \in 0..Cardinality(Accessors)
    /\ mutex \in {"selector", Nobody} /\ pipe \in BOOLEAN
    /\ selector \in {"out", "check", "cv", "lock", "poll"} /\ swept \subseteq Accessors
    /\ (mutex = "selector") = (selector \in {"check", "poll"})

\* The two vectors and the map of indices, with their swaps on removal, are a map
\* from descriptors to what their users asked for last: an event carries the
\* identifier of its own descriptor, and only what was armed is reported.
TableIsMap ==
    /\ DOMAIN index = DOMAIN asked \cup {Internal} /\ index[Internal] = 1
    /\ Len(infos) = Cardinality(DOMAIN index)
    /\ \A f \in DOMAIN asked :
        /\ index[f] \in 2..Len(infos)
        /\ infos[index[f]] = [fd |-> f, id |-> asked[f].id, events |-> asked[f].events, dead |-> asked[f].dead]

\* The selector does not wait on the condition for accesses that are over, unless
\* one of them is about to notify it.
ConditionNotLost ==
    selector = "cv" /\ count = 0 => \E a \in Accessors : apc[a] \in {"clear-notify", "notify"}

\* A wake is not lost: until a select returns the event of the waker, which may
\* come after others that fill the container, its byte keeps every later poll
\* from blocking.
WakeIsSeen == owed => signal /\ Contains(Waker)

\* While an access waits for the table, the selector does not sit in poll with
\* the mutex, unless another access has read the byte that was to wake it.
AccessGetsThrough ==
    \A a \in Accessors \ swept : ~(apc[a] = "lock" /\ selector = "poll" /\ ~pipe)

\* The same for every access: "restart the loop to wait for the pending accesses
\* to finish" (select).
EveryAccessGetsThrough ==
    \A a \in Accessors : ~(apc[a] = "lock" /\ selector = "poll" /\ ~pipe)
=============================================================================
