------------------------------ MODULE TimeWheel ------------------------------
(* The time driver (time/mod.rs), its hierarchical wheel (time/wheel.rs) and    *)
(* the sleep future (futures/sleep.rs) over it.  Registration takes the read    *)
(* lock and is one step; a round of process_timeouts holds the write lock and   *)
(* takes one step per slot.  The list of a slot and its bit in occupied_slots   *)
(* are the set of the entries of that level and slot.                           *)
EXTENDS Naturals, FiniteSets, FiniteSetsExt

CONSTANTS
    Slots,      \* SLOTS_CNT, 64 in the code
    Levels,     \* MAX_LEVELS, 5 in the code
    Pool,       \* number of entries of the pool
    TicksPerMs, \* resolution of the clock; the wheel counts milliseconds
    MaxTick,    \* bound on the clock
    Durations,  \* the durations given to sleep()
    Sleepers,   \* the sleep futures
    NoProc

WheelAssumption ==
    /\ Slots \in Nat \ {0, 1} /\ Levels \in Nat \ {0} /\ TicksPerMs \in Nat \ {0}
    /\ MaxTick \in Nat /\ Durations \subseteq Nat

VARIABLES
    now,        \* the clock
    last,       \* last_check_time
    wheel,      \* the entries: [id, exp, level]
    proc,       \* the `now` of the round in progress
    sleep,      \* each future: [st |-> FutureState, at |-> expire_at]
    woken,      \* the sleepers whose waker was called and that were not polled since
    panic       \* an assertion, an index or an unrecoverable error was hit

wheelVars == <<last, wheel, proc>>
vars == <<now, last, wheel, proc, sleep, woken, panic>>

Init ==
    /\ now = 0 /\ last = 0 /\ wheel = {} /\ proc = NoProc
    /\ sleep = [s \in Sleepers |-> [st |-> "none", at |-> 0]]
    /\ woken = {} /\ panic = FALSE

-----------------------------------------------------------------------------
(* TimeWheel                                                                 *)

SlotRange(l) == Slots^l
LevelRange(l) == SlotRange(l) * Slots
SlotOf(l, t) == (t \div SlotRange(l)) % Slots
MaxTimeout == SlotRange(Levels)

OnLevel(l) == {x \in wheel : x.level = l}
InSlot(l, k) == {x \in OnLevel(l) : SlotOf(l, x.exp) = k}

\* The first occupied slot from the current one on, once around.
NextOccupiedSlot(l, t) ==
    LET ahead == {k \in 0..(Slots - 1) : InSlot(l, (SlotOf(l, t) + k) % Slots) # {}}
    IN  (SlotOf(l, t) + Min(ahead)) % Slots

\* Mutant: the start of the slot is counted from now, not from the start of the wheel.
SlotDeadlineFromNow(l, t) == t + NextOccupiedSlot(l, t) * SlotRange(l)

SlotDeadline(l, t) == (t - (t % LevelRange(l))) + NextOccupiedSlot(l, t) * SlotRange(l)

\* Inner::find_next_expiring: the lowest level that has an entry.
NextLevel == Min({l \in 0..(Levels - 1) : OnLevel(l) # {}})

\* Inner::next_process_time looks for the earliest entry of that slot.
NextExpirationInSlot(l, k) == Min({x.exp : x \in InSlot(l, k)})
NextProcessTime == NextExpirationInSlot(NextLevel, NextOccupiedSlot(NextLevel, last))

\* Inner::compute_level_for_timer: the highest digit, in base SLOTS_CNT, in
\* which the two times differ.
Level(t, e) == Max({0} \cup {l \in 0..Levels : SlotOf(l, t) # SlotOf(l, e)})

-----------------------------------------------------------------------------
(* Sleep and TimeDriver::register_timeout                                    *)

Tick ==
    /\ now < MaxTick /\ now' = now + 1
    /\ UNCHANGED <<wheelVars, sleep, woken, panic>>

FutureState == {"New", "Polled", "Finished"}

\* sleep(): the time counts from here, not from the first poll.
NewSleep(s, d) ==
    /\ sleep[s].st = "none"
    /\ sleep' = [sleep EXCEPT ![s] = [st |-> "New", at |-> now + d]]
    /\ UNCHANGED <<now, wheelVars, woken, panic>>

\* Sleep::rounded_deadline, as the driver counts it.
RoundedDeadline(s) == (sleep[s].at + TicksPerMs - 1) \div TicksPerMs

\* Inner::register_timeout; a level the wheel does not have is an index out of
\* bounds.
AllocateEntry == Cardinality(wheel) < Pool
RegisterTimeout(e) ==
    CASE e < last -> "AlreadyDone"
      [] e >= last /\ e - last > MaxTimeout -> "WrongArgs"
      [] e >= last /\ e - last <= MaxTimeout /\ ~AllocateEntry -> "NoSpaceLeft"
      [] OTHER -> IF Level(last, e) < Levels THEN "Ok" ELSE "OutOfBounds"

\* The first poll: AlreadyDone finishes the future, any other error aborts.
PollNew(s) ==
    LET e == RoundedDeadline(s) res == RegisterTimeout(e) IN
    /\ sleep[s].st = "New" /\ proc = NoProc
    /\ \/ /\ res = "AlreadyDone"
          /\ sleep' = [sleep EXCEPT ![s].st = "Finished"]
          /\ UNCHANGED <<wheel, panic>>
       \/ /\ res = "Ok"
          /\ wheel' = wheel \cup {[id |-> s, exp |-> e, level |-> Level(last, e)]}
          /\ sleep' = [sleep EXCEPT ![s].st = "Polled"]
          /\ UNCHANGED panic
       \/ /\ res \notin {"AlreadyDone", "Ok"}
          /\ panic' = TRUE /\ UNCHANGED <<wheel, sleep>>
    /\ UNCHANGED <<now, last, proc, woken>>

\* A later poll, after a wake or for another reason: ready when the time is
\* there, pending otherwise; the waker is not registered again.
PollAgain(s) ==
    /\ sleep[s].st = "Polled"
    /\ sleep' = [sleep EXCEPT ![s].st = IF now >= sleep[s].at THEN "Finished" ELSE "Polled"]
    /\ woken' = woken \ {s}
    /\ UNCHANGED <<now, wheelVars, panic>>

-----------------------------------------------------------------------------
(* TimeDriver::process_timeouts                                              *)

InstantIntoU64(t) == t \div TicksPerMs

\* The clock is read under the write lock.
ProcessBegin ==
    /\ proc = NoProc /\ proc' = InstantIntoU64(now)
    /\ panic' = (panic \/ InstantIntoU64(now) < last)
    /\ UNCHANGED <<now, last, wheel, sleep, woken>>

Expiring == wheel # {} /\ SlotDeadline(NextLevel, last) <= proc

\* An entry whose time has not come moves to the level seen from the slot's start.
Cascade(x, d) == [x EXCEPT !.level = Level(d, x.exp)]

\* Mutant: an entry that expires on an upper level is dropped without its wake.
WakersOfLowest(expired) == {x.id : x \in {y \in expired : y.level = 0}}
Wakers(expired) == {x.id : x \in expired}

\* process_expired on one slot, then the check time moves to the slot's start.
ProcessSlot ==
    LET d == SlotDeadline(NextLevel, last)
        slot == InSlot(NextLevel, NextOccupiedSlot(NextLevel, last))
        expired == {x \in slot : x.exp <= d}
    IN  /\ proc # NoProc /\ Expiring
        /\ wheel' = (wheel \ slot) \cup {Cascade(x, d) : x \in slot \ expired}
        /\ woken' = woken \cup Wakers(expired)
        /\ last' = d
        /\ panic' = (panic \/ d < last)
        /\ UNCHANGED <<now, proc, sleep>>

ProcessEnd ==
    /\ proc # NoProc /\ ~Expiring
    /\ last' = proc /\ proc' = NoProc
    /\ UNCHANGED <<now, wheel, sleep, woken, panic>>

Next ==
    /\ ~panic
    /\ \/ Tick \/ ProcessBegin \/ ProcessSlot \/ ProcessEnd
       \/ \E s \in Sleepers : PollNew(s) \/ PollAgain(s) \/ \E d \in Durations : NewSleep(s, d)
Spec == Init /\ [][Next]_vars

-----------------------------------------------------------------------------
Times == 0..(MaxTick + Max(Durations \cup {0}) + 1)
TypeOK ==
    /\ now \in 0..MaxTick /\ last \in Times /\ proc \in Times \cup {NoProc}
    /\ wheel \subseteq [id : Sleepers, exp : Times, level : 0..(Levels - 1)]
    /\ Cardinality(wheel) <= Pool
    /\ sleep \in [Sleepers -> [st : FutureState \cup {"none"}, at : Times]]
    /\ woken \subseteq Sleepers /\ panic \in BOOLEAN

\* No assertion of the wheel, no index and no unrecoverable error of sleep() is
\* hit: the next slot is never behind the last check, time never goes back, and
\* every timer has a level.  (With enough entries, and short of the end of the
\* highest level.)
NoPanic == ~panic

\* The time a worker is told to sleep until is that of the earliest timer of the
\* whole wheel, though only the first occupied slot of the lowest occupied level
\* is looked at.
NextIsEarliest ==
    proc = NoProc /\ wheel # {} => NextProcessTime = Min({x.exp : x \in wheel})

\* A sleep that is pending has exactly one entry in the wheel, not before its
\* deadline, or its waker was called, when its time had come, and it has not been
\* polled since: no entry is dropped without its wake, and none fires so early
\* that the poll finds the sleep not over and leaves it without a timer.
Entries(s) == {x \in wheel : x.id = s}
SleepIsArmed ==
    \A s \in Sleepers : sleep[s].st = "Polled" =>
        \/ /\ Cardinality(Entries(s)) = 1
           /\ \A x \in Entries(s) : x.exp * TicksPerMs >= sleep[s].at
        \/ Entries(s) = {} /\ s \in woken /\ now >= sleep[s].at

\* The wheel is a set of timers: every round fires all timers that are due and
\* no others, however they are spread over levels and slots.
T == INSTANCE Timers WITH Ids <- Sleepers, pending <- {<<x.id, x.exp>> : x \in wheel}
IsTimerSet == T!Spec
=============================================================================
