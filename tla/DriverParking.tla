----------------------------- MODULE DriverParking -----------------------------
(* Who sleeps for the timers: Drivers::park (scheduler/driver.rs), by which the  *)
(* async workers agree through next_promised_wakeup that one of them sleeps      *)
(* until the next deadline and the others without a timeout.  The timers are     *)
(* those of Timers, which TimeWheel implements; the parking primitive itself is  *)
(* in WorkerParking.  Times are milliseconds.                                    *)
EXTENDS Naturals, FiniteSets, FiniteSetsExt

CONSTANTS
    Workers,    \* async workers
    Dedicated,  \* a thread outside the async workers that registers timers
    MaxTime,    \* bound on the clock and on deadlines
    Never, NoOne

DriverAssumption == MaxTime \in Nat /\ Dedicated \notin Workers

VARIABLES
    now, pending, last,     \* the clock, the deadlines, last_check_time
    readers, writer,        \* the RwLock of the time driver
    promised,               \* next_promised_wakeup
    stash,                  \* wakeup_time of each worker's context, 0 if unset
    pc,
    seen,                   \* what park has read, until it is over: [prev, glob]
    until,                  \* the deadline a thread registers or sleeps for
    notified                \* workers that were unparked

timeVars == <<now, pending, last>>
lockVars == <<readers, writer>>
parkVars == <<promised, stash, seen>>
vars == <<timeVars, lockVars, parkVars, pc, until, notified>>

Threads == Workers \cup {Dedicated}
Times == 0..MaxTime
Unread == [prev |-> 0, glob |-> 0]
Init ==
    /\ now = 0 /\ pending = {} /\ last = 0
    /\ readers = {} /\ writer = NoOne /\ promised = 0
    /\ stash = [w \in Workers |-> 0] /\ seen = [w \in Workers |-> Unread]
    /\ pc = [t \in Threads |-> "run"] /\ until = [t \in Threads |-> Never] /\ notified = {}

SetWakeupTime(w, e) == stash' = [stash EXCEPT ![w] = e]
UnsetWakeupTime(w) == stash' = [stash EXCEPT ![w] = 0]
Goto(t, p) == pc' = [pc EXCEPT ![t] = p]
Unlocked == writer = NoOne /\ readers = {}

Tick == now < MaxTime /\ now' = now + 1 /\ UNCHANGED <<pending, last, lockVars, parkVars, pc, until, notified>>

-----------------------------------------------------------------------------
(* register_timeout                                                          *)

RegisterLock(t, e) ==
    /\ pc[t] = "run" /\ writer = NoOne
    /\ readers' = readers \cup {t} /\ until' = [until EXCEPT ![t] = e] /\ Goto(t, "register")
    /\ UNCHANGED <<timeVars, writer, parkVars, notified>>

\* A deadline before the last check is refused: AlreadyDone.
Register(t) ==
    /\ pc[t] = "register"
    /\ pending' = IF until[t] >= last THEN pending \cup {until[t]} ELSE pending
    /\ readers' = readers \ {t} /\ until' = [until EXCEPT ![t] = Never]
    /\ Goto(t, IF t = Dedicated THEN "unpark" ELSE "run")
    /\ UNCHANGED <<now, last, writer, parkVars, notified>>

Parked(w) == pc[w] \in {"next", "compute", "prestage", "sleep"}

\* unpark_some_async_worker: one of the parked workers, unless none is, or a
\* worker is searching (it will look at the timers when it parks).
UnparkSome ==
    /\ pc[Dedicated] = "unpark" /\ Goto(Dedicated, "run")
    /\ \/ \E w \in Workers : Parked(w) /\ notified' = notified \cup {w}
       \/ (\E w \in Workers : ~Parked(w)) /\ UNCHANGED notified
Unparks == UnparkSome /\ UNCHANGED <<timeVars, lockVars, parkVars, until>>

-----------------------------------------------------------------------------
(* Drivers::park                                                             *)

\* The worker is listed as parked from here on and can be unparked.
Park(w) ==
    /\ pc[w] = "run" /\ Goto(w, "next")
    /\ seen' = [seen EXCEPT ![w] = [prev |-> stash[w], glob |-> promised]]
    /\ UNCHANGED <<timeVars, lockVars, promised, stash, until, notified>>

\* next_process_time: a worker whose own promise stands waits for the lock, any
\* other one gives up when it is taken, as if there were no timer.
NextLock(w) ==
    /\ pc[w] = "next"
    /\ IF Unlocked THEN writer' = w /\ Goto(w, "compute") /\ UNCHANGED until
       ELSE /\ seen[w].prev # seen[w].glob /\ Goto(w, "prestage")
            /\ until' = [until EXCEPT ![w] = Never] /\ UNCHANGED writer
    /\ UNCHANGED <<timeVars, readers, parkVars, notified>>

\* Mutant: a worker does not ask whether the promise is its own.
SleepForPromised(e, s) == IF e = s.glob THEN Never ELSE e
\* Another worker seems to sleep for this deadline already.
SleepFor(e, s) == IF e = s.glob /\ s.prev # e THEN Never ELSE e

Compute(w) ==
    /\ pc[w] = "compute" /\ Goto(w, "prestage") /\ writer' = NoOne
    /\ until' = [until EXCEPT ![w] = IF pending = {} THEN Never ELSE SleepFor(Min(pending), seen[w])]
    /\ UNCHANGED <<timeVars, readers, parkVars, notified>>

DurationSinceNow(e) == IF e > now THEN e - now ELSE 0

\* WorkerInteractor::park: no sleep when the deadline is here or the worker was
\* unparked meanwhile; otherwise park_with_timeout makes its promise and sleeps.
PreStage(w) ==
    /\ pc[w] = "prestage"
    /\ IF (until[w] # Never /\ DurationSinceNow(until[w]) = 0) \/ w \in notified
       THEN Goto(w, "exit") /\ UNCHANGED <<promised, stash>>
       ELSE /\ Goto(w, "sleep")
            /\ IF until[w] = Never THEN UNCHANGED <<promised, stash>>
               ELSE promised' = until[w] /\ SetWakeupTime(w, until[w])
    /\ UNCHANGED <<timeVars, lockVars, seen, until, notified>>

Unpark(w) ==
    /\ Parked(w) /\ w \notin notified /\ notified' = notified \cup {w}
    /\ UNCHANGED <<timeVars, lockVars, parkVars, pc, until>>

\* Woken early, the worker keeps its promise in the stash.
WakeUnparked(w) ==
    /\ pc[w] = "sleep" /\ w \in notified /\ Goto(w, "exit")
    /\ UNCHANGED <<timeVars, lockVars, parkVars, until, notified>>

WakeTimeout(w) ==
    /\ pc[w] = "sleep" /\ until[w] # Never /\ now >= until[w] /\ Goto(w, "exit")
    /\ UnsetWakeupTime(w)
    /\ UNCHANGED <<timeVars, lockVars, promised, seen, until, notified>>

-----------------------------------------------------------------------------
(* process_timeouts: the exit guard of park, and process_work while running  *)

ProcessWork(w) ==
    /\ pc[w] = "run" /\ Goto(w, "exit")
    /\ UNCHANGED <<timeVars, lockVars, parkVars, until, notified>>

ProcessLock(w) ==
    /\ pc[w] = "exit" /\ Unlocked /\ writer' = w /\ Goto(w, "process")
    /\ UNCHANGED <<timeVars, readers, parkVars, until, notified>>

Process(w) ==
    /\ pc[w] = "process" /\ Goto(w, "run")
    /\ pending' = {e \in pending : e > now} /\ last' = now /\ writer' = NoOne
    /\ until' = [until EXCEPT ![w] = Never] /\ notified' = notified \ {w}
    /\ seen' = [seen EXCEPT ![w] = Unread] /\ UNCHANGED <<now, readers, promised, stash>>

Next ==
    \/ Tick \/ Unparks
    \/ \E t \in Threads : Register(t) \/ \E e \in Times : RegisterLock(t, e)
    \/ \E w \in Workers :
        \/ Park(w) \/ NextLock(w) \/ Compute(w) \/ PreStage(w) \/ Unpark(w)
        \/ WakeUnparked(w) \/ WakeTimeout(w) \/ ProcessWork(w) \/ ProcessLock(w) \/ Process(w)
Spec == Init /\ [][Next]_vars

-----------------------------------------------------------------------------
TypeOK ==
    /\ now \in Times /\ pending \subseteq Times /\ last \in 0..now
    /\ readers \subseteq Threads /\ writer \in Workers \cup {NoOne} /\ (writer # NoOne => readers = {})
    /\ promised \in Times /\ stash \in [Workers -> Times]
    /\ seen \in [Workers -> [prev : Times, glob : Times]]
    /\ pc \in [Threads -> {"run", "register", "unpark", "next", "compute", "prestage", "sleep", "exit", "process"}]
    /\ until \in [Threads -> Times \cup {Never}] /\ notified \subseteq Workers

\* All async workers sleep, nobody has unparked one, and the dedicated thread
\* has nothing left to do about a timer it registered.
AllAsleep ==
    /\ \A w \in Workers : pc[w] = "sleep" /\ w \notin notified
    /\ pc[Dedicated] = "run"
Watched == \E w \in Workers : until[w] # Never /\ until[w] <= Min(pending)

\* When the engine is at rest, some worker sleeps no longer than until the
\* earliest deadline: stale stashes, promises that were fulfilled and the lock
\* nobody waits for leave no timer without a sleeper, unless a worker sleeps
\* without a timeout because of a promise that has been replaced since it read
\* it.  Excepted is also a deadline in the millisecond that was processed last.
FutureTimerIsWatched ==
    /\ AllAsleep /\ pending # {} /\ Min(pending) > last
    /\ \A w \in Workers : until[w] = Never => seen[w].glob = promised
    => Watched

\* The same whatever the workers have read, as park has it: "make sure that we
\* take a lock and don't race it with other worker, otherwise no one will sleep
\* on time".
TimerIsWatched == AllAsleep /\ pending # {} /\ Min(pending) > last => Watched
=============================================================================
