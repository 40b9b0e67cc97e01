--------------------------- MODULE WorkerParking ---------------------------
(***************************************************************************)
(* How the async workers look for work, go to sleep and are woken:           *)
(* Worker::run (kyron/src/scheduler/workers/worker.rs), AsyncScheduler        *)
(* (scheduler_mt.rs) and WorkerInteractor (workers/worker_types.rs).          *)
(*                                                                           *)
(* A queue is the number of tasks in it; SpmcStealQueue looks inside.  The   *)
(* mutex of a worker is taken by others only for an instant, so it is a      *)
(* predicate of the worker's own position (Locked), and the critical sections*)
(* of parked_workers_indexes are one step each.  The timeout of a park is     *)
(* whatever Drivers::park computed.                                          *)
(***************************************************************************)
EXTENDS Integers, FiniteSets, FiniteSetsExt

CONSTANTS Workers,     \* async workers
          Outsiders,   \* threads that spawn or wake from outside the workers
          NoWorker,
          Timeouts,    \* timeouts a park may get: "none", "some", "zero"
          StopCalls,   \* how often each worker is asked to stop: never, by
                       \* ExecutionEngine::stop, or by Worker::drop as well
          MaxWork      \* bound: tasks pushed in a behaviour

Threads == Workers \cup Outsiders

ASSUME WorkerAssumption ==
  /\ IsFiniteSet(Workers) /\ NoWorker \notin Workers
  /\ Workers \cap Outsiders = {}
  /\ Timeouts \subseteq {"none", "some", "zero"}
  /\ StopCalls \in 0 .. 2 /\ MaxWork \in Nat

VARIABLES queue,      \* tasks in the queue of each worker
          hand,       \* tasks a thief has claimed and not yet published
          src,        \* whose tasks they are
          global,     \* tasks in the global queue
          pushed,     \* tasks pushed so far
          wstate,     \* WorkerState
          parked,     \* how often a worker is in parked_workers_indexes
          searching,  \* num_of_searching_workers
          is_searching, \* local_state = LocalState::Searching
          waiting,    \* where a worker stands with its condition variable
          timeout,    \* of the park under way
          io_holder,  \* who has access to the I/O driver
          io_token,   \* the I/O driver has been asked to return
          pc, left, tgt, \* per thread: step, workers still to visit, worker
                      \* being unparked, where to go after notifying
          notify,     \* should_notify of try_pick_work
          to_stop,    \* calls of request_stop still to come for a worker
          panic       \* the first panic, or "none"

workVars == <<queue, hand, src, global, pushed>>
schedVars == <<parked, searching, is_searching>>
sleepVars == <<wstate, waiting, timeout, io_holder, io_token>>
threadVars == <<pc, left, tgt, notify>>
vars == <<workVars, schedVars, sleepVars, threadVars, to_stop, panic>>

Init ==
  /\ queue = [w \in Workers |-> 0] /\ global = 0 /\ pushed = 0
  /\ hand = [w \in Workers |-> 0] /\ src = [w \in Workers |-> NoWorker]
  /\ wstate = [w \in Workers |-> "EXECUTING"]
  /\ parked = [w \in Workers |-> 0]
  /\ searching = 0 /\ is_searching = [w \in Workers |-> FALSE]
  /\ waiting = [w \in Workers |-> "no"]
  /\ timeout = [w \in Workers |-> "none"]
  /\ io_holder = NoWorker /\ io_token = FALSE
  /\ pc = [th \in Threads |-> IF th \in Workers THEN "loop" ELSE "outside"]
  /\ left = [th \in Threads |-> {}]
  /\ tgt = [th \in Threads |-> NoWorker]
  /\ notify = [w \in Workers |-> FALSE]
  /\ to_stop = [w \in Workers |-> StopCalls]
  /\ panic = "none"

Goto(th, l) == pc' = [pc EXCEPT ![th] = l]
\* Where a thread goes on when it has notified.
Back(th) == IF th \in Workers THEN "poll" ELSE "outside"
Fail(why) ==
  panic' = why /\ UNCHANGED <<workVars, schedVars, sleepVars, threadVars, to_stop>>
\* transition_from_parked
Unpark(w) == parked' = [parked EXCEPT ![w] = IF @ > 0 THEN @ - 1 ELSE 0]
\* The worker holds its own mutex.
Locked(w) ==
  \/ pc[w] \in {"pre_notified", "pre_store", "cv_check", "cv_enter"}
  \/ pc[w] \in {"to_executing", "from_parked", "put_back"} /\ timeout[w] # "zero"

-----------------------------------------------------------------------------
(* Worker::run and try_pick_work                                             *)

Loop(w) ==
  /\ pc[w] = "loop"
  /\ IF wstate[w] = "SHUTTINGDOWN" THEN Goto(w, "stopped")
     ELSE Goto(w, "next_task") \/ Goto(w, "run_driver")
  /\ UNCHANGED <<workVars, schedVars, sleepVars, left, tgt, notify, to_stop, panic>>

\* maybe_run_driver, every 32nd time: the I/O driver is polled without waiting,
\* if nobody else has it.
RunDriver(w) ==
  /\ \/ pc[w] = "run_driver" /\ io_holder = NoWorker
        /\ io_holder' = w /\ Goto(w, "polling_io") /\ UNCHANGED io_token
     \/ pc[w] = "run_driver" /\ io_holder # NoWorker
        /\ Goto(w, "next_task") /\ UNCHANGED <<io_holder, io_token>>
     \/ pc[w] = "polling_io"
        /\ io_holder' = NoWorker /\ io_token' = FALSE /\ Goto(w, "next_task")
  /\ UNCHANGED <<workVars, schedVars, wstate, waiting, timeout, left, tgt, notify,
                 to_stop, panic>>

\* fetch_from takes what the global queue has.
FetchGlobal(w) ==
  /\ queue' = [queue EXCEPT ![w] = @ + global]
  /\ global' = 0
  /\ notify' = [notify EXCEPT ![w] = global > 0]

\* next_task: every 16th time the global queue comes first.
NextTask(w) ==
  /\ pc[w] = "next_task"
  /\ \/ FetchGlobal(w)
     \/ notify' = [notify EXCEPT ![w] = FALSE] /\ UNCHANGED <<queue, global>>
  /\ Goto(w, "pop")
  /\ UNCHANGED <<hand, src, pushed, schedVars, sleepVars, left, tgt, to_stop, panic>>

\* The pops of next_task, try_steal_work and try_take_global_work, each with
\* what comes next when the own queue is empty.
Pop(w) ==
  /\ pc[w] \in {"pop", "steal_pop", "global_pop"}
  /\ IF queue[w] > 0
     THEN queue' = [queue EXCEPT ![w] = @ - 1] /\ Goto(w, "run")
     ELSE /\ Goto(w, IF pc[w] = "pop" THEN "to_searching"
                     ELSE IF pc[w] = "steal_pop" THEN "take_global" ELSE "park")
          /\ UNCHANGED queue
  /\ UNCHANGED <<hand, src, global, pushed, schedVars, sleepVars, left, tgt, notify,
                 to_stop, panic>>

\* try_transition_worker_to_searching: the counter is loaded first ...
ToSearching(w) ==
  /\ pc[w] = "to_searching"
  /\ Goto(w, IF 2 * searching >= Cardinality(Workers) THEN "park" ELSE "add_searching")
  /\ UNCHANGED <<workVars, schedVars, sleepVars, left, tgt, notify, to_stop, panic>>

\* ... and incremented later.
AddSearching(w) ==
  /\ pc[w] = "add_searching"
  /\ searching' = searching + 1
  /\ is_searching' = [is_searching EXCEPT ![w] = TRUE]
  /\ left' = [left EXCEPT ![w] = Workers \ {w}]
  /\ notify' = [notify EXCEPT ![w] = FALSE]
  /\ Goto(w, IF Workers = {w} THEN "steal_pop" ELSE "steal")
  /\ UNCHANGED <<workVars, parked, sleepVars, tgt, to_stop, panic>>

\* steal_into claims half of the queue of u, if nobody else steals from it ...
Steal(w, u) ==
  LET busy == \E v \in Workers : src[v] = u
      n == IF queue[u] = 0 \/ busy THEN 0 ELSE Max({1, queue[u] \div 2}) IN
  /\ pc[w] = "steal" /\ u \in left[w]
  /\ queue' = [queue EXCEPT ![u] = @ - n]
  /\ hand' = [hand EXCEPT ![w] = n]
  /\ src' = [src EXCEPT ![w] = IF n > 0 THEN u ELSE NoWorker]
  /\ left' = [left EXCEPT ![w] = @ \ {u}]
  /\ Goto(w, IF n > 0 THEN "publish" ELSE IF left[w] = {u} THEN "steal_pop" ELSE "steal")
  /\ UNCHANGED <<global, pushed, schedVars, sleepVars, tgt, notify, to_stop, panic>>

\* ... and publishes it in the own queue.
Publish(w) ==
  /\ pc[w] = "publish"
  /\ queue' = [queue EXCEPT ![w] = @ + hand[w]]
  /\ hand' = [hand EXCEPT ![w] = 0]
  /\ src' = [src EXCEPT ![w] = NoWorker]
  /\ notify' = [notify EXCEPT ![w] = TRUE]
  /\ Goto(w, IF left[w] = {} THEN "steal_pop" ELSE "steal")
  /\ UNCHANGED <<global, pushed, schedVars, sleepVars, left, tgt, to_stop, panic>>

TakeGlobal(w) ==
  /\ pc[w] = "take_global"
  /\ FetchGlobal(w)
  /\ Goto(w, IF global > 0 THEN "global_pop" ELSE "park")
  /\ UNCHANGED <<hand, src, pushed, schedVars, sleepVars, left, tgt, to_stop, panic>>

-----------------------------------------------------------------------------
(* run_task                                                                  *)

\* transition_to_executing, then perhaps try_notify_siblings_workers.
RunTask(w) ==
  /\ pc[w] = "run"
  /\ searching' = IF is_searching[w] THEN searching - 1 ELSE searching
  /\ is_searching' = [is_searching EXCEPT ![w] = FALSE]
  /\ notify' = [notify EXCEPT ![w] = FALSE]
  /\ Goto(w, IF notify[w] THEN "should_notify" ELSE "poll")
  /\ UNCHANGED <<workVars, parked, sleepVars, left, tgt, to_stop, panic>>

\* The polled task spawns or wakes another one, or is notified itself, and
\* spawn_from_runtime pushes that to the own queue.
SpawnFromRuntime(w) ==
  /\ pc[w] = "poll" /\ pushed < MaxWork
  /\ pushed' = pushed + 1
  /\ queue' = [queue EXCEPT ![w] = @ + 1]
  /\ Goto(w, "should_notify")
  /\ UNCHANGED <<hand, src, global, schedVars, sleepVars, left, tgt, notify, to_stop, panic>>

PollDone(w) ==
  /\ pc[w] = "poll"
  /\ Goto(w, "loop")
  /\ UNCHANGED <<workVars, schedVars, sleepVars, left, tgt, notify, to_stop, panic>>

SpawnOutsideRuntime(o) ==
  /\ pc[o] = "outside" /\ pushed < MaxWork
  /\ pushed' = pushed + 1
  /\ global' = global + 1
  /\ Goto(o, "pick_parked")
  /\ UNCHANGED <<queue, hand, src, schedVars, sleepVars, left, tgt, notify, to_stop, panic>>

-----------------------------------------------------------------------------
(* try_notify_siblings_workers                                               *)

ShouldNotify(th) ==
  /\ pc[th] = "should_notify"
  /\ Goto(th, IF searching = 0 THEN "pick_parked" ELSE Back(th))
  /\ UNCHANGED <<workVars, schedVars, sleepVars, left, tgt, notify, to_stop, panic>>

\* One of the parked workers is taken from the list, or all workers are tried.
PickParked(th) ==
  LET others == {w \in Workers \ {th} : parked[w] > 0} IN
  /\ pc[th] = "pick_parked"
  /\ \/ \E w \in others : Unpark(w) /\ left' = [left EXCEPT ![th] = {w}]
     \/ others = {} /\ left' = [left EXCEPT ![th] = Workers] /\ UNCHANGED parked
  /\ Goto(th, "unpark")
  /\ UNCHANGED <<workVars, searching, is_searching, sleepVars, tgt, notify, to_stop, panic>>

\* unpark_internal: the swap, and what its answer asks for.
UnparkSwap(th, w) ==
  /\ pc[th] = "unpark" /\ w \in left[th]
  /\ wstate' = [wstate EXCEPT ![w] = "NOTIFIED"]
  /\ left' = [left EXCEPT ![th] = @ \ {w}]
  /\ tgt' = [tgt EXCEPT ![th] = w]
  /\ Goto(th, IF wstate[w] = "SLEEPING_CV" THEN "lock"
              ELSE IF wstate[w] = "SLEEPING_IO" THEN "wake_io"
              ELSE IF wstate[w] = "SHUTTINGDOWN" THEN "restore" ELSE "next_unpark")
  /\ UNCHANGED <<workVars, schedVars, waiting, timeout, io_holder, io_token, notify,
                 to_stop, panic>>

\* Mutant: the notification does not wait for the mutex.
UnparkUnlocked(th) ==
  /\ pc[th] = "lock"
  /\ Goto(th, "notify_one")
  /\ UNCHANGED <<workVars, schedVars, sleepVars, left, tgt, notify, to_stop, panic>>

\* "Synchronize so worker does not lose the notification in before it goes
\* into a wait"
UnparkLock(th) ==
  /\ pc[th] = "lock" /\ ~Locked(tgt[th])
  /\ Goto(th, "notify_one")
  /\ UNCHANGED <<workVars, schedVars, sleepVars, left, tgt, notify, to_stop, panic>>

NotifyOne(w) == waiting' = [waiting EXCEPT ![w] = IF @ = "waiting" THEN "woken" ELSE @]

UnparkNotify(th) ==
  /\ \/ pc[th] = "notify_one" /\ NotifyOne(tgt[th]) /\ UNCHANGED <<wstate, io_token>>
     \/ pc[th] = "wake_io" /\ io_token' = TRUE /\ UNCHANGED <<wstate, waiting>>
     \/ /\ pc[th] = "restore"
        /\ wstate' = [wstate EXCEPT ![tgt[th]] = "SHUTTINGDOWN"]
        /\ UNCHANGED <<waiting, io_token>>
  /\ Goto(th, "next_unpark")
  /\ UNCHANGED <<workVars, schedVars, timeout, io_holder, left, tgt, notify, to_stop, panic>>

NextUnpark(th) ==
  /\ pc[th] = "next_unpark"
  /\ Goto(th, IF left[th] = {} THEN Back(th) ELSE "unpark")
  /\ tgt' = [tgt EXCEPT ![th] = NoWorker]
  /\ UNCHANGED <<workVars, schedVars, sleepVars, left, notify, to_stop, panic>>

-----------------------------------------------------------------------------
(* park_worker                                                               *)

\* Mutant: the last searcher does not look again.
ParkUnrechecked(w) ==
  /\ pc[w] = "park"
  /\ parked' = [parked EXCEPT ![w] = @ + 1]
  /\ searching' = IF is_searching[w] THEN searching - 1 ELSE searching
  /\ is_searching' = [is_searching EXCEPT ![w] = FALSE]
  /\ Goto(w, "choose")
  /\ notify' = [notify EXCEPT ![w] = FALSE]
  /\ UNCHANGED <<workVars, sleepVars, left, tgt, to_stop, panic>>

\* transition_to_parked; the list has room for as many entries as workers.
\* The worker is Executing again when park_worker returns, and nobody looks
\* at local_state in between.
Park(w) ==
  /\ pc[w] = "park"
  /\ IF MapThenSumSet(LAMBDA u : parked[u], Workers) >= Cardinality(Workers)
     THEN Fail("parked_workers_indexes") ELSE
       /\ parked' = [parked EXCEPT ![w] = @ + 1]
       /\ searching' = IF is_searching[w] THEN searching - 1 ELSE searching
       /\ is_searching' = [is_searching EXCEPT ![w] = FALSE]
       /\ Goto(w, IF is_searching[w] /\ searching = 1 THEN "recheck" ELSE "choose")
       /\ notify' = [notify EXCEPT ![w] = FALSE]
       /\ UNCHANGED <<workVars, sleepVars, left, tgt, to_stop, panic>>

\* The last searcher looks at the global queue ...
Recheck(w) ==
  /\ pc[w] = "recheck"
  /\ IF global > 0
     THEN Unpark(w) /\ Goto(w, "loop") /\ UNCHANGED left
     ELSE Goto(w, "recheck_queues") /\ left' = [left EXCEPT ![w] = Workers] /\ UNCHANGED parked
  /\ UNCHANGED <<workVars, searching, is_searching, sleepVars, tgt, notify, to_stop, panic>>

\* ... and at all the others, before it really sleeps.
RecheckQueue(w, u) ==
  /\ pc[w] = "recheck_queues" /\ u \in left[w]
  /\ IF queue[u] > 0
     THEN Unpark(w) /\ Goto(w, "loop") /\ left' = [left EXCEPT ![w] = {}]
     ELSE /\ left' = [left EXCEPT ![w] = @ \ {u}]
          /\ Goto(w, IF left[w] = {u} THEN "choose" ELSE "recheck_queues")
          /\ UNCHANGED parked
  /\ UNCHANGED <<workVars, searching, is_searching, sleepVars, tgt, notify, to_stop, panic>>

\* WorkerInteractor::park: no sleep at all, sleep on I/O if nobody else does,
\* or on the condition variable.
ChoosePark(w) ==
  /\ pc[w] = "choose"
  /\ \E t \in Timeouts :
       /\ timeout' = [timeout EXCEPT ![w] = t]
       /\ \/ t = "zero" /\ Goto(w, "to_executing") /\ UNCHANGED io_holder
          \/ t # "zero" /\ io_holder = NoWorker /\ io_holder' = w /\ Goto(w, "pre_io")
          \/ t # "zero" /\ io_holder # NoWorker /\ Goto(w, "pre_cv") /\ UNCHANGED io_holder
  /\ UNCHANGED <<workVars, schedVars, wstate, waiting, io_token, left, tgt, notify,
                 to_stop, panic>>

\* The park is over: the access to the I/O driver is given back.
Unparked(w) ==
  /\ Goto(w, "loop")
  /\ io_holder' = IF io_holder = w THEN NoWorker ELSE io_holder
  /\ timeout' = [timeout EXCEPT ![w] = "none"]

FallAsleep(w) ==
  LET io == pc[w] = "pre_io" IN
  /\ wstate' = [wstate EXCEPT ![w] = IF io THEN "SLEEPING_IO" ELSE "SLEEPING_CV"]
  /\ Goto(w, IF io THEN "io_wait" ELSE "cv_check")

\* Mutant: the state is stored without being looked at.
PreStageForgets(w) ==
  /\ pc[w] \in {"pre_io", "pre_cv"}
  /\ FallAsleep(w)
  /\ UNCHANGED <<workVars, schedVars, waiting, timeout, io_holder, io_token, left, tgt, notify,
                 to_stop, panic>>

\* park_pre_stage, under the mutex
PreStage(w) ==
  /\ pc[w] \in {"pre_io", "pre_cv"}
  /\ \/ /\ wstate[w] = "EXECUTING"
        /\ FallAsleep(w)
        /\ UNCHANGED <<io_holder, timeout>>
     \/ /\ wstate[w] = "NOTIFIED"
        /\ Goto(w, "pre_notified")
        /\ UNCHANGED <<wstate, io_holder, timeout>>
     \/ /\ wstate[w] = "SHUTTINGDOWN"
        /\ Unparked(w)
        /\ UNCHANGED wstate
  /\ UNCHANGED <<workVars, schedVars, waiting, io_token, left, tgt, notify, to_stop, panic>>

\* Notified before it could sleep: it leaves the list, then is EXECUTING again.
PreNotified(w) ==
  /\ \/ /\ pc[w] = "pre_notified"
        /\ Unpark(w) /\ Goto(w, "pre_store")
        /\ UNCHANGED <<wstate, io_holder, timeout>>
     \/ /\ pc[w] = "pre_store"
        /\ wstate' = [wstate EXCEPT ![w] = "EXECUTING"]
        /\ Unparked(w)
        /\ UNCHANGED parked
  /\ UNCHANGED <<workVars, searching, is_searching, waiting, io_token, left, tgt, notify,
                 to_stop, panic>>

\* park_condition_check_and_transition, under the mutex, which only the wait
\* gives up.  A wait that has timed out checks a last time.
CvCheck(w) ==
  /\ pc[w] = "cv_check"
  /\ \/ /\ wstate[w] = "NOTIFIED"
        /\ wstate' = [wstate EXCEPT ![w] = "EXECUTING"]
        /\ Goto(w, "from_parked")
        /\ UNCHANGED <<io_holder, timeout>>
     \/ /\ wstate[w] = "SHUTTINGDOWN"
        /\ Unparked(w)
        /\ UNCHANGED wstate
     \/ /\ wstate[w] \notin {"NOTIFIED", "SHUTTINGDOWN"}
        /\ Goto(w, "cv_enter")
        /\ UNCHANGED <<wstate, io_holder, timeout>>
     \/ /\ wstate[w] \notin {"NOTIFIED", "SHUTTINGDOWN"} /\ timeout[w] = "some"
        /\ Goto(w, "to_executing")
        /\ UNCHANGED <<wstate, io_holder, timeout>>
  /\ UNCHANGED <<workVars, schedVars, waiting, io_token, left, tgt, notify, to_stop, panic>>

CvWait(w) ==
  /\ pc[w] = "cv_enter"
  /\ waiting' = [waiting EXCEPT ![w] = "waiting"]
  /\ Goto(w, "cv_wait")
  /\ UNCHANGED <<workVars, schedVars, wstate, timeout, io_holder, io_token, left, tgt, notify,
                 to_stop, panic>>

\* The wait ends by notify_one ...
CvWake(w) ==
  /\ pc[w] = "cv_wait" /\ waiting[w] = "woken"
  /\ waiting' = [waiting EXCEPT ![w] = "no"]
  /\ Goto(w, "cv_check")
  /\ UNCHANGED <<workVars, schedVars, wstate, timeout, io_holder, io_token, left, tgt,
                 notify, to_stop, panic>>

\* ... or spuriously, or by the timeout.
CvSpurious(w) ==
  /\ pc[w] = "cv_wait" /\ waiting[w] = "waiting"
  /\ waiting' = [waiting EXCEPT ![w] = "no"]
  /\ Goto(w, "cv_check")
  /\ UNCHANGED <<workVars, schedVars, wstate, timeout, io_holder, io_token, left, tgt,
                 notify, to_stop, panic>>

\* process_io returns because somebody asked it to ...
IoWake(w) ==
  /\ pc[w] = "io_wait" /\ io_token
  /\ io_token' = FALSE
  /\ Goto(w, "to_executing")
  /\ UNCHANGED <<workVars, schedVars, wstate, waiting, timeout, io_holder, left, tgt,
                 notify, to_stop, panic>>

\* ... or because of an event or the timeout.
IoEvent(w) ==
  /\ pc[w] = "io_wait" /\ ~io_token
  /\ Goto(w, "to_executing")
  /\ UNCHANGED <<workVars, schedVars, sleepVars, left, tgt, notify, to_stop, panic>>

\* move_to_executing: the swap, and either of its two continuations.
MoveToExecuting(w) ==
  /\ pc[w] = "to_executing"
  /\ wstate' = [wstate EXCEPT ![w] = "EXECUTING"]
  /\ Goto(w, IF wstate[w] = "SHUTTINGDOWN" THEN "put_back" ELSE "from_parked")
  /\ UNCHANGED <<workVars, schedVars, waiting, timeout, io_holder, io_token, left, tgt,
                 notify, to_stop, panic>>

MovedToExecuting(w) ==
  /\ \/ pc[w] = "from_parked" /\ Unpark(w) /\ UNCHANGED wstate
     \/ /\ pc[w] = "put_back"
        /\ wstate' = [wstate EXCEPT ![w] = "SHUTTINGDOWN"]
        /\ UNCHANGED parked
  /\ Unparked(w)
  /\ UNCHANGED <<workVars, searching, is_searching, waiting, io_token, left, tgt, notify,
                 to_stop, panic>>

-----------------------------------------------------------------------------
\* ExecutionEngine::stop calls request_stop of one worker after the other.
\* When the engine is dropped each Worker does so again and joins its thread.
RequestStop(w) ==
  /\ to_stop[w] > 0 /\ ~Locked(w)
  /\ \A u \in Workers : to_stop[u] <= to_stop[w]
  /\ StopCalls = 2 => \A u \in Workers : to_stop[u] = 0 => pc[u] = "stopped"
  /\ to_stop' = [to_stop EXCEPT ![w] = @ - 1]
  /\ wstate' = [wstate EXCEPT ![w] = "SHUTTINGDOWN"]
  /\ IF wstate[w] = "SLEEPING_CV" THEN NotifyOne(w) ELSE UNCHANGED waiting
  /\ io_token' = (io_token \/ wstate[w] = "SLEEPING_IO")
  /\ UNCHANGED <<workVars, schedVars, timeout, io_holder, threadVars, panic>>

-----------------------------------------------------------------------------
Search(w) ==
  \/ Loop(w) \/ RunDriver(w) \/ NextTask(w) \/ Pop(w) \/ ToSearching(w) \/ AddSearching(w)
  \/ \E u \in Workers : Steal(w, u)
  \/ Publish(w) \/ TakeGlobal(w) \/ RunTask(w) \/ PollDone(w)
Sleep(w) ==
  \/ Park(w) \/ Recheck(w) \/ \E u \in Workers : RecheckQueue(w, u)
  \/ ChoosePark(w) \/ PreStage(w) \/ PreNotified(w) \/ CvCheck(w) \/ CvWait(w) \/ CvWake(w) \/ IoWake(w)
  \/ MoveToExecuting(w) \/ MovedToExecuting(w)
Notify(th) ==
  \/ ShouldNotify(th) \/ PickParked(th) \/ \E w \in Workers : UnparkSwap(th, w)
  \/ UnparkLock(th) \/ UnparkNotify(th) \/ NextUnpark(th)
WorkerStep(w) == Search(w) \/ Sleep(w)

Next ==
  /\ panic = "none"
  /\ \/ \E w \in Workers : \/ WorkerStep(w) \/ SpawnFromRuntime(w) \/ CvSpurious(w)
                           \/ IoEvent(w) \/ RequestStop(w)
     \/ \E o \in Outsiders : SpawnOutsideRuntime(o)
     \/ \E th \in Threads : Notify(th)

Spec == Init /\ [][Next]_vars

(* A thread that can go on goes on; tasks need not spawn, sleeps need not end *)
(* by themselves, and nobody has to stop the engine.                          *)
Fairness ==
  /\ \A w \in Workers : WF_vars(panic = "none" /\ WorkerStep(w))
  /\ \A th \in Threads : WF_vars(panic = "none" /\ Notify(th))

-----------------------------------------------------------------------------
(* Properties.                                                               *)

States == {"EXECUTING", "NOTIFIED", "SLEEPING_CV", "SLEEPING_IO", "SHUTTINGDOWN"}
Labels == {"loop", "stopped", "run_driver", "polling_io", "next_task", "pop", "to_searching", "add_searching", "steal",
           "publish", "steal_pop", "take_global", "global_pop", "run", "poll", "outside",
           "should_notify", "pick_parked", "unpark", "lock", "notify_one", "wake_io",
           "restore", "next_unpark", "park", "recheck", "recheck_queues", "choose",
           "pre_io", "pre_cv", "pre_notified", "pre_store", "cv_check", "cv_enter", "cv_wait", "io_wait", "to_executing",
           "from_parked", "put_back"}

\* Every variable has its type.
TypeOK ==
  /\ queue \in [Workers -> Nat] /\ hand \in [Workers -> Nat] /\ global \in Nat
  /\ src \in [Workers -> Workers \cup {NoWorker}]
  /\ pushed \in 0 .. MaxWork
  /\ wstate \in [Workers -> States]
  /\ parked \in [Workers -> Nat]
  /\ searching \in Nat /\ is_searching \in [Workers -> BOOLEAN]
  /\ waiting \in [Workers -> {"no", "waiting", "woken"}]
  /\ timeout \in [Workers -> {"none", "some", "zero"}]
  /\ io_holder \in Workers \cup {NoWorker} /\ io_token \in BOOLEAN
  /\ pc \in [Threads -> Labels]
  /\ left \in [Threads -> SUBSET Workers]
  /\ tgt \in [Threads -> Workers \cup {NoWorker}]
  /\ notify \in [Workers -> BOOLEAN]
  /\ to_stop \in [Workers -> 0 .. StopCalls]
  /\ panic \in {"none", "parked_workers_indexes"}

\* The worker is blocked and nothing is under way that would let it go on.
Asleep(w) ==
  \/ pc[w] = "cv_wait" /\ waiting[w] = "waiting"
  \/ pc[w] = "io_wait" /\ ~io_token
Notifying(th) ==
  pc[th] \in {"should_notify", "pick_parked", "unpark", "lock", "notify_one", "wake_io",
              "restore", "next_unpark"}
HasWork == global > 0 \/ \E w \in Workers : queue[w] > 0

\* Work never lies in a queue while a worker sleeps and all others sleep too or
\* are busy polling a task: the spawner wakes one, or leaves it to a searcher,
\* and the last searcher looks again before it sleeps.
NoIdleSibling ==
  HasWork /\ (\E w \in Workers : Asleep(w)) /\ ~(\E th \in Threads : Notifying(th))
    => \E w \in Workers : ~Asleep(w) /\ pc[w] # "poll"

\* A sleeping worker can be found: it is in parked_workers_indexes, or the
\* thread that took it out is about to wake it.
SleeperIsListed ==
  \A w \in Workers : Asleep(w) /\ wstate[w] # "SHUTTINGDOWN" =>
    \/ parked[w] > 0
    \/ \E th \in Threads : w \in left[th] \cup {tgt[th]} /\ Notifying(th)

\* A worker is never twice in parked_workers_indexes, which has room for one
\* entry per worker and is pushed to with expect.
ListedOnce == \A w \in Workers : parked[w] <= 1

\* When all workers sleep, one of them sleeps in the I/O driver, so that I/O
\* events are seen: access to it is not lost when it changes hands.
IoIsServed ==
  (\A w \in Workers : Asleep(w)) => \E w \in Workers : pc[w] = "io_wait"

\* unpark_internal: "Put back SHUTTINGDOWN state, so we can shutdown
\* properly".  No worker sleeps on in spite of a stop request.
StopIsNoticed ==
  \A w \in Workers : Asleep(w) /\ StopCalls > 0 /\ to_stop[w] = 0 =>
    \E th \in Threads : Notifying(th)

\* With Fairness all work is done in the end.
WorkIsDone == HasWork ~> ~HasWork
=============================================================================
