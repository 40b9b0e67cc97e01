----------------------------- MODULE AsyncTask -----------------------------
(***************************************************************************)
(* Tasks, their join handles and wakers, and the workers that poll them:    *)
(* kyron/src/scheduler/task/async_task.rs, join_handle.rs, waker.rs,         *)
(* safety_waker.rs and the run_task functions of the workers.                *)
(*                                                                           *)
(* A task is created by the task Parent[t] while that one is being polled,   *)
(* and Parent[t] holds its JoinHandle; a task whose Parent is NoTask is       *)
(* handed to the engine from outside and nobody joins it.  The ready queues  *)
(* are bags (how many references to a task wait in them), as nothing here     *)
(* depends on their order: SpmcStealQueue looks inside the ordinary one.     *)
(***************************************************************************)
EXTENDS TaskState, Integers, FiniteSets, Functions

CONSTANTS Tasks,            \* all tasks ever spawned
          NoTask,
          Parent,           \* who spawns a task and awaits its JoinHandle
          SafetyTasks,      \* spawned through safety::spawn (is_with_safety)
          Workers,          \* async workers
          SafetyWorkers,    \* the safety worker, if there is one
          WakerThreads,     \* drivers and other threads that hold wakers
          QueueSize,        \* room in the ordinary queues
          SafetyQueueSize   \* room in the queue of the safety worker

Pollers == Workers \cup SafetyWorkers
Threads == Pollers \cup WakerThreads

ASSUME TaskAssumption ==
  /\ NoTask \notin Tasks
  /\ Parent \in [Tasks -> Tasks \cup {NoTask}]
  /\ SafetyTasks \subseteq Tasks
ASSUME ThreadAssumption ==
  /\ Workers \cap SafetyWorkers = {}
  /\ Pollers \cap WakerThreads = {}
ASSUME SizeAssumption == QueueSize \in Nat /\ SafetyQueueSize \in Nat

VARIABLES state,         \* TaskState of each task
          stage,         \* TaskStage: the future, Completed(ret), or Extracted
          handle_waker,  \* is the waker of the joining task stored?
          handle,        \* FutureState of the JoinHandle
          result,        \* what the JoinHandle answered its owner
          returned,      \* history: what the future returned
          queue,         \* references in the ordinary queues
          safety_queue,  \* references in the safety worker's queue
          armed,         \* an outside source holds a clone of the task's waker
          pc, cur, tgt,  \* per thread: step, polled task, task acted upon
          todo,          \* join handles the running poll has still to look at
          dropped,       \* history: tasks whose re-queueing failed silently
          panic          \* the first panic or fatal error, or "none"

taskVars == <<state, stage, handle_waker, handle, result, returned>>
queueVars == <<queue, safety_queue, dropped>>
threadVars == <<pc, cur, tgt, todo>>
vars == <<taskVars, queueVars, threadVars, armed, panic>>

Children(t) == {c \in Tasks : Parent[c] = t}
Size(q) == FoldFunction(+, 0, q)
Push(q, t) == [q EXCEPT ![t] = @ + 1]

Init ==
  /\ state = [t \in Tasks |-> NewState]
  /\ stage = [t \in Tasks |-> "InProgress"]
  /\ handle_waker = [t \in Tasks |-> FALSE]
  /\ handle = [t \in Tasks |-> IF Parent[t] = NoTask THEN "Dropped" ELSE "Unspawned"]
  /\ result = [t \in Tasks |-> "none"]
  /\ returned = [t \in Tasks |-> "none"]
  /\ queue = [t \in Tasks |-> IF Parent[t] = NoTask THEN 1 ELSE 0]
  /\ safety_queue = [t \in Tasks |-> 0]
  /\ armed = [t \in Tasks |-> FALSE]
  /\ pc = [th \in Threads |-> "idle"]
  /\ cur = [th \in Threads |-> NoTask]
  /\ tgt = [th \in Threads |-> NoTask]
  /\ todo = [th \in Threads |-> {}]
  /\ dropped = {}
  /\ panic = "none"

Goto(th, l) == pc' = [pc EXCEPT ![th] = l]
\* The thread lets go of its reference and is free again.
Release(th) ==
  /\ Goto(th, "idle")
  /\ cur' = [cur EXCEPT ![th] = NoTask]
  /\ tgt' = [tgt EXCEPT ![th] = NoTask]
  /\ todo' = [todo EXCEPT ![th] = {}]
\* A panic or not_recoverable_error: nothing else changes, and Next is over.
Fail(why) ==
  /\ panic' = why
  /\ UNCHANGED <<taskVars, queueVars, threadVars, armed>>
\* The JoinHandles a future owns go with it.
DropHandles(t) ==
  handle' = [c \in Tasks |-> IF Parent[c] = t /\ handle[c] # "Unspawned"
                             THEN "Dropped" ELSE handle[c]]

-----------------------------------------------------------------------------
(* A worker takes a task from its queue: Worker::try_pick_work and           *)
(* SafetyWorkerInner::run.                                                    *)
Pop(w, t) ==
  /\ pc[w] = "idle" /\ w \in Workers /\ queue[t] > 0
  /\ queue' = [queue EXCEPT ![t] = @ - 1]
  /\ Goto(w, "popped")
  /\ cur' = [cur EXCEPT ![w] = t]
  /\ UNCHANGED <<taskVars, safety_queue, dropped, tgt, todo, armed, panic>>

PopSafety(w, t) ==
  /\ pc[w] = "idle" /\ w \in SafetyWorkers /\ safety_queue[t] > 0
  /\ safety_queue' = [safety_queue EXCEPT ![t] = @ - 1]
  /\ Goto(w, "popped")
  /\ cur' = [cur EXCEPT ![w] = t]
  /\ UNCHANGED <<taskVars, queue, dropped, tgt, todo, armed, panic>>

\* poll_internal, up to the call of the future's own poll.
Poll(w) ==
  LET t == cur[w]
      r == transition_to_running(state[t]) IN
  /\ pc[w] = "popped"
  /\ IF r.ret = "Panic" THEN Fail("transition_to_running")
     ELSE IF r.ret # "Done" THEN
       /\ Release(w)
       /\ UNCHANGED <<taskVars, queueVars, armed, panic>>
     ELSE IF stage[t] # "InProgress" THEN Fail("poll_core")
     ELSE
       /\ state' = [state EXCEPT ![t] = r.next]
       /\ Goto(w, "polling")
       /\ todo' = [todo EXCEPT ![w] = {c \in Children(t) : handle[c] \in {"New", "Polled"}}]
       /\ UNCHANGED <<stage, handle_waker, handle, result, returned, queueVars,
                      cur, tgt, armed, panic>>

-----------------------------------------------------------------------------
(* What the polled future does.                                              *)

\* spawn, and safety::spawn for a member of SafetyTasks.
Spawn(w, c) ==
  /\ pc[w] = "polling" /\ Parent[c] = cur[w] /\ handle[c] = "Unspawned"
  /\ IF Size(queue) >= QueueSize THEN Fail("overflow") ELSE
       /\ handle' = [handle EXCEPT ![c] = "New"]
       /\ todo' = [todo EXCEPT ![w] = @ \cup {c}]
       /\ queue' = Push(queue, c)
       /\ UNCHANGED <<state, stage, handle_waker, result, returned,
                      safety_queue, dropped, pc, cur, tgt, armed, panic>>

\* The future hands a clone of its waker to a timer, an I/O source, a channel.
Arm(w) ==
  /\ pc[w] = "polling" /\ ~armed[cur[w]]
  /\ armed' = [armed EXCEPT ![cur[w]] = TRUE]
  /\ UNCHANGED <<taskVars, queueVars, threadVars, panic>>

\* AsyncTask::get_future_ret
FutureRet(c) ==
  IF is_canceled(state[c]) THEN "OperationAborted"
  ELSE IF ~is_completed(state[c]) THEN "NoData"
  ELSE IF stage[c] \in {"Ok", "Err"} THEN stage[c]
  ELSE "AlreadyDone"

\* JoinHandle::poll answers Ready with what get_future_ret found.
JoinReady(w, c) ==
  /\ handle' = [handle EXCEPT ![c] = "Finished"]
  /\ result' = [result EXCEPT ![c] = FutureRet(c)]
  /\ stage' = [stage EXCEPT ![c] = IF is_canceled(state[c]) THEN @ ELSE "Extracted"]
  /\ todo' = [todo EXCEPT ![w] = @ \ {c}]
  /\ Goto(w, "polling")
  /\ UNCHANGED <<state, handle_waker, returned, queueVars, cur, tgt, armed, panic>>

\* Mutant: the flag is raised though no waker was stored.
JoinPollNewUnstored(w, c) ==
  /\ pc[w] = "polling" /\ c \in todo[w] /\ handle[c] = "New"
  /\ tgt' = [tgt EXCEPT ![w] = c]
  /\ Goto(w, "set_waker")
  /\ UNCHANGED <<taskVars, queueVars, cur, todo, armed, panic>>

\* First poll of a JoinHandle: AsyncTask::set_waker stores the waker ...
JoinPollNew(w, c) ==
  /\ pc[w] = "polling" /\ c \in todo[w] /\ handle[c] = "New"
  /\ handle_waker' = [handle_waker EXCEPT ![c] = TRUE]
  /\ tgt' = [tgt EXCEPT ![w] = c]
  /\ Goto(w, "set_waker")
  /\ UNCHANGED <<state, stage, handle, result, returned, queueVars, cur, todo,
                 armed, panic>>

\* ... and then raises the flag that tells the task it is there.  When it is
\* too late for that the result is taken at once.
SetWaker(w) ==
  LET c == tgt[w]
      r == state_set_waker(state[c]) IN
  /\ pc[w] = "set_waker"
  /\ IF r.ret THEN
       /\ state' = [state EXCEPT ![c] = r.next]
       /\ handle' = [handle EXCEPT ![c] = "Polled"]
       /\ todo' = [todo EXCEPT ![w] = @ \ {c}]
       /\ Goto(w, "polling")
       /\ UNCHANGED <<stage, handle_waker, result, returned, queueVars, cur, tgt,
                      armed, panic>>
     ELSE IF FutureRet(c) \in {"NoData", "AlreadyDone"} THEN Fail("join_new")
     ELSE JoinReady(w, c)

\* Mutant: ready though there is no data yet.
JoinPollAgainEarly(w, c) ==
  /\ pc[w] = "polling" /\ c \in todo[w] /\ handle[c] = "Polled"
  /\ IF FutureRet(c) = "AlreadyDone" THEN Fail("join_again")
     ELSE JoinReady(w, c)

\* A later poll of the JoinHandle; the stored waker stays as it is.
JoinPollAgain(w, c) ==
  /\ pc[w] = "polling" /\ c \in todo[w] /\ handle[c] = "Polled"
  /\ IF FutureRet(c) = "NoData" THEN
       /\ todo' = [todo EXCEPT ![w] = @ \ {c}]
       /\ UNCHANGED <<taskVars, queueVars, pc, cur, tgt, armed, panic>>
     ELSE IF FutureRet(c) = "AlreadyDone" THEN Fail("join_again")
     ELSE JoinReady(w, c)

\* JoinHandle::abort: the state first, the stage of an idle task after it.
Abort(w, c) ==
  LET r == transition_to_canceled(state[c]) IN
  /\ pc[w] = "polling" /\ Parent[c] = cur[w] /\ handle[c] \in {"New", "Polled"}
  /\ state' = [state EXCEPT ![c] = r.next]
  /\ IF r.ret = "Done"
     THEN tgt' = [tgt EXCEPT ![w] = c] /\ Goto(w, "clear_stage")
     ELSE UNCHANGED <<tgt, pc>>
  /\ UNCHANGED <<stage, handle_waker, handle, result, returned, queueVars, cur,
                 todo, armed, panic>>

ClearStage(w) ==
  /\ pc[w] = "clear_stage"
  /\ stage' = [stage EXCEPT ![tgt[w]] = "Extracted"]
  /\ DropHandles(tgt[w])
  /\ Goto(w, "polling")
  /\ UNCHANGED <<state, handle_waker, result, returned, queueVars, cur, tgt,
                 todo, armed, panic>>

-----------------------------------------------------------------------------
(* The poll returns.                                                         *)

\* Poll::Pending, then transition_to_idle.  A future that answers Pending has
\* looked at the handles it waits for and left a waker somewhere.
PollPending(w) ==
  LET t == cur[w]
      r == transition_to_idle(state[t]) IN
  /\ pc[w] = "polling" /\ todo[w] = {}
  /\ armed[t] \/ \E c \in Children(t) : handle[c] = "Polled"
  /\ IF r.ret = "Panic" THEN Fail("transition_to_idle") ELSE
       /\ state' = [state EXCEPT ![t] = r.next]
       /\ IF r.ret = "Aborted"
          THEN stage' = [stage EXCEPT ![t] = "Extracted"] /\ DropHandles(t)
          ELSE UNCHANGED <<stage, handle>>
       /\ IF r.ret = "Notified"
          THEN Goto(w, "requeue") /\ UNCHANGED <<cur, tgt, todo>>
          ELSE Release(w)
       /\ UNCHANGED <<handle_waker, result, returned, queueVars, armed, panic>>

\* Poll::Ready(v): the stage is replaced before the state changes.
PollReady(w, v) ==
  LET t == cur[w] IN
  /\ pc[w] = "polling"
  /\ stage' = [stage EXCEPT ![t] = v]
  /\ returned' = [returned EXCEPT ![t] = v]
  /\ DropHandles(t)
  /\ Goto(w, "ready")
  /\ UNCHANGED <<state, handle_waker, result, queueVars, cur, tgt, todo, armed, panic>>

\* transition_to_completed, and the take of handle_waker that follows it.
Complete(w) ==
  LET t == cur[w]
      r == transition_to_completed(state[t])
      joined == r.ret = "HadConnectedJoinHandle" IN
  /\ pc[w] = "ready"
  /\ IF r.ret = "Panic" THEN Fail("transition_to_completed")
     ELSE IF joined /\ ~handle_waker[t] THEN Fail("no_waker")
     ELSE
       /\ state' = [state EXCEPT ![t] = r.next]
       /\ stage' = [stage EXCEPT ![t] = IF r.ret = "Aborted" THEN "Extracted" ELSE @]
       /\ handle_waker' = [handle_waker EXCEPT ![t] = @ /\ ~joined]
       /\ IF joined
          THEN /\ tgt' = [tgt EXCEPT ![w] = Parent[t]]
               /\ Goto(w, "wake")
               /\ UNCHANGED <<cur, todo>>
          ELSE Release(w)
       /\ UNCHANGED <<handle, result, returned, queueVars, armed, panic>>

-----------------------------------------------------------------------------
(* Waking: AsyncTask::schedule and schedule_safety.                          *)

\* The waker of the joining task; a safety waker when a safety task failed.
WakeJoin(w) ==
  LET t == tgt[w]
      safety == cur[w] \in SafetyTasks /\ returned[cur[w]] = "Err"
      r == IF safety THEN set_safety_notified(state[t]) ELSE set_notified(state[t]) IN
  /\ pc[w] = "wake"
  /\ state' = [state EXCEPT ![t] = r.next]
  /\ IF r.ret = "Done"
     THEN /\ Goto(w, IF safety THEN "respawn_safety" ELSE "respawn")
          /\ UNCHANGED <<cur, tgt, todo>>
     ELSE Release(w)
  /\ UNCHANGED <<stage, handle_waker, handle, result, returned, queueVars, armed, panic>>

\* Any other thread fires a waker clone it holds.
Wake(th, t) ==
  LET r == set_notified(state[t]) IN
  /\ th \in WakerThreads /\ pc[th] = "idle" /\ armed[t]
  /\ armed' = [armed EXCEPT ![t] = FALSE]
  /\ state' = [state EXCEPT ![t] = r.next]
  /\ IF r.ret = "Done"
     THEN Goto(th, "respawn") /\ tgt' = [tgt EXCEPT ![th] = t]
     ELSE UNCHANGED <<pc, tgt>>
  /\ UNCHANGED <<stage, handle_waker, handle, result, returned, queueVars, cur,
                 todo, panic>>

\* Scheduler::respawn
Respawn(th) ==
  /\ pc[th] = "respawn"
  /\ IF Size(queue) >= QueueSize THEN Fail("overflow") ELSE
       /\ queue' = Push(queue, tgt[th])
       /\ Release(th)
       /\ UNCHANGED <<taskVars, safety_queue, dropped, armed, panic>>

\* Scheduler::respawn_into_safety: a full queue is fatal.
RespawnSafety(w) ==
  /\ pc[w] = "respawn_safety"
  /\ IF Size(safety_queue) >= SafetyQueueSize THEN Fail("safety_overflow") ELSE
       /\ safety_queue' = Push(safety_queue, tgt[w])
       /\ Release(w)
       /\ UNCHANGED <<taskVars, queue, dropped, armed, panic>>

\* Mutant: the worker does not look at what the poll returns.
RequeueForgets(w) ==
  /\ pc[w] = "requeue" /\ w \in Workers /\ Release(w)
  /\ UNCHANGED <<taskVars, queueVars, armed, panic>>

\* run_task of an async worker on TaskPollResult::Notified
Requeue(w) ==
  /\ pc[w] = "requeue" /\ w \in Workers
  /\ IF Size(queue) >= QueueSize THEN Fail("overflow") ELSE
       /\ queue' = Push(queue, cur[w])
       /\ Release(w)
       /\ UNCHANGED <<taskVars, safety_queue, dropped, armed, panic>>

\* run_task of the safety worker: the answer of push is not looked at.
RequeueSafety(w) ==
  /\ pc[w] = "requeue" /\ w \in SafetyWorkers
  /\ IF Size(safety_queue) >= SafetyQueueSize
     THEN dropped' = dropped \cup {cur[w]} /\ UNCHANGED safety_queue
     ELSE safety_queue' = Push(safety_queue, cur[w]) /\ UNCHANGED dropped
  /\ Release(w)
  /\ UNCHANGED <<taskVars, queue, armed, panic>>

-----------------------------------------------------------------------------
TakeTask(t) == \E w \in Pollers : Pop(w, t) \/ PopSafety(w, t)
Body(w) ==
  \/ \E c \in Tasks : \/ Spawn(w, c) \/ JoinPollNew(w, c) \/ JoinPollAgain(w, c)
                      \/ Abort(w, c)
  \/ Arm(w) \/ SetWaker(w) \/ ClearStage(w)
PollReturns(w) == PollPending(w) \/ \E v \in {"Ok", "Err"} : PollReady(w, v)
Step(w) ==
  \/ Poll(w) \/ Body(w) \/ PollReturns(w) \/ Complete(w) \/ WakeJoin(w)
  \/ RespawnSafety(w) \/ Requeue(w) \/ RequeueSafety(w)

Next ==
  /\ panic = "none"
  /\ \/ \E t \in Tasks : TakeTask(t)
     \/ \E w \in Pollers : Step(w)
     \/ \E th \in Threads : Respawn(th)
     \/ \E th \in WakerThreads, t \in Tasks : Wake(th, t)

Spec == Init /\ [][Next]_vars

(* Every thread that is in the middle of something goes on, and the poll of   *)
(* a future returns, as cooperative scheduling takes for granted.  A task     *)
(* that stays in a queue is taken in the end: the queues are first in first   *)
(* out and a worker comes back to them after every poll, but they are out of  *)
(* reach while all workers are busy, hence strong fairness.                   *)
FairSpec ==
  /\ Spec
  /\ \A w \in Pollers : WF_vars(panic = "none" /\ Step(w))
  /\ \A w \in Pollers : WF_vars(panic = "none" /\ PollReturns(w))
  /\ \A th \in Threads : WF_vars(panic = "none" /\ Respawn(th))
  /\ \A t \in Tasks : SF_vars(panic = "none" /\ \E w \in Workers : Pop(w, t))
  /\ \A t \in Tasks : SF_vars(panic = "none" /\ \E w \in SafetyWorkers : PopSafety(w, t))

-----------------------------------------------------------------------------
(* Properties.                                                               *)

Stages == {"InProgress", "Ok", "Err", "Extracted"}
HandleStates == {"Unspawned", "New", "Polled", "Finished", "Dropped"}
Results == {"none", "Ok", "Err", "OperationAborted", "NoData", "AlreadyDone"}
Labels == {"idle", "popped", "polling", "set_waker", "clear_stage", "ready",
           "wake", "respawn", "respawn_safety", "requeue"}
Failures == {"none", "transition_to_running", "transition_to_idle",
             "transition_to_completed", "poll_core", "join_new", "join_again",
             "no_waker", "overflow", "safety_overflow"}

\* Every variable has its type.
TypeOK ==
  /\ state \in [Tasks -> SUBSET Flags]
  /\ stage \in [Tasks -> Stages]
  /\ handle_waker \in [Tasks -> BOOLEAN]
  /\ handle \in [Tasks -> HandleStates]
  /\ result \in [Tasks -> Results]
  /\ returned \in [Tasks -> {"none", "Ok", "Err"}]
  /\ queue \in [Tasks -> Nat]
  /\ safety_queue \in [Tasks -> Nat]
  /\ armed \in [Tasks -> BOOLEAN]
  /\ pc \in [Threads -> Labels]
  /\ cur \in [Threads -> Tasks \cup {NoTask}]
  /\ tgt \in [Threads -> Tasks \cup {NoTask}]
  /\ todo \in [Threads -> SUBSET Tasks]
  /\ dropped \subseteq Tasks
  /\ panic \in Failures

\* A worker owns the future of the task it polls from transition_to_running
\* until transition_to_idle or transition_to_completed.
Polls(w, t) == cur[w] = t /\ pc[w] \in {"polling", "set_waker", "clear_stage", "ready"}

\* The stage cell is touched by one thread at a time: two workers never poll
\* the same task, though a reference to it may sit in both queues, and the
\* abort that clears the stage of an idle task never meets a worker that
\* polls it.
StageIsExclusive ==
  \A w \in Pollers, t \in Tasks : Polls(w, t) =>
    \A v \in Pollers \ {w} : ~Polls(v, t) /\ ~(pc[v] = "clear_stage" /\ tgt[v] = t)

\* Somebody has the task in hand and will bring it into a queue, or polls it.
Carried(t) ==
  \/ queue[t] > 0 \/ safety_queue[t] > 0
  \/ \E th \in Threads : \/ pc[th] \in {"respawn", "respawn_safety"} /\ tgt[th] = t
                         \/ pc[th] \in {"popped", "requeue"} /\ cur[th] = t

\* No notification is lost: a task that is notified and idle is in a queue or
\* on its way into one.  A second waker relies on this when it finds the flag
\* already up and does nothing (set_notified answers AlreadyNotified).  The
\* one exception is a full safety queue.
NoLostNotification ==
  \A t \in Tasks :
    is_idle(state[t]) /\ is_notified(state[t]) /\ ~is_canceled(state[t])
      => Carried(t) \/ t \in dropped

\* The task that waits on a JoinHandle is told of the completion: once the
\* joined task is completed the waiting task has been notified, is about to
\* be, or is being polled with the handle still to be looked at.
NoLostJoin ==
  \A c \in Tasks :
    handle[c] = "Polled" /\ is_completed(state[c]) =>
      \/ is_canceled(state[Parent[c]])
      \/ is_notified(state[Parent[c]])
      \/ \E w \in Pollers : pc[w] = "wake" /\ cur[w] = c /\ tgt[w] = Parent[c]
      \/ \E w \in Pollers : Polls(w, Parent[c]) /\ c \in todo[w]

\* A JoinHandle answers what the future returned, or that it was aborted, and
\* the latter only after an abort of the task.
JoinAnswer ==
  \A c \in Tasks : handle[c] = "Finished" =>
    \/ result[c] \in {"Ok", "Err"} /\ result[c] = returned[c]
    \/ result[c] = "OperationAborted" /\ is_canceled(state[c])

\* A task has one reference among the queues and the threads that carry it.
\* This is what bounds the queues by the number of tasks.
Entries(t) ==
  queue[t] + safety_queue[t]
    + Cardinality({th \in Threads : pc[th] \in {"respawn", "respawn_safety"} /\ tgt[th] = t})
    + Cardinality({th \in Threads : pc[th] \in {"popped", "requeue"} /\ cur[th] = t})
SingleEntry == \A t \in Tasks : Entries(t) <= 1

\* Whatever the workers, wakers and join handles do, these never fire: the
\* asserts of transition_to_idle and transition_to_completed, the checks of
\* poll_core that the future is still there, the waker a completed task with
\* a join handle must find, and the answers JoinHandle::poll does not expect.
NoInconsistency == panic \in {"none", "transition_to_running", "overflow", "safety_overflow"}

\* Without safety tasks nothing fails at all: none of the above, no
\* assert!(prev.is_idle()), and no overflow of a queue with room for every task.
NoFailure == panic = "none"

-----------------------------------------------------------------------------
(* What comments, assertions and documentation of the source say and the     *)
(* code does not keep once a task can be notified into two queues.           *)

\* transition_to_running: assert!(prev.is_idle()), that is, a task taken from
\* a queue and not running is idle (and, as poll_core adds, not completed).
AssertIdleHolds == panic # "transition_to_running"

\* transition_to_idle: "If notified once we want to go into idle, we need to
\* reschedule on our own since the notifier did not rescheduled it".
NotifiedIsRescheduled ==
  \A t \in Tasks :
    is_idle(state[t]) /\ is_notified(state[t]) /\ ~is_canceled(state[t]) => Carried(t)

-----------------------------------------------------------------------------
(* Liveness, under FairSpec.                                                 *)

\* A notified task is polled again, or is over.
NotifiedIsPolled ==
  \A t \in Tasks :
    is_notified(state[t]) ~> \/ ~is_notified(state[t]) \/ is_canceled(state[t])

\* The completion of a joined task reaches the task that awaits it.
JoinCompletes ==
  \A c \in Tasks :
    handle[c] = "Polled" /\ is_completed(state[c])
      ~> handle[c] # "Polled" \/ is_canceled(state[Parent[c]])
=============================================================================
