---------------------------- MODULE MockRuntime ----------------------------
(***************************************************************************)
(* The runtime a unit test gets in place of the real one (testing/mock.rs).  *)
(* There are no workers: the test calls `step`, which polls the queued       *)
(* tasks on the test's own thread.  A task that is being polled may itself   *)
(* spawn, abort another task through its JoinHandle, reset the runtime or    *)
(* initialise it anew, so the queue changes under the loop of `step`; it may *)
(* even call `step`, which then polls what is left in the queue.             *)
(***************************************************************************)
EXTENDS Naturals, Sequences, SequencesExt

CONSTANTS Tasks, NoTask

VARIABLES tasks,      \* MockRuntime.tasks
          steps,      \* the calls of step that have not returned, the innermost last
          st,         \* task state: unborn, live, running, canceled, completed
          notified,   \* tasks whose state has the notified bit
          let_go      \* history: tasks a reset took out of the queue

stateVars == <<st, notified>>
vars == <<tasks, steps, stateVars, let_go>>

\* A call of step: the tasks it polled that are not done, the task it is polling
\* and, as history, the tasks it has polled.
NewStep == [to_enqueue |-> <<>>, current |-> NoTask, polled |-> {}]
Polling == steps # <<>> /\ Last(steps).current # NoTask
Polls == steps # <<>> /\ Last(steps).current = NoTask
InStep(f) == [steps EXCEPT ![Len(steps)] = f]

TypeOK ==
    /\ tasks \in Seq(Tasks)
    /\ \A k \in DOMAIN steps :
         /\ steps[k].to_enqueue \in Seq(Tasks) /\ steps[k].polled \subseteq Tasks
         /\ steps[k].current \in Tasks \cup {NoTask}
    /\ st \in [Tasks -> {"unborn", "live", "running", "canceled", "completed"}]
    /\ notified \subseteq Tasks /\ let_go \subseteq Tasks

Init ==
    /\ tasks = <<>> /\ steps = <<>>
    /\ st = [t \in Tasks |-> "unborn"]
    /\ notified = {} /\ let_go = {}

\* The test between two steps, or the task that is being polled.
CallerRuns == steps = <<>> \/ Polling

\* TaskState::transition_to_canceled as `abort` uses it: a task that is done
\* stays as it is.
Canceled(t) == IF st[t] \in {"canceled", "completed"} THEN st[t] ELSE "canceled"

PushBack(t) ==
    /\ CallerRuns
    /\ st[t] = "unborn"
    /\ tasks' = Append(tasks, t)
    /\ st' = [st EXCEPT ![t] = "live"]
    /\ UNCHANGED <<steps, notified, let_go>>

\* The four spawn functions; the worker asked for is ignored.
Spawn(t) == PushBack(t)

\* The four safety spawn functions: the task differs, the queue does not.
SafetySpawn(t) == PushBack(t)

\* MockRuntime::drop: every task that is still queued is aborted.
DropRuntime == st' = [t \in Tasks |-> IF t \in ToSet(tasks) THEN Canceled(t) ELSE st[t]]

\* runtime::init: the new instance replaces the old one, which is dropped.
InitRuntime ==
    /\ CallerRuns
    /\ tasks' = <<>>
    /\ DropRuntime
    /\ UNCHANGED <<steps, notified, let_go>>

\* runtime::reset: the references are dropped, the tasks are not aborted.
Reset ==
    /\ CallerRuns
    /\ tasks' = <<>>
    /\ let_go' = let_go \cup ToSet(tasks)
    /\ UNCHANGED <<steps, stateVars>>

\* JoinHandle::abort
Abort(t) ==
    /\ CallerRuns
    /\ st[t] # "unborn"
    /\ st' = [st EXCEPT ![t] = Canceled(t)]
    /\ UNCHANGED <<tasks, steps, notified, let_go>>

\* A waker is used.  SchedulerMock::respawn counts the call and drops the
\* reference: the task is not queued.
Wake(t) ==
    /\ CallerRuns
    /\ st[t] \in {"live", "running"}
    /\ notified' = notified \cup {t}
    /\ UNCHANGED <<tasks, steps, st, let_go>>

\* step is called, by the test or by the task that is being polled.
StepBegin ==
    /\ CallerRuns
    /\ steps' = Append(steps, NewStep)
    /\ UNCHANGED <<tasks, stateVars, let_go>>

DequeueTask == Tail(tasks)

\* One turn of the loop up to the poll of the future.  A task that was aborted
\* in the queue answers at once and is not kept.
StepPoll ==
    LET t == Head(tasks)
        polled == [Last(steps) EXCEPT !.polled = @ \cup {t}] IN
    /\ Polls /\ tasks # <<>>
    /\ tasks' = DequeueTask
    /\ IF st[t] = "live"
       THEN /\ st' = [st EXCEPT ![t] = "running"]
            /\ notified' = notified \ {t}
            /\ steps' = InStep([polled EXCEPT !.current = t])
       ELSE steps' = InStep(polled) /\ UNCHANGED stateVars
    /\ UNCHANGED let_go

\* TaskRef::is_done asks the task's state.
IsDone(t) == st'[t] \in {"completed", "canceled"}

\* The future has returned, ready or pending.
Returned(t, ready) ==
    st' = [st EXCEPT ![t] = IF @ = "canceled" THEN "canceled" ELSE IF ready THEN "completed" ELSE "live"]

\* The mutant puts a task that is not done straight back into the queue.
StepPolledAtOnce(ready) ==
    LET t == Last(steps).current IN
    /\ Polling /\ Returned(t, ready)
    /\ tasks' = IF IsDone(t) THEN tasks ELSE Append(tasks, t)
    /\ steps' = InStep([Last(steps) EXCEPT !.current = NoTask])
    /\ UNCHANGED <<notified, let_go>>
StepPolled(ready) ==
    LET t == Last(steps).current IN
    /\ Polling /\ Returned(t, ready)
    /\ steps' = InStep([Last(steps) EXCEPT !.current = NoTask,
                                           !.to_enqueue = IF IsDone(t) THEN @ ELSE Append(@, t)])
    /\ UNCHANGED <<tasks, notified, let_go>>

\* The queue has run empty: what is not done goes back, in order.
StepEnd ==
    /\ Polls /\ tasks = <<>>
    /\ tasks' = Last(steps).to_enqueue
    /\ steps' = Front(steps)
    /\ UNCHANGED <<stateVars, let_go>>

Next ==
    \/ \E t \in Tasks : Spawn(t) \/ SafetySpawn(t) \/ Abort(t) \/ Wake(t)
    \/ InitRuntime \/ Reset
    \/ StepBegin \/ StepPoll \/ StepEnd
    \/ \E ready \in BOOLEAN : StepPolled(ready)

Spec == Init /\ [][Next]_vars

----------------------------------------------------------------------------
\* "Poll each task once to advance its state" (runtime::step): a task waiting
\* in the queue during a step has not been polled by that step, also when the
\* tasks polled before it spawned, aborted, reset, re-initialised or called step
\* themselves.  (What such an inner step polled, the outer one polls again.)
PolledOncePerStep == \A k \in DOMAIN steps : ToSet(tasks) \cap steps[k].polled = {}

\* Every task that was spawned, is not done and was not let go by a reset is
\* held exactly once, by the queue, by a step or as a task being polled:
\* no step forgets a task that is only waiting to be woken.
NoTaskForgotten ==
    LET Kept(step) == step.to_enqueue \o (IF step.current = NoTask THEN <<>> ELSE <<step.current>>)
        held == tasks \o FlattenSeq([k \in DOMAIN steps |-> Kept(steps[k])])
    IN  /\ IsInjective(held)
        /\ \A t \in Tasks : st[t] \in {"live", "running"} /\ t \notin let_go
                              => t \in ToSet(held)
=============================================================================
