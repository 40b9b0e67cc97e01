------------------------------ MODULE TaskRefs ------------------------------
(***************************************************************************)
(* The references to a task (async_task.rs, TaskRef; waker.rs and            *)
(* safety_waker.rs): a task is an Arc whose count is kept by hand through     *)
(* raw pointers.  A TaskRef sits in a ready queue, in a JoinHandle, behind    *)
(* every clone of the task's waker, in the handle_waker of a task it awaits,  *)
(* and three of them are held by the worker that polls it.  The last one to   *)
(* go frees the task, and with it its future and the JoinHandles that one     *)
(* owns.  The states of tasks change as in TaskState.                         *)
(***************************************************************************)
EXTENDS TaskState, Integers, FiniteSets

CONSTANTS Tasks, NoTask,
          Workers,
          Sources,    \* threads that hold clones of wakers
          Outside,    \* owner of a JoinHandle that is no task
          NoOne,      \* the JoinHandle is not there
          MaxWakers   \* bound: clones of one waker held by sources

VARIABLES strong,    \* the count of the Arc
          life,      \* "unborn", "alive" or "freed"
          state,     \* TaskState
          handle,    \* who owns the JoinHandle: a task, Outside or NoOne
          stored,    \* handle_waker: the task whose waker it holds
          queued,    \* references in the ready queues
          wakers,    \* clones of the waker held by sources
          slot,      \* an AtomicWakerStore: the task whose waker is in it
          pc, hand,  \* threads: where they are, the reference they carry
          cur, refs, \* workers: the task they run, how often they hold it
          refused    \* history: tasks whose reference no queue took

Threads == Workers \cup Sources
taskVars == <<life, state>>
wakerVars == <<wakers, slot>>
ownVars == <<handle, stored, queued, wakerVars>>
threadVars == <<pc, hand, cur, refs>>
vars == <<strong, taskVars, ownVars, threadVars, refused>>

Init ==
    /\ strong = [t \in Tasks |-> 0] /\ life = [t \in Tasks |-> "unborn"]
    /\ state = [t \in Tasks |-> NewState]
    /\ handle = [t \in Tasks |-> NoOne] /\ stored = [t \in Tasks |-> NoTask]
    /\ queued = [t \in Tasks |-> 0] /\ wakers = [t \in Tasks |-> 0]
    /\ slot = NoTask /\ pc = [th \in Threads |-> "idle"] /\ hand = [th \in Threads |-> NoTask]
    /\ cur = [w \in Workers |-> NoTask] /\ refs = [w \in Workers |-> 0] /\ refused = {}

\* TaskRef::clone and TaskRef::drop.
CloneRef(f, t) == [f EXCEPT ![t] = @ + 1]
DropRef(f, t) == [f EXCEPT ![t] = @ - 1]
Goto(th, p) == pc' = [pc EXCEPT ![th] = p]

\* A future that is dropped takes the JoinHandles it owns with it.
DropFuture(t) ==
    /\ handle' = [c \in Tasks |-> IF handle[c] = t THEN NoOne ELSE handle[c]]
    /\ strong' = [c \in Tasks |-> IF handle[c] = t THEN strong[c] - 1 ELSE strong[c]]

-----------------------------------------------------------------------------
(* Spawning and running.                                                      *)

\* A reference for the queue and one for the JoinHandle; the Arc itself goes.
NewTask(t, owner) ==
    /\ life[t] = "unborn" /\ life' = [life EXCEPT ![t] = "alive"]
    /\ strong' = [strong EXCEPT ![t] = 2] /\ queued' = CloneRef(queued, t)
    /\ handle' = [handle EXCEPT ![t] = owner]
    /\ UNCHANGED <<state, stored, wakerVars, threadVars>>
SpawnOutside(t) == NewTask(t, Outside)
Spawn(w, t) == pc[w] = "polling" /\ NewTask(t, cur[w])

\* run_task with the reference from the queue, one for the waker and one for the
\* context.
RunTask(w, t) ==
    /\ pc[w] = "idle" /\ queued[t] > 0 /\ queued' = DropRef(queued, t)
    /\ strong' = [strong EXCEPT ![t] = @ + 2] /\ refs' = [refs EXCEPT ![w] = 3]
    /\ cur' = [cur EXCEPT ![w] = t] /\ Goto(w, "poll")
    /\ UNCHANGED <<taskVars, handle, stored, wakerVars, hand>>
\* A failed assertion of transition_to_running ends the worker.
Poll(w) ==
    LET r == transition_to_running(state[cur[w]]) IN
    /\ pc[w] = "poll" /\ r.ret # "Panic"
    /\ state' = [state EXCEPT ![cur[w]] = r.next] /\ Goto(w, IF r.ret = "Done" THEN "polling" ELSE "leave")
    /\ UNCHANGED <<strong, life, ownVars, hand, cur, refs>>
\* The worker lets go of what it holds, one reference after the other.
Leave(w) ==
    /\ pc[w] = "leave" /\ strong' = DropRef(strong, cur[w]) /\ refs' = [refs EXCEPT ![w] = @ - 1]
    /\ IF refs[w] = 1 THEN Goto(w, "idle") /\ cur' = [cur EXCEPT ![w] = NoTask] ELSE UNCHANGED <<pc, cur>>
    /\ UNCHANGED <<taskVars, ownVars, hand>>
\* TaskPollResult::Notified: the reference that came from the queue goes back.
Requeue(w) ==
    /\ pc[w] = "requeue" /\ queued' = CloneRef(queued, cur[w]) /\ refs' = [refs EXCEPT ![w] = @ - 1]
    /\ Goto(w, "leave") /\ UNCHANGED <<strong, taskVars, handle, stored, wakerVars, hand, cur>>
\* The queue of a safety or of a dedicated worker is full, and nobody looks at the
\* answer of push: the reference is dropped.
RequeueRefused(w) ==
    /\ pc[w] = "requeue" /\ strong' = DropRef(strong, cur[w]) /\ refs' = [refs EXCEPT ![w] = @ - 1]
    /\ refused' = refused \cup {cur[w]} /\ Goto(w, "leave")
    /\ UNCHANGED <<taskVars, ownVars, hand, cur>>

-----------------------------------------------------------------------------
(* What the polled future does.                                              *)

CloneWaker(w) ==
    /\ pc[w] = "polling" /\ wakers[cur[w]] < MaxWakers
    /\ strong' = CloneRef(strong, cur[w]) /\ wakers' = CloneRef(wakers, cur[w])
    /\ UNCHANGED <<taskVars, handle, stored, queued, slot, threadVars>>
\* AtomicWakerStore::swap with a clone of the waker; the one it held is dropped.
StoreWaker(w) ==
    /\ pc[w] = "polling" /\ slot' = cur[w]
    /\ strong' = CloneRef(IF slot = NoTask THEN strong ELSE DropRef(strong, slot), cur[w])
    /\ UNCHANGED <<taskVars, handle, stored, queued, wakers, threadVars>>
\* The first poll of a JoinHandle: set_waker stores a clone of the waker, though
\* it may be too late for the flag.
SetWaker(w, c) ==
    /\ pc[w] = "polling" /\ handle[c] = cur[w] /\ stored[c] = NoTask /\ ~has_join_handle(state[c])
    /\ strong' = CloneRef(strong, cur[w]) /\ stored' = [stored EXCEPT ![c] = cur[w]]
    /\ state' = [state EXCEPT ![c] = state_set_waker(@).next]
    /\ UNCHANGED <<life, handle, queued, wakerVars, threadVars>>
DropHandle(w, c) ==
    /\ pc[w] = "polling" /\ handle[c] = cur[w] /\ handle' = [handle EXCEPT ![c] = NoOne]
    /\ strong' = DropRef(strong, c)
    /\ UNCHANGED <<taskVars, stored, queued, wakerVars, threadVars>>
\* abort: an idle task loses its future at once.
Abort(w, c) ==
    LET r == transition_to_canceled(state[c]) IN
    /\ pc[w] = "polling" /\ handle[c] = cur[w] /\ state' = [state EXCEPT ![c] = r.next]
    /\ IF r.ret = "Done" THEN DropFuture(c) ELSE UNCHANGED <<strong, handle>>
    /\ UNCHANGED <<life, stored, queued, wakerVars, threadVars>>

PollPending(w) ==
    LET r == transition_to_idle(state[cur[w]]) IN
    /\ pc[w] = "polling" /\ state' = [state EXCEPT ![cur[w]] = r.next]
    /\ IF r.ret = "Aborted" THEN DropFuture(cur[w]) ELSE UNCHANGED <<strong, handle>>
    /\ Goto(w, IF r.ret = "Notified" THEN "requeue" ELSE "leave")
    /\ UNCHANGED <<life, stored, queued, wakerVars, hand, cur, refs>>
PollReady(w) ==
    /\ pc[w] = "polling" /\ DropFuture(cur[w]) /\ Goto(w, "ready")
    /\ UNCHANGED <<taskVars, stored, queued, wakerVars, hand, cur, refs>>
\* The waker of the joining task, made a safety waker or not, is consumed.
Complete(w) ==
    LET t == cur[w]
        r == transition_to_completed(state[t]) IN
    /\ pc[w] = "ready" /\ state' = [state EXCEPT ![t] = r.next]
    /\ IF r.ret = "HadConnectedJoinHandle"
       THEN /\ hand' = [hand EXCEPT ![w] = stored[t]] /\ stored' = [stored EXCEPT ![t] = NoTask]
            /\ \E p \in {"schedule", "schedule_safety"} : Goto(w, p)
       ELSE Goto(w, "leave") /\ UNCHANGED <<hand, stored>>
    /\ UNCHANGED <<strong, life, handle, queued, wakerVars, cur, refs>>

-----------------------------------------------------------------------------
(* Waking: the vtable of the waker, and AsyncTask::schedule.                  *)

Notified(th, s) == IF pc[th] = "schedule" THEN set_notified(s) ELSE set_safety_notified(s)
After(th) == IF th \in Workers THEN "leave" ELSE "idle"
\* The reference goes on into a queue, or is dropped when somebody else sees to it.
Schedule(th) ==
    LET t == hand[th]
        r == Notified(th, state[t]) IN
    /\ pc[th] \in {"schedule", "schedule_safety"} /\ state' = [state EXCEPT ![t] = r.next]
    /\ IF r.ret = "Done" THEN Goto(th, "respawn") /\ UNCHANGED <<strong, hand>>
       ELSE /\ strong' = DropRef(strong, t) /\ hand' = [hand EXCEPT ![th] = NoTask]
            /\ Goto(th, After(th))
    /\ UNCHANGED <<life, ownVars, cur, refs>>
Respawn(th) ==
    /\ pc[th] = "respawn" /\ queued' = CloneRef(queued, hand[th]) /\ hand' = [hand EXCEPT ![th] = NoTask]
    /\ Goto(th, After(th)) /\ UNCHANGED <<strong, taskVars, handle, stored, wakerVars, cur, refs>>
\* respawn_into_safety without a safety queue, or respawn to a dedicated worker
\* whose queue is full: the reference is dropped and nobody told.
RespawnRefused(th) ==
    /\ pc[th] = "respawn" /\ strong' = DropRef(strong, hand[th]) /\ hand' = [hand EXCEPT ![th] = NoTask]
    /\ refused' = refused \cup {hand[th]} /\ Goto(th, After(th))
    /\ UNCHANGED <<taskVars, ownVars, cur, refs>>

Wake(s, t) ==
    /\ pc[s] = "idle" /\ wakers[t] > 0 /\ wakers' = DropRef(wakers, t)
    /\ hand' = [hand EXCEPT ![s] = t] /\ Goto(s, "schedule")
    /\ UNCHANGED <<strong, taskVars, handle, stored, queued, slot, cur, refs>>
\* Mutant: the waker's own reference is scheduled and the waker kept.
WakeByRefUncloned(s, t) ==
    /\ pc[s] = "idle" /\ wakers[t] > 0
    /\ hand' = [hand EXCEPT ![s] = t] /\ Goto(s, "schedule")
    /\ UNCHANGED <<strong, taskVars, ownVars, cur, refs>>
WakeByRef(s, t) ==
    /\ pc[s] = "idle" /\ wakers[t] > 0 /\ strong' = CloneRef(strong, t)
    /\ hand' = [hand EXCEPT ![s] = t] /\ Goto(s, "schedule")
    /\ UNCHANGED <<taskVars, ownVars, cur, refs>>
\* AtomicWakerStore::take, and the waker is used.
TakeWaker(s) ==
    /\ pc[s] = "idle" /\ slot # NoTask /\ slot' = NoTask
    /\ hand' = [hand EXCEPT ![s] = slot] /\ Goto(s, "schedule")
    /\ UNCHANGED <<strong, taskVars, handle, stored, queued, wakers, cur, refs>>
DropStore ==
    /\ slot # NoTask /\ slot' = NoTask /\ strong' = DropRef(strong, slot)
    /\ UNCHANGED <<taskVars, handle, stored, queued, wakers, threadVars>>
DropWaker(t) ==
    /\ wakers[t] > 0 /\ wakers' = DropRef(wakers, t) /\ strong' = DropRef(strong, t)
    /\ UNCHANGED <<taskVars, handle, stored, queued, slot, threadVars>>
DropOutside(t) ==
    /\ handle[t] = Outside /\ handle' = [handle EXCEPT ![t] = NoOne] /\ strong' = DropRef(strong, t)
    /\ UNCHANGED <<taskVars, stored, queued, wakerVars, threadVars>>

\* drop_vtable with the last reference: what the task still holds goes with it.
FreeTask(t) ==
    /\ life[t] = "alive" /\ strong[t] = 0 /\ life' = [life EXCEPT ![t] = "freed"]
    /\ handle' = [c \in Tasks |-> IF handle[c] = t THEN NoOne ELSE handle[c]]
    /\ strong' = [c \in Tasks |-> strong[c] - (IF handle[c] = t THEN 1 ELSE 0) - (IF stored[t] = c THEN 1 ELSE 0)]
    /\ stored' = [stored EXCEPT ![t] = NoTask]
    /\ UNCHANGED <<state, queued, wakerVars, threadVars>>

-----------------------------------------------------------------------------
Body(w) ==
    \/ CloneWaker(w) \/ StoreWaker(w) \/ PollPending(w) \/ PollReady(w)
    \/ \E c \in Tasks : Spawn(w, c) \/ SetWaker(w, c) \/ DropHandle(w, c) \/ Abort(w, c)
WorkerStep(w) ==
    \/ Poll(w) \/ Body(w) \/ Complete(w) \/ Requeue(w) \/ Leave(w)
    \/ \E t \in Tasks : RunTask(w, t)
Taken ==
    \/ \E w \in Workers : WorkerStep(w)
    \/ \E th \in Threads : Schedule(th) \/ Respawn(th)
    \/ DropStore \/ \E s \in Sources : TakeWaker(s)
    \/ \E s \in Sources, t \in Tasks : Wake(s, t) \/ WakeByRef(s, t)
    \/ \E t \in Tasks : SpawnOutside(t) \/ DropWaker(t) \/ DropOutside(t) \/ FreeTask(t)
Next ==
    \/ Taken /\ UNCHANGED refused
    \/ \E w \in Workers : RequeueRefused(w)
    \/ \E th \in Threads : RespawnRefused(th)
Spec == Init /\ [][Next]_vars

-----------------------------------------------------------------------------
TypeOK ==
    /\ life \in [Tasks -> {"unborn", "alive", "freed"}] /\ strong \in [Tasks -> Nat]
    /\ state \in [Tasks -> SUBSET Flags]
    /\ handle \in [Tasks -> Tasks \cup {Outside, NoOne}] /\ stored \in [Tasks -> Tasks \cup {NoTask}]
    /\ queued \in [Tasks -> Nat] /\ wakers \in [Tasks -> 0..MaxWakers] /\ slot \in Tasks \cup {NoTask}
    /\ pc \in [Threads -> {"idle", "poll", "polling", "ready", "requeue", "leave",
                           "schedule", "schedule_safety", "respawn"}]
    /\ hand \in [Threads -> Tasks \cup {NoTask}] /\ cur \in [Workers -> Tasks \cup {NoTask}]
    /\ refs \in [Workers -> 0..3] /\ refused \subseteq Tasks

Held(t) == Cardinality({p \in Workers \X (1..3) : cur[p[1]] = t /\ p[2] <= refs[p[1]]})
Holders(t) ==
    queued[t] + wakers[t] + Held(t) + (IF handle[t] = NoOne THEN 0 ELSE 1) + (IF slot = t THEN 1 ELSE 0)
        + Cardinality({c \in Tasks : stored[c] = t}) + Cardinality({th \in Threads : hand[th] = t})

\* The count that TaskRef keeps by hand through raw pointers, forget and the two
\* waker vtables is the number of references there are: a task is freed when the
\* last one goes, not earlier and not later.
CountIsHolders == \A t \in Tasks : strong[t] = Holders(t) /\ (strong[t] > 0 => life[t] = "alive")

\* A task that is freed leaves nothing undone: it was not notified, or its future
\* is over, or a queue refused its reference.
FreedIsNotNotified ==
    \A t \in Tasks : life[t] = "freed" =>
        ~is_notified(state[t]) \/ is_completed(state[t]) \/ is_canceled(state[t]) \/ t \in refused
=============================================================================
