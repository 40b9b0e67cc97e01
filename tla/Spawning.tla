------------------------------ MODULE Spawning ------------------------------
(***************************************************************************)
(* Where tasks run: the spawn functions of lib.rs and safety.rs, the        *)
(* Handler they find in the context of the calling worker, and the two      *)
(* schedulers that take a woken task back, in a runtime of several engines. *)
(* Every engine has one async worker (stealing moves tasks within an engine  *)
(* only) and, as it is configured, a dedicated worker for each name and a    *)
(* safety worker.  A call that ends in not_recoverable_error! is no step,    *)
(* but for the one inside a wake-up, which is recorded.                      *)
(***************************************************************************)
EXTENDS TaskState, Naturals

CONSTANTS
    Tasks, NoTask,  \* numbers, in the order of creation, and 0
    Engines,
    SafetyEngines,  \* the engines built with enable_safety_worker
    DedicatedEngines, \* the engines built with dedicated workers
    Names,          \* of the dedicated workers, strings
    Outside         \* a thread that is no worker

WorkerIds == (Engines \X {"async"}) \cup (DedicatedEngines \X Names) \cup (SafetyEngines \X {"safety"})
\* The queue of a dedicated or safety worker has the worker's name.
Places ==
    (Engines \X {"local", "global"}) \cup (DedicatedEngines \X Names) \cup (SafetyEngines \X {"safety"})

VARIABLES
    state,      \* TaskState of the spawned tasks
    home,       \* the scheduler a task was created with: <<engine, "async">> or a dedicated worker
    guarded,    \* is_with_safety of a task made by new_safety
    spawner,    \* the task that got the JoinHandle; it may give it to any other
    joiner,     \* handle_waker: the task to wake at the end
    refs,       \* how many references to a task are in a queue
    run,        \* the task a worker is polling
    waker,      \* the tasks that have been polled, so that somebody may hold their waker
    aborted     \* a wake-up ended in not_recoverable_error!

vars == <<state, home, guarded, spawner, joiner, refs, run, waker, aborted>>

Spawned == {t \in Tasks : home[t] # Outside}
Init ==
    /\ state = [t \in Tasks |-> NewState] /\ home = [t \in Tasks |-> Outside]
    /\ guarded = [t \in Tasks |-> FALSE]
    /\ spawner = [t \in Tasks |-> NoTask] /\ joiner = [t \in Tasks |-> NoTask]
    /\ refs = [p \in Places |-> [t \in Tasks |-> 0]]
    /\ run = [w \in WorkerIds |-> NoTask] /\ waker = {} /\ aborted = FALSE

-----------------------------------------------------------------------------
(* The schedulers: the places a reference goes to; none when it is dropped.  *)

\* The handler that a worker builds into its context: with_async_handle has the
\* producer of the worker's queue, with_dedicated_handle has none.
HandlerOf(w) == IF w[2] = "async" THEN "Async" ELSE "Dedicated"

\* ctx_get_handler and try_with_local_producer: the local queue of the thread x.
HasProducer(x) == x # Outside /\ HandlerOf(x) = "Async"

\* AsyncScheduler::respawn, called by thread x for a task of engine e.
RespawnAsync(x, e) == IF HasProducer(x) THEN {<<x[1], "local">>} ELSE {<<e, "global">>}
\* DedicatedSchedulerLocalInner::respawn
RespawnByWaker(x, h) == IF HasProducer(x) THEN {<<x[1], "local">>} ELSE {h}
RespawnDedicated(x, h) == {h}
Respawn(x, t) == IF home[t][2] = "async" THEN RespawnAsync(x, home[t][1]) ELSE RespawnDedicated(x, home[t])

\* respawn_into_safety of the async and of the dedicated scheduler.
RespawnIntoSafety(t) == {p \in Places : p = <<home[t][1], "safety">>}
SafetyIsFatal(t) == home[t][2] # "async"

Added(t, ps) == [p \in Places |-> IF p \in ps THEN [refs[p] EXCEPT ![t] = @ + 1] ELSE refs[p]]

\* AsyncTask::schedule and schedule_safety, on the state s of task t: with the
\* new state, the places of the reference, and whether the process ends.
Schedule(x, t, s) ==
    LET r == set_notified(s)
    IN  [state |-> r.next, to |-> IF r.ret = "Done" THEN Respawn(x, t) ELSE {}, fatal |-> FALSE]
ScheduleSafety(t, s) ==
    LET r == set_safety_notified(s)
    IN  [state |-> r.next, to |-> IF r.ret = "Done" THEN RespawnIntoSafety(t) ELSE {},
         fatal |-> r.ret = "Done" /\ SafetyIsFatal(t)]

-----------------------------------------------------------------------------
(* Spawning: an entry task from outside, or by the task a worker polls.       *)

Create(t, h, safe, by, to) ==
    /\ t \notin Spawned /\ (\A u \in Tasks : u < t => u \in Spawned) /\ ~aborted
    /\ home' = [home EXCEPT ![t] = h] /\ guarded' = [guarded EXCEPT ![t] = safe]
    /\ spawner' = [spawner EXCEPT ![t] = by] /\ refs' = Added(t, {to})
    /\ UNCHANGED <<state, joiner, run, waker, aborted>>

\* ExecutionEngine::run_in_engine
RunInEngine(e, t) == \E to \in RespawnAsync(Outside, e) : Create(t, <<e, "async">>, FALSE, NoTask, to)

\* Handler::internal and reusable_safety_internal
Internal(w, t, guard) ==
    Create(t, <<w[1], "async">>, guard, run[w],
           IF HandlerOf(w) = "Async" THEN <<w[1], "local">> ELSE <<w[1], "global">>)
\* Handler::on_dedicated_internal and reusable_on_dedicated_internal
OnDedicatedInternal(w, t, name, guard) ==
    /\ <<w[1], name>> \in Places
    /\ Create(t, <<w[1], name>>, guard, run[w], <<w[1], name>>)

\* The Handler's forms: a safety task is guarded where the engine has a safety
\* worker, elsewhere it is a plain one.
IsWithSafety(w) == w[1] \in SafetyEngines
HandlerSpawn(w, t) == Internal(w, t, FALSE)
HandlerSpawnOnDedicated(w, t, name) == OnDedicatedInternal(w, t, name, FALSE)
HandlerSpawnSafety(w, t) == Internal(w, t, IsWithSafety(w))
HandlerSpawnOnDedicatedSafety(w, t, name) == OnDedicatedInternal(w, t, name, IsWithSafety(w))

\* The API works inside the runtime, called by the task that is being polled.
GetHandler(w) == run[w] # NoTask
Spawn(w, t) == GetHandler(w) /\ HandlerSpawn(w, t)
SpawnOnDedicated(w, t, name) == GetHandler(w) /\ HandlerSpawnOnDedicated(w, t, name)

\* safety.rs refuses to work on dedicated workers; the safety worker is one by
\* its type.
MaySafetySpawn(w) == w[2] = "async"
SafetySpawn(w, t) == GetHandler(w) /\ MaySafetySpawn(w) /\ HandlerSpawnSafety(w, t)
SafetySpawnOnDedicated(w, t, name) ==
    GetHandler(w) /\ MaySafetySpawn(w) /\ HandlerSpawnOnDedicatedSafety(w, t, name)

-----------------------------------------------------------------------------
(* Running                                                                    *)

Serves(w) == IF w[2] = "async" THEN {<<w[1], "local">>, <<w[1], "global">>} ELSE {w}

SetRunningTask(w, t) == run' = [run EXCEPT ![w] = t]
UnsetRunningTask(w) == run' = [run EXCEPT ![w] = NoTask]
CreateWaker(t) == waker' = waker \cup {t}

\* run_task up to the poll of the future.  A reference to a completed task
\* fails the assertion of transition_to_running: AsyncTask has that case.
RunTask(w, p, t) ==
    LET r == transition_to_running(state[t])
    IN  /\ run[w] = NoTask /\ p \in Serves(w) /\ refs[p][t] > 0 /\ r.ret # "Panic" /\ ~aborted
        /\ refs' = [refs EXCEPT ![p][t] = @ - 1]
        /\ state' = [state EXCEPT ![t] = r.next]
        /\ SetRunningTask(w, IF r.ret = "Done" THEN t ELSE NoTask)
        /\ CreateWaker(t)
        /\ UNCHANGED <<home, guarded, spawner, joiner, aborted>>

\* The polled future awaits the handle of a task: one it has spawned, or another
\* whose JoinHandle, which is Send, was moved to it.
AwaitHandle(w, u) ==
    /\ run[w] # NoTask /\ spawner[u] # NoTask /\ joiner[u] = NoTask /\ ~aborted
    /\ state_set_waker(state[u]).ret
    /\ state' = [state EXCEPT ![u] = state_set_waker(state[u]).next]
    /\ joiner' = [joiner EXCEPT ![u] = run[w]]
    /\ UNCHANGED <<home, guarded, spawner, refs, run, waker, aborted>>

\* The future is pending: a notified task is requeued by the worker.
RequeueAt(w) == IF w[2] = "async" THEN <<w[1], "local">> ELSE w
Pending(w) ==
    LET t == run[w] r == transition_to_idle(state[t])
    IN  /\ t # NoTask /\ ~aborted
        /\ state' = [state EXCEPT ![t] = r.next]
        /\ refs' = IF r.ret = "Notified" THEN Added(t, {RequeueAt(w)}) ELSE refs
        /\ UnsetRunningTask(w)
        /\ UNCHANGED <<home, guarded, spawner, joiner, waker, aborted>>

\* The future is ready, with an error or not: the joining task is woken, through
\* a safety waker made of its waker after the error of a safety task.
SafetyWaker(j, s) == ScheduleSafety(j, s)
Completed(w, error) ==
    LET t == run[w] r == transition_to_completed(state[t]) j == joiner[t]
        done == [state EXCEPT ![t] = r.next]
        wake == IF r.ret # "HadConnectedJoinHandle" THEN [state |-> done[j], to |-> {}, fatal |-> FALSE]
                ELSE IF error /\ guarded[t] THEN SafetyWaker(j, done[j]) ELSE Schedule(w, j, done[j])
    IN  /\ t # NoTask /\ ~aborted
        /\ state' = IF j = NoTask THEN done ELSE [done EXCEPT ![j] = wake.state]
        /\ refs' = IF j = NoTask THEN refs ELSE Added(j, wake.to)
        /\ aborted' = (j # NoTask /\ wake.fatal)
        /\ UnsetRunningTask(w)
        /\ UNCHANGED <<home, guarded, spawner, joiner, waker>>

\* A waker is used by a task or a driver on worker x, or by another thread.
Wake(x, t) ==
    LET scheduled == Schedule(x, t, state[t])
    IN  /\ t \in waker /\ ~aborted
        /\ state' = [state EXCEPT ![t] = scheduled.state] /\ refs' = Added(t, scheduled.to)
        /\ UNCHANGED <<home, guarded, spawner, joiner, run, waker, aborted>>

Next ==
    \/ \E e \in Engines, t \in Tasks : RunInEngine(e, t)
    \/ \E w \in WorkerIds, t \in Tasks :
         \/ Spawn(w, t) \/ SafetySpawn(w, t)
         \/ \E name \in Names : SpawnOnDedicated(w, t, name) \/ SafetySpawnOnDedicated(w, t, name)
    \/ \E w \in WorkerIds, t \in Tasks : AwaitHandle(w, t) \/ (\E p \in Places : RunTask(w, p, t))
    \/ \E w \in WorkerIds : Pending(w) \/ (\E error \in BOOLEAN : Completed(w, error))
    \/ \E x \in WorkerIds \cup {Outside}, t \in Tasks : Wake(x, t)

Spec == Init /\ [][Next]_vars

-----------------------------------------------------------------------------
TypeOK ==
    /\ state \in [Tasks -> SUBSET Flags]
    /\ home \in [Tasks -> {Outside} \cup (Engines \X ({"async"} \cup Names))]
    /\ guarded \in [Tasks -> BOOLEAN] /\ aborted \in BOOLEAN
    /\ spawner \in [Tasks -> Tasks \cup {NoTask}] /\ joiner \in [Tasks -> Tasks \cup {NoTask}]
    /\ refs \in [Places -> [Tasks -> Nat]] /\ run \in [WorkerIds -> Tasks \cup {NoTask}]
    /\ waker \subseteq Tasks

\* A task spawned on a dedicated worker is only ever polled by that worker, and
\* no other task is polled by a dedicated one, whoever wakes it and from where.
RunsWhereItMay ==
    \A w \in WorkerIds : run[w] # NoTask =>
        IF w[2] \in Names THEN home[run[w]] = w ELSE home[run[w]][2] = "async"

\* A task that awaits a failed safety task although its own engine has no safety
\* worker: it spawned that task while it ran in another engine, or was given the
\* handle.  respawn_into_safety drops its reference.
Unreachable(t) ==
    /\ home[t][1] \notin SafetyEngines
    /\ \E u \in Spawned : joiner[u] = t /\ guarded[u] /\ is_completed(state[u])

\* A task whose notification is up and that nobody polls is in some queue: the
\* flag turns every later wake-up into nothing, so the task would otherwise
\* never run again (AsyncScheduler::respawn and respawn_into_safety).  Excepted
\* are the tasks that the code does lose in this way.
NotifiedIsQueued ==
    ~aborted => \A t \in Spawned :
        is_idle(state[t]) /\ is_notified(state[t]) => Unreachable(t) \/ \E p \in Places : refs[p][t] > 0

\* A task of a dedicated worker is sent to the safety worker, which ends the
\* process, only if it awaits a handle that it was given by another task: safety.rs
\* keeps it from spawning safety tasks itself, wherever it is woken from.
DedicatedNotIntoSafety ==
    aborted => \E u \in Spawned : guarded[u] /\ joiner[u] \notin {NoTask, spawner[u]} /\ home[joiner[u]][2] # "async"
=============================================================================
