---------------------------- MODULE EngineWorkers ----------------------------
(* An execution engine (scheduler/execution_engine.rs) from start to drop: the *)
(* worker threads it spawns, the barrier they report to, the loops of the      *)
(* dedicated and of the safety workers over their trigger queues, and the      *)
(* JoinHandle through which another thread waits for the entry task.  Of the   *)
(* async workers only start, poll of the entry task and stop are kept:         *)
(* WorkerParking has their loop, AsyncTask what a poll does.                   *)
EXTENDS TriggerQueue, FiniteSets

CONSTANTS
    AsyncWorkers, DedicatedWorkers, SafetyWorkers,
    Producers,      \* threads that spawn and wake tasks
    Tasks,          \* tasks of the dedicated and safety workers
    JoinQueue,      \* the TriggerQueue::new(1) of run_in_engine
    LocalSize,      \* max(1, capacity / LOCAL_STORAGE_SIZE_REDUCTION)
    EntryTask, NoTask

Blocking == DedicatedWorkers \cup SafetyWorkers
Workers == Blocking \cup AsyncWorkers

ASSUME EngineAssumption ==
    /\ Queues = Blocking \cup {JoinQueue} /\ JoinQueue \notin Blocking /\ NoQueue \notin Queues
    /\ Capacity[JoinQueue] = 1 /\ LocalSize \in Nat \ {0}
    /\ Pushers = Producers \cup Workers /\ Producers \cap Workers = {}
    /\ AsyncWorkers # {} /\ AsyncWorkers \cap Blocking = {}
    /\ IsFiniteSet(Workers) /\ IsFiniteSet(Tasks)
    /\ NoTask \notin Tasks /\ NoTask \notin Blocking

VARIABLES
    owner,      \* where the thread that owns the engine is
    engine,     \* EngineState
    pos,        \* where each worker thread is
    stopped,    \* stop_signal, and SHUTTINGDOWN of an async worker
    cond,       \* ThreadWaitBarrier: workers that are not ready yet
    readyNtf,   \* workers between the decrement and the notify of ready()
    woken,      \* the barrier's condition variable was notified
    local,      \* local_storage, a stack
    running,    \* the task a worker polls (ctx_set_running_task)
    task,       \* what became of each task
    home,       \* the worker a task was spawned to
    notified,   \* tasks woken while they are polled
    entry,      \* the entry task of run_in_engine
    joiner      \* the thread that calls JoinHandle::join

ownerVars == <<owner, engine>>
barrierVars == <<cond, readyNtf, woken>>
taskVars == <<running, task, home, notified>>
entryVars == <<entry, joiner>>
workerVars == <<pos, stopped, local>>
vars == <<queueVars, ownerVars, barrierVars, taskVars, entryVars, workerVars>>

Init ==
    /\ QueueInit
    /\ owner = "starting" /\ engine = "Starting"
    /\ pos = [w \in Workers |-> "none"] /\ stopped = [w \in Workers |-> FALSE]
    /\ cond = Cardinality(Workers) /\ readyNtf = {} /\ woken = FALSE
    /\ local = [w \in Blocking |-> <<>>]
    /\ running = [w \in Workers |-> NoTask] /\ notified = {}
    /\ task = [t \in Tasks |-> "new"] /\ home = [t \in Tasks |-> NoTask]
    /\ entry = "none" /\ joiner = "none"

-----------------------------------------------------------------------------
(* ExecutionEngine::start, stop and drop                                     *)

\* engine.stop() and the drop of the fields take async, dedicated, safety.
StopsBefore(w) ==
    IF w \in AsyncWorkers THEN {}
    ELSE IF w \in DedicatedWorkers THEN AsyncWorkers ELSE AsyncWorkers \cup DedicatedWorkers

\* start() brings up the safety worker, then the async and the dedicated ones.
SpawnThread(w, before) ==
    /\ owner = "starting" /\ pos[w] = "none"
    /\ \A v \in before : pos[v] # "none"
    /\ pos' = [pos EXCEPT ![w] = "prerun"]
    /\ UNCHANGED <<queueVars, ownerVars, barrierVars, taskVars, entryVars, stopped, local>>
StartSafety(w) == w \in SafetyWorkers /\ SpawnThread(w, {})
StartAsync(w) == w \in AsyncWorkers /\ SpawnThread(w, SafetyWorkers)
StartDedicated(w) == w \in DedicatedWorkers /\ SpawnThread(w, SafetyWorkers \cup AsyncWorkers)
StartWorker(w) == StartSafety(w) \/ StartAsync(w) \/ StartDedicated(w)

\* spawn_thread answers an error, the unwrap panics, and the unwinding drops the engine.
StartFails ==
    /\ owner = "starting" /\ \E w \in Workers : pos[w] = "none"
    /\ owner' = "stopping"
    /\ UNCHANGED <<queueVars, engine, barrierVars, taskVars, entryVars, workerVars>>

Started ==
    /\ owner = "starting" /\ \A w \in Workers : pos[w] # "none"
    /\ owner' = "barrier" /\ engine' = "Running"
    /\ UNCHANGED <<queueVars, barrierVars, taskVars, entryVars, workerVars>>

\* Mutant: the count is compared with one.
WaitForAllEarly ==
    /\ \/ owner = "barrier"
       \/ owner = "asleep" /\ woken
    /\ woken' = FALSE
    /\ owner' = IF cond <= 1 THEN "built" ELSE "asleep"
    /\ UNCHANGED <<queueVars, engine, cond, readyNtf, taskVars, entryVars, workerVars>>

\* wait_for_all: the caller of start goes on, sleeps, or panics after five
\* seconds; the count is looked at before the clock.
WaitForAll ==
    /\ \/ owner = "barrier"
       \/ owner = "asleep" /\ woken
    /\ woken' = FALSE
    /\ owner' = IF cond = 0 THEN "built" ELSE "asleep"
    /\ UNCHANGED <<queueVars, engine, cond, readyNtf, taskVars, entryVars, workerVars>>

WaitTimeout ==
    /\ owner = "asleep"
    /\ owner' = IF cond = 0 THEN "built" ELSE "stopping"
    /\ UNCHANGED <<queueVars, engine, barrierVars, taskVars, entryVars, workerVars>>

\* run_in_engine: the future and the push of its result become a task.
RunInEngine ==
    /\ owner = "built" /\ entry = "none"
    /\ entry' = "queued"
    /\ UNCHANGED <<queueVars, ownerVars, barrierVars, taskVars, joiner, workerVars>>

\* Runtime::shutdown, or the drop of the engine.
Shutdown ==
    /\ owner = "built"
    /\ owner' = "stopping"
    /\ UNCHANGED <<queueVars, engine, barrierVars, taskVars, entryVars, workerVars>>

\* Mutant: stop() has nothing to do unless the engine runs.
StopUnlessStarting(w) ==
    /\ owner = "stopping" /\ ~stopped[w] /\ engine # "Starting"
    /\ \A v \in StopsBefore(w) : stopped[v]
    /\ engine' = "Stopped"
    /\ stopped' = [stopped EXCEPT ![w] = TRUE]
    /\ UNCHANGED <<queueVars, owner, barrierVars, taskVars, entryVars, pos, local>>

\* One worker after the other; the state is set to Stopped before the first.  The
\* drop of the workers asks them once more, which changes nothing: the flag is up.
Stop(w) ==
    /\ owner = "stopping" /\ ~stopped[w]
    /\ \A v \in StopsBefore(w) : stopped[v]
    /\ engine' = "Stopped"
    /\ stopped' = [stopped EXCEPT ![w] = TRUE]
    /\ UNCHANGED <<queueVars, owner, barrierVars, taskVars, entryVars, pos, local>>

\* A thread handle that is dropped joins its thread (iceoryx2 Thread).
Drop ==
    /\ owner = "stopping" /\ \A w \in Workers : stopped[w]
    /\ \A w \in Workers : pos[w] \in {"none", "ended"}
    /\ owner' = "dropped"
    /\ UNCHANGED <<queueVars, engine, barrierVars, taskVars, entryVars, workerVars>>

-----------------------------------------------------------------------------
(* Every worker: pre_run, ready, and the end of its loop                     *)

Goto(w, p) == pos' = [pos EXCEPT ![w] = p]

\* pre_run touches only the thread's own context; ready() counts down under the lock.
Ready(w) ==
    /\ pos[w] = "prerun" /\ Goto(w, "loop")
    /\ cond' = cond - 1 /\ readyNtf' = readyNtf \cup {w}
    /\ UNCHANGED <<queueVars, ownerVars, woken, taskVars, entryVars, stopped, local>>

ReadyNotify(w) ==
    /\ w \in readyNtf
    /\ readyNtf' = readyNtf \ {w}
    /\ woken' = (owner = "asleep" \/ woken)
    /\ UNCHANGED <<queueVars, ownerVars, cond, taskVars, entryVars, workerVars>>

\* The loop condition.  What is in the local storage when the flag is seen is
\* abandoned with the worker.  An async worker that finds nothing to do is left
\* at the top of its loop.
LoopTop(w) ==
    /\ pos[w] = "loop" /\ w \notin readyNtf
    /\ \/ stopped[w] /\ Goto(w, "ended")
       \/ ~stopped[w] /\ w \in Blocking /\ Goto(w, "drain")
    /\ UNCHANGED <<queueVars, ownerVars, barrierVars, taskVars, entryVars, stopped, local>>

\* The request to an async worker is lost: unpark_internal, called by any thread
\* that queues a task, has put NOTIFIED in the place of SHUTTINGDOWN, the worker
\* takes that for a wake-up and parks again, and SHUTTINGDOWN comes back without a
\* notify.  WorkerParking has the steps.
StopIsLost(w) ==
    /\ w \in AsyncWorkers /\ stopped[w] /\ pos[w] = "loop" /\ w \notin readyNtf
    /\ Goto(w, "asleep")
    /\ UNCHANGED <<queueVars, ownerVars, barrierVars, taskVars, entryVars, stopped, local>>

\* An I/O event or a timeout ends the sleep; nobody else will.
SleepEnds(w) ==
    /\ w \in AsyncWorkers /\ pos[w] = "asleep" /\ Goto(w, "loop")
    /\ UNCHANGED <<queueVars, ownerVars, barrierVars, taskVars, entryVars, stopped, local>>

-----------------------------------------------------------------------------
(* The loop of DedicatedWorker and SafetyWorker                              *)

RunTask(w) ==
    /\ w \in Blocking /\ pos[w] = "drain" /\ local[w] # <<>>
    /\ running' = [running EXCEPT ![w] = local[w][Len(local[w])]]
    /\ task' = [task EXCEPT ![running'[w]] = "polled"]
    /\ local' = [local EXCEPT ![w] = SubSeq(@, 1, Len(@) - 1)]
    /\ Goto(w, "poll")
    /\ UNCHANGED <<queueVars, ownerVars, barrierVars, home, notified, entryVars, stopped>>

\* The poll answers Done: the task finished, or is pending and nobody woke it.
PollDone(w) ==
    /\ w \in Blocking /\ pos[w] = "poll"
    /\ \/ task' = [task EXCEPT ![running[w]] = "done"]
       \/ running[w] \notin notified /\ task' = [task EXCEPT ![running[w]] = "idle"]
    /\ notified' = notified \ {running[w]}
    /\ running' = [running EXCEPT ![w] = NoTask]
    /\ Goto(w, "drain")
    /\ UNCHANGED <<queueVars, ownerVars, barrierVars, home, entryVars, stopped, local>>

\* Mutant: a task that was woken meanwhile goes back to the local storage.
PollNotifiedLocal(w) ==
    /\ w \in Blocking /\ pos[w] = "poll" /\ running[w] \in notified
    /\ local' = [local EXCEPT ![w] = Append(@, running[w])]
    /\ task' = [task EXCEPT ![running[w]] = "queued"]
    /\ notified' = notified \ {running[w]}
    /\ running' = [running EXCEPT ![w] = NoTask]
    /\ Goto(w, "drain")
    /\ UNCHANGED <<queueVars, ownerVars, barrierVars, home, entryVars, stopped>>

\* Mutant: the task is put back on the queue and kept in the local storage.
PollNotifiedTwice(w) ==
    /\ w \in Blocking /\ pos[w] = "poll" /\ running[w] \in notified /\ ~Full(w)
    /\ Push(w, w, running[w])
    /\ local' = [local EXCEPT ![w] = Append(@, running[w])]
    /\ task' = [task EXCEPT ![running[w]] = "queued"]
    /\ notified' = notified \ {running[w]}
    /\ running' = [running EXCEPT ![w] = NoTask]
    /\ Goto(w, "drain")
    /\ UNCHANGED <<ownerVars, barrierVars, home, entryVars, stopped>>

\* The poll answers Notified: the task goes to the end of the worker's own
\* queue, and is lost when there is no room: the answer of push is ignored.
PollNotified(w) ==
    /\ w \in Blocking /\ pos[w] = "poll" /\ running[w] \in notified
    /\ IF Full(w)
       THEN task' = [task EXCEPT ![running[w]] = "lost"] /\ UNCHANGED queueVars
       ELSE task' = [task EXCEPT ![running[w]] = "queued"] /\ Push(w, w, running[w])
    /\ notified' = notified \ {running[w]}
    /\ running' = [running EXCEPT ![w] = NoTask]
    /\ Goto(w, "drain")
    /\ UNCHANGED <<ownerVars, barrierVars, home, entryVars, stopped, local>>

\* pop_into_vec; with something in hand the loop starts over.
Refill(w) ==
    /\ w \in Blocking /\ pos[w] = "drain" /\ local[w] = <<>>
    /\ local' = [local EXCEPT ![w] = Batch(w, LocalSize)]
    /\ PopIntoVec(w, LocalSize)
    /\ Goto(w, IF items[w] = <<>> THEN "block" ELSE "loop")
    /\ UNCHANGED <<ownerVars, barrierVars, taskVars, entryVars, stopped>>

Block(w) ==
    /\ w \in Blocking /\ pos[w] = "block" /\ PopBlocking(w)
    /\ UNCHANGED <<ownerVars, barrierVars, taskVars, entryVars, workerVars>>

TakeOne(w) ==
    /\ w \in Blocking /\ pos[w] = "block" /\ PopValue(w)
    /\ local' = [local EXCEPT ![w] = <<Head(items[w])>>]
    /\ Goto(w, "loop")
    /\ UNCHANGED <<ownerVars, barrierVars, taskVars, entryVars, stopped>>

\* The 100 ms are over.
BlockTimeout(w) ==
    /\ w \in Blocking /\ pos[w] = "block" /\ PopTimeout(w) /\ Goto(w, "loop")
    /\ UNCHANGED <<ownerVars, barrierVars, taskVars, entryVars, stopped, local>>

BlockAgain(w) ==
    /\ w \in Blocking /\ pos[w] = "block" /\ PopSleepsOn(w)
    /\ UNCHANGED <<ownerVars, barrierVars, taskVars, entryVars, workerVars>>

-----------------------------------------------------------------------------
(* The entry task on an async worker, and JoinHandle::join                   *)

PollEntry(w) ==
    /\ w \in AsyncWorkers /\ pos[w] = "loop" /\ w \notin readyNtf
    /\ ~stopped[w] /\ entry = "queued"
    /\ entry' = "polled" /\ Goto(w, "poll")
    /\ UNCHANGED <<queueVars, ownerVars, barrierVars, taskVars, joiner, stopped, local>>

\* Mutant: the result is handed over only to a thread that already waits for it.
EntryDoneIfWaited(w) ==
    /\ w \in AsyncWorkers /\ pos[w] = "poll"
    /\ entry' = "done" /\ Goto(w, "loop")
    /\ IF state[JoinQueue] THEN Push(w, JoinQueue, EntryTask) ELSE UNCHANGED queueVars
    /\ UNCHANGED <<ownerVars, barrierVars, taskVars, joiner, stopped, local>>

\* The future is ready and its wrapper pushes the result, or it is pending and
\* will be woken: then it is in a queue again.
EntryDone(w) ==
    /\ w \in AsyncWorkers /\ pos[w] = "poll"
    /\ entry' = "done" /\ Push(w, JoinQueue, EntryTask) /\ Goto(w, "loop")
    /\ UNCHANGED <<ownerVars, barrierVars, taskVars, joiner, stopped, local>>

EntryPending(w) ==
    /\ w \in AsyncWorkers /\ pos[w] = "poll"
    /\ entry' = "queued" /\ Goto(w, "loop")
    /\ UNCHANGED <<queueVars, ownerVars, barrierVars, taskVars, joiner, stopped, local>>

Notify(p) ==
    /\ NotifyOne(p)
    /\ UNCHANGED <<ownerVars, barrierVars, taskVars, entryVars, workerVars>>

Join ==
    /\ entry # "none" /\ joiner = "none"
    /\ joiner' = "joining"
    /\ UNCHANGED <<queueVars, ownerVars, barrierVars, taskVars, entry, workerVars>>

JoinBlocks ==
    /\ joiner = "joining" /\ PopBlocking(JoinQueue)
    /\ UNCHANGED <<ownerVars, barrierVars, taskVars, entryVars, workerVars>>

JoinTakes ==
    /\ joiner = "joining" /\ cv[JoinQueue] # "waiting" /\ PopValue(JoinQueue)
    /\ joiner' = "joined"
    /\ UNCHANGED <<ownerVars, barrierVars, taskVars, entry, workerVars>>

-----------------------------------------------------------------------------
(* The other threads: spawn_on_dedicated, respawn, respawn_into_safety       *)

\* Handler::spawn_on_dedicated; with a full queue the assert! panics.
SpawnOn(p, t, w) ==
    /\ notify[p] = NoQueue /\ owner = "built" /\ task[t] = "new"
    /\ home' = [home EXCEPT ![t] = w]
    /\ IF Full(w) THEN task' = [task EXCEPT ![t] = "refused"] /\ UNCHANGED queueVars
       ELSE task' = [task EXCEPT ![t] = "queued"] /\ Push(p, w, t)
    /\ UNCHANGED <<ownerVars, barrierVars, running, notified, entryVars, workerVars>>

\* A waker: an idle task goes to its worker's queue (DedicatedSchedulerLocal
\* ignores a refusal, respawn_into_safety aborts on one), a polled one is marked.
Wake(p, t) ==
    /\ notify[p] = NoQueue
    /\ \/ /\ task[t] = "idle" /\ UNCHANGED notified
          /\ IF Full(home[t]) THEN task' = [task EXCEPT ![t] = "lost"] /\ UNCHANGED queueVars
             ELSE task' = [task EXCEPT ![t] = "queued"] /\ Push(p, home[t], t)
       \/ /\ task[t] = "polled" /\ t \notin notified
          /\ notified' = notified \cup {t} /\ UNCHANGED <<task, queueVars>>
    /\ UNCHANGED <<ownerVars, barrierVars, home, running, entryVars, workerVars>>

-----------------------------------------------------------------------------
\* The threads, from run_internal to the end: dedicated and safety workers run
\* the same loop, each over its own queue.
Report(w) == Ready(w) \/ ReadyNotify(w) \/ LoopTop(w)
QueueLoop(w) ==
    \/ RunTask(w) \/ PollDone(w) \/ PollNotified(w) \/ Refill(w)
    \/ Block(w) \/ TakeOne(w) \/ BlockTimeout(w) \/ BlockAgain(w)
RunAsync(w) == w \in AsyncWorkers /\ (Report(w) \/ PollEntry(w) \/ EntryDone(w) \/ EntryPending(w))
RunDedicated(w) == w \in DedicatedWorkers /\ (Report(w) \/ QueueLoop(w))
RunSafety(w) == w \in SafetyWorkers /\ (Report(w) \/ QueueLoop(w))
WorkerStep(w) == RunAsync(w) \/ RunDedicated(w) \/ RunSafety(w)
OwnerStep ==
    \/ \E w \in Workers : StartWorker(w) \/ Stop(w)
    \/ StartFails \/ Started \/ WaitForAll \/ WaitTimeout \/ RunInEngine \/ Shutdown \/ Drop
Next ==
    \/ \E w \in Workers : WorkerStep(w) \/ StopIsLost(w) \/ SleepEnds(w)
    \/ OwnerStep \/ Join \/ JoinBlocks \/ JoinTakes
    \/ \E p \in Pushers : Notify(p)
    \/ \E p \in Producers, t \in Tasks : Wake(p, t) \/ \E w \in Blocking : SpawnOn(p, t, w)

Spec == Init /\ [][Next]_vars

\* Worker threads run, their polls end and the entry task's future gets ready
\* when it is polled often enough; a thread that is to stop the engine does so
\* and a notify that is owed is sent.  Nobody has to shut the engine down, and
\* nothing ends the sleep of a worker that has lost the request to stop.
Fairness ==
    /\ \A w \in Workers : WF_vars(WorkerStep(w))
    /\ \A w \in AsyncWorkers : SF_vars(EntryDone(w))
    /\ WF_vars(\E w \in Workers : StartWorker(w) \/ Stop(w))
    /\ WF_vars(Started) /\ WF_vars(WaitForAll) /\ WF_vars(Drop)
    /\ WF_vars(JoinBlocks) /\ WF_vars(JoinTakes)
    /\ \A p \in Pushers : WF_vars(Notify(p))
FairSpec == Spec /\ Fairness

-----------------------------------------------------------------------------
TaskStates == {"new", "queued", "polled", "idle", "done", "lost", "refused"}
QueueTypeOK ==
    /\ items \in [Queues -> Seq(Tasks \cup {EntryTask})]
    /\ \A q \in Queues : Len(items[q]) <= Capacity[q]
    /\ state \in [Queues -> BOOLEAN] /\ cv \in [Queues -> {"off", "waiting", "notified"}]
    /\ notify \in [Pushers -> Queues \cup {NoQueue}]
StorageTypeOK == local \in [Blocking -> Seq(Tasks)] /\ \A w \in Blocking : Len(local[w]) <= LocalSize
ControlTypeOK ==
    /\ owner \in {"starting", "barrier", "asleep", "built", "stopping", "dropped"}
    /\ engine \in {"Starting", "Running", "Stopped"}
    /\ pos \in [Workers -> {"none", "prerun", "loop", "drain", "poll", "block", "asleep", "ended"}]
    /\ stopped \in [Workers -> BOOLEAN]
    /\ running \in [Workers -> Tasks \cup {NoTask}] /\ notified \subseteq Tasks
    /\ task \in [Tasks -> TaskStates] /\ home \in [Tasks -> Blocking \cup {NoTask}]
    /\ entry \in {"none", "queued", "polled", "done"} /\ joiner \in {"none", "joining", "joined"}
BarrierTypeOK == cond \in 0..Cardinality(Workers) /\ readyNtf \subseteq Workers /\ woken \in BOOLEAN
TypeOK == QueueTypeOK /\ StorageTypeOK /\ ControlTypeOK /\ BarrierTypeOK

\* TriggerQueue skips the notify when the consumer does not sleep, and notifies
\* after the unlock.  Still no consumer sleeps beside a value unless a pusher is
\* about to notify it: neither a worker nor a thread in JoinHandle::join.
NoLostNotify ==
    \A q \in Queues :
        cv[q] = "waiting" /\ items[q] # <<>> => \E p \in Pushers : notify[p] = q

\* wait_for_all never sleeps on when all workers are ready: a worker that has
\* counted down has yet to notify, or has notified.
BarrierNotLost == owner = "asleep" /\ cond = 0 => woken \/ readyNtf # {}

\* build() hands out the engine only when every worker has set up its context
\* and reported ready: no task is spawned to a worker that is not there.
BuiltIsReady == owner = "built" => \A w \in Workers : pos[w] \notin {"none", "prerun"}

\* No wake-up is lost while threads start and work.
SleeperIsNotified == NoLostNotify /\ BarrierNotLost

\* The places where a reference to a task is: queues, local storages, polls.
Holds(list, t) == {k \in DOMAIN list : list[k] = t}
InQueue(t) == UNION {{w} \X Holds(items[w], t) : w \in Blocking}
InBatch(t) == UNION {{w} \X Holds(local[w], t) : w \in Blocking}
InPoll(t) == {w \in Blocking : running[w] = t}

\* Whatever the order of spawns, wakes, polls and batch pops: a task that waits
\* or is polled has exactly one reference, on the worker it was spawned to, and
\* one that is idle, finished or lost has none.
OneReference ==
    \A t \in Tasks :
        /\ Cardinality(InQueue(t)) + Cardinality(InBatch(t)) = IF task[t] = "queued" THEN 1 ELSE 0
        /\ Cardinality(InPoll(t)) = IF task[t] = "polled" THEN 1 ELSE 0
        /\ \A w \in Blocking :
             running[w] = t \/ Holds(items[w], t) # {} \/ Holds(local[w], t) # {} => home[t] = w

\* The answer of push is ignored when a task is put back.  That is harmless
\* exactly as long as no more tasks are spawned to a worker than its queue holds.
NoLossInBounds ==
    \A w \in Blocking :
        Cardinality({t \in Tasks : home[t] = w}) <= Capacity[w]
            => \A t \in Tasks : home[t] = w => task[t] \notin {"lost", "refused"}

\* References to tasks are neither doubled nor lost.
ReferencesKept == TypeOK /\ OneReference /\ NoLossInBounds

\* stop() and the drop reach every thread that was started, also when the start
\* of another one failed or timed out: all threads end, but for async workers that
\* lose the request and sleep on, and unless there are such the drop of the engine
\* ends.  Without that exception it need not (StopIsNoticed of WorkerParking).
Oversleeping == {w \in AsyncWorkers : pos[w] = "asleep"}
OthersEnded == \A w \in Workers : stopped[w] /\ (w \in Oversleeping \/ pos[w] \in {"none", "ended"})
DropEnds ==
    /\ owner = "stopping" ~> owner = "dropped" \/ OthersEnded
    /\ (owner = "stopping" ~> owner = "dropped") \/ []<>(Oversleeping # {})

\* A task in the queue or in the batch of a worker is polled in the end, however
\* often other tasks of the worker wake themselves, unless the worker is stopped.
QueuedIsPolled ==
    \A t \in Tasks : task[t] = "queued" ~> (task[t] # "queued" \/ stopped[home[t]])

\* JoinHandle::join returns, unless the engine is stopped before the entry task
\* is done: then nobody is left to push the result and the caller waits for ever.
JoinReturns == joiner = "joining" ~> (joiner = "joined" \/ engine = "Stopped" \/ owner = "stopping")
=============================================================================
