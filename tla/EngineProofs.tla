---------------------------- MODULE EngineProofs ----------------------------
(***************************************************************************)
(* Proofs about an execution engine.  EngineWorkers, for any number of       *)
(* workers, producers and tasks and any queue sizes: build() hands out an    *)
(* engine whose workers are ready, no sleeper misses its notify, and no      *)
(* reference to a task is doubled or lost.  What counts is here; who sleeps  *)
(* and where references are is in EngineQueueProofs.  EngineBuilder: the     *)
(* worker ids of an engine, for every configuration the builder's assertions *)
(* let through and every width of the ids that the limits fit.               *)
(***************************************************************************)
EXTENDS EngineQueueProofs, EngineBuilder, FiniteSetTheorems

\* The barrier counts the workers that have not reported; this is what makes
\* BuiltIsReady inductive.
Unready == {w \in Workers : pos[w] \in {"none", "prerun"}}
BarrierInv == cond = Cardinality(Unready) /\ BarrierNotLost /\ BuiltIsReady

\* The inductive invariant of an engine.
EngineInv == PlaceInv /\ BarrierTypeOK /\ BarrierInv /\ NoLossInBounds

USE DEF queueVars, ownerVars, barrierVars, taskVars, entryVars, workerVars

(***************************************************************************)
(* The barrier.                                                              *)
(***************************************************************************)

\* The sets that are counted are finite.
LEMMA UnreadyFinite == IsFiniteSet(Unready) /\ IsFiniteSet(Workers) /\ IsFiniteSet(Tasks)
<1>1. IsFiniteSet(Workers) /\ IsFiniteSet(Tasks) /\ Unready \subseteq Workers
  BY EngineAssumption DEF Unready
<1> QED
  BY <1>1, FS_Subset

\* Workers that have reported move around in their loops.
LEMMA BarrierRests ==
    ASSUME BarrierTypeOK, BarrierInv, UNCHANGED barrierVars,
           owner' = owner \/ owner' \in {"starting", "barrier", "stopping", "dropped"},
           \A w \in Workers : pos'[w] \in {"none", "prerun"} <=> pos[w] \in {"none", "prerun"}
    PROVE  BarrierTypeOK' /\ BarrierInv'
<1>1. Unready' = Unready
  BY DEF Unready
<1>2. BarrierTypeOK'
  BY DEF BarrierTypeOK
<1> QED
  BY <1>1, <1>2 DEF BarrierInv, BarrierNotLost, BuiltIsReady

\* The caller of start() goes on only when the count, which is exact, is zero.
LEMMA WaitCounts ==
    ASSUME BarrierTypeOK, BarrierInv, WaitForAll \/ WaitTimeout
    PROVE  BarrierTypeOK' /\ BarrierInv'
<1>1. cond = 0 => Unready = {}
  BY UnreadyFinite, FS_EmptySet, Zenon DEF BarrierInv
<1>2. /\ UNCHANGED <<pos, cond, readyNtf>> /\ woken' \in {woken, FALSE}
      /\ owner' = IF cond = 0 THEN "built" ELSE IF WaitForAll THEN "asleep" ELSE "stopping"
  BY Zenon DEF WaitForAll, WaitTimeout
<1>3. BarrierTypeOK'
  BY <1>2, Zenon DEF BarrierTypeOK
<1>4. Unready' = Unready
  BY <1>2 DEF Unready
<1>5. BarrierNotLost' /\ BuiltIsReady'
  BY <1>1, <1>2 DEF BarrierNotLost, BuiltIsReady, Unready
<1> QED
  BY <1>2, <1>3, <1>4, <1>5 DEF BarrierInv

\* A worker counts down.
LEMMA ReadyCounts ==
    ASSUME ControlTypeOK, BarrierTypeOK, BarrierInv, NEW w \in Workers, Ready(w)
    PROVE  BarrierTypeOK' /\ BarrierInv'
<1>1. /\ pos[w] = "prerun" /\ pos' = [pos EXCEPT ![w] = "loop"] /\ cond' = cond - 1
      /\ readyNtf' = readyNtf \cup {w} /\ UNCHANGED <<owner, woken>>
  BY DEF Ready, Goto
<1>2. pos'[w] = "loop" /\ \A v \in Workers \ {w} : pos'[v] = pos[v]
  BY <1>1 DEF ControlTypeOK
<1>3. w \in Unready /\ Unready' = Unready \ {w}
  BY <1>1, <1>2 DEF Unready
<1>4. IsFiniteSet(Unready \ {w}) /\ Cardinality(Unready \ {w}) = Cardinality(Unready) - 1
  BY <1>3, UnreadyFinite, FS_RemoveElement
<1>5. Cardinality(Unready \ {w}) \in Nat
  BY <1>4, FS_CardinalityType
<1>6. cond' = Cardinality(Unready') /\ cond' \in Nat
  BY <1>1, <1>3, <1>4, <1>5 DEF BarrierInv
<1>7. cond \in 0..Cardinality(Workers) /\ Cardinality(Workers) \in Nat
  BY UnreadyFinite, FS_CardinalityType DEF BarrierTypeOK
<1>8. cond' \in 0..Cardinality(Workers)
  BY <1>1, <1>6, <1>7
<1>9. BarrierTypeOK'
  BY <1>1, <1>8 DEF BarrierTypeOK
<1>10. BuiltIsReady' /\ BarrierNotLost'
  BY <1>1, <1>2 DEF BarrierInv, BuiltIsReady, BarrierNotLost
<1> QED
  BY <1>6, <1>9, <1>10 DEF BarrierInv

\* It notifies the barrier.
LEMMA ReadyNotifyCounts ==
    ASSUME BarrierTypeOK, BarrierInv, NEW w \in Workers, ReadyNotify(w)
    PROVE  BarrierTypeOK' /\ BarrierInv'
<1>1. /\ readyNtf' = readyNtf \ {w} /\ woken' = (owner = "asleep" \/ woken)
      /\ UNCHANGED <<owner, pos, cond>>
  BY DEF ReadyNotify
<1>2. BarrierTypeOK'
  BY <1>1 DEF BarrierTypeOK
<1>3. Unready' = Unready /\ BuiltIsReady' /\ BarrierNotLost'
  BY <1>1, Zenon DEF BarrierInv, Unready, BuiltIsReady, BarrierNotLost
<1> QED
  BY <1>1, <1>2, <1>3 DEF BarrierInv

\* A worker that has reported goes to another place of its loop.
LEMMA MoveCounts ==
    ASSUME ControlTypeOK, BarrierTypeOK, BarrierInv, UNCHANGED <<owner, barrierVars>>,
           NEW w \in Workers, NEW p \in {"loop", "drain", "poll", "block", "asleep", "ended"},
           pos' = [pos EXCEPT ![w] = p], pos[w] \in {"loop", "drain", "poll", "block", "asleep"}
    PROVE  BarrierTypeOK' /\ BarrierInv'
<1>1. pos'[w] = p /\ \A v \in Workers \ {w} : pos'[v] = pos[v]
  BY DEF ControlTypeOK
<1> QED
  BY <1>1, BarrierRests

\* The count is right whatever thread takes a step.
LEMMA BarrierStep ==
    ASSUME ControlTypeOK, BarrierTypeOK, BarrierInv, [Next]_vars
    PROVE  BarrierTypeOK' /\ BarrierInv'
<1> DEFINE Goal == BarrierTypeOK' /\ BarrierInv'
           Still == UNCHANGED <<owner, barrierVars, pos>>
<1>1. ASSUME Still PROVE Goal
  BY <1>1, BarrierRests
<1>2. ASSUME NEW w \in Workers, StartWorker(w) PROVE Goal
  <2>1. pos[w] = "none" /\ pos' = [pos EXCEPT ![w] = "prerun"] /\ UNCHANGED <<owner, barrierVars>>
    BY <1>2 DEF StartWorker, StartSafety, StartAsync, StartDedicated, SpawnThread
  <2>2. pos'[w] = "prerun" /\ \A v \in Workers \ {w} : pos'[v] = pos[v]
    BY <2>1 DEF ControlTypeOK
  <2> QED
    BY <2>1, <2>2, BarrierRests
<1>3. ASSUME NEW w \in Workers,
             \/ LoopTop(w) \/ StopIsLost(w) \/ SleepEnds(w)
             \/ QueueLoop(w) \/ PollEntry(w) \/ EntryDone(w) \/ EntryPending(w)
      PROVE  Goal
  <2>1. CASE Block(w) \/ BlockAgain(w)
    BY <1>1, <2>1 DEF Block, BlockAgain
  <2>2. CASE ~(Block(w) \/ BlockAgain(w))
    <3> USE DEF QueueLoop, LoopTop, StopIsLost, SleepEnds, RunTask, PollDone, PollNotified, Refill, TakeOne, BlockTimeout,
                PollEntry, EntryDone, EntryPending
    <3>1. pos[w] \in {"loop", "drain", "poll", "block", "asleep"} /\ UNCHANGED <<owner, barrierVars>>
      BY <1>3, <2>2, Zenon
    <3>2. \E p \in {"loop", "drain", "poll", "block", "asleep", "ended"} : Goto(w, p)
      BY <1>3, <2>2, Zenon
    <3> HIDE DEF QueueLoop, LoopTop, StopIsLost, SleepEnds, RunTask, PollDone, PollNotified, Refill, TakeOne, BlockTimeout,
                 PollEntry, EntryDone, EntryPending
    <3> QED
      BY <3>1, <3>2, MoveCounts, Zenon DEF Goto
  <2> QED
    BY <2>1, <2>2
<1>4. CASE StartFails \/ Started \/ RunInEngine \/ Shutdown \/ Drop \/ \E w \in Workers : Stop(w)
  BY <1>4, BarrierRests DEF StartFails, Started, RunInEngine, Shutdown, Drop, Stop
<1>5. CASE Join \/ JoinBlocks \/ JoinTakes \/ \E p \in Pushers : Notify(p)
  BY <1>1, <1>5 DEF Join, JoinBlocks, JoinTakes, Notify
<1>6. ASSUME NEW p \in Producers, NEW t \in Tasks, Wake(p, t) \/ \E w \in Blocking : SpawnOn(p, t, w) PROVE Goal
  BY <1>1, <1>6 DEF Wake, SpawnOn
<1>7. CASE UNCHANGED vars
  BY <1>1, <1>7 DEF vars
<1>8. ASSUME NEW w \in Workers, WorkerStep(w) \/ StopIsLost(w) \/ SleepEnds(w) PROVE Goal
  BY <1>3, <1>8, ReadyCounts, ReadyNotifyCounts
     DEF WorkerStep, RunAsync, RunDedicated, RunSafety, Report
<1>9. CASE OwnerStep
  BY <1>2, <1>4, <1>9, WaitCounts DEF OwnerStep
<1> QED
  BY <1>5, <1>6, <1>7, <1>8, <1>9 DEF Next

(***************************************************************************)
(* Queues that are large enough.                                             *)
(***************************************************************************)

\* Tasks are spawned, and none is lost.
LEMMA NoneLost ==
    ASSUME NoLossInBounds,
           \A t \in Tasks : home[t] # NoTask => home'[t] = home[t],
           \A t \in Tasks : task'[t] \in {"lost", "refused"} =>
               task[t] \in {"lost", "refused"} /\ home'[t] = home[t]
    PROVE  NoLossInBounds'
<1> SUFFICES ASSUME NEW w \in Blocking, Cardinality({t \in Tasks : home'[t] = w}) <= Capacity[w],
                    NEW t \in Tasks, home'[t] = w, task'[t] \in {"lost", "refused"}
             PROVE  FALSE
  BY DEF NoLossInBounds
<1> DEFINE H == {u \in Tasks : home[u] = w}
           G == {u \in Tasks : home'[u] = w}
<1>1. H \subseteq G /\ G \subseteq Tasks
  BY EngineSets
<1>2. IsFiniteSet(G)
  BY <1>1, UnreadyFinite, FS_Subset
<1>3. Cardinality(H) <= Cardinality(G) /\ Cardinality(G) \in Nat /\ Cardinality(H) \in Nat
  BY <1>1, <1>2, FS_Subset, FS_CardinalityType
<1>4. Capacity[w] \in Nat
  BY EngineSets
<1>5. Cardinality(H) <= Capacity[w]
  BY <1>3, <1>4
<1> QED
  BY <1>5 DEF NoLossInBounds

\* A full queue, and one more task of its worker: more than the queue holds.
LEMMA FullIsTooSmall ==
    ASSUME QueueTypeOK, HoldInv, NEW w \in Blocking, Full(w),
           NEW t \in Tasks, task[t] # "queued",
           NEW H \in SUBSET Tasks, t \in H, Waiting(w) \subseteq H,
           Cardinality(H) <= Capacity[w]
    PROVE  FALSE
<1> DEFINE n == Capacity[w]
           f == [i \in 1..(n + 1) |-> IF i = n + 1 THEN t ELSE items[w][i]]
<1>1. n \in Nat /\ items[w] \in Seq(Tasks \cup {EntryTask}) /\ DOMAIN items[w] = 1..n
  BY EngineSets DEF QueueTypeOK, Full
<1>2. \A i \in 1..n : items[w][i] \in Waiting(w)
  BY <1>1 DEF HoldInv, Elements
<1>3. \A i \in 1..n : items[w][i] \in H /\ items[w][i] # t
  BY <1>2 DEF Waiting
<1>4. \A i, k \in 1..n : items[w][i] = items[w][k] => i = k
  BY <1>1 DEF HoldInv, Distinct
<1> HIDE DEF n
<1>5. IsFiniteSet(H) /\ Cardinality(H) \in Nat
  BY UnreadyFinite, FS_Subset, FS_CardinalityType
<1> DEFINE D == 1..(n + 1)
<1>6. IsFiniteSet(D) /\ Cardinality(D) = n + 1
  BY <1>1, FS_Interval
<1>7. Cardinality(H) < Cardinality(D)
  BY <1>1, <1>5, <1>6 DEF n
<1>8. f \in [D -> H]
  BY <1>1, <1>3
<1> HIDE DEF f, D
<1>9. \E i, k \in D : i # k /\ f[i] = f[k]
  BY <1>5, <1>6, <1>7, <1>8, FS_PigeonHole
<1> QED
  BY <1>1, <1>3, <1>4, <1>9 DEF f, D

\* A push is refused: the worker has more tasks than its queue holds.
LEMMA LossIsExcused ==
    ASSUME QueueTypeOK, HoldInv, NoLossInBounds, NEW w \in Blocking, Full(w),
           NEW t \in Tasks, task[t] # "queued", home'[t] = w, home[t] \in {w, NoTask},
           \A u \in Tasks \ {t} : home'[u] = home[u] /\ task'[u] = task[u]
    PROVE  NoLossInBounds'
<1> SUFFICES ASSUME NEW v \in Blocking, Cardinality({u \in Tasks : home'[u] = v}) <= Capacity[v]
             PROVE  \A u \in Tasks : home'[u] = v => task'[u] \notin {"lost", "refused"}
  BY DEF NoLossInBounds
<1> DEFINE G == {u \in Tasks : home'[u] = v}
<1>1. CASE v = w
  <2>1. t \in G /\ Waiting(w) \subseteq G /\ G \in SUBSET Tasks
    BY <1>1 DEF Waiting
  <2> QED
    BY <1>1, <2>1, FullIsTooSmall
<1>2. CASE v # w
  <2>1. G = {u \in Tasks : home[u] = v} /\ t \notin G
    BY <1>2, EngineSets
  <2> QED
    BY <2>1 DEF NoLossInBounds
<1> QED
  BY <1>1, <1>2

\* The steps that touch no task, and where the others come from.
LEMMA LossStep ==
    ASSUME PlaceInv, NoLossInBounds, [Next]_vars
    PROVE  NoLossInBounds'
<1>1. ASSUME UNCHANGED <<task, home>> PROVE NoLossInBounds'
  BY <1>1 DEF NoLossInBounds
<1>2. ASSUME NEW t \in Tasks, NEW x, x \notin {"lost", "refused"},
             task' = [task EXCEPT ![t] = x], UNCHANGED home
      PROVE  NoLossInBounds'
  <2>1. task'[t] = x /\ \A u \in Tasks \ {t} : task'[u] = task[u]
    BY <1>2 DEF PlaceInv, ControlTypeOK
  <2> QED
    BY <1>2, <2>1, NoneLost
<1>3. ASSUME NEW t \in Tasks, NEW w \in Blocking, Full(w), task[t] # "queued", NEW x,
             task' = [task EXCEPT ![t] = x], home'[t] = w, home[t] \in {w, NoTask},
             \A u \in Tasks \ {t} : home'[u] = home[u]
      PROVE  NoLossInBounds'
  <2>1. \A u \in Tasks \ {t} : task'[u] = task[u]
    BY <1>3 DEF PlaceInv, ControlTypeOK
  <2> QED
    BY <1>3, <2>1, LossIsExcused DEF PlaceInv
<1>4. ASSUME NEW w \in Workers, RunTask(w) PROVE NoLossInBounds'
  <2>1. local[w] \in Seq(Tasks) /\ local[w] # <<>> /\ w \in Blocking
    BY <1>4 DEF RunTask, PlaceInv, StorageTypeOK
  <2>2. local[w][Len(local[w])] \in Tasks
    BY <2>1
  <2>3. task' = [task EXCEPT ![local[w][Len(local[w])]] = "polled"] /\ UNCHANGED home
    BY <1>4, <2>1, EngineSets DEF RunTask, PlaceInv, ControlTypeOK
  <2> QED
    BY <1>2, <2>2, <2>3, Zenon
<1>5. ASSUME NEW w \in Workers, PollDone(w) \/ PollNotified(w) PROVE NoLossInBounds'
  <2>1. /\ w \in Blocking /\ running[w] \in Tasks /\ home[running[w]] = w /\ UNCHANGED home
        /\ task[running[w]] = "polled"
    BY <1>5, EngineSets DEF PollDone, PollNotified, PlaceInv, PollInv, ControlTypeOK
  <2>2. CASE PollDone(w)
    BY <1>2, <2>1, <2>2, SMTT(20) DEF PollDone
  <2>3. CASE PollNotified(w) /\ ~Full(w)
    BY <1>2, <2>1, <2>3 DEF PollNotified
  <2>4. CASE PollNotified(w) /\ Full(w)
    BY <1>3, <2>1, <2>4 DEF PollNotified
  <2> QED
    BY <1>5, <2>2, <2>3, <2>4
<1>6. ASSUME NEW p \in Producers, NEW t \in Tasks, Wake(p, t) PROVE NoLossInBounds'
  <2>1. CASE UNCHANGED task
    BY <1>1, <1>6, <2>1 DEF Wake
  <2>2. CASE task[t] = "idle" /\ task' # task
    <3>1. home[t] \in Blocking /\ UNCHANGED home
      BY <1>6, <2>2, SMTT(20) DEF Wake, PlaceInv, PollInv, ControlTypeOK
    <3>2. CASE Full(home[t])
      BY <1>3, <1>6, <2>2, <3>1, <3>2 DEF Wake
    <3>3. CASE ~Full(home[t])
      BY <1>2, <1>6, <2>2, <3>1, <3>3 DEF Wake
    <3> QED
      BY <3>2, <3>3
  <2> QED
    BY <1>6, <2>1, <2>2 DEF Wake
<1>7. ASSUME NEW p \in Producers, NEW t \in Tasks, NEW w \in Blocking, SpawnOn(p, t, w) PROVE NoLossInBounds'
  <2>1. /\ task[t] = "new" /\ home[t] = NoTask /\ home'[t] = w
        /\ \A u \in Tasks \ {t} : home'[u] = home[u]
    BY <1>7 DEF SpawnOn, PlaceInv, PollInv, ControlTypeOK
  <2>2. CASE Full(w)
    BY <1>3, <1>7, <2>1, <2>2 DEF SpawnOn
  <2>3. CASE ~Full(w)
    <3>1. task'[t] = "queued" /\ \A u \in Tasks \ {t} : task'[u] = task[u]
      BY <1>7, <2>3, SMTT(20) DEF SpawnOn, PlaceInv, ControlTypeOK
    <3> QED
      BY <2>1, <3>1, NoneLost
  <2> QED
    BY <2>2, <2>3
<1>8. ASSUME NEW w \in Workers, Report(w) \/ Refill(w) \/ Block(w) \/ TakeOne(w) \/ BlockTimeout(w) \/ BlockAgain(w)
      PROVE  NoLossInBounds'
  <2>1. CASE Report(w)
    BY <1>1, <2>1, Zenon DEF Report, Ready, ReadyNotify, LoopTop
  <2>2. CASE Refill(w) \/ Block(w) \/ TakeOne(w) \/ BlockTimeout(w) \/ BlockAgain(w)
    BY <1>1, <2>2, Zenon DEF Refill, Block, TakeOne, BlockTimeout, BlockAgain
  <2> QED
    BY <1>8, <2>1, <2>2
<1>9. ASSUME NEW w \in Workers, PollEntry(w) \/ EntryDone(w) \/ EntryPending(w) \/ StopIsLost(w) \/ SleepEnds(w)
      PROVE  NoLossInBounds'
  BY <1>1, <1>9, Zenon DEF PollEntry, EntryDone, EntryPending, StopIsLost, SleepEnds
<1>10. ASSUME NEW w \in Workers, WorkerStep(w) \/ StopIsLost(w) \/ SleepEnds(w) PROVE NoLossInBounds'
  BY <1>4, <1>5, <1>8, <1>9, <1>10 DEF WorkerStep, RunAsync, RunDedicated, RunSafety, QueueLoop
<1>11. ASSUME NEW w \in Workers, StartWorker(w) \/ Stop(w) PROVE NoLossInBounds'
  BY <1>1, <1>11 DEF StartWorker, StartSafety, StartAsync, StartDedicated, SpawnThread, Stop
<1>12. CASE OwnerStep
  BY <1>1, <1>11, <1>12 DEF OwnerStep, StartFails, Started, WaitForAll, WaitTimeout, RunInEngine, Shutdown, Drop
<1>13. CASE Join \/ JoinBlocks \/ JoinTakes \/ (\E p \in Pushers : Notify(p)) \/ UNCHANGED vars
  BY <1>1, <1>13 DEF Join, JoinBlocks, JoinTakes, Notify, vars
<1> QED
  BY <1>6, <1>7, <1>10, <1>12, <1>13 DEF Next

(***************************************************************************)
(* The invariant, and what follows from it.                                  *)
(***************************************************************************)

\* The invariant of an engine, always.
LEMMA EngineInvariant == Spec => []EngineInv
<1>1. Init => BarrierTypeOK /\ BarrierInv /\ NoLossInBounds
  <2> SUFFICES ASSUME Init PROVE BarrierTypeOK /\ BarrierInv /\ NoLossInBounds
    OBVIOUS
  <2>1. Cardinality(Workers) \in Nat
    BY UnreadyFinite, FS_CardinalityType
  <2>2. BarrierTypeOK
    <3>1. cond \in 0..Cardinality(Workers)
      BY <2>1 DEF Init
    <3> QED
      BY <3>1, Zenon DEF Init, BarrierTypeOK
  <2>3. Unready = Workers
    BY DEF Init, Unready
  <2>4. BarrierInv
    BY <2>3 DEF Init, BarrierInv, BarrierNotLost, BuiltIsReady
  <2>5. NoLossInBounds
    BY DEF Init, NoLossInBounds
  <2> QED
    BY <2>2, <2>4, <2>5
<1>2. EngineInv /\ [Next]_vars => EngineInv'
  <2> SUFFICES ASSUME EngineInv, [Next]_vars PROVE EngineInv'
    OBVIOUS
  <2>1. PlaceInv'
    BY PlaceStep DEF EngineInv
  <2>2. BarrierTypeOK' /\ BarrierInv'
    BY BarrierStep DEF EngineInv, PlaceInv
  <2>3. NoLossInBounds'
    BY LossStep DEF EngineInv
  <2> QED
    BY <2>1, <2>2, <2>3 DEF EngineInv
<1>3. Init => EngineInv
  BY <1>1, PlaceInit DEF EngineInv
<1> QED
  BY <1>2, <1>3, PTL DEF Spec

\* A list without repetitions holds each of its values at one place.
LEMMA HeldOnce ==
    ASSUME NEW list, Distinct(list), NEW t, t \in Elements(list)
    PROVE  \E i : Holds(list, t) = {i}
<1>1. PICK i \in DOMAIN list : list[i] = t
  BY DEF Elements
<1>2. Holds(list, t) = {i}
  BY <1>1 DEF Holds, Distinct
<1> QED
  BY <1>2

\* The invariant locates the one reference of a task.
LEMMA EngineReferences == PlaceInv => OneReference
<1> SUFFICES ASSUME PlaceInv, NEW t \in Tasks
             PROVE  /\ Cardinality(InQueue(t)) + Cardinality(InBatch(t)) = IF task[t] = "queued" THEN 1 ELSE 0
                    /\ Cardinality(InPoll(t)) = IF task[t] = "polled" THEN 1 ELSE 0
                    /\ \A w \in Blocking :
                         running[w] = t \/ Holds(items[w], t) # {} \/ Holds(local[w], t) # {} => home[t] = w
  BY DEF OneReference
<1> USE DEF PlaceInv
<1> DEFINE h == home[t]
<1>1. Cardinality({}) = 0 /\ \A x : Cardinality({x}) = 1
  BY FS_EmptySet, FS_Singleton
<1>2. \A w \in Blocking : t \notin Elements(items[w]) => Holds(items[w], t) = {}
  BY DEF Holds, Elements
<1>3. \A w \in Blocking : t \notin Elements(local[w]) => Holds(local[w], t) = {}
  BY DEF Holds, Elements
<1>4. \A w \in Blocking : t \in Elements(items[w]) \/ t \in Elements(local[w]) => task[t] = "queued" /\ w = h
  BY DEF HoldInv, Waiting
<1>5. \A w \in Blocking \ {h} : Holds(items[w], t) = {} /\ Holds(local[w], t) = {}
  BY <1>2, <1>3, <1>4
<1>6. ASSUME task[t] = "queued" PROVE Cardinality(InQueue(t)) + Cardinality(InBatch(t)) = 1
  <2>1. h \in Blocking /\ t \in Waiting(h)
    BY <1>6 DEF HoldInv, Waiting
  <2> HIDE DEF h
  <2>2. /\ Distinct(items[h]) /\ Distinct(local[h])
        /\ Elements(items[h]) \cup Elements(local[h]) = Waiting(h)
        /\ Elements(items[h]) \cap Elements(local[h]) = {}
    BY <2>1 DEF HoldInv
  <2>3. InQueue(t) = {h} \X Holds(items[h], t) /\ InBatch(t) = {h} \X Holds(local[h], t)
    BY <1>5, <2>1 DEF InQueue, InBatch
  <2>4. CASE t \in Elements(items[h])
    <3>1. PICK i : Holds(items[h], t) = {i}
      BY <2>2, <2>4, HeldOnce, Zenon
    <3>2. InQueue(t) = {<<h, i>>} /\ InBatch(t) = {}
      BY <1>3, <2>1, <2>2, <2>3, <2>4, <3>1
    <3>3. Cardinality(InQueue(t)) = 1 /\ Cardinality(InBatch(t)) = 0
      BY ONLY <1>1, <3>2, Zenon
    <3> QED
      BY <3>3
  <2>5. CASE t \in Elements(local[h])
    <3>1. PICK i : Holds(local[h], t) = {i}
      BY <2>2, <2>5, HeldOnce
    <3>2. InBatch(t) = {<<h, i>>} /\ InQueue(t) = {}
      BY <1>2, <2>1, <2>2, <2>3, <2>5, <3>1
    <3>3. Cardinality(InBatch(t)) = 1 /\ Cardinality(InQueue(t)) = 0
      BY ONLY <1>1, <3>2, Zenon
    <3> QED
      BY <3>3
  <2> QED
    BY <2>1, <2>2, <2>4, <2>5
<1>7. ASSUME task[t] # "queued" PROVE Cardinality(InQueue(t)) + Cardinality(InBatch(t)) = 0
  <2>1. InQueue(t) = {} /\ InBatch(t) = {}
    BY <1>2, <1>3, <1>4, <1>7 DEF InQueue, InBatch
  <2> QED
    BY <1>1, <2>1
<1>8. Cardinality(InQueue(t)) + Cardinality(InBatch(t)) = IF task[t] = "queued" THEN 1 ELSE 0
  BY <1>6, <1>7
<1>9. Cardinality(InPoll(t)) = IF task[t] = "polled" THEN 1 ELSE 0
  <2>1. CASE task[t] = "polled"
    <3>1. InPoll(t) = {h}
      BY <2>1, EngineSets DEF InPoll, PollInv
    <3> QED
      BY <1>1, <2>1, <3>1, Zenon
  <2>2. CASE task[t] # "polled"
    <3>1. InPoll(t) = {}
      BY <2>2, EngineSets DEF InPoll, PollInv
    <3> QED
      BY <1>1, <2>2, <3>1
  <2> QED
    BY <2>1, <2>2
<1>10. \A w \in Blocking :
         running[w] = t \/ Holds(items[w], t) # {} \/ Holds(local[w], t) # {} => home[t] = w
  BY <1>5, EngineSets DEF PollInv
<1> QED
  BY <1>8, <1>9, <1>10

\* ExecutionEngine::start hands out an engine only when every worker has counted
\* down the ThreadWaitBarrier, whatever the order of starts, reports and timeouts.
THEOREM BuiltEngineIsReady == Spec => []BuiltIsReady
<1>1. EngineInv => BuiltIsReady
  BY DEF EngineInv, BarrierInv
<1> QED
  BY <1>1, EngineInvariant, PTL

\* No thread sleeps in a TriggerQueue beside a value, nor in wait_for_all when all
\* workers are ready, unless a notify is on its way: skipping the notify of an
\* awake consumer, and notifying after the unlock, lose no wake-up.
THEOREM NoSleeperIsForgotten == Spec => []SleeperIsNotified
<1>1. EngineInv => SleeperIsNotified
  BY DEF EngineInv, PlaceInv, BarrierInv, QueueInv, SleeperIsNotified
<1> QED
  BY <1>1, EngineInvariant, PTL

\* A task of a dedicated or safety worker has one reference while it waits or is
\* polled, on the worker it was spawned to, and none otherwise; and it is lost or
\* refused only when more tasks were spawned to that worker than its queue holds.
THEOREM ReferencesAreKept == Spec => []ReferencesKept
<1>1. EngineInv => ReferencesKept
  BY EngineReferences DEF EngineInv, PlaceInv, ReferencesKept, TypeOK
<1> QED
  BY <1>1, EngineInvariant, PTL

(***************************************************************************)
(* The ids that the builders give.                                           *)
(***************************************************************************)

\* What the assertions of workers() and with_dedicated_worker() keep true of
\* the builder; the limit on dedicated workers is what makes it inductive.
LegalBuilder ==
    /\ builder.workers \in 1..MaxWorkers
    /\ builder.dedicated \in Seq(Names) /\ Len(builder.dedicated) <= MaxDedicated
    /\ builder = [id |-> builder.id, workers |-> builder.workers, queue |-> builder.queue,
                  dedicated |-> builder.dedicated, safety |-> builder.safety,
                  safetyQueue |-> builder.safetyQueue]

\* A new builder is legal.
LEMMA NewBuilderLegal == builder = NewBuilder => LegalBuilder
  BY BuilderAssumption DEF NewBuilder, LegalBuilder

\* Every call keeps the builder legal.
LEMMA LegalBuilderStep == LegalBuilder /\ [BuilderNext]_builderVars => LegalBuilder'
  <1> SUFFICES ASSUME LegalBuilder, [BuilderNext]_builderVars PROVE LegalBuilder'
    OBVIOUS
  <1>1. ASSUME NEW n \in 1..MaxWorkers, SetWorkers(n) PROVE LegalBuilder'
    BY <1>1 DEF SetWorkers, Configure, LegalBuilder
  <1>2. ASSUME NEW n \in QueueSizes, TaskQueueSize(n) PROVE LegalBuilder'
    BY <1>2 DEF TaskQueueSize, Configure, LegalBuilder
  <1>3. ASSUME NEW n \in QueueSizes, SafetyWorkerTaskQueueSize(n) PROVE LegalBuilder'
    BY <1>3 DEF SafetyWorkerTaskQueueSize, Configure, LegalBuilder
  <1>4. ASSUME NEW name \in Names, WithDedicatedWorker(name) PROVE LegalBuilder'
    <2>1. builder' = [builder EXCEPT !.dedicated = Append(@, name)] /\ Len(builder.dedicated) < MaxDedicated
      BY <1>4 DEF WithDedicatedWorker, Configure
    <2>2. /\ Append(builder.dedicated, name) \in Seq(Names)
          /\ Len(Append(builder.dedicated, name)) = Len(builder.dedicated) + 1
      BY DEF LegalBuilder
    <2>3. Len(builder.dedicated) \in Nat
      BY DEF LegalBuilder
    <2>4. Len(builder.dedicated) + 1 <= MaxDedicated
      BY <2>1, <2>3, BuilderAssumption
    <2>5. builder'.dedicated = Append(builder.dedicated, name) /\ builder'.workers = builder.workers
      BY <2>1 DEF LegalBuilder
    <2>6. builder' = [id |-> builder'.id, workers |-> builder'.workers, queue |-> builder'.queue,
                      dedicated |-> builder'.dedicated, safety |-> builder'.safety,
                      safetyQueue |-> builder'.safetyQueue]
      BY <2>1, Zenon DEF LegalBuilder
    <2> QED BY <2>2, <2>4, <2>5, <2>6 DEF LegalBuilder
  <1>5. CASE EnableSafetyWorker
    BY <1>5, Zenon DEF EnableSafetyWorker, Configure, LegalBuilder
  <1>6. CASE WithEngine
    BY <1>6, BuilderAssumption DEF WithEngine, NewBuilder, LegalBuilder
  <1>7. CASE BuildEngine
    BY <1>7, BuilderAssumption DEF BuildEngine, NewBuilder, LegalBuilder
  <1>8. CASE BuildRuntime
    BY <1>8, BuilderAssumption DEF BuildRuntime, NewBuilder, LegalBuilder
  <1>9. CASE ShutdownRuntime
    BY <1>9 DEF ShutdownRuntime, LegalBuilder
  <1>10. ASSUME NEW id \in 0..MaxEngines, SpawnInEngine(id) PROVE LegalBuilder'
    BY <1>10 DEF SpawnInEngine, LegalBuilder
  <1>11. CASE UNCHANGED builderVars
    BY <1>11 DEF builderVars, LegalBuilder
  <1> QED BY <1>1, <1>2, <1>3, <1>4, <1>5, <1>6, <1>7, <1>8, <1>9, <1>10, <1>11 DEF BuilderNext

\* Cutting an id to the width of a u8 changes none that a legal builder gives.
LEMMA IdsFit ==
    ASSUME LegalBuilder, NEW n \in Nat, n <= builder.workers + Len(builder.dedicated)
    PROVE  n % IdWidth = n
  <1>1. Len(builder.dedicated) \in Nat /\ builder.workers \in Nat
    BY BuilderAssumption DEF LegalBuilder
  <1>2. builder.workers <= MaxWorkers /\ Len(builder.dedicated) <= MaxDedicated
    BY BuilderAssumption DEF LegalBuilder
  <1>3. n < IdWidth
    BY <1>1, <1>2, BuilderAssumption
  <1> QED BY <1>3, BuilderAssumption

\* The ids of a legal builder are distinct.
LEMMA LegalIdsDistinct == LegalBuilder => WorkerIdsDistinct
  <1> SUFFICES ASSUME LegalBuilder PROVE DistinctIds(Build(builder))
    BY DEF WorkerIdsDistinct
  <1> DEFINE w == builder.workers
             d == Len(builder.dedicated)
  <1>0. w \in Nat /\ d \in Nat /\ w >= 1
    BY BuilderAssumption DEF LegalBuilder
  <1>1. \A j \in 1..w : AsyncIds(builder)[j] = j - 1
    BY <1>0, IdsFit DEF AsyncIds
  <1>2. \A k \in 1..d : DedicatedIds(builder)[k] = w + k - 1
    BY <1>0, IdsFit DEF DedicatedIds
  <1>3. SafetyId(builder) = w + d
    BY <1>0, IdsFit DEF SafetyId
  <1>4. DOMAIN AsyncIds(builder) = 1..w /\ DOMAIN DedicatedIds(builder) = 1..d
    BY DEF AsyncIds, DedicatedIds
  <1>5. /\ Build(builder).async = AsyncIds(builder)
        /\ Build(builder).dedicated = DedicatedIds(builder)
        /\ Build(builder).safetyId = SafetyId(builder)
    BY DEF Build
  <1>6. w + d < MainThreadId /\ MainThreadId \in Nat
    BY <1>0, BuilderAssumption DEF LegalBuilder, MainThreadId
  <1> HIDE DEF w, d
  <1> QED BY <1>0, <1>1, <1>2, <1>3, <1>4, <1>5, <1>6 DEF DistinctIds

\* Whatever a program tells an ExecutionEngineBuilder, the workers of the engine
\* that build() makes have distinct u8 ids, none that of the main thread, and each
\* async worker's id is its index.
THEOREM WorkersAreDistinct == BuilderSpec => []WorkerIdsDistinct
  <1>1. BuilderInit => LegalBuilder
    BY NewBuilderLegal DEF BuilderInit
  <1> QED BY <1>1, LegalBuilderStep, LegalIdsDistinct, PTL DEF BuilderSpec
=============================================================================
