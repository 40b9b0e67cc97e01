---------------------------- MODULE EngineBuilder ----------------------------
(***************************************************************************)
(* RuntimeBuilder and ExecutionEngineBuilder: what the calls of a program  *)
(* configure, the ids that build() gives to engines and workers, and the   *)
(* runtime that finds an engine by the id with_engine returned.  A call    *)
(* whose assertion fails ends the program and is no step.                  *)
(***************************************************************************)
EXTENDS GrowableVec, FiniteSets

CONSTANTS
    Names,          \* UniqueWorkerIds of dedicated workers
    QueueSizes,     \* sizes a program asks for
    MaxWorkers,     \* MAX_NUM_OF_WORKERS, 128
    MaxDedicated,   \* MAX_NUM_OF_DEDICATED_WORKERS, 126
    IdWidth,        \* 256: engine and worker ids are u8
    MaxEngines      \* bound: engines configured and added

ASSUME BuilderAssumption ==
    /\ MaxWorkers \in Nat \ {0} /\ MaxDedicated \in Nat /\ MaxEngines \in Nat
    /\ IdWidth \in Nat /\ MaxWorkers + MaxDedicated + 1 < IdWidth
    /\ QueueSizes \subseteq Nat

VARIABLES
    builder,    \* the ExecutionEngineBuilder being configured
    builders,   \* RuntimeBuilder::engine_builders
    nextId,     \* RuntimeBuilder::next_id
    engines,    \* the engines built so far
    phase,      \* "configuring", "building", "built" or "shutdown"
    target      \* the engine the last spawn_in_engine went to, and for which id

builderVars == <<builder, builders, nextId, engines, phase, target>>

NoTarget == [asked |-> 0, engine |-> 0]
NewBuilder ==
    [id |-> 0, workers |-> 1, queue |-> 256, dedicated |-> <<>>, safety |-> FALSE, safetyQueue |-> 64]
BuilderInit ==
    /\ builder = NewBuilder /\ builders = NewVec(1) /\ nextId = 0
    /\ engines = NewVec(1) /\ phase = "configuring" /\ target = NoTarget

-----------------------------------------------------------------------------
(* ExecutionEngineBuilder                                                    *)

PowersOfTwo == {2^k : k \in 0..30}
\* No builder is configured beyond the last engine that is added (a bound).
Configure(b) ==
    /\ phase = "configuring" /\ nextId < MaxEngines
    /\ builder' = b /\ UNCHANGED <<builders, nextId, engines, phase, target>>

SetWorkers(n) == n \in 1..MaxWorkers /\ Configure([builder EXCEPT !.workers = n])
TaskQueueSize(n) == n \in PowersOfTwo /\ Configure([builder EXCEPT !.queue = n])
EnableSafetyWorker == Configure([builder EXCEPT !.safety = TRUE])
SafetyWorkerTaskQueueSize(n) ==
    n \in PowersOfTwo /\ builder.safety /\ Configure([builder EXCEPT !.safetyQueue = n])

\* Mutant: one dedicated worker more than the limit.
WithDedicatedWorkerTooMany(name) ==
    /\ Len(builder.dedicated) <= MaxDedicated
    /\ \A k \in DOMAIN builder.dedicated : builder.dedicated[k] # name
    /\ Configure([builder EXCEPT !.dedicated = Append(@, name)])
WithDedicatedWorker(name) ==
    /\ Len(builder.dedicated) < MaxDedicated
    /\ \A k \in DOMAIN builder.dedicated : builder.dedicated[k] # name
    /\ Configure([builder EXCEPT !.dedicated = Append(@, name)])

\* The ids build() gives: 0..N to the async workers, as their id indexes
\* worker_access, then the dedicated ones, then the safety worker.  The last id
\* is that of the main thread, which creates the tasks run_in_engine is given.
MainThreadId == IdWidth - 1
AsyncIds(b) == [k \in 1..b.workers |-> (k - 1) % IdWidth]
DedicatedIds(b) == [k \in 1..Len(b.dedicated) |-> (b.workers + k - 1) % IdWidth]
SafetyId(b) == (b.workers + Len(b.dedicated)) % IdWidth

\* build: the engine with its workers.
Build(b) ==
    [id |-> b.id, async |-> AsyncIds(b), dedicated |-> DedicatedIds(b), names |-> b.dedicated,
     safety |-> b.safety, safetyId |-> SafetyId(b)]

-----------------------------------------------------------------------------
(* RuntimeBuilder and Runtime                                                *)

WithEngine ==
    /\ phase = "configuring" /\ nextId < MaxEngines
    /\ builders' = VecPush(builders, [builder EXCEPT !.id = nextId % IdWidth])
    /\ nextId' = nextId + 1 /\ builder' = NewBuilder
    /\ UNCHANGED <<engines, phase, target>>

\* RuntimeBuilder::build takes the builders from the back, one engine after
\* the other, and turns the result around.
BuildEngine ==
    /\ phase \in {"configuring", "building"} /\ VecLen(builders) > 0
    /\ phase' = "building" /\ builders' = Pop(builders) /\ builder' = NewBuilder
    /\ engines' = VecPush(engines, Build(builders.items[VecLen(builders)]))
    /\ UNCHANGED <<nextId, target>>
Reversed(s) == [k \in DOMAIN s |-> s[Len(s) + 1 - k]]
BuildRuntime ==
    /\ phase \in {"configuring", "building"} /\ VecLen(builders) = 0 /\ phase' = "built"
    /\ engines' = [engines EXCEPT !.items = IntoVec([engines EXCEPT !.items = Reversed(engines.items)])]
    /\ builder' = NewBuilder /\ UNCHANGED <<builders, nextId, target>>

\* spawn_in_engine, block_on_engine; spawn and block_on use engine 0.  An id
\* out of range is EngineNotAvailable.
SpawnInEngine(id) ==
    /\ phase = "built" /\ id < VecLen(engines)
    /\ target' = [asked |-> id, engine |-> engines.items[id + 1].id]
    /\ UNCHANGED <<builder, builders, nextId, engines, phase>>
ShutdownRuntime ==
    /\ phase = "built" /\ phase' = "shutdown"
    /\ UNCHANGED <<builder, builders, nextId, engines, target>>

BuilderNext ==
    \/ \E n \in 1..MaxWorkers : SetWorkers(n)
    \/ \E n \in QueueSizes : TaskQueueSize(n) \/ SafetyWorkerTaskQueueSize(n)
    \/ \E name \in Names : WithDedicatedWorker(name)
    \/ EnableSafetyWorker \/ WithEngine \/ BuildEngine \/ BuildRuntime \/ ShutdownRuntime
    \/ \E id \in 0..MaxEngines : SpawnInEngine(id)

BuilderSpec == BuilderInit /\ [][BuilderNext]_builderVars

-----------------------------------------------------------------------------
BuilderType ==
    [id : Nat, workers : 1..MaxWorkers, queue : Nat, dedicated : Seq(Names), safety : BOOLEAN, safetyQueue : Nat]
BuilderTypeOK ==
    /\ builder \in BuilderType /\ nextId \in Nat
    /\ phase \in {"configuring", "building", "built", "shutdown"}

\* No two workers of an engine get the same id, none that of the main thread,
\* and the id of an async worker is its index in worker_access: the ids are cut to
\* a u8, and the limits that workers() and with_dedicated_worker() assert leave
\* just room for all.
DistinctIds(e) ==
    /\ \A j \in DOMAIN e.async : e.async[j] = j - 1
    /\ \A j, k \in DOMAIN e.dedicated : e.dedicated[j] = e.dedicated[k] => j = k
    /\ \A j \in DOMAIN e.async, k \in DOMAIN e.dedicated : e.async[j] # e.dedicated[k]
    /\ \A j \in DOMAIN e.async : e.async[j] # e.safetyId
    /\ \A k \in DOMAIN e.dedicated : e.dedicated[k] # e.safetyId
    /\ MainThreadId \notin {e.async[j] : j \in DOMAIN e.async}
                         \cup {e.dedicated[k] : k \in DOMAIN e.dedicated} \cup {e.safetyId}
WorkerIdsDistinct == DistinctIds(Build(builder))

\* A name belongs to one dedicated worker of an engine, so that a task spawned
\* on it has one queue to go to.
NamesAreUnique == \A j, k \in DOMAIN builder.dedicated : builder.dedicated[j] = builder.dedicated[k] => j = k

\* The runtime finds under the id that with_engine returned the engine that was
\* configured there, although builders and engines are collected in vectors
\* that grow, the engines are built from the last to the first, and the result
\* is reversed once by build() and twice by the conversion.
EngineIsFound ==
    /\ phase \in {"built", "shutdown"} => \A k \in 1..nextId : engines.items[k].id = k - 1
    /\ target.engine = target.asked
=============================================================================
