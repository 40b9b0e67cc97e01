------------------------------- MODULE MCTasks -------------------------------
(***************************************************************************)
(* Tasks, on small instances: AsyncTask without and with safety tasks, where  *)
(* tasks are spawned and respawned, who sleeps for the timers, and the mock   *)
(* runtime.  These share no state, so a behaviour is one of the component in  *)
(* focus while the others rest in their initial states.                      *)
(***************************************************************************)
EXTENDS AsyncTask, TLC

CONSTANTS p, c1, c2, a, s, w1, w2, Outside, Never

VARIABLES focus,
          task_state, home, guarded, spawner, joiner, refs, run, waker, aborted,
          tasks, steps, st, notified, let_go,
          now, pending, last, readers, writer, promised, stash, position, seen, until, unparked

\* A task from outside and the two children it spawns, joins and may abort, with
\* an async worker a and the safety worker s, whose queue has room for one; or the
\* task and one child, with a and s as async workers.
MCParent == [t \in Tasks |-> IF t = p THEN NoTask ELSE p]
Plain == INSTANCE AsyncTask WITH
    SafetyTasks <- {}, Workers <- {a, s}, SafetyWorkers <- {}, QueueSize <- 2,
    Parent <- [MCParent EXCEPT ![c2] = c2]    \* c2 is never spawned

\* Three tasks in an engine with a worker of each kind, two in two engines of
\* which only the first has a dedicated worker and a safety worker.
Within == INSTANCE Spawning WITH
    Tasks <- 1..3, NoTask <- 0, Engines <- {1}, SafetyEngines <- {1}, DedicatedEngines <- {1},
    Names <- {"d"}, state <- task_state
Across == INSTANCE Spawning WITH
    Tasks <- 1..2, NoTask <- 0, Engines <- {1, 2}, SafetyEngines <- {1}, DedicatedEngines <- {1},
    Names <- {"d"}, state <- task_state

Mock == INSTANCE MockRuntime WITH Tasks <- 1..3, NoTask <- 0

\* Two async workers, which agree who sleeps for the timers, and a dedicated one.
Timed == INSTANCE DriverParking WITH
    Workers <- {w1, w2}, Dedicated <- "d", MaxTime <- 2, NoOne <- "noone",
    pc <- position, notified <- unparked
ASSUME Timed!DriverAssumption

\* The workers of DriverParking are alike, and so are the children.
Symmetry == Permutations({w1, w2}) \cup Permutations({c1, c2})

spawnVars == <<task_state, home, guarded, spawner, joiner, refs, run, waker, aborted>>
mockVars == <<tasks, steps, st, notified, let_go>>
timedVars == <<now, pending, last, readers, writer, promised, stash, position, seen, until, unparked>>
allVars == <<focus, vars, spawnVars, mockVars, timedVars>>
MCInit ==
    /\ focus \in {"plain", "safety", "within", "across", "mock", "timed"}
    /\ IF focus = "plain" THEN Plain!Init ELSE Init
    /\ IF focus = "across" THEN Across!Init ELSE Within!Init
    /\ Mock!Init /\ Timed!Init
MCNext ==
    /\ UNCHANGED focus
    /\ \/ focus = "plain" /\ Plain!Next /\ UNCHANGED <<spawnVars, mockVars, timedVars>>
       \/ focus = "safety" /\ Next /\ UNCHANGED <<spawnVars, mockVars, timedVars>>
       \/ focus = "within" /\ Within!Next /\ UNCHANGED <<vars, mockVars, timedVars>>
       \/ focus = "across" /\ Across!Next /\ UNCHANGED <<vars, mockVars, timedVars>>
       \/ focus = "mock" /\ Mock!Next /\ UNCHANGED <<vars, spawnVars, timedVars>>
       \/ focus = "timed" /\ Timed!Next /\ UNCHANGED <<vars, spawnVars, mockVars>>
MCSpec == MCInit /\ [][MCNext]_allVars

-----------------------------------------------------------------------------
(* The properties, as the modules state them; those of AsyncTask are there.   *)

\* Without safety tasks no assertion of TaskState, AsyncTask or JoinHandle fails,
\* and no queue overflows, because a task is queued once at most.
NothingFails ==
    TypeOK /\ (focus = "plain" => Plain!SingleEntry /\ Plain!NoFailure)

\* A woken task comes back to a worker that may run it, whoever wakes it and in
\* whichever engine (respawn and respawn_into_safety of the schedulers): it is in
\* some queue, unless it is woken into safety in an engine without a safety worker;
\* a task of a dedicated worker is polled there and nothing else is; and none is
\* sent to the safety worker from there, which ends the process, unless it awaits
\* the handle of a safety task that another task spawned and gave to it.
WokenWhereItMayRun ==
    /\ focus = "within" => Within!TypeOK /\ Within!RunsWhereItMay /\ Within!NotifiedIsQueued
                           /\ Within!DedicatedNotIntoSafety
    /\ focus = "across" => Across!TypeOK /\ Across!RunsWhereItMay /\ Across!NotifiedIsQueued
                           /\ Across!DedicatedNotIntoSafety

\* A step of the mock runtime polls a task once at most and drops none that is
\* not done, whatever the polled task does to the runtime, another step included
\* (testing/mock.rs).
MockStepIsFair ==
    focus = "mock" => Mock!TypeOK /\ Mock!PolledOncePerStep /\ Mock!NoTaskForgotten

\* When the engine rests, a worker sleeps no longer than to the first deadline,
\* unless one of them went by a promise that was replaced meanwhile
\* (Drivers::park).
FutureTimerIsWatched == focus = "timed" => Timed!TypeOK /\ Timed!FutureTimerIsWatched
=============================================================================
