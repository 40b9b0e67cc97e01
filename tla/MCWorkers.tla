------------------------------ MODULE MCWorkers ------------------------------
(***************************************************************************)
(* The workers of an engine, on small instances: how they are configured,     *)
(* numbered and found again, and how the async ones park and unpark.  The two  *)
(* share no state, so a behaviour is one of the component in focus while the   *)
(* other one rests in its initial state.                                      *)
(***************************************************************************)
EXTENDS EngineBuilder, TLC

CONSTANTS w1, w2, n1, n2, n3

VARIABLES focus,
          queue, hand, src, global, pushed, wstate, parked, searching, is_searching,
          waiting, timeout, io_holder, io_token, pc, left, tgt, notify, to_stop, panic

\* Two async workers and a foreign thread: sleeps with a timeout, which may do all
\* that those without do, and no stop; or an engine that is being stopped.
Running == INSTANCE WorkerParking WITH
    Workers <- {w1, w2}, Outsiders <- {"o"}, NoWorker <- "none",
    Timeouts <- {"some", "zero"}, StopCalls <- 0, MaxWork <- 2
Stopping == INSTANCE WorkerParking WITH
    Workers <- {w1, w2}, Outsiders <- {"o"}, NoWorker <- "none",
    Timeouts <- {"none"}, StopCalls <- 1, MaxWork <- 1

\* The workers are alike, and so are the names of dedicated workers.
Symmetry == Permutations({w1, w2}) \cup Permutations(Names)

parkVars == <<queue, hand, src, global, pushed, wstate, parked, searching, is_searching,
              waiting, timeout, io_holder, io_token, pc, left, tgt, notify, to_stop, panic>>
allVars == <<focus, builderVars, parkVars>>
MCInit ==
    /\ focus \in {"builder", "running", "stopping"}
    /\ BuilderInit /\ IF focus = "stopping" THEN Stopping!Init ELSE Running!Init
MCNext ==
    /\ UNCHANGED focus
    /\ \/ focus = "builder" /\ BuilderNext /\ UNCHANGED parkVars
       \/ focus = "running" /\ Running!Next /\ UNCHANGED builderVars
       \/ focus = "stopping" /\ Stopping!Next /\ UNCHANGED builderVars
MCSpec == MCInit /\ [][MCNext]_allVars

-----------------------------------------------------------------------------
(* The properties, as the modules state them; those of the builder are there. *)

\* Names lead to one place: a dedicated worker's name belongs to one worker of its
\* engine, and the runtime finds an engine under the id with_engine returned.
FoundByName == focus = "builder" => BuilderTypeOK /\ NamesAreUnique /\ EngineIsFound

\* A sleeping worker can be woken: it is in parked_workers_indexes or about to be
\* woken, also in an engine that is being stopped; while nobody stops it, it is
\* there once, and when all workers sleep, one of them sleeps in the I/O driver.
SleepersAreReachable ==
    /\ focus = "running" => /\ Running!TypeOK /\ Running!SleeperIsListed
                            /\ Running!ListedOnce /\ Running!IoIsServed
    /\ focus = "stopping" => Stopping!TypeOK /\ Stopping!SleeperIsListed
\* Work does not lie in a queue while a worker sleeps and all others sleep or poll.
NoIdleSibling == focus = "running" => Running!NoIdleSibling
=============================================================================
