------------------------------ MODULE MCParking ------------------------------
(***************************************************************************)
(* The hardest case for the liveness of WorkerParking: a thread outside       *)
(* pushes one task, and from then on only the workers' own tasks spawn.  No    *)
(* sleep ends by itself, neither spuriously nor by an I/O event or a timeout,  *)
(* so that every wake-up is one that the scheduler owes.                      *)
(***************************************************************************)
EXTENDS WorkerParking

MCNext ==
  /\ panic = "none"
  /\ \/ \E w \in Workers : WorkerStep(w) \/ SpawnFromRuntime(w)
     \/ \E o \in Outsiders : pushed = 0 /\ SpawnOutsideRuntime(o)
     \/ \E th \in Threads : Notify(th)
MCSpec == Init /\ [][MCNext]_vars /\ Fairness
=============================================================================
