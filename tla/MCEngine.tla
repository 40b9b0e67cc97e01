------------------------------- MODULE MCEngine -------------------------------
(* One worker of each kind; the dedicated worker's queue is larger than the     *)
(* safety worker's, so that with two tasks both fit and overflow occur.         *)
EXTENDS EngineWorkers

CONSTANTS a, d, s, j

MCQueues == {d, s, j}
MCPushers == Producers \cup {a, d, s}
MCCapacity == [q \in MCQueues |-> IF q = d THEN 2 ELSE 1]

\* The environment spawns tasks to the blocking workers or runs an entry task,
\* not both: they meet only in the owner of the engine.  No action with a
\* fairness condition is restricted.
OneUse == entry = "none" \/ \A t \in Tasks : task[t] = "new"
MCSpec == Init /\ [][Next /\ OneUse']_vars /\ Fairness

=============================================================================
