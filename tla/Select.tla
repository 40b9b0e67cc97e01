------------------------------- MODULE Select -------------------------------
(***************************************************************************)
(* macros/select.rs: the future that polls several futures in the order of  *)
(* the macro call and runs the block of the first that is ready with a       *)
(* result matching its pattern, and yield_now, one of the futures it may     *)
(* poll.  A future that is not ready keeps the waker of the task.            *)
(***************************************************************************)
EXTENDS Naturals, Sequences, FiniteSets

CONSTANTS
    Cases,      \* how many cases the macro call has
    UsizeBits,  \* the bits of disabled_cases
    Yields,     \* the cases whose future yields once (yield_now) and then ends
    Matches     \* the cases whose future will end with a matching result

Indices == 0..(Cases - 1)

VARIABLES
    future,     \* "new", "polled" (keeps the waker), "ready" or "done"
    disabled,   \* disabled_cases, the set of its bits
    next,       \* the case the poll looks at, or Cases between polls
    woken,      \* the task is queued
    chosen,     \* the case whose block ran, or Cases
    repolled    \* a future was polled after it had been ready

vars == <<future, disabled, next, woken, chosen, repolled>>

Init ==
    /\ future = [i \in Indices |-> "new"] /\ disabled = {} /\ next = Cases
    /\ woken = TRUE /\ chosen = Cases /\ repolled = FALSE

\* The recursion puts one underscore more in front of each case, the table of
\* underscore_count! counts them, and the mask is the bit of that number.  The table
\* goes up to the number of bits, where the shift is one too far: it panics, or
\* takes bit 0, the first case's.
Underscores(i) == [k \in 1..i |-> "_"]
underscore_count(underscores) == Len(underscores)
CaseMask(i) == {underscore_count(Underscores(i)) % UsizeBits}

Poll ==
    /\ next = Cases /\ woken /\ chosen = Cases /\ next' = 0 /\ woken' = FALSE
    /\ UNCHANGED <<future, disabled, chosen, repolled>>

\* One block of the macro's main rule.
Skip ==
    /\ next < Cases /\ CaseMask(next) \cap disabled # {} /\ next' = next + 1
    /\ UNCHANGED <<future, disabled, woken, chosen, repolled>>
\* YieldFuture wakes the task at its first poll and is ready at the second.
CasePending ==
    /\ next < Cases /\ CaseMask(next) \cap disabled = {} /\ future[next] \in {"new", "polled"}
    /\ future' = [future EXCEPT ![next] = IF next \in Yields THEN "ready" ELSE "polled"]
    /\ woken' = (woken \/ next \in Yields)
    /\ next' = next + 1
    /\ UNCHANGED <<disabled, chosen, repolled>>
Polled(i) == next = i /\ CaseMask(i) \cap disabled = {} /\ future[i] \in {"ready", "done"}
RunBlock ==
    \E i \in Matches :
      /\ Polled(i) /\ chosen' = i /\ next' = Cases
      /\ future' = [future EXCEPT ![i] = "done"] /\ repolled' = (repolled \/ future[i] = "done")
      /\ UNCHANGED <<disabled, woken>>
MismatchEndsPoll ==
    \E i \in Indices \ Matches :
      /\ Polled(i) /\ disabled' = disabled \cup CaseMask(i) /\ next' = Cases
      /\ future' = [future EXCEPT ![i] = "done"] /\ repolled' = (repolled \/ future[i] = "done")
      /\ UNCHANGED <<woken, chosen>>
Mismatch ==
    \E i \in Indices \ Matches :
      /\ Polled(i) /\ disabled' = disabled \cup CaseMask(i) /\ next' = i + 1
      /\ future' = [future EXCEPT ![i] = "done"] /\ repolled' = (repolled \/ future[i] = "done")
      /\ UNCHANGED <<woken, chosen>>

\* What the future waits for happens, at any time; a kept waker is used, also
\* for no reason.
Complete(i) ==
    /\ i \notin Yields /\ future[i] \in {"new", "polled"}
    /\ future' = [future EXCEPT ![i] = "ready"]
    /\ woken' = (woken \/ future[i] = "polled")
    /\ UNCHANGED <<disabled, next, chosen, repolled>>
SpuriousWake ==
    /\ \E i \in Indices : future[i] = "polled"
    /\ woken' = TRUE /\ UNCHANGED <<future, disabled, next, chosen, repolled>>

Block == Skip \/ CasePending \/ RunBlock \/ Mismatch
Next == Poll \/ Block \/ SpuriousWake \/ (\E i \in Indices : Complete(i))
Fairness == WF_vars(Poll) /\ WF_vars(Block)
Spec == Init /\ [][Next]_vars /\ Fairness

-----------------------------------------------------------------------------
TypeOK ==
    /\ future \in [Indices -> {"new", "polled", "ready", "done"}] /\ disabled \subseteq Indices
    /\ next \in 0..Cases /\ chosen \in 0..Cases /\ {woken, repolled} \subseteq BOOLEAN

\* "Once a future reports Poll::Ready, it will not be polled again": over all
\* polls, however often the task is woken for other reasons.
NotPolledAgain == ~repolled

\* When a future with a matching result is ready, some block is run at last:
\* every poll that does not end the select leaves the waker with all futures
\* that are not ready.
SelectEnds == \A i \in Indices : i \in Matches /\ future[i] = "ready" ~> chosen # Cases
=============================================================================
