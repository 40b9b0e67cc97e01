-------------------------------- MODULE Timers --------------------------------
(* What the time driver promises: a set of timers, and rounds of processing in *)
(* which every timer that is due fires and no other one does.                  *)
EXTENDS Naturals

CONSTANTS Ids, NoProc

VARIABLES
    pending,    \* the timers that have not fired: <<id, expire_at>>
    proc        \* the time of the round that holds the lock, or NoProc

Init == pending = {} /\ proc = NoProc

Add ==
    /\ proc = NoProc /\ pending \subseteq pending' /\ UNCHANGED proc
    /\ \E x \in pending' : x[1] \in Ids /\ pending' = pending \cup {x}
Begin == proc = NoProc /\ proc' \in Nat /\ UNCHANGED pending
Due == {x \in pending : x[2] <= proc}
Fire == proc # NoProc /\ pending' \subseteq pending /\ pending \ Due \subseteq pending' /\ UNCHANGED proc
End == proc # NoProc /\ Due = {} /\ proc' = NoProc /\ UNCHANGED pending

Next == Add \/ Begin \/ Fire \/ End
Spec == Init /\ [][Next]_<<pending, proc>>
=============================================================================
