------------------------------- MODULE MCWakers -------------------------------
(***************************************************************************)
(* Who holds a waker and who calls it, on small instances: the channels of    *)
(* BroadcastChannel, whose receivers leave their wakers with the sender, and  *)
(* the references to a task of TaskRefs.  A behaviour is one of the component *)
(* in focus while the other one rests in its initial state, where its         *)
(* properties hold.                                                          *)
(***************************************************************************)
EXTENDS BroadcastChannel, TLC

CONSTANTS a, b, w1, w2

VARIABLES focus, strong, life, state, handle, stored, queued, wakers, slot, pc, hand, cur, refs, refused

\* Two values for two receivers, or one value and indices that are used again.
Reused == INSTANCE BroadcastChannel WITH Values <- {1}, MaxSubscribe <- 2

\* Two tasks, so that one can hold the other; two workers and a foreign thread.
Ref == INSTANCE TaskRefs WITH
    Tasks <- {a, b}, NoTask <- "none", Workers <- {w1, w2}, Sources <- {"x"},
    Outside <- "outside", NoOne <- "noone", MaxWakers <- 1

\* The workers are alike, and so are the tasks.
Symmetry == Permutations({w1, w2}) \cup Permutations({a, b})

refVars == <<strong, life, state, handle, stored, queued, wakers, slot, pc, hand, cur, refs, refused>>
allVars == <<focus, vars, refVars>>
MCInit == focus \in {"channel", "reused", "refs"} /\ Init /\ Ref!Init
MCNext ==
    /\ UNCHANGED focus
    /\ \/ focus = "channel" /\ Next /\ UNCHANGED refVars
       \/ focus = "reused" /\ Reused!Next /\ UNCHANGED refVars
       \/ focus = "refs" /\ Ref!Next /\ UNCHANGED vars
MCSpec == MCInit /\ [][MCNext]_allVars

-----------------------------------------------------------------------------
(* The properties, as the modules state them; those of the channels are there. *)

\* TaskRef: the count kept by hand is the number of references there are, and a
\* task that is freed was not notified, or its future is over, or a queue refused
\* its reference.
ReferencesAreCounted ==
    focus = "refs" => Ref!TypeOK /\ Ref!CountIsHolders /\ Ref!FreedIsNotNotified
=============================================================================
