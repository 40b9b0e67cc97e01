----------------------------- MODULE WorkQueues -----------------------------
(***************************************************************************)
(* What the queues of the async workers promise: every worker has a bounded  *)
(* first in first out queue, a thief takes a prefix of another worker's      *)
(* queue and appends it to its own, and an overflowing queue moves a prefix  *)
(* to the global queue.  Values neither vanish nor multiply nor overtake     *)
(* each other on the way.  SpmcStealQueue implements this as long as no       *)
(* fetch_from writes into slots that a thief still reads (overrun).           *)
(***************************************************************************)
EXTENDS Naturals, Sequences

CONSTANTS Workers, Values, Capacity, GlobalCapacity

VARIABLES local,    \* what a worker's queue holds, the oldest first
          flight,   \* what a thief has taken and not yet published
          global,   \* the global queue
          overrun   \* the promise is void

qvars == <<local, flight, global, overrun>>

Prefix(q, n) == SubSeq(q, 1, n)
Rest(q, n) == SubSeq(q, n + 1, Len(q))

QInit ==
  /\ local = [w \in Workers |-> <<>>]
  /\ flight = [w \in Workers |-> <<>>]
  /\ global = <<>>
  /\ overrun = FALSE

Put(w) ==
  /\ UNCHANGED <<global, overrun>> /\ Len(local[w]) < Capacity
  /\ \E v \in Values : local' = [local EXCEPT ![w] = Append(@, v)]
  /\ UNCHANGED flight

PutGlobal ==
  /\ Len(global) < GlobalCapacity
  /\ \E v \in Values : global' = Append(global, v)
  /\ UNCHANGED <<local, flight, overrun>>

Take(w) ==
  /\ UNCHANGED <<global, overrun>> /\ local[w] # <<>>
  /\ local' = [local EXCEPT ![w] = Tail(@)]
  /\ UNCHANGED flight

Spill(w) ==
  \E n \in 1 .. Len(local[w]) :
    /\ global' = global \o Prefix(local[w], n)
    /\ Len(global') <= GlobalCapacity
    /\ local' = [local EXCEPT ![w] = Rest(@, n)]
    /\ UNCHANGED <<flight, overrun>>

Steal(w, s) ==
  /\ UNCHANGED <<global, overrun>> /\ flight[w] = <<>>
  /\ \E n \in 1 .. Len(local[s]) :
       /\ flight' = [flight EXCEPT ![w] = Prefix(local[s], n)]
       /\ local' = [local EXCEPT ![s] = Rest(@, n)]

Land(w) ==
  /\ UNCHANGED <<global, overrun>> /\ Len(local[w] \o flight[w]) <= Capacity
  /\ local' = [local EXCEPT ![w] = @ \o flight[w]]
  /\ flight' = [flight EXCEPT ![w] = <<>>]

Fetch(w) ==
  \E n \in 1 .. Len(global) :
    /\ global' = Rest(global, n) /\ Len(local[w]) + n <= Capacity
    /\ local' = [local EXCEPT ![w] = @ \o Prefix(global, n)]
    /\ UNCHANGED <<flight, overrun>>

QNext ==
  \/ overrun'
  \/ PutGlobal
  \/ \E w \in Workers : \/ Put(w) \/ Take(w) \/ Spill(w) \/ Land(w) \/ Fetch(w)
                        \/ \E s \in Workers \ {w} : Steal(w, s)

QSpec == QInit /\ [][QNext]_qvars
=============================================================================
