----------------------------- MODULE GrowableVec -----------------------------
(***************************************************************************)
(* GrowableVec of kyron-foundation, with which the builders collect what   *)
(* they are given, over the fixed-capacity Vec of iceoryx2: operators on   *)
(* records [items, capacity, locked].                                      *)
(***************************************************************************)
EXTENDS Naturals, Sequences

\* Vec::new_in_global, for which a capacity of zero becomes one.
NewVec(n) == [items |-> <<>>, capacity |-> IF n = 0 THEN 1 ELSE n, locked |-> FALSE]
VecLen(v) == Len(v.items)
IsFull(v) == VecLen(v) = v.capacity

\* Vec::pop and Vec::remove(0): what is left.
Pop(v) == [v EXCEPT !.items = SubSeq(@, 1, Len(@) - 1)]
RemoveFirst(v) == [v EXCEPT !.items = Tail(@)]
PushInto(v, x) == IF IsFull(v) THEN v ELSE [v EXCEPT !.items = Append(@, x)]
Lock(v) == [v EXCEPT !.locked = TRUE]

\* reallocate_internal: the first element is moved to the end of a container
\* twice as large until none is left.
ReallocatedFromBack(v) ==
    LET moved[n \in 0..VecLen(v)] ==
            IF n = 0 THEN NewVec(v.capacity * 2)
            ELSE PushInto(moved[n - 1], v.items[VecLen(v) + 1 - n])
    IN  moved[VecLen(v)]
Reallocated(v) ==
    LET moved[n \in 0..VecLen(v)] ==
            IF n = 0 THEN [from |-> v, to |-> NewVec(v.capacity * 2)]
            ELSE LET m == moved[n - 1]
                 IN  [from |-> RemoveFirst(m.from), to |-> PushInto(m.to, Head(m.from.items))]
    IN  moved[VecLen(v)].to

\* push: a locked vector that is full refuses.
VecPush(v, x) == PushInto(IF IsFull(v) /\ ~v.locked THEN Reallocated(v) ELSE v, x)

\* Into<Vec>: popped into a second vector, whose halves are then exchanged.
SwapEnds(s) ==
    LET n == Len(s)
        swapped[i \in 0..(n \div 2)] ==
            IF i = 0 THEN s
            ELSE [swapped[i - 1] EXCEPT ![i] = swapped[i - 1][n - i + 1],
                                        ![n - i + 1] = swapped[i - 1][i]]
    IN  swapped[n \div 2]
IntoVec(v) ==
    LET popped[n \in 0..VecLen(v)] ==
            IF n = 0 THEN [from |-> v, to |-> <<>>]
            ELSE LET m == popped[n - 1]
                 IN  [from |-> Pop(m.from), to |-> Append(m.to, m.from.items[VecLen(m.from)])]
    IN  SwapEnds(popped[VecLen(v)].to)
=============================================================================
