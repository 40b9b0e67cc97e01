---------------------------- MODULE IntrusiveList ----------------------------
(***************************************************************************)
(* The intrusive list of kyron-foundation, in which the futures waiting    *)
(* for one descriptor are kept: a ring of links that live in the items.    *)
(* The list's owner holds a mutex over each operation, so operations do    *)
(* not interleave; the two that walk the ring are modelled step by step.   *)
(* `items` is a history variable: the sequence the list stands for.        *)
(***************************************************************************)
EXTENDS Naturals, Sequences, FiniteSets

CONSTANTS
    Items,      \* the objects that carry a link
    Null        \* the null pointer and NonNull::dangling()

VARIABLES
    prev, next, \* the two pointers of each item's link
    head, len,  \* the fields of List
    items,      \* history: the items in their order
    walk        \* the operation walking the ring

ringVars == <<prev, next, head, len>>
vars == <<ringVars, items, walk>>

Idle == [op |-> "idle"]
Init ==
    /\ prev = [i \in Items |-> Null] /\ next = [i \in Items |-> Null]
    /\ head = Null /\ len = 0 /\ items = <<>> /\ walk = Idle

Listed(i) == \E k \in DOMAIN items : items[k] = i
Without(M) == SelectSeq(items, LAMBDA i : i \notin M)

-----------------------------------------------------------------------------
\* insert_link_before: between `before` and its left neighbour.
InsertLinkBefore(link, before) ==
    /\ prev' = [prev EXCEPT ![link] = prev[before], ![before] = link]
    /\ next' = [next EXCEPT ![prev[before]] = link, ![link] = before]

\* remove_link, as a pair of new pointer functions: the neighbours are joined,
\* then the link is cleared.
RemoveLink(link) ==
    [p |-> [[prev EXCEPT ![next[link]] = prev[link]] EXCEPT ![link] = Null],
     n |-> [[next EXCEPT ![prev[link]] = next[link]] EXCEPT ![link] = Null]]

\* remove_internal: the last item keeps its pointers to itself.
RemoveInternal(link) ==
    /\ len' = len - 1
    /\ IF link = head /\ len = 1
       THEN head' = Null /\ UNCHANGED <<prev, next>>
       ELSE /\ head' = IF link = head THEN next[link] ELSE head
            /\ prev' = RemoveLink(link).p /\ next' = RemoveLink(link).n

-----------------------------------------------------------------------------
\* push_back, whose caller promises that the item is in no list.  Debug builds
\* also ask that its link is null (UnlistedIsNull); others go on, as here.
PushBack(i) ==
    /\ walk = Idle /\ ~Listed(i)
    /\ IF len = 0
       THEN prev' = [prev EXCEPT ![i] = i] /\ next' = [next EXCEPT ![i] = i] /\ head' = i
       ELSE InsertLinkBefore(i, head) /\ UNCHANGED head
    /\ len' = len + 1 /\ items' = Append(items, i) /\ UNCHANGED walk

PopFront ==
    /\ walk = Idle /\ len > 0
    /\ len' = len - 1 /\ head' = next[head]
    /\ prev' = RemoveLink(head).p /\ next' = RemoveLink(head).n
    /\ items' = Tail(items) /\ UNCHANGED walk

\* remove_if with the items the closure answers true for; the number of
\* iterations is read once.
RemoveIf(M) ==
    /\ walk = Idle /\ len > 0
    /\ walk' = [op |-> "remove_if", curr |-> head, left |-> len, match |-> M, filtered |-> Without(M)]
    /\ UNCHANGED <<ringVars, items>>

\* One turn of the loop: the next link is read before the item goes.
VisitCounted ==
    /\ walk.op = "remove_if" /\ walk.left > 0
    /\ IF walk.curr \in walk.match
       THEN RemoveInternal(walk.curr) /\ items' = Without({walk.curr})
       ELSE UNCHANGED <<ringVars, items>>
    /\ walk' = [walk EXCEPT !.curr = next[walk.curr],
                            !.left = IF walk.curr \in walk.match /\ @ > 1 THEN @ - 2 ELSE @ - 1]
Visit ==
    /\ walk.op = "remove_if" /\ walk.left > 0
    /\ IF walk.curr \in walk.match
       THEN RemoveInternal(walk.curr) /\ items' = Without({walk.curr})
       ELSE UNCHANGED <<ringVars, items>>
    /\ walk' = [walk EXCEPT !.curr = next[walk.curr], !.left = @ - 1]
RemoveIfEnds ==
    /\ walk.op = "remove_if" /\ walk.left = 0
    /\ walk' = Idle /\ UNCHANGED <<ringVars, items>>

\* remove, called with an item that need not be listed.
Remove(i) ==
    /\ walk = Idle
    /\ CASE len = 0 -> UNCHANGED vars
         [] len = 1 /\ i = head -> /\ head' = Null /\ len' = 0 /\ items' = <<>>
                                   /\ UNCHANGED <<prev, next, walk>>
         [] len = 1 /\ i # head -> UNCHANGED vars
         [] len > 1 -> /\ walk' = [op |-> "remove", curr |-> head, item |-> i]
                       /\ UNCHANGED <<ringVars, items>>

\* One turn of the search: it ends at the item or at a null pointer, and the
\* ring has none.
Search ==
    /\ walk.op = "remove"
    /\ IF walk.curr = Null THEN walk' = Idle /\ UNCHANGED <<ringVars, items>>
       ELSE IF walk.curr = walk.item
       THEN RemoveInternal(walk.curr) /\ items' = Without({walk.item}) /\ walk' = Idle
       ELSE walk' = [walk EXCEPT !.curr = next[@]] /\ UNCHANGED <<ringVars, items>>

Next ==
    \/ \E i \in Items : PushBack(i) \/ Remove(i)
    \/ \E M \in SUBSET Items : RemoveIf(M)
    \/ PopFront \/ Visit \/ RemoveIfEnds \/ Search

Spec == Init /\ [][Next]_vars
\* The thread that called an operation keeps executing it.
FairSpec == Spec /\ WF_vars(Visit \/ RemoveIfEnds \/ Search)

-----------------------------------------------------------------------------
TypeOK ==
    /\ prev \in [Items -> Items \union {Null}] /\ next \in [Items -> Items \union {Null}]
    /\ head \in Items \union {Null} /\ len \in 0..Cardinality(Items)
    /\ walk.op \in {"idle", "remove_if", "remove"}

\* The links of the listed items form one ring that spells the sequence the
\* operations promise, forwards from head and backwards, whatever was pushed,
\* popped and removed before, also while remove_if is half way through.
RingIsSequence ==
    /\ len = Len(items)
    /\ len > 0 => head = items[1]
    /\ \A k \in DOMAIN items :
        LET right == items[IF k = len THEN 1 ELSE k + 1]
        IN  next[items[k]] = right /\ prev[right] = items[k]

\* remove_if, which reads the next link before it removes and counts its
\* iterations with the length it started from, has at its end filtered the
\* sequence it found: no matching item is left and no other is missing.
RemoveIfIsFilter ==
    (walk.op = "remove_if" /\ walk.left = 0) => items = walk.filtered

\* What the debug_asserts of push_back and insert_link_before ask: the link of an
\* item that is in no list is null.
UnlistedIsNull == walk = Idle => \A i \in Items : Listed(i) \/ (prev[i] = Null /\ next[i] = Null)

\* remove returns, with "`true` if the item was found and removed, `false`
\* otherwise".
RemoveReturns == (walk.op = "remove") ~> (walk.op # "remove")
=============================================================================
