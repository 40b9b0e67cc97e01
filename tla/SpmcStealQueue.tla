--------------------------- MODULE SpmcStealQueue ---------------------------
(***************************************************************************)
(* The work-stealing queues of the async workers and the global queue they   *)
(* overflow into (kyron-foundation/src/containers/spmc_queue.rs,             *)
(* mpmc_queue.rs, queue.rs), at the granularity of the atomic accesses.      *)
(*                                                                           *)
(* Every worker owns one queue: it alone pushes, pops and fetches there, and *)
(* it steals from the others into it.  head, steal and tail are the wrapping *)
(* counters of the code, modulo Wrap (2^32 there).  steal and tail are packed*)
(* in one word, so they are read and exchanged together.  An operation whose *)
(* compare-exchange loop has no effect before it succeeds, and that touches  *)
(* only slots nobody else writes, is one step: pop_local, push_to_mpmc (which*)
(* holds the lock of the global queue), the last loop of steal_internal.     *)
(* A slot whose value was moved out holds Moved: to read it again would be    *)
(* undefined behaviour.                                                       *)
(***************************************************************************)
EXTENDS Integers, Sequences, FiniteSets, FiniteSetsExt, Functions

CONSTANTS Workers,
          NoWorker,
          Capacity,        \* slots of a local queue
          GlobalCapacity,  \* slots of the global queue
          Wrap,            \* the counters are modulo Wrap
          Start,           \* and start here
          MaxValues,       \* bound: values pushed in a behaviour
          MaxSteals        \* bound: calls of steal_into in a behaviour

QueueAssumption ==
  /\ NoWorker \notin Workers
  /\ Capacity \in Nat \ {0} /\ GlobalCapacity \in Nat \ {0}
  /\ Wrap \in Nat \ {0} /\ Wrap % Capacity = 0
  /\ Start \in 0 .. Wrap - 1
  /\ MaxValues \in Nat /\ MaxSteals \in Nat

VARIABLES head, steal, tail, data,  \* the local queues
          global,                   \* the global queue, the oldest first
          pc, snap, src, val, num, done, \* locals of a worker's operation
          fresh,                    \* the next value to push
          steals,                   \* calls of steal_into so far
          popped,                   \* history: how often a value was popped
          refused,                  \* history: values push gave back
          overrun                   \* history: fetch_from hit slots being stolen

counters == <<head, steal, tail>>
locals == <<pc, snap, src, val, num, done>>
history == <<fresh, steals, popped, refused, overrun>>
vars == <<counters, data, global, locals, history>>

Add(a, n) == (a + n) % Wrap
Sub(a, b) == (a - b) % Wrap
Slot(i) == i % Capacity
Values == 1 .. MaxValues
Moved == 0
Word(w) == [steal |-> steal[w], tail |-> tail[w]]
NoWord == [steal |-> 0, tail |-> 0]
\* count_internal
Count(h, t) == Sub(h, t)
AtMost(a, b) == Min({a, b})
\* The contents of n slots from counter a on, and how far slot i is from a.
Slots(w, a, n) == [i \in 1 .. n |-> data[w][Slot(a + i - 1)]]
Offset(a, i) == (i - a) % Capacity

Init ==
  /\ head = [w \in Workers |-> Start]
  /\ steal = [w \in Workers |-> Start]
  /\ tail = [w \in Workers |-> Start]
  /\ data = [w \in Workers |-> [i \in 0 .. Capacity - 1 |-> Moved]]
  /\ global = <<>>
  /\ pc = [w \in Workers |-> "idle"]
  /\ snap = [w \in Workers |-> NoWord]
  /\ src = [w \in Workers |-> NoWorker]
  /\ val = [w \in Workers |-> 0]
  /\ num = [w \in Workers |-> 0]
  /\ done = [w \in Workers |-> 0]
  /\ fresh = 1
  /\ steals = 0
  /\ popped = [v \in Values |-> 0]
  /\ refused = {}
  /\ overrun = FALSE

Goto(w, l) == pc' = [pc EXCEPT ![w] = l]

-----------------------------------------------------------------------------
(* push                                                                      *)

\* push_local_queue loads the tail ...
PushLoad(w) ==
  /\ \/ pc[w] = "idle" /\ fresh <= MaxValues
        /\ val' = [val EXCEPT ![w] = fresh] /\ fresh' = fresh + 1
        /\ Goto(w, "push")
     \/ pc[w] = "again" /\ Goto(w, "push_again") /\ UNCHANGED <<val, fresh>>
  /\ snap' = [snap EXCEPT ![w] = Word(w)]
  /\ UNCHANGED <<counters, data, global, src, num, done, steals, popped, refused, overrun>>

\* ... and writes and publishes the value if the slot before steal is free.
\* The second attempt of push gives the value back.
PushLocal(w) ==
  /\ pc[w] \in {"push", "push_again"}
  /\ IF Sub(head[w], snap[w].steal) < Capacity THEN
       /\ data' = [data EXCEPT ![w][Slot(head[w])] = val[w]]
       /\ head' = [head EXCEPT ![w] = Add(@, 1)]
       /\ val' = [val EXCEPT ![w] = 0]
       /\ Goto(w, "idle")
       /\ UNCHANGED refused
     ELSE IF pc[w] = "push" THEN
       /\ Goto(w, "overflow")
       /\ UNCHANGED <<data, head, val, refused>>
     ELSE
       /\ refused' = refused \cup {val[w]}
       /\ val' = [val EXCEPT ![w] = 0]
       /\ Goto(w, "idle")
       /\ UNCHANGED <<data, head>>
  /\ snap' = [snap EXCEPT ![w] = NoWord]
  /\ UNCHANGED <<steal, tail, global, src, num, done, fresh, steals, popped, overrun>>

SpillCount(w) == AtMost(GlobalCapacity - Len(global), Count(head[w], tail[w]) \div 2)

\* Mutant: the newest of them goes first.
SpillReversed(w, n) == [i \in 1 .. n |-> Slots(w, tail[w], n)[n + 1 - i]]
Spill(w, n) == Slots(w, tail[w], n)

\* push_to_mpmc: the oldest half goes to the global queue, as far as it fits.
\* Nothing moved: push gives the value back.
PushToMpmc(w) ==
  LET n == SpillCount(w) IN
  /\ pc[w] = "overflow"
  /\ tail' = [tail EXCEPT ![w] = Add(@, n)]
  /\ steal' = [steal EXCEPT ![w] = IF @ = tail[w] THEN Add(@, n) ELSE @]
  /\ global' = global \o Spill(w, n)
  /\ data' = [data EXCEPT ![w] =
       [i \in DOMAIN @ |-> IF Offset(tail[w], i) < n THEN Moved ELSE @[i]]]
  /\ IF n = 0
     THEN /\ refused' = refused \cup {val[w]}
          /\ val' = [val EXCEPT ![w] = 0]
          /\ Goto(w, "idle")
     ELSE Goto(w, "again") /\ UNCHANGED <<refused, val>>
  /\ UNCHANGED <<head, snap, src, num, done, fresh, steals, popped, overrun>>

GlobalHasRoom == Len(global) < GlobalCapacity

\* MpmcQueue::push by a thread that has no local queue.
PushGlobal ==
  /\ fresh <= MaxValues
  /\ fresh' = fresh + 1
  /\ IF GlobalHasRoom
     THEN global' = Append(global, fresh) /\ UNCHANGED refused
     ELSE refused' = refused \cup {fresh} /\ UNCHANGED global
  /\ UNCHANGED <<counters, data, locals, steals, popped, overrun>>

-----------------------------------------------------------------------------
(* pop_local                                                                 *)
Pop(w) ==
  /\ pc[w] = "idle" /\ head[w] # tail[w]
  /\ tail' = [tail EXCEPT ![w] = Add(@, 1)]
  /\ steal' = [steal EXCEPT ![w] = IF @ = tail[w] THEN Add(@, 1) ELSE @]
  /\ popped' = [popped EXCEPT ![data[w][Slot(tail[w])]] = @ + 1]
  /\ data' = [data EXCEPT ![w][Slot(tail[w])] = Moved]
  /\ UNCHANGED <<head, global, locals, fresh, steals, refused, overrun>>

-----------------------------------------------------------------------------
(* fetch_from                                                                *)

\* The tail and the length of the global queue are read ...
FetchLoad(w) ==
  /\ pc[w] = "idle"
  /\ snap' = [snap EXCEPT ![w] = Word(w)]
  /\ num' = [num EXCEPT ![w] = Len(global)]
  /\ Goto(w, "fetch")
  /\ UNCHANGED <<counters, data, global, src, val, done, history>>

\* ... and then, under the lock, as many items copied as seemed possible and
\* are still there.  The room is computed from the tail, not from steal.
FetchCopy(w) ==
  LET n == AtMost(Len(global), AtMost(num[w], Capacity - Count(head[w], snap[w].tail))) IN
  /\ pc[w] = "fetch"
  /\ data' = [data EXCEPT ![w] =
       [i \in DOMAIN @ |-> IF Offset(head[w], i) < n
                           THEN global[Offset(head[w], i) + 1] ELSE @[i]]]
  /\ head' = [head EXCEPT ![w] = Add(@, n)]
  /\ global' = SubSeq(global, n + 1, Len(global))
  /\ overrun' = (overrun \/ Sub(head[w], steal[w]) + n > Capacity)
  /\ num' = [num EXCEPT ![w] = 0]
  /\ snap' = [snap EXCEPT ![w] = NoWord]
  /\ Goto(w, "idle")
  /\ UNCHANGED <<steal, tail, src, val, done, fresh, steals, popped, refused>>

-----------------------------------------------------------------------------
(* steal_into and steal_internal: w steals from s into its own queue.        *)

\* The room in the own queue.
StealInto(w, s) ==
  LET used == Sub(head[w], steal[w]) IN
  /\ pc[w] = "idle" /\ steals < MaxSteals
  /\ used < Capacity
  /\ steals' = steals + 1
  /\ src' = [src EXCEPT ![w] = s]
  /\ num' = [num EXCEPT ![w] = Capacity - used]
  /\ Goto(w, "load_tail")
  /\ UNCHANGED <<counters, data, global, snap, val, done, fresh, popped, refused, overrun>>

StealLoadTail(w) ==
  /\ pc[w] = "load_tail"
  /\ snap' = [snap EXCEPT ![w] = Word(src[w])]
  /\ Goto(w, "load_head")
  /\ UNCHANGED <<counters, data, global, src, val, num, done, history>>

\* Mutant: a steal under way is ignored.
StealLoadHeadAlways(w) ==
  LET h == head[src[w]]
      t == snap[w].tail IN
  /\ pc[w] = "load_head"
  /\ IF h = t THEN
       /\ Goto(w, "idle")
       /\ src' = [src EXCEPT ![w] = NoWorker]
       /\ num' = [num EXCEPT ![w] = 0]
       /\ snap' = [snap EXCEPT ![w] = NoWord]
       /\ UNCHANGED done
     ELSE
       /\ Goto(w, "claim")
       /\ done' = [done EXCEPT ![w] = Max({1, AtMost(Sub(h, t) \div 2, num[w])})]
       /\ UNCHANGED <<src, num, snap>>
  /\ UNCHANGED <<counters, data, global, val, history>>

\* The number of items to steal is settled; done keeps it until the exchange.
StealLoadHead(w) ==
  LET h == head[src[w]]
      t == snap[w].tail IN
  /\ pc[w] = "load_head"
  /\ IF h = t \/ snap[w].steal # t THEN
       /\ Goto(w, "idle")
       /\ src' = [src EXCEPT ![w] = NoWorker]
       /\ num' = [num EXCEPT ![w] = 0]
       /\ snap' = [snap EXCEPT ![w] = NoWord]
       /\ UNCHANGED done
     ELSE
       /\ Goto(w, "claim")
       /\ done' = [done EXCEPT ![w] = Max({1, AtMost(Sub(h, t) \div 2, num[w])})]
       /\ UNCHANGED <<src, num, snap>>
  /\ UNCHANGED <<counters, data, global, val, history>>

\* The exchange moves the tail and leaves steal behind, which keeps other
\* thieves and the writer away; when it fails the head is loaded again.
StealClaim(w) ==
  LET s == src[w] IN
  /\ pc[w] = "claim"
  /\ IF Word(s) = snap[w] THEN
       /\ tail' = [tail EXCEPT ![s] = Add(@, done[w])]
       /\ num' = [num EXCEPT ![w] = done[w]]
       /\ Goto(w, "copy")
       /\ UNCHANGED snap
     ELSE
       /\ snap' = [snap EXCEPT ![w] = Word(s)]
       /\ Goto(w, "load_head")
       /\ UNCHANGED <<tail, num>>
  /\ done' = [done EXCEPT ![w] = 0]
  /\ UNCHANGED <<head, steal, data, global, src, val, history>>

\* The thief's index is a sum of u32 that is not marked as wrapping, as in
\* fetch_from; it wraps here, as in builds without overflow checks (IndicesFit).
StealCopy(w) ==
  LET s == src[w] IN
  /\ pc[w] = "copy" /\ done[w] < num[w]
  /\ data' = [data EXCEPT
       ![w][Slot(head[w] + done[w])] = data[s][Slot(snap[w].tail + done[w])],
       ![s][Slot(snap[w].tail + done[w])] = Moved]
  /\ done' = [done EXCEPT ![w] = @ + 1]
  /\ UNCHANGED <<counters, global, pc, snap, src, val, num, history>>

\* steal is aligned to the tail, wherever that is by now.
StealFinish(w) ==
  LET s == src[w] IN
  /\ pc[w] = "copy" /\ done[w] = num[w]
  /\ steal' = [steal EXCEPT ![s] = tail[s]]
  /\ Goto(w, "publish")
  /\ UNCHANGED <<head, tail, data, global, snap, src, val, num, done, history>>

StealPublish(w) ==
  /\ pc[w] = "publish"
  /\ head' = [head EXCEPT ![w] = Add(@, num[w])]
  /\ src' = [src EXCEPT ![w] = NoWorker]
  /\ num' = [num EXCEPT ![w] = 0]
  /\ done' = [done EXCEPT ![w] = 0]
  /\ snap' = [snap EXCEPT ![w] = NoWord]
  /\ Goto(w, "idle")
  /\ UNCHANGED <<steal, tail, data, global, val, history>>

-----------------------------------------------------------------------------
\* An overrun is a data race: nothing is said of what follows.
Next ==
  /\ ~overrun
  /\ \/ PushGlobal
     \/ \E w \in Workers :
          \/ PushLoad(w) \/ PushLocal(w) \/ PushToMpmc(w) \/ Pop(w)
          \/ FetchLoad(w) \/ FetchCopy(w)
          \/ \E s \in Workers \ {w} : StealInto(w, s)
          \/ StealLoadTail(w) \/ StealLoadHead(w) \/ StealClaim(w)
          \/ StealCopy(w) \/ StealFinish(w) \/ StealPublish(w)

Spec == Init /\ [][Next]_vars

-----------------------------------------------------------------------------
(* Properties.                                                               *)

Labels == {"idle", "push", "overflow", "again", "push_again", "fetch", "load_tail",
           "load_head", "claim", "copy", "publish"}

\* Every variable has its type.
TypeOK ==
  /\ head \in [Workers -> 0 .. Wrap - 1]
  /\ steal \in [Workers -> 0 .. Wrap - 1]
  /\ tail \in [Workers -> 0 .. Wrap - 1]
  /\ data \in [Workers -> [0 .. Capacity - 1 -> Values \cup {0}]]
  /\ global \in Seq(Values) /\ Len(global) <= GlobalCapacity
  /\ pc \in [Workers -> Labels]
  /\ snap \in [Workers -> [steal : 0 .. Wrap - 1, tail : 0 .. Wrap - 1]]
  /\ src \in [Workers -> Workers \cup {NoWorker}]
  /\ val \in [Workers -> Values \cup {0}]
  /\ num \in [Workers -> Nat] /\ done \in [Workers -> Nat]
  /\ fresh \in 1 .. MaxValues + 1 /\ steals \in 0 .. MaxSteals
  /\ popped \in [Values -> Nat] /\ refused \subseteq Values
  /\ overrun \in BOOLEAN

Live(w) == Slots(w, tail[w], Count(head[w], tail[w]))
\* What a thief holds: the copies not yet published, and the slots it claimed
\* and has still to copy.
Held(w) ==
  IF pc[w] \in {"copy", "publish"}
  THEN Slots(w, head[w], done[w])
         \o Slots(src[w], snap[w].tail + done[w], num[w] - done[w])
  ELSE <<>>

Occurrences(v, q) == Cardinality({i \in DOMAIN q : q[i] = v})
Places(v) ==
  popped[v] + Occurrences(v, global)
    + MapThenSumSet(LAMBDA w : Occurrences(v, Live(w) \o Held(w)), Workers)
    + Cardinality({w \in Workers : val[w] = v})
    + (IF v \in refused THEN 1 ELSE 0)

\* Every value that was pushed is in exactly one place: it is never lost and
\* never handed out twice, whatever pushes, pops, thieves and overflows do at
\* the same time, unless fetch_from wrote into slots being stolen.
Conserved == overrun \/ \A v \in 1 .. fresh - 1 : Places(v) = 1

\* At most one thief reads from a queue, it reads between steal and tail, and
\* the writer never gets there: this is what makes the unsynchronised reads of
\* steal_internal and the writes of push_local_queue free of races.
StealIsExclusive ==
  overrun \/ \A w \in Workers : pc[w] = "copy" =>
    /\ \A u \in Workers \ {w} : pc[u] = "copy" => src[u] # src[w]
    /\ snap[w].tail = steal[src[w]]
    /\ Sub(head[src[w]], steal[src[w]]) <= Capacity

\* The queues of the workers are bounded first in first out queues.
Queues == INSTANCE WorkQueues WITH local <- [w \in Workers |-> Live(w)],
                                   flight <- [w \in Workers |-> Held(w)]
IsWorkQueues == Queues!QSpec

\* push_local_queue: "We can push only based on where steel counter is, as
\* this is real indicator of free space".
NoOverrun == ~overrun

\* What builds with overflow checks ask of steal_internal: the sum that gives the
\* thief's next slot does not exceed a u32.
IndicesFit ==
  \A w \in Workers : pc[w] = "copy" /\ done[w] < num[w] => head[w] + done[w] < Wrap
=============================================================================
