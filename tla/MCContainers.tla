---------------------------- MODULE MCContainers ----------------------------
(***************************************************************************)
(* The containers of kyron-foundation, on small instances: the pools of       *)
(* reusable objects and futures, the work-stealing queues, the intrusive      *)
(* list; and the mock functions of its testing tools.  They share no state,   *)
(* so a behaviour is one of the component in focus while the others rest in   *)
(* their initial states.                                                     *)
(***************************************************************************)
EXTENDS ReusablePool, TLC

CONSTANTS w1, w2, w3, NoWorker

VARIABLES focus,
          head, steal, tail, data, global, pc, snap, src, val, num, done,
          fresh, steals, popped, refused, overrun,
          prev, next, first, len, items, walk,
          expected_count, min_count, once, repeatedly, built, mocks, call_count,
          cloned, returned, asked, wanted

\* Four slots, so that several values move at once; or three workers that steal
\* from each other.  The counters wrap in both.
Bulk == INSTANCE SpmcStealQueue WITH
    Workers <- {w1, w2}, Capacity <- 4, GlobalCapacity <- 2, Wrap <- 16, Start <- 14,
    MaxValues <- 5, MaxSteals <- 1
Thieves == INSTANCE SpmcStealQueue WITH
    Workers <- {w1, w2, w3}, Capacity <- 2, GlobalCapacity <- 1, Wrap <- 16, Start <- 14,
    MaxValues <- 3, MaxSteals <- 2
ASSUME Bulk!QueueAssumption /\ Thieves!QueueAssumption

List == INSTANCE IntrusiveList WITH Items <- {"a", "b", "c", "d"}, Null <- "null", head <- first
Fn == INSTANCE MockFn WITH Handles <- {"f", "g"}, MaxOnce <- 2, MaxCalls <- 3, NoCount <- 99

\* The workers are alike.
Symmetry == Permutations({w1, w2, w3})

queueVars == <<head, steal, tail, data, global, pc, snap, src, val, num, done,
               fresh, steals, popped, refused, overrun>>
listVars == <<prev, next, first, len, items, walk>>
fnVars == <<expected_count, min_count, once, repeatedly, built, mocks, call_count,
            cloned, returned, asked, wanted>>
allVars == <<focus, poolVars, queueVars, listVars, fnVars>>
MCInit ==
    /\ focus \in {"pool", "bulk", "thieves", "list", "fn"}
    /\ PoolInit /\ (focus # "pool" => kind = "object")
    /\ IF focus = "thieves" THEN Thieves!Init ELSE Bulk!Init
    /\ List!Init /\ Fn!Init
MCNext ==
    /\ UNCHANGED focus
    /\ \/ focus = "pool" /\ PoolNext /\ UNCHANGED <<queueVars, listVars, fnVars>>
       \/ focus = "bulk" /\ Bulk!Next /\ UNCHANGED <<poolVars, listVars, fnVars>>
       \/ focus = "thieves" /\ Thieves!Next /\ UNCHANGED <<poolVars, listVars, fnVars>>
       \/ focus = "list" /\ List!Next /\ UNCHANGED <<poolVars, queueVars, fnVars>>
       \/ focus = "fn" /\ Fn!Next /\ UNCHANGED <<poolVars, queueVars, listVars>>
MCSpec == MCInit /\ [][MCNext]_allVars

-----------------------------------------------------------------------------
(* The properties, as the modules state them; those of the pool are there.    *)

\* push, pop, steal_into, fetch_from and the overflow into the global queue act
\* like atomic operations on bounded FIFO queues.
IsWorkQueues ==
    /\ focus = "bulk" => Bulk!Queues!QInit
    /\ [][focus = "bulk" => UNCHANGED Bulk!Queues!qvars \/ Bulk!Queues!QNext]_allVars
\* Stealing is safe: no value is lost or handed out twice, no queue holds more
\* than it has room for, one thief at a time reads a queue, and its owner stays
\* out of those slots.
StealIsSafe ==
    /\ focus = "bulk" => Bulk!TypeOK /\ Bulk!Conserved /\ Bulk!StealIsExclusive
    /\ focus = "thieves" => Thieves!TypeOK /\ Thieves!Conserved /\ Thieves!StealIsExclusive

\* The links of the intrusive list spell the sequence its operations promise, and
\* remove_if filters the sequence it found.
ListIsSequence ==
    focus = "list" => List!TypeOK /\ List!RingIsSequence /\ List!RemoveIfIsFilter

\* The prepared results of a mock function come in the order of preparation, and
\* one that passes its check was called as often as it was asked.
MockFnIsTruthful ==
    focus = "fn" => Fn!TypeOK /\ Fn!PreparedInOrder /\ Fn!PassMeansAsked
=============================================================================
