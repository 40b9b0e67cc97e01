---------------------------- MODULE ReusablePool ----------------------------
(***************************************************************************)
(* The round-robin pools: ReusableObjects of kyron-foundation, with its    *)
(* vectors (ReusableVecPool), and ReusableBoxFuturePool of kyron.  A slot  *)
(* is lent to a handle, which may live on another thread and outlive the   *)
(* pool; who frees the memory is settled by one compare-exchange on each   *)
(* side.  In a pool of objects the value is made with the slot and cleared *)
(* between users; in a pool of futures it is written for each user and     *)
(* dropped after.                                                          *)
(***************************************************************************)
EXTENDS Naturals, FiniteSets

CONSTANTS
    Size,       \* number of slots
    Handles     \* ReusableObject or ReusableBoxFuture values that may exist at once

ASSUME PoolAssumption == Size \in Nat \ {0}

VARIABLES
    kind,       \* "object" or "future"
    state,      \* the atomic byte of each slot
    value,      \* what its memory holds: "clean", "dirty", "torn", "none"
    memory,     \* "allocated", "freed", or "broken" when it was freed twice
    position,   \* the pool's position, modulo Size
    pool,       \* "live" or "dropped"
    swept,      \* number of slots its drop has been through
    handle      \* each handle: where it is and the slot it holds

poolVars == <<kind, state, value, memory, position, pool, swept, handle>>

FREE == 0
TAKEN == 1
POOL_GONE == 255
Slots == 0..(Size - 1)
NoHandle == [pc |-> "none", slot |-> 0]
Live(h) == handle[h].pc # "none"

\* new, or for_type: objects are built at once, futures are not.
PoolInit ==
    /\ kind \in {"object", "future"}
    /\ state = [s \in Slots |-> FREE] /\ memory = [s \in Slots |-> "allocated"]
    /\ value = [s \in Slots |-> IF kind = "object" THEN "clean" ELSE "none"]
    /\ position = 0 /\ pool = "live" /\ swept = 0
    /\ handle = [h \in Handles |-> NoHandle]

Deallocate(s) == memory' = [memory EXCEPT ![s] = IF @ = "allocated" THEN "freed" ELSE "broken"]

\* The next slot of the round robin goes to handle h, if it is free; if not,
\* the answer is an error and nothing changes.
LendAny(h) ==
    /\ pool = "live" /\ ~Live(h)
    /\ state' = [state EXCEPT ![position] = TAKEN]
    /\ position' = (position + 1) % Size
    /\ handle' = [handle EXCEPT ![h] = [pc |-> "held", slot |-> position]]
    /\ UNCHANGED <<kind, memory, pool, swept>>
Lend(h) ==
    /\ pool = "live" /\ ~Live(h) /\ state[position] = FREE
    /\ state' = [state EXCEPT ![position] = TAKEN]
    /\ position' = (position + 1) % Size
    /\ handle' = [handle EXCEPT ![h] = [pc |-> "held", slot |-> position]]
    /\ UNCHANGED <<kind, memory, pool, swept>>
NextObject(h) == kind = "object" /\ Lend(h) /\ UNCHANGED value
\* next with a future of the pool's layout (another one is an error), and
\* replace_future: the future is written without dropping what was there.
NextFuture(h) == kind = "future" /\ Lend(h) /\ value' = [value EXCEPT ![position] = "clean"]

\* as_inner_mut: a push into the vector, a poll of the future.
Use(h) ==
    /\ handle[h].pc = "held"
    /\ value' = [value EXCEPT ![handle[h].slot] = "dirty"]
    /\ UNCHANGED <<kind, state, memory, position, pool, swept, handle>>

\* The handle's drop first clears the object or drops the future; the guard
\* makes the second half run even when that panics.
ReusableClear(h) ==
    /\ kind = "object" /\ handle[h].pc = "held" /\ handle' = [handle EXCEPT ![h].pc = "guard"]
    /\ \E v \in {"clean", "torn"} : value' = [value EXCEPT ![handle[h].slot] = v]
    /\ UNCHANGED <<kind, state, memory, position, pool, swept>>
DropFuture(h) ==
    /\ kind = "future" /\ handle[h].pc = "held" /\ handle' = [handle EXCEPT ![h].pc = "guard"]
    /\ value' = [value EXCEPT ![handle[h].slot] = "none"]
    /\ UNCHANGED <<kind, state, memory, position, pool, swept>>

\* The guard: the slot goes back, or the pool is gone and the memory is freed
\* here, with the object in it; a future was dropped before.
GuardAlwaysFrees(h) ==
    LET s == handle[h].slot
    IN  /\ handle[h].pc = "guard" /\ kind = "object"
        /\ IF state[s] = TAKEN THEN state' = [state EXCEPT ![s] = FREE] ELSE UNCHANGED state
        /\ IF pool # "live" THEN Deallocate(s) /\ value' = [value EXCEPT ![s] = "none"]
           ELSE UNCHANGED <<memory, value>>
        /\ handle' = [handle EXCEPT ![h] = NoHandle]
        /\ UNCHANGED <<kind, position, pool, swept>>
ObjectGuard(h) ==
    LET s == handle[h].slot
    IN  /\ handle[h].pc = "guard" /\ kind = "object"
        /\ IF state[s] = TAKEN
           THEN state' = [state EXCEPT ![s] = FREE] /\ UNCHANGED <<memory, value>>
           ELSE Deallocate(s) /\ value' = [value EXCEPT ![s] = "none"] /\ UNCHANGED state
        /\ handle' = [handle EXCEPT ![h] = NoHandle]
        /\ UNCHANGED <<kind, position, pool, swept>>
FutureGuard(h) ==
    LET s == handle[h].slot
    IN  /\ handle[h].pc = "guard" /\ kind = "future"
        /\ IF state[s] = TAKEN
           THEN state' = [state EXCEPT ![s] = FREE] /\ UNCHANGED memory
           ELSE Deallocate(s) /\ UNCHANGED state
        /\ handle' = [handle EXCEPT ![h] = NoHandle]
        /\ UNCHANGED <<kind, value, position, pool, swept>>

\* The pool's drop: slot by slot, a taken one is left to its handle.
DropPool ==
    /\ pool = "live" /\ pool' = "dropped"
    /\ UNCHANGED <<kind, state, value, memory, position, swept, handle>>
DropObjectSlot ==
    /\ kind = "object" /\ pool = "dropped" /\ swept \in Slots /\ swept' = swept + 1
    /\ IF state[swept] = TAKEN
       THEN state' = [state EXCEPT ![swept] = POOL_GONE] /\ UNCHANGED <<memory, value>>
       ELSE Deallocate(swept) /\ value' = [value EXCEPT ![swept] = "none"] /\ UNCHANGED state
    /\ UNCHANGED <<kind, position, pool, handle>>
DropFutureSlot ==
    /\ kind = "future" /\ pool = "dropped" /\ swept \in Slots /\ swept' = swept + 1
    /\ IF state[swept] = TAKEN
       THEN state' = [state EXCEPT ![swept] = POOL_GONE] /\ UNCHANGED memory
       ELSE Deallocate(swept) /\ UNCHANGED state
    /\ UNCHANGED <<kind, value, position, pool, handle>>

PoolNext ==
    \/ \E h \in Handles :
         \/ NextObject(h) \/ NextFuture(h) \/ Use(h)
         \/ ReusableClear(h) \/ DropFuture(h) \/ ObjectGuard(h) \/ FutureGuard(h)
    \/ DropPool \/ DropObjectSlot \/ DropFutureSlot

PoolSpec == PoolInit /\ [][PoolNext]_poolVars

-----------------------------------------------------------------------------
PoolTypeOK ==
    /\ kind \in {"object", "future"}
    /\ state \in [Slots -> {FREE, TAKEN, POOL_GONE}]
    /\ value \in [Slots -> {"clean", "dirty", "torn", "none"}]
    /\ memory \in [Slots -> {"allocated", "freed", "broken"}]
    /\ position \in Slots /\ pool \in {"live", "dropped"} /\ swept \in 0..Size
    /\ handle \in [Handles -> [pc : {"none", "held", "guard"}, slot : Slots]]

\* A slot is never lent to two handles, and the memory a handle refers to is
\* still allocated until the handle's own drop, although pool and handles are
\* dropped on different threads (Drop of the pool against Drop of a handle).
LentOnce ==
    \A h \in Handles : Live(h) =>
        /\ memory[handle[h].slot] = "allocated"
        /\ \A g \in Handles : Live(g) /\ handle[g].slot = handle[h].slot => g = h

\* Once the pool and every handle are gone each slot has been freed, exactly
\* once: each of the two compare-exchanges sees the other or is seen by it.
FreedExactlyOnce ==
    /\ \A s \in Slots : memory[s] # "broken"
    /\ (swept = Size /\ \A h \in Handles : ~Live(h)) => \A s \in Slots : memory[s] = "freed"

\* A slot that waits in the pool holds nothing of its last user: an object was
\* cleared (or its clearing panicked half way) and a future was dropped, so
\* that the next user's future is not written over one that lives.
RestsClean ==
    \A s \in Slots : (state[s] = FREE /\ memory[s] = "allocated") =>
        value[s] \in IF kind = "object" THEN {"clean", "torn"} ELSE {"none"}

\* The inductive strengthening of the three: a slot that is not free and not
\* freed has a handle, and how far the pool's drop has come tells what the
\* byte of a slot can be.
PoolInv ==
    /\ PoolTypeOK /\ LentOnce /\ RestsClean
    /\ \A h \in Handles : Live(h) => state[handle[h].slot] # FREE
    /\ \A h \in Handles : handle[h].pc = "guard" =>
        value[handle[h].slot] \in IF kind = "object" THEN {"clean", "torn"} ELSE {"none"}
    /\ \A s \in Slots : state[s] # FREE /\ memory[s] = "allocated" =>
        \E h \in Handles : Live(h) /\ handle[h].slot = s
    /\ \A s \in Slots : memory[s] # "broken" /\ (state[s] = TAKEN => memory[s] = "allocated")
    /\ \A s \in Slots : IF s < swept THEN state[s] # TAKEN /\ (state[s] = FREE => memory[s] = "freed")
                       ELSE state[s] # POOL_GONE /\ memory[s] = "allocated"
    /\ pool = "live" => swept = 0
==============================================================================
