--------------------------- MODULE ResourceProofs ---------------------------
(***************************************************************************)
(* What is lent out and must outlive its users: the registrations of         *)
(* descriptors (IoReadiness), for any tasks, addresses, width of the tick    *)
(* and number of times a descriptor is opened; and the slots of the pools    *)
(* (ReusablePool), for any number of slots and handles.                      *)
(***************************************************************************)
EXTENDS IoReadiness, ReusablePool, TLAPS

(***************************************************************************)
(* Slots of pools.                                                           *)
(***************************************************************************)

\* A new pool satisfies the invariant: nothing is lent and nothing is freed.
LEMMA PoolInitInv == PoolInit => PoolInv
BY PoolAssumption
   DEF PoolInit, PoolInv, PoolTypeOK, LentOnce, RestsClean, Live, NoHandle, Slots, FREE, TAKEN, POOL_GONE

\* Taking the next slot (next_object, next): it was free, so no handle has it.
LEMMA LendInv ==
    ASSUME PoolInv, NEW h \in Handles, NextObject(h) \/ NextFuture(h)
    PROVE  PoolInv'
<1>1. /\ position \in Slots /\ memory[position] = "allocated" /\ \A g \in Handles : Live(g) => handle[g].slot # position
  BY PoolAssumption DEF PoolInv, PoolTypeOK, NextObject, NextFuture, Lend, Live, Slots
<1>2. /\ Lend(h) /\ value' \in [Slots -> {"clean", "dirty", "torn", "none"}]
      /\ \A s \in Slots : s # position => value'[s] = value[s]
  BY <1>1 DEF PoolInv, PoolTypeOK, NextObject, NextFuture
<1>3. PoolTypeOK'
  BY <1>1, <1>2, PoolAssumption DEF PoolInv, PoolTypeOK, Lend, Slots
<1>4. LentOnce'
  BY <1>1, <1>2 DEF PoolInv, PoolTypeOK, LentOnce, Lend, Live
<1>5. RestsClean'
  BY <1>1, <1>2 DEF PoolInv, PoolTypeOK, RestsClean, Lend, FREE, TAKEN
<1>6. QED
  BY <1>1, <1>2, <1>3, <1>4, <1>5 DEF PoolInv, PoolTypeOK, Lend, Live, FREE, TAKEN, POOL_GONE, Slots

\* A user works on its slot, which is not one that rests in the pool.
LEMMA UseInv ==
    ASSUME PoolInv, NEW h \in Handles, Use(h)
    PROVE  PoolInv'
BY DEF PoolInv, PoolTypeOK, LentOnce, RestsClean, Use, Live, FREE, TAKEN, POOL_GONE, Slots

\* The first half of a handle's drop (reusable_clear, or the drop of the future).
LEMMA ClearInv ==
    ASSUME PoolInv, NEW h \in Handles, ReusableClear(h) \/ DropFuture(h)
    PROVE  PoolInv'
<1>1. /\ handle[h].pc = "held" /\ handle' = [handle EXCEPT ![h].pc = "guard"]
      /\ UNCHANGED <<kind, state, memory, position, pool, swept>>
  BY DEF ReusableClear, DropFuture
<1>2. PICK v \in IF kind = "object" THEN {"clean", "torn"} ELSE {"none"} :
        value' = [value EXCEPT ![handle[h].slot] = v]
  BY DEF ReusableClear, DropFuture
<1>3. PoolTypeOK'
  BY <1>1, <1>2 DEF PoolInv, PoolTypeOK
<1>4. LentOnce' /\ RestsClean'
  BY <1>1, <1>2 DEF PoolInv, PoolTypeOK, LentOnce, RestsClean, Live
<1>5. QED
  BY <1>1, <1>2, <1>3, <1>4 DEF PoolInv, PoolTypeOK, LentOnce, Live, FREE, TAKEN, POOL_GONE, Slots

\* The second half: whoever sees the other side's byte frees the memory.
LEMMA GuardInv ==
    ASSUME PoolInv, NEW h \in Handles, ObjectGuard(h) \/ FutureGuard(h)
    PROVE  PoolInv'
<1> DEFINE s == handle[h].slot
<1>1. /\ Live(h) /\ s \in Slots /\ memory[s] = "allocated" /\ state[s] \in {TAKEN, POOL_GONE}
      /\ \A g \in Handles : Live(g) /\ handle[g].slot = s => g = h
  BY DEF PoolInv, PoolTypeOK, LentOnce, ObjectGuard, FutureGuard, Live
<1>2. CASE state[s] = TAKEN
  <2>1. /\ state' = [state EXCEPT ![s] = FREE] /\ handle' = [handle EXCEPT ![h] = NoHandle]
        /\ UNCHANGED <<kind, memory, value, position, pool, swept>>
    BY <1>2 DEF ObjectGuard, FutureGuard
  <2>2. handle[h].pc = "guard"
    BY DEF ObjectGuard, FutureGuard
  <2>3. PoolTypeOK' /\ LentOnce'
    BY <1>1, <2>1, PoolAssumption DEF PoolInv, PoolTypeOK, LentOnce, Live, NoHandle, Slots
  <2>4. RestsClean'
    BY <1>1, <2>1, <2>2 DEF PoolInv, PoolTypeOK, RestsClean
  <2>5. QED
    BY <1>1, <1>2, <2>1, <2>3, <2>4 DEF PoolInv, PoolTypeOK, Live, NoHandle, FREE, TAKEN, POOL_GONE, Slots
<1>3. CASE state[s] = POOL_GONE
  <2>1. /\ memory' = [memory EXCEPT ![s] = "freed"] /\ value' = [value EXCEPT ![s] = "none"]
        /\ handle' = [handle EXCEPT ![h] = NoHandle]
        /\ UNCHANGED <<kind, state, position, pool, swept>>
    BY <1>1, <1>3 DEF PoolInv, PoolTypeOK, ObjectGuard, FutureGuard, Deallocate, TAKEN, POOL_GONE
  <2>2. PoolTypeOK'
    BY <1>1, <2>1, PoolAssumption DEF PoolInv, PoolTypeOK, NoHandle, Slots
  <2>3. LentOnce'
    BY <1>1, <2>1 DEF PoolInv, PoolTypeOK, LentOnce, Live, NoHandle
  <2>4. RestsClean'
    BY <1>1, <1>3, <2>1 DEF PoolInv, PoolTypeOK, RestsClean, FREE, POOL_GONE
  <2>5. QED
    BY <1>1, <1>3, <2>1, <2>2, <2>3, <2>4
    DEF PoolInv, PoolTypeOK, Live, NoHandle, FREE, TAKEN, POOL_GONE, Slots
<1>4. QED
  BY <1>1, <1>2, <1>3

\* One slot of the pool's drop.
LEMMA DropSlotInv ==
    ASSUME PoolInv, DropObjectSlot \/ DropFutureSlot
    PROVE  PoolInv'
<1>1. /\ swept \in Slots /\ memory[swept] = "allocated" /\ state[swept] \in {FREE, TAKEN}
      /\ pool = "dropped" /\ pool' = "dropped" /\ swept' = swept + 1
  BY DEF PoolInv, PoolTypeOK, DropObjectSlot, DropFutureSlot, Slots
<1>2. CASE state[swept] = TAKEN
  <2>1. state' = [state EXCEPT ![swept] = POOL_GONE] /\ UNCHANGED <<kind, value, memory, position, handle>>
    BY <1>2 DEF DropObjectSlot, DropFutureSlot
  <2>2. PoolTypeOK'
    BY <1>1, <2>1, PoolAssumption DEF PoolInv, PoolTypeOK, Slots
  <2>3. LentOnce' /\ RestsClean'
    BY <1>1, <1>2, <2>1 DEF PoolInv, PoolTypeOK, LentOnce, RestsClean, Live, FREE, POOL_GONE
  <2>4. \A h \in Handles : Live(h)' => state'[handle'[h].slot] # FREE
    BY <1>1, <2>1 DEF PoolInv, PoolTypeOK, Live, FREE, POOL_GONE
  <2>5. \A s \in Slots : IF s < swept' THEN state'[s] # TAKEN /\ (state'[s] = FREE => memory'[s] = "freed")
                         ELSE state'[s] # POOL_GONE /\ memory'[s] = "allocated"
    BY <1>1, <2>1 DEF PoolInv, PoolTypeOK, FREE, TAKEN, POOL_GONE, Slots
  <2>6. \A s \in Slots : state'[s] # FREE /\ memory'[s] = "allocated" =>
            \E h \in Handles : Live(h)' /\ handle'[h].slot = s
    BY <1>1, <1>2, <2>1 DEF PoolInv, PoolTypeOK, Live, FREE, TAKEN
  <2>7. QED
    BY <1>1, <2>1, <2>2, <2>3, <2>4, <2>5, <2>6 DEF PoolInv, PoolTypeOK, TAKEN, POOL_GONE
<1>3. CASE state[swept] = FREE
  <2>1. \A g \in Handles : Live(g) => handle[g].slot # swept
    BY <1>3 DEF PoolInv
  <2>2. /\ memory' = [memory EXCEPT ![swept] = "freed"] /\ value' = [value EXCEPT ![swept] = "none"]
        /\ UNCHANGED <<kind, state, position, handle>>
    BY <1>1, <1>3 DEF PoolInv, PoolTypeOK, RestsClean, DropObjectSlot, DropFutureSlot, Deallocate, FREE, TAKEN
  <2>3. PoolTypeOK'
    BY <1>1, <2>2, PoolAssumption DEF PoolInv, PoolTypeOK, Slots
  <2>4. LentOnce' /\ RestsClean'
    BY <1>1, <2>1, <2>2 DEF PoolInv, PoolTypeOK, LentOnce, RestsClean, Live
  <2>5. \A s \in Slots : IF s < swept' THEN state'[s] # TAKEN /\ (state'[s] = FREE => memory'[s] = "freed")
                         ELSE state'[s] # POOL_GONE /\ memory'[s] = "allocated"
    BY <1>1, <1>3, <2>2 DEF PoolInv, PoolTypeOK, FREE, TAKEN, Slots
  <2>6. QED
    BY <1>1, <1>3, <2>1, <2>2, <2>3, <2>4, <2>5 DEF PoolInv, PoolTypeOK, Live, FREE, TAKEN
<1>4. QED
  BY <1>1, <1>2, <1>3

\* The invariant holds of every state of a pool.
LEMMA PoolInvariant == PoolSpec => []PoolInv
<1>1. PoolInv /\ [PoolNext]_poolVars => PoolInv'
  <2> SUFFICES ASSUME PoolInv, [PoolNext]_poolVars PROVE PoolInv'
    OBVIOUS
  <2>1. CASE DropPool
    BY <2>1 DEF PoolInv, PoolTypeOK, LentOnce, RestsClean, DropPool, Live
  <2>2. CASE UNCHANGED poolVars
    BY <2>2 DEF PoolInv, PoolTypeOK, LentOnce, RestsClean, Live, poolVars
  <2>3. QED
    BY <2>1, <2>2, LendInv, UseInv, ClearInv, GuardInv, DropSlotInv DEF PoolNext
<1>2. QED
  BY PoolInitInv, <1>1, PTL DEF PoolSpec

\* What a handle holds is its own and allocated: no slot is lent twice and none
\* is freed under a handle, however the drops of pool and handles interleave.
THEOREM PoolLendsOnce == PoolSpec => []LentOnce
<1>1. PoolInv => LentOnce
  BY DEF PoolInv
<1>2. QED
  BY PoolInvariant, <1>1, PTL

\* The memory of every slot is freed exactly once, by the pool or by the last
\* handle.
THEOREM PoolFreesExactlyOnce == PoolSpec => []FreedExactlyOnce
<1>1. PoolInv => FreedExactlyOnce
  BY PoolAssumption DEF PoolInv, PoolTypeOK, FreedExactlyOnce, Slots, FREE, TAKEN, POOL_GONE
<1>2. QED
  BY PoolInvariant, <1>1, PTL

\* What rests in the pool was cleared or dropped.
THEOREM PoolRestsClean == PoolSpec => []RestsClean
<1>1. PoolInv => RestsClean
  BY DEF PoolInv
<1>2. QED
  BY PoolInvariant, <1>1, PTL

(***************************************************************************)
(* Registrations.                                                            *)
(***************************************************************************)


\* The registration of the descriptor is alive, the selector knows the current one,
\* and what the driver holds is it, or was opened earlier.
RegistrationInv ==
    /\ cur # None => cur \in tracking /\ cur \notin release
    /\ entry # None => entry.info = cur /\ entry.gen = gen
    /\ drv.gen <= gen
    /\ drv.pc \in {"mark", "wake_all"} =>
         /\ fdst = "created" => drv.gen < gen
         /\ drv.gen = gen /\ cur # None => drv.info = cur
    /\ fdst # "open" => \A t \in Tasks : task[t].pc = "idle"

\* An interest of an open descriptor is armed, marked or about to be; and a task
\* whose clear will be accepted leaves none that is neither.
ArmedInv ==
    /\ fdst = "open" => \A i \in Interests : i \in entry.events \cup info[cur].ready \/ Marking(i)
    /\ \A t \in Tasks : task[t].pc = "clear" /\ task[t].tick = info[cur].tick =>
         \A i \in Interests : i \in entry.events \/ Marking(i)

\* A waker that has not been taken yet waits for a mark or for the wake after it.
WakerInv ==
    \A t \in Tasks : task[t].pc = "pending" =>
        \/ t \in woken
        \/ drv.pc = "notify" /\ t \in drv.wakers
        \/ Listed(t) /\ (WakingAll(Interest(t)) \/ Marking(Interest(t)) \/ ~IsReady(t))

ReadinessInv == TypeOK /\ UsedIsAlive /\ RegistrationInv /\ ArmedInv /\ WakerInv

USE ReadinessAssumption DEF ReadinessInv, Interests, READABLE, WRITABLE, fdVars, regVars, NewInfo, DriverIdle,
    DriverGoto, Interest

\* Both interests at rest, and no waker.
LEMMA NewInfoType == NewInfo \in Registration
  BY DEF Registration

\* The tick wraps.
LEMMA TickType == \A k \in Nat : IncrementTick(k) \in 0..(TickMod - 1)
  BY DEF IncrementTick

\* Task t goes on to one of the steps P.
Moves(t, P) ==
    /\ task' \in [Tasks -> Position] /\ task'[t].pc \in P
    /\ \A u \in Tasks \ {t} : task'[u] = task[u]

\* ... with the tick it held, or with another one.
LEMMA TaskMoves ==
    ASSUME TypeOK, NEW t \in Tasks, NEW P \in SUBSET Labels,
           \E p \in P : TaskGoto(t, p) \/ \E k \in Nat : task' = [task EXCEPT ![t] = [pc |-> p, tick |-> k]]
    PROVE  Moves(t, P)
  BY DEF TypeOK, Position, TaskGoto, Moves

\* A registration without the waker of t.
LEMMA LeaveType ==
    ASSUME TypeOK, NEW t \in Tasks, cur \in Infos
    PROVE  [info EXCEPT ![cur].waiters = @ \ {t}] \in [Infos -> Registration]
  BY DEF TypeOK, Registration

\* A task that is not idle uses an open descriptor, and the driver with events in
\* hand a registration.
LEMMA TaskUses ==
    ASSUME ReadinessInv, NEW t \in Tasks, task[t].pc # "idle"
    PROVE  /\ fdst = "open" /\ cur \in Infos /\ entry \in Entries
           /\ info[cur] \in Registration /\ info[cur].tick \in Nat
  BY DEF TypeOK, RegistrationInv, Registration
LEMMA DriverUses ==
    ASSUME ReadinessInv, drv.pc \in {"mark", "wake_all"}
    PROVE  drv.info \in Infos /\ info[drv.info] \in Registration
  BY DEF TypeOK, UsedIsAlive

\* A task that neither waits nor clears afterwards moves, no readiness and nothing
\* that is armed changes, and the wakers of the others stay.
LEMMA QuietKeeps ==
    ASSUME ReadinessInv, NEW t \in Tasks, NEW P, Moves(t, P), "pending" \notin P, "clear" \notin P,
           info' = info \/ info' = [info EXCEPT ![cur].waiters = @ \ {t}], woken \ {t} \subseteq woken',
           fdst = "open", cur \in Infos, UNCHANGED <<fdVars, regVars, drv>>
    PROVE  UsedIsAlive' /\ RegistrationInv' /\ ArmedInv' /\ WakerInv'
<1>1. UsedIsAlive' /\ RegistrationInv'
  BY DEF UsedIsAlive, RegistrationInv
<1>2. /\ info'[cur].ready = info[cur].ready /\ info'[cur].tick = info[cur].tick
      /\ info'[cur].slot = info[cur].slot /\ info[cur].waiters \ {t} \subseteq info'[cur].waiters
  BY DEF TypeOK, Registration
<1>3. ArmedInv'
  BY <1>2 DEF ArmedInv, Marking, Moves
<1>4. WakerInv'
  BY <1>2 DEF WakerInv, Marking, WakingAll, IsReady, Listed, Moves
<1> QED
  BY <1>1, <1>3, <1>4

\* The selector learns of the current registration, armed for both interests.
LEMMA OpenRegisterKeeps ==
    ASSUME ReadinessInv, OpenRegister
    PROVE  ReadinessInv'
<1> USE DEF OpenRegister
<1>1. TypeOK'
  BY DEF TypeOK, UsedIsAlive, RegistrationInv, Entries, MaxData, Holding, Registration
<1>2. UsedIsAlive' /\ RegistrationInv'
  BY DEF TypeOK, UsedIsAlive, RegistrationInv, Entries
<1>3. ArmedInv'
  BY DEF TypeOK, UsedIsAlive, RegistrationInv, ArmedInv, Entries, Marking
<1>4. WakerInv'
  BY DEF TypeOK, UsedIsAlive, RegistrationInv, WakerInv, Entries, Marking, WakingAll, Listed, IsReady
<1> QED
  BY ONLY <1>1, <1>2, <1>3, <1>4, Zenon DEF ReadinessInv

\* A registration that was never armed is released: the driver cannot hold it.
LEMMA OpenFailsKeeps ==
    ASSUME ReadinessInv, OpenFails
    PROVE  ReadinessInv'
<1> USE DEF OpenFails
<1>1. TypeOK'
  BY DEF TypeOK, UsedIsAlive, RegistrationInv, Entries, MaxData, Holding, Registration
<1>2. UsedIsAlive' /\ RegistrationInv'
  BY DEF TypeOK, UsedIsAlive, RegistrationInv, Entries
<1>3. ArmedInv'
  BY DEF TypeOK, UsedIsAlive, RegistrationInv, ArmedInv, Entries, Marking
<1>4. WakerInv'
  BY DEF TypeOK, UsedIsAlive, RegistrationInv, WakerInv, Entries, Marking, WakingAll, Listed, IsReady
<1> QED
  BY ONLY <1>1, <1>2, <1>3, <1>4, Zenon DEF ReadinessInv

\* The descriptor leaves the selector while no task uses it.
LEMMA CloseDeregisterKeeps ==
    ASSUME ReadinessInv, CloseDeregister
    PROVE  ReadinessInv'
<1> USE DEF CloseDeregister
<1>1. TypeOK'
  BY DEF TypeOK, UsedIsAlive, RegistrationInv, Entries, MaxData, Holding, Registration
<1>2. UsedIsAlive' /\ RegistrationInv'
  BY DEF TypeOK, UsedIsAlive, RegistrationInv, Entries
<1>3. ArmedInv'
  BY DEF TypeOK, UsedIsAlive, RegistrationInv, ArmedInv, Entries, Marking
<1>4. WakerInv'
  BY DEF TypeOK, UsedIsAlive, RegistrationInv, WakerInv, Entries, Marking, WakingAll, Listed, IsReady
<1> QED
  BY ONLY <1>1, <1>2, <1>3, <1>4, Zenon DEF ReadinessInv

\* Its registration is put aside, still alive.
LEMMA CloseScheduleKeeps ==
    ASSUME ReadinessInv, CloseSchedule
    PROVE  ReadinessInv'
<1> USE DEF CloseSchedule
<1>1. TypeOK'
  BY DEF TypeOK, UsedIsAlive, RegistrationInv, Entries, MaxData, Holding, Registration
<1>2. UsedIsAlive' /\ RegistrationInv'
  BY DEF TypeOK, UsedIsAlive, RegistrationInv, Entries
<1>3. ArmedInv'
  BY DEF TypeOK, UsedIsAlive, RegistrationInv, ArmedInv, Entries, Marking
<1>4. WakerInv'
  BY DEF TypeOK, UsedIsAlive, RegistrationInv, WakerInv, Entries, Marking, WakingAll, Listed, IsReady
<1> QED
  BY ONLY <1>1, <1>2, <1>3, <1>4, Zenon DEF ReadinessInv

\* The driver looks at the flag.
LEMMA ProcessIoKeeps ==
    ASSUME ReadinessInv, ProcessIo
    PROVE  ReadinessInv'
<1> USE DEF ProcessIo
<1>1. TypeOK'
  BY Zenon DEF TypeOK, UsedIsAlive, RegistrationInv, Entries, MaxData, Holding, Registration
<1>2. UsedIsAlive' /\ RegistrationInv'
  BY DEF TypeOK, UsedIsAlive, RegistrationInv, Entries
<1>3. ArmedInv'
  BY DEF TypeOK, UsedIsAlive, RegistrationInv, ArmedInv, Entries, Marking
<1>4. WakerInv'
  BY DEF TypeOK, UsedIsAlive, RegistrationInv, WakerInv, Entries, Marking, WakingAll, Listed, IsReady
<1> QED
  BY ONLY <1>1, <1>2, <1>3, <1>4, Zenon DEF ReadinessInv

\* What was put aside is released while the driver holds nothing.
LEMMA CleanupKeeps ==
    ASSUME ReadinessInv, Cleanup
    PROVE  ReadinessInv'
<1> USE DEF Cleanup
<1>1. TypeOK'
  BY NewInfoType, ZenonT(20) DEF TypeOK
<1>2. UsedIsAlive' /\ RegistrationInv'
  BY DEF TypeOK, UsedIsAlive, RegistrationInv, Entries
<1>3. ArmedInv'
  BY DEF TypeOK, UsedIsAlive, RegistrationInv, ArmedInv, Entries, Marking
<1>4. WakerInv'
  BY DEF TypeOK, UsedIsAlive, RegistrationInv, WakerInv, Entries, Marking, WakingAll, Listed, IsReady
<1> QED
  BY ONLY <1>1, <1>2, <1>3, <1>4, Zenon DEF ReadinessInv

\* What is disarmed is in the hand of the driver.
LEMMA PollEventsKeeps ==
    ASSUME ReadinessInv, PollEvents
    PROVE  ReadinessInv'
<1> USE DEF PollEvents, SelectEvents
<1>1. TypeOK'
  <2>1. entry' \in Entries /\ entry \in Entries
    BY DEF TypeOK, Entries
  <2> QED
    BY <2>1, ZenonT(20) DEF TypeOK, Entries
<1>2. UsedIsAlive' /\ RegistrationInv'
  BY DEF TypeOK, UsedIsAlive, RegistrationInv, Entries
<1>3. ArmedInv'
  BY DEF TypeOK, UsedIsAlive, RegistrationInv, ArmedInv, Entries, Marking
<1>4. WakerInv'
  BY DEF TypeOK, UsedIsAlive, RegistrationInv, WakerInv, Entries, Marking, WakingAll, Listed, IsReady
<1> QED
  BY ONLY <1>1, <1>2, <1>3, <1>4, Zenon DEF ReadinessInv

\* Nothing was ready.
LEMMA PollTimesOutKeeps ==
    ASSUME ReadinessInv, PollTimesOut
    PROVE  ReadinessInv'
<1> USE DEF PollTimesOut
<1>1. TypeOK'
  BY DEF TypeOK, UsedIsAlive, RegistrationInv, Entries, MaxData, Holding, Registration
<1>2. UsedIsAlive' /\ RegistrationInv'
  BY DEF TypeOK, UsedIsAlive, RegistrationInv, Entries
<1>3. ArmedInv'
  BY DEF TypeOK, UsedIsAlive, RegistrationInv, ArmedInv, Entries, Marking
<1>4. WakerInv'
  BY DEF TypeOK, UsedIsAlive, RegistrationInv, WakerInv, Entries, Marking, WakingAll, Listed, IsReady
<1> QED
  BY ONLY <1>1, <1>2, <1>3, <1>4, Zenon DEF ReadinessInv

\* A mark advances the tick, so that no clear of an earlier readiness is
\* accepted, and what is marked is what the wakers are taken for.
LEMMA MarkStateKeeps ==
    ASSUME ReadinessInv, MarkState
    PROVE  ReadinessInv'
<1> USE DEF MarkState, Set
<1>1. TypeOK'
  <2>1. IncrementTick(info[drv.info].tick) \in 0..(TickMod - 1)
    BY DriverUses, TickType DEF Registration
  <2>2. Set(info[drv.info], drv.events) \in Registration
    BY <2>1, DriverUses, Zenon DEF TypeOK, Registration
  <2> QED
    BY <2>2, DriverUses, ZenonT(20) DEF TypeOK, Registration
<1>2. UsedIsAlive' /\ RegistrationInv'
  BY DEF TypeOK, UsedIsAlive, RegistrationInv, Entries
<1>3. ArmedInv'
  <2>1. CASE drv.info = cur
    BY <2>1, DriverUses DEF TypeOK, UsedIsAlive, ArmedInv, Marking, NotOvertaken, Holding, Registration
  <2>2. CASE drv.info # cur
    BY <2>2, DriverUses DEF TypeOK, RegistrationInv, ArmedInv, Marking
  <2> QED
    BY <2>1, <2>2
<1>4. WakerInv'
  BY DEF TypeOK, UsedIsAlive, RegistrationInv, WakerInv, Entries, Marking, WakingAll, Listed, IsReady
<1> QED
  BY ONLY <1>1, <1>2, <1>3, <1>4, Zenon DEF ReadinessInv

\* The wakers of what is ready are taken.
LEMMA WakeAllKeeps ==
    ASSUME ReadinessInv, WakeAll
    PROVE  ReadinessInv'
<1>0. drv.info \in Infos /\ info[drv.info] \in Registration
  BY DriverUses DEF WakeAll
<1>1. TypeOK'
  <2> DEFINE slot == [i \in Interests |-> IF i \in drv.events THEN None ELSE info[drv.info].slot[i]]
             waiters == {t \in info[drv.info].waiters : Interest(t) \notin drv.events}
             rest == [info[drv.info] EXCEPT !.slot = slot, !.waiters = waiters]
  <2>1. rest \in Registration
    BY <1>0, Zenon DEF Registration
  <2>2. info' = [info EXCEPT ![drv.info] = rest]
    BY <1>0, ZenonT(20) DEF WakeAll, TypeOK, Registration
  <2>3. drv'.wakers \subseteq Tasks /\ drv' = [drv EXCEPT !.pc = "notify", !.wakers = drv'.wakers]
    BY <1>0 DEF WakeAll, TypeOK, Registration
  <2>4. UNCHANGED <<avail, fed, fdVars, regVars, task, woken>>
    BY DEF WakeAll
  <2> HIDE DEF rest
  <2> QED
    BY <1>0, <2>1, <2>2, <2>3, <2>4, ZenonT(20) DEF TypeOK
<1> USE <1>0 DEF WakeAll
<1>2. UsedIsAlive' /\ RegistrationInv'
  BY DEF TypeOK, UsedIsAlive, RegistrationInv, Entries
<1>3. ArmedInv'
  BY DEF TypeOK, UsedIsAlive, RegistrationInv, ArmedInv, Entries, Marking
<1>4. WakerInv'
  BY DEF TypeOK, UsedIsAlive, RegistrationInv, WakerInv, Entries, Marking, WakingAll, Listed, IsReady
<1> QED
  BY ONLY <1>1, <1>2, <1>3, <1>4, Zenon DEF ReadinessInv

\* They are called.
LEMMA NotifyWakersKeeps ==
    ASSUME ReadinessInv, NotifyWakers
    PROVE  ReadinessInv'
<1> USE DEF NotifyWakers
<1>1. TypeOK'
  BY DEF TypeOK, UsedIsAlive, RegistrationInv, Entries, MaxData, Holding, Registration
<1>2. UsedIsAlive' /\ RegistrationInv'
  BY DEF TypeOK, UsedIsAlive, RegistrationInv, Entries
<1>3. ArmedInv'
  BY DEF TypeOK, UsedIsAlive, RegistrationInv, ArmedInv, Entries, Marking
<1>4. WakerInv'
  BY DEF TypeOK, UsedIsAlive, RegistrationInv, WakerInv, Entries, Marking, WakingAll, Listed, IsReady
<1> QED
  BY ONLY <1>1, <1>2, <1>3, <1>4, Zenon DEF ReadinessInv

\* A registration is reused only after its release.
LEMMA OpenCreateKeeps ==
    ASSUME ReadinessInv, NEW a \in Infos, OpenCreate(a)
    PROVE  ReadinessInv'
<1> USE DEF OpenCreate
<1>1. TypeOK'
  BY NewInfoType DEF TypeOK
<1>2. UsedIsAlive' /\ RegistrationInv'
  BY DEF TypeOK, UsedIsAlive, RegistrationInv, Entries
<1>3. ArmedInv'
  BY DEF TypeOK, UsedIsAlive, RegistrationInv, ArmedInv, Entries, Marking
<1>4. WakerInv'
  BY DEF TypeOK, UsedIsAlive, RegistrationInv, WakerInv, Entries, Marking, WakingAll, Listed, IsReady
<1> QED
  BY ONLY <1>1, <1>2, <1>3, <1>4, ZenonT(30) DEF ReadinessInv

\* Data or space arrives.
LEMMA FeedKeeps ==
    ASSUME ReadinessInv, NEW i \in Interests, Feed(i)
    PROVE  ReadinessInv'
<1> USE DEF Feed
<1>1. TypeOK'
  BY DEF TypeOK, UsedIsAlive, RegistrationInv, Entries, MaxData, Holding, Registration
<1>2. UsedIsAlive' /\ RegistrationInv'
  BY DEF TypeOK, UsedIsAlive, RegistrationInv, Entries
<1>3. ArmedInv'
  BY DEF TypeOK, UsedIsAlive, RegistrationInv, ArmedInv, Entries, Marking
<1>4. WakerInv'
  BY DEF TypeOK, UsedIsAlive, RegistrationInv, WakerInv, Entries, Marking, WakingAll, Listed, IsReady
<1> QED
  BY ONLY <1>1, <1>2, <1>3, <1>4, Zenon DEF ReadinessInv

\* A call begins.
LEMMA CallKeeps ==
    ASSUME ReadinessInv, NEW t \in Tasks, Call(t)
    PROVE  ReadinessInv'
<1>1. fdst = "open" /\ cur \in Infos /\ info[cur].tick \in Nat
  BY TaskUses DEF Call, TypeOK, Registration
<1>2. Moves(t, {"ready?"})
  <2>1. {"ready?"} \in SUBSET Labels
    BY DEF Labels, Holding
  <2> QED
    BY <1>1, <2>1, TaskMoves DEF Call
<1>3. TypeOK'
  BY <1>1, <1>2 DEF Call, TypeOK, Moves
<1> QED
  BY <1>1, <1>2, <1>3, QuietKeeps DEF Call

\* A task is polled again.
LEMMA PollTaskKeeps ==
    ASSUME ReadinessInv, NEW t \in Tasks, PollTask(t)
    PROVE  ReadinessInv'
<1>1. fdst = "open" /\ cur \in Infos /\ info[cur].tick \in Nat
  BY TaskUses DEF PollTask, TypeOK, Registration
<1>2. Moves(t, {"polled", "ready?"})
  <2>1. {"polled", "ready?"} \in SUBSET Labels
    BY DEF Labels, Holding
  <2> QED
    BY <1>1, <2>1, TaskMoves DEF PollTask
<1>3. TypeOK'
  BY <1>1, <1>2 DEF PollTask, TypeOK, Moves
<1> QED
  BY <1>1, <1>2, <1>3, QuietKeeps DEF PollTask

\* The readiness is read without the lock.
LEMMA FirstLookKeeps ==
    ASSUME ReadinessInv, NEW t \in Tasks, FirstLook(t)
    PROVE  ReadinessInv'
<1>1. fdst = "open" /\ cur \in Infos /\ info[cur].tick \in Nat
  BY TaskUses DEF FirstLook, TypeOK, Registration
<1>2. Moves(t, {"io", "lock"})
  <2>1. {"io", "lock"} \in SUBSET Labels
    BY DEF Labels, Holding
  <2> QED
    BY <1>1, <2>1, TaskMoves DEF FirstLook, GotReadiness
<1>3. TypeOK'
  BY <1>1, <1>2 DEF FirstLook, TypeOK, Moves
<1> QED
  BY <1>1, <1>2, <1>3, QuietKeeps DEF FirstLook

\* A future that waited looks again.
LEMMA PollFutureKeeps ==
    ASSUME ReadinessInv, NEW t \in Tasks, PollFuture(t)
    PROVE  ReadinessInv'
<1>1. fdst = "open" /\ cur \in Infos /\ info[cur].tick \in Nat
  BY TaskUses DEF PollFuture, TypeOK, Registration
<1>2. Moves(t, {"remove", "again"})
  <2>1. {"remove", "again"} \in SUBSET Labels
    BY DEF Labels, Holding
  <2> QED
    BY <1>1, <2>1, TaskMoves DEF PollFuture
<1>3. TypeOK'
  BY <1>1, <1>2 DEF PollFuture, TypeOK, Moves
<1> QED
  BY <1>1, <1>2, <1>3, QuietKeeps DEF PollFuture

\* It leaves the list.
LEMMA RemoveFutureKeeps ==
    ASSUME ReadinessInv, NEW t \in Tasks, RemoveFuture(t)
    PROVE  ReadinessInv'
<1>1. fdst = "open" /\ cur \in Infos /\ info[cur].tick \in Nat
  BY TaskUses DEF RemoveFuture, TypeOK, Registration
<1>2. Moves(t, {"io"})
  <2>1. {"io"} \in SUBSET Labels
    BY DEF Labels, Holding
  <2> QED
    BY <1>1, <2>1, TaskMoves DEF RemoveFuture
<1>3. TypeOK'
  BY <1>1, <1>2, LeaveType DEF RemoveFuture, TypeOK, Moves
<1> QED
  BY <1>1, <1>2, <1>3, QuietKeeps, Zenon DEF RemoveFuture

\* So does one that is given up.
LEMMA CancelKeeps ==
    ASSUME ReadinessInv, NEW t \in Tasks, Cancel(t)
    PROVE  ReadinessInv'
<1>1. fdst = "open" /\ cur \in Infos /\ info[cur].tick \in Nat
  BY TaskUses DEF Cancel, TypeOK, Registration
<1>2. Moves(t, {"idle"})
  <2>1. {"idle"} \in SUBSET Labels
    BY DEF Labels, Holding
  <2> QED
    BY <1>1, <2>1, TaskMoves DEF Cancel
<1>3. TypeOK'
  BY <1>1, <1>2, LeaveType DEF Cancel, TypeOK, Moves
<1> QED
  BY <1>1, <1>2, <1>3, QuietKeeps, ZenonT(20) DEF Cancel

\* The system call.
LEMMA DoIoKeeps ==
    ASSUME ReadinessInv, NEW t \in Tasks, DoIo(t)
    PROVE  ReadinessInv'
<1>1. fdst = "open" /\ cur \in Infos /\ info[cur].tick \in Nat
  BY TaskUses DEF DoIo, TypeOK, Registration
<1>2. Moves(t, {"idle", "rearm"})
  <2>1. {"idle", "rearm"} \in SUBSET Labels
    BY DEF Labels, Holding
  <2> QED
    BY <1>1, <2>1, TaskMoves DEF DoIo
<1>3. TypeOK'
  BY <1>1, <1>2 DEF DoIo, TypeOK, Moves, MaxData
<1> QED
  BY <1>1, <1>2, <1>3, QuietKeeps DEF DoIo

\* The waker is left where the driver looks, while the interest is not ready.
LEMMA RegisterKeeps ==
    ASSUME ReadinessInv, NEW t \in Tasks, Register(t)
    PROVE  ReadinessInv'
<1>1. /\ task[t].pc = "lock" /\ fdst = "open" /\ cur \in Infos
      /\ info[cur] \in Registration /\ info[cur].tick \in Nat
  BY TaskUses DEF Register
<1>2. {"io"} \in SUBSET Labels /\ {"pending"} \in SUBSET Labels
  BY DEF Labels, Holding
<1>3. UNCHANGED <<avail, fed, fdVars, regVars, drv, woken>>
  BY DEF Register
<1>4. CASE IsReady(t)
  <2>1. Moves(t, {"io"}) /\ info' = info
    BY <1>1, <1>2, <1>4, TaskMoves DEF Register, GotReadiness
  <2>2. TypeOK'
    BY <1>3, <2>1 DEF TypeOK, Moves
  <2> QED
    BY <1>1, <1>3, <2>1, <2>2, QuietKeeps
<1>5. CASE ~IsReady(t)
  <2> DEFINE left == IF t \in Futures THEN [info[cur] EXCEPT !.waiters = @ \cup {t}]
                     ELSE [info[cur] EXCEPT !.slot[Interest(t)] = t]
  <2>1. TaskGoto(t, "pending") /\ info' = [info EXCEPT ![cur] = left]
    BY <1>5 DEF Register
  <2>2. Moves(t, {"pending"})
    BY <1>2, <2>1, TaskMoves
  <2>3. /\ left \in Registration /\ left.ready = info[cur].ready /\ left.tick = info[cur].tick
        /\ IF t \in Futures THEN left.waiters = info[cur].waiters \cup {t} /\ left.slot = info[cur].slot
           ELSE left.waiters = info[cur].waiters /\ left.slot = [info[cur].slot EXCEPT ![Interest(t)] = t]
    BY <1>1 DEF Registration
  <2> HIDE DEF left
  <2>4. TypeOK'
    BY <1>1, <1>3, <2>1, <2>2, <2>3 DEF TypeOK, Moves
  <2>5. info'[cur] = left
    BY <1>1, <2>1 DEF TypeOK
  <2>6. UsedIsAlive' /\ RegistrationInv' /\ ArmedInv'
    BY <1>1, <1>3, <2>1, <2>2, <2>3, <2>5 DEF UsedIsAlive, RegistrationInv, ArmedInv, Marking, Moves
  <2>7. WakerInv'
    BY <1>1, <1>3, <1>5, <2>1, <2>2, <2>3, <2>5
       DEF WakerInv, Marking, WakingAll, Listed, IsReady, Moves, TypeOK, Registration
  <2> QED
    BY <2>4, <2>6, <2>7
<1> QED
  BY <1>4, <1>5

\* The selector is armed for both interests.
LEMMA RearmKeeps ==
    ASSUME ReadinessInv, NEW t \in Tasks, Rearm(t)
    PROVE  ReadinessInv'
<1>1. fdst = "open" /\ cur \in Infos /\ entry \in Entries
  BY TaskUses DEF Rearm
<1>2. Moves(t, {"clear"}) /\ UNCHANGED <<avail, fed, fdst, cur, gen, info, regVars, drv, woken>>
  BY TaskMoves DEF Rearm, Labels, Holding
<1>3. entry' \in Entries /\ entry'.info = entry.info /\ entry'.gen = entry.gen /\ entry'.events = Interests
  BY <1>1 DEF Rearm, Entries
<1>4. TypeOK'
  BY <1>1, <1>2, <1>3 DEF TypeOK, Moves
<1>5. UsedIsAlive' /\ RegistrationInv' /\ ArmedInv'
  BY <1>1, <1>2, <1>3 DEF UsedIsAlive, RegistrationInv, ArmedInv, Marking, Moves
<1>6. WakerInv'
  BY <1>2 DEF WakerInv, Marking, WakingAll, Listed, IsReady, Moves
<1> QED
  BY <1>4, <1>5, <1>6

\* A clear that is accepted leaves its interest armed.
LEMMA ClearReadinessKeeps ==
    ASSUME ReadinessInv, NEW t \in Tasks, ClearReadiness(t)
    PROVE  ReadinessInv'
<1>1. task[t].pc = "clear" /\ fdst = "open" /\ cur \in Infos /\ info[cur] \in Registration
  BY TaskUses DEF ClearReadiness
<1>2. Moves(t, {"ready?"}) /\ UNCHANGED <<avail, fed, fdVars, regVars, drv, woken>>
  BY TaskMoves, ZenonT(20) DEF ClearReadiness, Labels
<1> DEFINE left == Clear(info[cur], Interest(t), task[t].tick)
<1>3. info' = [info EXCEPT ![cur] = left]
  BY DEF ClearReadiness
<1>4. /\ left \in Registration /\ left.tick = info[cur].tick
      /\ left.slot = info[cur].slot /\ left.waiters = info[cur].waiters /\ left.ready \subseteq info[cur].ready
      /\ task[t].tick # info[cur].tick => left.ready = info[cur].ready
  BY <1>1 DEF Registration, Clear
<1> HIDE DEF left
<1>5. info'[cur] = left
  BY <1>1, <1>3 DEF TypeOK
<1>6. TypeOK'
  BY <1>1, <1>2, <1>3, <1>4 DEF TypeOK, Moves
<1>7. UsedIsAlive' /\ RegistrationInv' /\ ArmedInv'
  BY <1>1, <1>2, <1>4, <1>5 DEF UsedIsAlive, RegistrationInv, ArmedInv, Marking, Moves
<1>8. WakerInv'
  BY <1>1, <1>2, <1>4, <1>5 DEF WakerInv, Marking, WakingAll, Listed, IsReady, Moves
<1> QED
  BY <1>6, <1>7, <1>8

\* The initial state, where the descriptor is closed.
LEMMA ReadinessInit == Init => ReadinessInv
<1> SUFFICES ASSUME Init PROVE ReadinessInv
  OBVIOUS
<1>1. TypeOK
  <2>1. task \in [Tasks -> Position] /\ info \in [Infos -> Registration]
    BY NewInfoType DEF Init, Position, Labels
  <2>2. /\ avail \in [Interests -> Nat] /\ fed \in [Interests -> Nat]
        /\ \A i \in Interests : avail[i] <= fed[i] /\ fed[i] <= MaxData[i]
    BY DEF Init, MaxData
  <2>3. gen \in Nat /\ drv.gen \in Nat
    BY DEF Init
  <2> QED
    BY <2>1, <2>2, <2>3, ZenonT(30) DEF Init, TypeOK
<1> QED
  BY <1>1 DEF Init, UsedIsAlive, RegistrationInv, ArmedInv, WakerInv

\* Every step of the driver, of the descriptor and of the tasks.
LEMMA ReadinessStep == ReadinessInv /\ [Next]_vars => ReadinessInv'
<1> SUFFICES ASSUME ReadinessInv, [Next]_vars PROVE ReadinessInv'
  OBVIOUS
<1>1. CASE Driver
  BY <1>1, ProcessIoKeeps, CleanupKeeps, PollEventsKeeps, PollTimesOutKeeps, MarkStateKeeps, WakeAllKeeps,
     NotifyWakersKeeps, Zenon DEF Driver
<1>2. CASE OpenRegister \/ OpenFails \/ CloseDeregister \/ CloseSchedule \/ \E a \in Infos : OpenCreate(a)
  BY <1>2, OpenRegisterKeeps, OpenFailsKeeps, CloseDeregisterKeeps, CloseScheduleKeeps, OpenCreateKeeps, Zenon
<1>3. CASE \E i \in Interests : Feed(i)
  BY <1>3, FeedKeeps, Zenon
<1>4. CASE \E t \in Tasks : TaskStep(t) \/ Call(t) \/ PollTask(t) \/ Cancel(t)
  BY <1>4, FirstLookKeeps, RegisterKeeps, PollFutureKeeps, RemoveFutureKeeps, DoIoKeeps, RearmKeeps,
     ClearReadinessKeeps, CallKeeps, PollTaskKeeps, CancelKeeps, Zenon DEF TaskStep, SlotCall, AsyncCall
<1>5. CASE UNCHANGED vars
  BY <1>5 DEF vars, TypeOK, UsedIsAlive, RegistrationInv, ArmedInv, WakerInv, Marking, WakingAll, Listed, IsReady
<1> QED
  BY ONLY <1>1, <1>2, <1>3, <1>4, <1>5, [Next]_vars, Zenon DEF Next

\* The invariant gives what the runs check.
LEMMA ReadinessInvariant == Spec => []ReadinessInv
  BY ReadinessInit, ReadinessStep, PTL DEF Spec

\* IoDriver keeps the raw pointer of a registration from select to wake, while
\* descriptors are closed and opened on other threads: the registration is not
\* released meanwhile, nor given to a later descriptor, whatever the number of
\* registrations and of descriptors opened.
THEOREM RegistrationOutlivesWake == Spec => []UsedIsAlive
<1>1. ReadinessInv => UsedIsAlive
  OBVIOUS
<1> QED
  BY <1>1, ReadinessInvariant, PTL

\* No readiness is lost between a WouldBlock, the new arming of the selector, the
\* clear with an old tick and the registration of the waker, for any number of
\* tasks, and any width of the tick that is not overtaken by a full turn: a call
\* that waits is woken when it can go on.
THEOREM NoReadinessIsLost == Spec => []WaiterIsWoken
<1>1. ReadinessInv => WaiterIsWoken
  <2> SUFFICES ASSUME ReadinessInv, NEW t \in Tasks, task[t].pc = "pending" PROVE WillHear(t)
    BY DEF WaiterIsWoken
  <2>1. Interest(t) \in entry.events \cup info[cur].ready \/ Marking(Interest(t))
    BY TaskUses DEF ArmedInv
  <2> QED
    BY <2>1 DEF WillHear, WakerInv, IsReady
<1> QED
  BY <1>1, ReadinessInvariant, PTL
=============================================================================
