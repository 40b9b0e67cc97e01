------------------------------ MODULE IpcEvents ------------------------------
(***************************************************************************)
(* ipc/iceoryx2/event.rs: a Listener whose events arrive at a file          *)
(* descriptor that is watched like a socket, and a task that awaits them    *)
(* with wait_one and wait_all.  A descriptor is armed until the selector     *)
(* reports it, and armed again when a call on it would block; readiness is   *)
(* cleared only if its tick is the one the caller saw.  The iceoryx2 port is  *)
(* external.                                                                 *)
(***************************************************************************)
EXTENDS Naturals

CONSTANTS
    MaxEvents,  \* bound: events notified
    MaxErrors,  \* bound: calls that fail
    TickMod     \* the ticks of readiness wrap

VARIABLES
    notified, taken,    \* events sent by the notifiers, and handed to the program
    armed,              \* the descriptor is watched
    drv,                \* the driver: "idle", "reported" (has the event), "marked" (readiness is set)
    ready, tick,        \* readiness of the registration
    pc,                 \* "idle", "look", "parked" (listed), "woken", "forgotten", "call", "rearm", "clear"
    all, once,          \* wait_all; called_at_least_once
    seen,               \* the tick of the readiness a call runs under
    errors

vars == <<notified, taken, armed, drv, ready, tick, pc, all, once, seen, errors>>

Init ==
    /\ notified = 0 /\ taken = 0 /\ armed = TRUE /\ drv = "idle"
    /\ ready = FALSE /\ tick = 0 /\ pc = "idle" /\ all = FALSE /\ once = FALSE /\ seen = 0
    /\ errors = 0

Notify ==
    /\ notified < MaxEvents /\ notified' = notified + 1
    /\ UNCHANGED <<taken, armed, drv, ready, tick, pc, all, once, seen, errors>>

\* The driver: the selector reports an armed descriptor once, readiness is set
\* under a new tick, and then, in a step of its own, wake_all takes the waiting
\* future off the list and wakes its task.
Select ==
    /\ armed /\ taken < notified /\ drv = "idle" /\ armed' = FALSE /\ drv' = "reported"
    /\ UNCHANGED <<notified, taken, ready, tick, pc, all, once, seen, errors>>
MarkState ==
    /\ drv = "reported" /\ drv' = "marked" /\ ready' = TRUE /\ tick' = (tick + 1) % TickMod
    /\ UNCHANGED <<notified, taken, armed, pc, all, once, seen, errors>>
WakeAll ==
    /\ drv = "marked" /\ drv' = "idle" /\ pc' = IF pc = "parked" THEN "woken" ELSE pc
    /\ UNCHANGED <<notified, taken, armed, ready, tick, all, once, seen, errors>>

\* wait_one and wait_all, and the async_call around them.
Wait(a) ==
    /\ pc = "idle" /\ pc' = "look" /\ all' = a
    /\ UNCHANGED <<notified, taken, armed, drv, ready, tick, once, seen, errors>>
RequestReadiness ==
    /\ pc = "look"
    /\ pc' = IF ready THEN "call" ELSE "parked"
    /\ seen' = tick /\ once' = FALSE
    /\ UNCHANGED <<notified, taken, armed, drv, ready, tick, all, errors>>
\* The future polled after its first poll, because it was woken or because the
\* task was for another reason: it does not list itself again.
Repoll ==
    /\ pc = "woken" /\ pc' = IF ready THEN "call" ELSE "forgotten"
    /\ seen' = tick /\ UNCHANGED <<notified, taken, armed, drv, ready, tick, all, once, errors>>
SpuriousPoll ==
    /\ pc \in {"parked", "forgotten"} /\ ready /\ pc' = "call"
    /\ seen' = tick /\ UNCHANGED <<notified, taken, armed, drv, ready, tick, all, once, errors>>
Cancel ==
    /\ pc \in {"parked", "woken", "forgotten"} /\ pc' = "idle"
    /\ UNCHANGED <<notified, taken, armed, drv, ready, tick, all, once, seen, errors>>

\* wait_one_internal: an event, nothing (it would block), or an error.
TakesEvent ==
    /\ pc = "call" /\ taken < notified /\ taken' = taken + 1 /\ once' = TRUE
    /\ pc' = IF all THEN "call" ELSE "idle"
    /\ UNCHANGED <<notified, armed, drv, ready, tick, all, seen, errors>>
\* Mutant: wait_all stops at the end of the events as if it were done for good.
WouldBlockClears ==
    /\ pc = "call" /\ taken = notified /\ pc' = IF all /\ once THEN "clear" ELSE "rearm"
    /\ UNCHANGED <<notified, taken, armed, drv, ready, tick, all, once, seen, errors>>
\* After at least one event wait_all answers Ok, so nobody learns that the call
\* would block: the descriptor stays as it is, and so does readiness.
WouldBlock ==
    /\ pc = "call" /\ taken = notified /\ pc' = IF all /\ once THEN "idle" ELSE "rearm"
    /\ UNCHANGED <<notified, taken, armed, drv, ready, tick, all, once, seen, errors>>
WaitError ==
    /\ pc = "call" /\ errors < MaxErrors /\ errors' = errors + 1 /\ pc' = "idle"
    /\ UNCHANGED <<notified, taken, armed, drv, ready, tick, all, once, seen>>
\* io_call of the selector's proxy, and clear_readiness.
Rearm ==
    /\ pc = "rearm" /\ armed' = TRUE /\ pc' = "clear"
    /\ UNCHANGED <<notified, taken, drv, ready, tick, all, once, seen, errors>>
ClearReadiness ==
    /\ pc = "clear" /\ ready' = (ready /\ tick # seen) /\ pc' = "look"
    /\ UNCHANGED <<notified, taken, armed, drv, tick, all, once, seen, errors>>

Driver == Select \/ MarkState \/ WakeAll
Task == RequestReadiness \/ Repoll \/ TakesEvent \/ WouldBlock \/ Rearm \/ ClearReadiness
Next == Notify \/ Driver \/ Task \/ SpuriousPoll \/ Cancel \/ WaitError \/ (\E a \in BOOLEAN : Wait(a))

Fairness == WF_vars(Driver) /\ WF_vars(Task) /\ WF_vars(\E a \in BOOLEAN : Wait(a))
Spec == Init /\ [][Next]_vars /\ Fairness

-----------------------------------------------------------------------------
TypeOK ==
    /\ notified \in 0..MaxEvents /\ taken \in 0..notified /\ errors \in 0..MaxErrors
    /\ {armed, ready, all, once} \subseteq BOOLEAN /\ {tick, seen} \subseteq 0..(TickMod - 1)
    /\ pc \in {"idle", "look", "parked", "call", "rearm", "clear", "woken", "forgotten"}
    /\ drv \in {"idle", "reported", "marked"}

\* Every event reaches a program that goes on calling wait_one or wait_all,
\* though calls may fail or be given up, unless its future was woken in vain and
\* is on no list any more.
EventIsDelivered == \A n \in 1..MaxEvents : notified >= n ~> taken >= n \/ pc = "forgotten"
=============================================================================
