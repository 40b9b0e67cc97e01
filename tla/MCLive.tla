-------------------------------- MODULE MCLive --------------------------------
(***************************************************************************)
(* What must happen in the end, on small instances: notified tasks and joins  *)
(* (AsyncTask), events of the iceoryx2 listener, and select!.  They share no   *)
(* state, so a behaviour is one of the component in focus while the others    *)
(* rest in their initial states; the fairness of each is asked of it in focus. *)
(***************************************************************************)
EXTENDS AsyncTask

CONSTANTS p, child

VARIABLES focus,
          notified, taken, watched, drv, ready, tick, where, all, once, seen, errors,
          future, disabled, next, woken, chosen, repolled

\* A task from outside and the child it joins.
MCParent == [t \in Tasks |-> IF t = p THEN NoTask ELSE p]

\* Four events, so that the tick wraps, and a call that fails.
Ipc == INSTANCE IpcEvents WITH
    MaxEvents <- 4, MaxErrors <- 1, TickMod <- 3, armed <- watched, pc <- where
\* Four cases: one never ends, one yields and then ends with no match.
Sel == INSTANCE Select WITH Cases <- 4, UsizeBits <- 4, Yields <- {1}, Matches <- {2, 3}

asyncVars == <<state, stage, handle_waker, handle, result, returned, queue, safety_queue,
               dropped, pc, cur, tgt, todo, armed, panic>>
ipcVars == <<notified, taken, watched, drv, ready, tick, where, all, once, seen, errors>>
selectVars == <<future, disabled, next, woken, chosen, repolled>>
allVars == <<focus, asyncVars, ipcVars, selectVars>>
MCInit == focus \in {"task", "ipc", "select"} /\ Init /\ Ipc!Init /\ Sel!Init
MCNext ==
    /\ UNCHANGED focus
    /\ \/ focus = "task" /\ Next /\ UNCHANGED <<ipcVars, selectVars>>
       \/ focus = "ipc" /\ Ipc!Next /\ UNCHANGED <<asyncVars, selectVars>>
       \/ focus = "select" /\ Sel!Next /\ UNCHANGED <<asyncVars, ipcVars>>

\* The fairness of AsyncTask's FairSpec, and of the two others.
TaskFairness ==
    /\ \A w \in Pollers : WF_vars(focus = "task" /\ panic = "none" /\ Step(w))
    /\ \A w \in Pollers : WF_vars(focus = "task" /\ panic = "none" /\ PollReturns(w))
    /\ \A th \in Threads : WF_vars(focus = "task" /\ panic = "none" /\ Respawn(th))
    /\ \A t \in Tasks : SF_vars(focus = "task" /\ panic = "none" /\ \E w \in Workers : Pop(w, t))
IpcFairness ==
    /\ WF_ipcVars(focus = "ipc" /\ Ipc!Driver) /\ WF_ipcVars(focus = "ipc" /\ Ipc!Task)
    /\ WF_ipcVars(focus = "ipc" /\ \E a \in BOOLEAN : Ipc!Wait(a))
SelectFairness ==
    WF_selectVars(focus = "select" /\ Sel!Poll) /\ WF_selectVars(focus = "select" /\ Sel!Block)
MCSpec == MCInit /\ [][MCNext]_allVars /\ TaskFairness /\ IpcFairness /\ SelectFairness

-----------------------------------------------------------------------------
(* The properties, as the modules state them; those of AsyncTask are there.   *)

\* Every event reaches a program that goes on waiting, unless its future was
\* woken in vain and is on no list any more.
EventIsDelivered == []Ipc!TypeOK /\ (focus = "ipc" => Ipc!EventIsDelivered)

\* A future of select! that was ready is not polled again; when one with a
\* matching result is ready, select! ends.
SelectEnds == [](Sel!TypeOK /\ Sel!NotPolledAgain) /\ (focus = "select" => Sel!SelectEnds)
=============================================================================
