------------------------- MODULE AsyncTaskJoinProofs -------------------------
(***************************************************************************)
(* The rest of the induction AsyncTaskJoins begins, where a poll returns and  *)
(* wakers are used, and the theorems about JoinHandles.                       *)
(***************************************************************************)
EXTENDS AsyncTaskJoins

\* A future that answers Pending has looked at all its handles; an aborted one
\* lets go of them.
LEMMA PollPendingKeepsJoins ==
  ASSUME TaskInv, JoinInv, NEW w \in Pollers, PollPending(w)
  PROVE  JoinInv'
<1> USE ThreadSets, SMTT(30) DEF JoinInv, TaskInv
<1> USE DEF is_running, is_idle, is_completed, is_canceled, is_notified, has_join_handle
<1>1. /\ cur[w] \in Tasks /\ Polls(w, cur[w]) /\ pc[w] = "polling" /\ todo[w] = {}
      /\ is_running(state[cur[w]]) /\ ~is_completed(state[cur[w]])
  BY PollPendingEffect
<1>2. CASE /\ is_canceled(state[cur[w]])
           /\ stage' = [stage EXCEPT ![cur[w]] = "Extracted"]
           /\ DropHandles(cur[w]) /\ Release(w)
           /\ UNCHANGED <<state, handle_waker, result, returned, queueVars, armed, panic>>
  <2> USE <1>1, <1>2 DEF TypeOK, Polls, DropHandles, Release, Goto
  <2>1. StageInv' /\ AnswerInv'
    BY DEF StageInv, AnswerInv, PollerInv
  <2>2. HandleInv'
    BY DEF HandleInv, ThreadInv, PollerInv
  <2>3. NoLostJoin' /\ NoInconsistency'
    BY DEF NoLostJoin, NoInconsistency
  <2> QED
    BY <2>1, <2>2, <2>3
<1>3. ASSUME NEW n \in SUBSET Flags, Rested(state[cur[w]], n),
             state' = [state EXCEPT ![cur[w]] = n],
             \/ ~is_notified(n) /\ Release(w)
             \/ pc' = [pc EXCEPT ![w] = "requeue"] /\ UNCHANGED <<cur, tgt, todo>>,
             UNCHANGED <<stage, handle_waker, handle, result, returned, queueVars, armed, panic>>
      PROVE  JoinInv'
  <2> USE <1>1, <1>3 DEF TypeOK, Polls, Rested, Release, Goto
  <2>1. StageInv'
    BY DEF StageInv, PollerInv
  <2>2. AnswerInv'
    BY DEF AnswerInv
  <2>3. HandleInv'
    BY DEF HandleInv, ThreadInv, PollerInv
  <2>4. NoLostJoin' /\ NoInconsistency'
    BY DEF NoLostJoin, NoInconsistency
  <2> QED
    BY <2>1, <2>2, <2>3, <2>4
<1> QED
  BY <1>2, <1>3, PollPendingEffect

\* The result takes the place of the future, and the handles it held are dropped.
LEMMA PollReadyKeepsJoins ==
  ASSUME TaskInv, JoinInv, NEW w \in Pollers, NEW v \in {"Ok", "Err"}, PollReady(w, v)
  PROVE  JoinInv'
<1> USE ThreadSets, SMTT(30) DEF JoinInv, TaskInv
<1> USE DEF is_running, is_idle, is_completed, is_canceled, is_notified, has_join_handle
<1>1. cur[w] \in Tasks /\ Polls(w, cur[w]) /\ pc[w] = "polling"
  BY DEF PollReady, ThreadInv, Polls
<1>2. is_running(state[cur[w]]) /\ ~is_completed(state[cur[w]]) /\ ~is_idle(state[cur[w]])
  BY <1>1 DEF PollerInv, FlagInv
<1> USE <1>1, <1>2 DEF TypeOK, Polls, PollReady, DropHandles, Goto
<1>3. StageInv'
  BY DEF StageInv, PollerInv
<1>4. AnswerInv'
  BY DEF AnswerInv
<1>5. HandleInv'
  BY DEF HandleInv, ThreadInv, PollerInv
<1>6. NoLostJoin' /\ NoInconsistency'
  BY DEF NoLostJoin, NoInconsistency
<1> QED
  BY <1>3, <1>4, <1>5, <1>6

\* A completed task whose handle waits finds the stored waker and goes on to wake
\* the owner of the handle.
LEMMA CompleteKeepsJoins ==
  ASSUME TaskInv, JoinInv, NEW w \in Pollers, Complete(w)
  PROVE  JoinInv'
<1> USE ThreadSets, SMTT(30) DEF JoinInv, TaskInv
<1> USE DEF is_running, is_idle, is_completed, is_canceled, is_notified, has_join_handle
<1>1. /\ cur[w] \in Tasks /\ Polls(w, cur[w]) /\ pc[w] = "ready"
      /\ is_running(state[cur[w]]) /\ ~is_completed(state[cur[w]])
      /\ stage[cur[w]] \in {"Ok", "Err"} /\ stage[cur[w]] = returned[cur[w]]
  BY CompleteEffect DEF StageInv
<1>2. has_join_handle(state[cur[w]]) => handle_waker[cur[w]]
  BY <1>1 DEF HandleInv
<1>3. CASE /\ is_canceled(state[cur[w]])
           /\ stage' = [stage EXCEPT ![cur[w]] = "Extracted"]
           /\ Release(w)
           /\ UNCHANGED <<state, handle_waker, handle, result, returned, queueVars, armed, panic>>
  <2> USE <1>1, <1>3 DEF TypeOK, Polls, Release, Goto
  <2>1. StageInv' /\ AnswerInv'
    BY DEF StageInv, AnswerInv, PollerInv
  <2>2. HandleInv'
    BY DEF HandleInv, ThreadInv, PollerInv
  <2>3. NoLostJoin' /\ NoInconsistency'
    BY DEF HandleInv, NoLostJoin, NoInconsistency
  <2> QED
    BY <2>1, <2>2, <2>3
<1>4. ASSUME NEW n \in SUBSET Flags, Ended(state[cur[w]], n),
             state' = [state EXCEPT ![cur[w]] = n],
             \/ /\ has_join_handle(state[cur[w]])
                /\ handle_waker' = [handle_waker EXCEPT ![cur[w]] = FALSE]
                /\ tgt' = [tgt EXCEPT ![w] = Parent[cur[w]]]
                /\ pc' = [pc EXCEPT ![w] = "wake"]
                /\ UNCHANGED <<cur, todo>>
             \/ /\ ~has_join_handle(state[cur[w]])
                /\ Release(w) /\ UNCHANGED handle_waker,
             UNCHANGED <<stage, handle, result, returned, queueVars, armed, panic>>
      PROVE  JoinInv'
  <2> USE <1>1, <1>4 DEF TypeOK, Polls, Ended, Release, Goto
  <2>1. StageInv'
    BY DEF StageInv, PollerInv
  <2>2. AnswerInv'
    BY DEF AnswerInv
  <2>3. \A c \in Tasks : Parent[c] = cur[w] => handle[c] \notin {"New", "Polled"}
    BY DEF HandleInv
  <2>4. HandleInv'
    <3>1. \A c \in Tasks : has_join_handle(state'[c]) =>
            handle_waker'[c] /\ handle'[c] \notin {"Unspawned", "New"}
      BY DEF HandleInv
    <3>2. \A v \in Pollers : pc'[v] = "set_waker" =>
            handle'[tgt'[v]] = "New" /\ handle_waker'[tgt'[v]]
      BY DEF HandleInv, ThreadInv
    <3>3. \A c \in Tasks : handle'[c] = "Polled" /\ ~is_completed(state'[c]) => has_join_handle(state'[c])
      BY DEF HandleInv
    <3>4. \A c \in Tasks : handle'[c] \in {"New", "Polled"} =>
            /\ Parent[c] \in Tasks /\ ~is_completed(state'[Parent[c]])
            /\ \A v \in Pollers : Polls(v, Parent[c])' => pc'[v] # "ready"
      BY <2>3 DEF HandleInv
    <3> QED
      BY <3>1, <3>2, <3>3, <3>4 DEF HandleInv
  <2>5. NoLostJoin'
    <3> SUFFICES ASSUME NEW c \in Tasks, handle[c] = "Polled", is_completed(state'[c])
                 PROVE  \/ is_canceled(state'[Parent[c]])
                        \/ is_notified(state'[Parent[c]])
                        \/ \E v \in Pollers : pc'[v] = "wake" /\ cur'[v] = c /\ tgt'[v] = Parent[c]
                        \/ \E v \in Pollers : Polls(v, Parent[c])' /\ c \in todo'[v]
      BY DEF NoLostJoin
    <3>1. CASE c = cur[w]
      BY <3>1 DEF HandleInv
    <3>2. CASE c # cur[w]
      <4>1. Parent[c] # cur[w] /\ Parent[c] \in Tasks /\ is_completed(state[c])
        BY <2>3, <3>2 DEF HandleInv
      <4>2. ASSUME NEW v \in Pollers, v # w
            PROVE  pc'[v] = pc[v] /\ cur'[v] = cur[v] /\ tgt'[v] = tgt[v] /\ todo'[v] = todo[v]
        BY <4>2
      <4>3. ASSUME NEW v \in Pollers, pc[v] = "wake" \/ Polls(v, Parent[c])
            PROVE  v # w
        BY <4>1, <4>3
      <4>4. state'[Parent[c]] = state[Parent[c]]
        BY <4>1
      <4> HIDE <1>4
      <4> QED
        BY <4>1, <4>2, <4>3, <4>4 DEF NoLostJoin
    <3> QED
      BY <3>1, <3>2
  <2>6. NoInconsistency'
    BY DEF NoInconsistency
  <2> QED
    BY <2>1, <2>2, <2>4, <2>5, <2>6
<1> QED
  BY <1>2, <1>3, <1>4, CompleteEffect

\* A waker changes no flag but the notification, which it raises for a task that
\* is not over.
LEMMA NotifiedKeepsJoins ==
  ASSUME TaskInv, JoinInv, NEW th \in Threads, NEW t \in Tasks, NEW n \in SUBSET Flags,
         Notified(state[t], n), state' = [state EXCEPT ![t] = n],
         UNCHANGED <<stage, handle_waker, handle, result, returned, panic>>,
         \/ th \in WakerThreads
         \/ pc[th] = "wake" /\ tgt[th] = t,
         pc'[th] \notin Busy,
         \A o \in Threads \ {th} : /\ pc'[o] = pc[o] /\ cur'[o] = cur[o]
                                   /\ tgt'[o] = tgt[o] /\ todo'[o] = todo[o]
  PROVE  JoinInv'
<1> USE ThreadSets, SMTT(30) DEF JoinInv, TaskInv, TypeOK, Polls, Busy, Notified, SameButNotified
<1> USE DEF is_running, is_idle, is_completed, is_canceled, is_notified, has_join_handle
<1>1. StageInv'
  BY DEF StageInv
<1>2. HandleInv'
  BY DEF HandleInv
<1>3. AnswerInv'
  BY DEF AnswerInv
<1>4. NoLostJoin'
  <2> SUFFICES ASSUME NEW c \in Tasks, handle[c] = "Polled", is_completed(state'[c])
               PROVE  \/ is_canceled(state'[Parent[c]])
                      \/ is_notified(state'[Parent[c]])
                      \/ \E v \in Pollers : pc'[v] = "wake" /\ cur'[v] = c /\ tgt'[v] = Parent[c]
                      \/ \E v \in Pollers : Polls(v, Parent[c])' /\ c \in todo'[v]
    BY DEF NoLostJoin
  <2>1. Parent[c] \in Tasks /\ ~is_completed(state[Parent[c]]) /\ is_completed(state[c])
    BY DEF HandleInv
  <2>2. CASE Parent[c] = t
    BY <2>1, <2>2
  <2>3. CASE Parent[c] # t
    <3>1. th \in Pollers => pc[th] = "wake" /\ tgt[th] # Parent[c]
      BY <2>3
    <3>2. state'[Parent[c]] = state[Parent[c]]
      BY <2>1, <2>3
    <3>3. ASSUME NEW v \in Pollers, (pc[v] = "wake" /\ tgt[v] = Parent[c]) \/ Polls(v, Parent[c])
          PROVE  v # th
      BY <2>1, <3>1, <3>3
    <3> QED
      BY <2>1, <3>2, <3>3 DEF NoLostJoin
  <2> QED
    BY <2>2, <2>3
<1>5. NoInconsistency'
  BY DEF NoInconsistency
<1> QED
  BY <1>1, <1>2, <1>3, <1>4, <1>5

\* The waker of the task that waits on the handle.
LEMMA WakeJoinKeepsJoins ==
  ASSUME TaskInv, JoinInv, NEW w \in Pollers, WakeJoin(w)
  PROVE  JoinInv'
<1>1. PICK n \in SUBSET Flags :
        /\ Notified(state[tgt[w]], n)
        /\ state' = [state EXCEPT ![tgt[w]] = n]
        /\ \/ /\ pc' = [pc EXCEPT ![w] = "respawn"] \/ pc' = [pc EXCEPT ![w] = "respawn_safety"]
              /\ UNCHANGED <<cur, tgt, todo>>
           \/ Release(w)
        /\ UNCHANGED <<stage, handle_waker, handle, result, returned, queueVars, armed, panic>>
  BY WakeJoinEffect DEF TaskInv
<1>2. tgt[w] \in Tasks /\ pc[w] = "wake" /\ w \in Threads
  BY WakeJoinEffect, ThreadSets DEF TaskInv
<1>3. /\ pc'[w] \notin Busy
      /\ \A o \in Threads \ {w} : /\ pc'[o] = pc[o] /\ cur'[o] = cur[o]
                                  /\ tgt'[o] = tgt[o] /\ todo'[o] = todo[o]
  BY <1>1, <1>2, SMTT(30) DEF TaskInv, TypeOK, Busy, Release, Goto
<1> QED
  BY <1>1, <1>2, <1>3, NotifiedKeepsJoins, ZenonT(30)

\* Any other waker.
LEMMA WakeKeepsJoins ==
  ASSUME TaskInv, JoinInv, NEW th \in WakerThreads, NEW t \in Tasks, Wake(th, t)
  PROVE  JoinInv'
<1>1. PICK n \in SUBSET Flags :
        /\ Notified(state[t], n)
        /\ state' = [state EXCEPT ![t] = n]
        /\ \/ pc' = [pc EXCEPT ![th] = "respawn"] /\ tgt' = [tgt EXCEPT ![th] = t]
           \/ UNCHANGED <<pc, tgt>>
        /\ UNCHANGED <<stage, handle_waker, handle, result, returned, queueVars, cur, todo, panic>>
  BY WakeEffect DEF TaskInv
<1>2. pc[th] = "idle" /\ th \in Threads
  BY WakeEffect, ThreadSets DEF TaskInv
<1>3. /\ pc'[th] \notin Busy
      /\ \A o \in Threads \ {th} : /\ pc'[o] = pc[o] /\ cur'[o] = cur[o]
                                   /\ tgt'[o] = tgt[o] /\ todo'[o] = todo[o]
  BY <1>1, <1>2, SMTT(30) DEF TaskInv, TypeOK, Busy
<1> QED
  BY <1>1, <1>2, <1>3, NotifiedKeepsJoins, ZenonT(30)

\* The initial state: no handle is in use.
LEMMA InitJoinInv == Init => JoinInv
BY SMTT(30) DEF Init, JoinInv, StageInv, HandleInv, AnswerInv, NoLostJoin, NoInconsistency, NewState,
       Pollers, Threads, Polls, is_idle, is_completed, is_canceled, has_join_handle

\* Every step preserves the invariant.
LEMMA NextJoinInv == TaskInv /\ JoinInv /\ [Next]_vars => JoinInv'
<1> USE SMTT(30)
<1> SUFFICES ASSUME TaskInv, JoinInv, [Next]_vars PROVE JoinInv'
  OBVIOUS
<1>1. CASE UNCHANGED vars
  <2> USE <1>1 DEF vars, taskVars, threadVars, JoinInv, Polls,
                   is_idle, is_completed, is_canceled, is_notified, has_join_handle
  <2>1. StageInv' /\ HandleInv' /\ AnswerInv'
    BY DEF StageInv, HandleInv, AnswerInv
  <2>2. NoLostJoin' /\ NoInconsistency'
    BY DEF NoLostJoin, NoInconsistency
  <2> QED
    BY <2>1, <2>2
<1>2. ASSUME NEW w \in Pollers, Step(w) PROVE JoinInv'
  <2>1. w \in Threads
    BY ThreadSets
  <2>2. CASE RespawnSafety(w) \/ Requeue(w) \/ RequeueSafety(w)
    <3>1. \E t \in Tasks : TRUE
      BY <2>1, <2>2 DEF TaskInv, ThreadInv, RespawnSafety, Requeue, RequeueSafety
    <3> QED
      BY <2>1, <2>2, <3>1, QueueKeeps
  <2>3. CASE ~(RespawnSafety(w) \/ Requeue(w) \/ RequeueSafety(w))
    BY <1>2, <2>3, PollKeepsJoins, SpawnKeepsJoins, ArmKeepsJoins, JoinPollNewKeepsJoins,
       SetWakerKeepsJoins, JoinPollAgainKeepsJoins, AbortKeepsJoins, ClearStageKeepsJoins,
       PollPendingKeepsJoins, PollReadyKeepsJoins, CompleteKeepsJoins, WakeJoinKeepsJoins
       DEF Step, Body, PollReturns
  <2> QED
    BY <2>2, <2>3
<1>3. ASSUME NEW th \in Threads, Respawn(th) PROVE JoinInv'
  <2>1. tgt[th] \in Tasks
    BY <1>3 DEF Respawn, TaskInv, ThreadInv
  <2> QED
    BY <1>3, <2>1, QueueKeeps
<1>4. ASSUME NEW t \in Tasks, TakeTask(t) PROVE JoinInv'
  BY <1>4, ThreadSets, QueueKeeps DEF TakeTask
<1> QED
  BY <1>1, <1>2, <1>3, <1>4, WakeKeepsJoins DEF Next

\* The invariant holds in every reachable state.
THEOREM JoinInvariance == Spec => []JoinInv
BY TaskInvariance, InitJoinInv, NextJoinInv, PTL DEF Spec

\* The completion of a joined task is never lost on the task that waits for it:
\* that task is notified, about to be, or at work with the handle still to be
\* looked at (JoinHandle::poll, AsyncTask::set_waker and the wake at the end of
\* poll_internal).
THEOREM JoinsKept == Spec => []NoLostJoin
BY JoinInvariance, PTL DEF JoinInv

\* A JoinHandle answers what the future returned, and OperationAborted only for a
\* task that was aborted (AsyncTask::get_future_ret).
THEOREM JoinsAnswered == Spec => []JoinAnswer
<1>1. JoinInv => JoinAnswer
  BY DEF JoinInv, AnswerInv, JoinAnswer
<1> QED
  BY <1>1, JoinInvariance, PTL

\* The asserts of transition_to_idle and transition_to_completed, the checks of
\* poll_core, the waker a completed joined task must find and the answers
\* JoinHandle::poll does not expect never fire.
THEOREM NothingInconsistent == Spec => []NoInconsistency
BY JoinInvariance, PTL DEF JoinInv
=============================================================================
