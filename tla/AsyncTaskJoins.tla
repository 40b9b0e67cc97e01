--------------------------- MODULE AsyncTaskJoins ---------------------------
(***************************************************************************)
(* Proofs about the JoinHandles of AsyncTask, for any set of tasks and        *)
(* threads, any spawn tree and any queue sizes: the completion of a joined    *)
(* task is never lost on the task that waits for it, a handle answers what    *)
(* the future returned, and the assertions on the way never fire.             *)
(***************************************************************************)
EXTENDS AsyncTaskProofs

\* The stage of a task is its future until a poll returns, then what it returned,
\* until the JoinHandle takes that; only an abort empties it before.
StageInv ==
  /\ \A t \in Tasks : is_completed(state[t]) => ~is_canceled(state[t])
  /\ \A t \in Tasks : is_idle(state[t]) /\ ~is_canceled(state[t]) => stage[t] = "InProgress"
  /\ \A w \in Pollers, t \in Tasks :
       Polls(w, t) /\ pc[w] # "ready" /\ ~is_canceled(state[t]) => stage[t] = "InProgress"
  /\ \A w \in Pollers, t \in Tasks :
       Polls(w, t) /\ pc[w] = "ready" => stage[t] \in {"Ok", "Err"} /\ stage[t] = returned[t]
  /\ \A t \in Tasks : is_completed(state[t]) =>
       /\ returned[t] \in {"Ok", "Err"}
       /\ stage[t] = returned[t] \/ handle[t] \in {"Finished", "Dropped"}

\* The flag that a JoinHandle is attached is up only behind a stored waker, and
\* is up while the handle waits; the owner of a handle in use is not over.
HandleInv ==
  /\ \A c \in Tasks : has_join_handle(state[c]) =>
       handle_waker[c] /\ handle[c] \notin {"Unspawned", "New"}
  /\ \A w \in Pollers : pc[w] = "set_waker" =>
       handle[tgt[w]] = "New" /\ handle_waker[tgt[w]]
  /\ \A c \in Tasks : handle[c] = "Polled" /\ ~is_completed(state[c]) => has_join_handle(state[c])
  /\ \A c \in Tasks : handle[c] \in {"New", "Polled"} =>
       /\ Parent[c] \in Tasks /\ ~is_completed(state[Parent[c]])
       /\ \A w \in Pollers : Polls(w, Parent[c]) => pc[w] # "ready"

\* JoinAnswer, with what makes the answer final.
AnswerInv ==
  \A c \in Tasks : handle[c] = "Finished" =>
    \/ is_completed(state[c]) /\ result[c] \in {"Ok", "Err"} /\ result[c] = returned[c]
    \/ is_canceled(state[c]) /\ result[c] = "OperationAborted"

\* The inductive invariant of this module, on top of TaskInv.
JoinInv == StageInv /\ HandleInv /\ AnswerInv /\ NoLostJoin /\ NoInconsistency

\* Where a thread stands in the middle of a poll or of the wake-up that ends it.
Busy == {"polling", "set_waker", "clear_stage", "ready", "wake"}

\* A thread that takes, queues or lets go of a reference disturbs no handle.
LEMMA QuietKeeps ==
  ASSUME TaskInv, JoinInv, UNCHANGED <<taskVars, panic>>, NEW th \in Threads,
         pc[th] \notin Busy, pc'[th] \notin Busy,
         \A o \in Threads \ {th} : /\ pc'[o] = pc[o] /\ cur'[o] = cur[o]
                                   /\ tgt'[o] = tgt[o] /\ todo'[o] = todo[o]
  PROVE  JoinInv'
<1> USE ThreadSets, SMTT(30) DEF JoinInv, Busy, taskVars, Polls
<1>1. StageInv'
  BY DEF StageInv, is_idle, is_completed, is_canceled
<1>2. HandleInv' /\ AnswerInv'
  BY DEF HandleInv, AnswerInv, is_completed, is_canceled, has_join_handle
<1>3. NoLostJoin' /\ NoInconsistency'
  BY DEF NoLostJoin, NoInconsistency, is_completed, is_canceled, is_notified
<1> QED
  BY <1>1, <1>2, <1>3

\* A thread that takes a task from a queue, or brings one there.
LEMMA QueueKeeps ==
  ASSUME TaskInv, JoinInv, NEW th \in Threads, NEW t \in Tasks,
         \/ Pop(th, t) \/ PopSafety(th, t)
         \/ Respawn(th) \/ RespawnSafety(th) \/ Requeue(th) \/ RequeueSafety(th)
  PROVE  JoinInv'
<1> USE SMTT(30)
<1>1. CASE Fail("overflow") \/ Fail("safety_overflow")
  <2> USE <1>1 DEF JoinInv, Fail, taskVars, threadVars
  <2>1. StageInv' /\ HandleInv' /\ AnswerInv'
    BY DEF StageInv, HandleInv, AnswerInv, Polls, is_idle, is_completed, is_canceled, has_join_handle
  <2>2. NoLostJoin' /\ NoInconsistency'
    BY DEF NoLostJoin, NoInconsistency, Polls, is_completed, is_canceled, is_notified
  <2> QED
    BY <2>1, <2>2
<1>2. CASE ~(Fail("overflow") \/ Fail("safety_overflow"))
  <2>1. /\ UNCHANGED <<taskVars, panic>> /\ pc[th] \notin Busy /\ pc'[th] \notin Busy
        /\ \A o \in Threads \ {th} : /\ pc'[o] = pc[o] /\ cur'[o] = cur[o]
                                     /\ tgt'[o] = tgt[o] /\ todo'[o] = todo[o]
    BY <1>2 DEF TaskInv, TypeOK, Busy, Pop, PopSafety, Respawn, RespawnSafety, Requeue, RequeueSafety,
               Release, Goto
  <2> QED
    BY <2>1, QuietKeeps
<1> QED
  BY <1>1, <1>2

\* An idle task that is not canceled still has its future, so a poll finds it; the
\* handles it has to look at are those that may be waited for.
LEMMA PollKeepsJoins ==
  ASSUME TaskInv, JoinInv, NEW w \in Pollers, Poll(w)
  PROVE  JoinInv'
<1> USE ThreadSets, SMTT(30) DEF JoinInv, TaskInv
<1> USE DEF is_running, is_idle, is_completed, is_canceled, is_notified, has_join_handle
<1>1. cur[w] \in Tasks /\ pc[w] = "popped"
  BY PollEffect
<1>2. CASE Fail("transition_to_running")
  <2> USE <1>2 DEF Fail, taskVars, threadVars
  <2>1. StageInv' /\ HandleInv' /\ AnswerInv'
    BY DEF StageInv, HandleInv, AnswerInv, Polls
  <2>2. NoLostJoin' /\ NoInconsistency'
    BY DEF NoLostJoin, NoInconsistency, Polls
  <2> QED
    BY <2>1, <2>2
<1>3. CASE Release(w) /\ UNCHANGED <<taskVars, queueVars, armed, panic>>
  <2>1. /\ pc[w] \notin Busy /\ pc'[w] \notin Busy
        /\ \A o \in Threads \ {w} : /\ pc'[o] = pc[o] /\ cur'[o] = cur[o]
                                    /\ tgt'[o] = tgt[o] /\ todo'[o] = todo[o]
    BY <1>1, <1>3 DEF TypeOK, Busy, Release, Goto
  <2> QED
    BY <1>3, <2>1, QuietKeeps
<1>4. ASSUME NEW n \in SUBSET Flags, Started(state[cur[w]], n), stage[cur[w]] = "InProgress",
             state' = [state EXCEPT ![cur[w]] = n],
             pc' = [pc EXCEPT ![w] = "polling"],
             todo' = [todo EXCEPT ![w] = {c \in Children(cur[w]) : handle[c] \in {"New", "Polled"}}],
             UNCHANGED <<stage, handle_waker, handle, result, returned, queueVars,
                         cur, tgt, armed, panic>>
      PROVE  JoinInv'
  <2> USE <1>1, <1>4
  <2>1. StageInv'
    BY DEF TypeOK, FlagInv, PollerInv, StageInv, Started, Polls
  <2>2. HandleInv' /\ AnswerInv'
    BY DEF TypeOK, HandleInv, AnswerInv, Started, Polls
  <2>3. NoLostJoin' /\ NoInconsistency'
    BY DEF TypeOK, HandleInv, NoLostJoin, NoInconsistency, Started, Polls, Children
  <2> QED
    BY <2>1, <2>2, <2>3
<1>5. ~Fail("poll_core") \/ stage[cur[w]] = "InProgress" \/ ~is_idle(state[cur[w]])
        \/ is_canceled(state[cur[w]])
  BY <1>1 DEF StageInv
<1> QED
  BY <1>2, <1>3, <1>4, <1>5, PollEffect

\* The new handle belongs to a task that is being polled.
LEMMA SpawnKeepsJoins ==
  ASSUME TaskInv, JoinInv, NEW w \in Pollers, NEW c \in Tasks, Spawn(w, c)
  PROVE  JoinInv'
<1> USE ThreadSets, SMTT(30) DEF JoinInv, TaskInv
<1> USE DEF is_running, is_idle, is_completed, is_canceled, is_notified, has_join_handle
<1>1. CASE Size(queue) >= QueueSize
  <2> USE <1>1 DEF Spawn, Fail, taskVars, threadVars
  <2>1. StageInv' /\ HandleInv' /\ AnswerInv'
    BY DEF StageInv, HandleInv, AnswerInv, Polls
  <2>2. NoLostJoin' /\ NoInconsistency'
    BY DEF NoLostJoin, NoInconsistency, Polls
  <2> QED
    BY <2>1, <2>2
<1>2. CASE ~(Size(queue) >= QueueSize)
  <2>1. StageInv' /\ AnswerInv'
    BY <1>2 DEF TypeOK, StageInv, AnswerInv, Polls, Spawn
  <2>2. HandleInv'
    <3>1. cur[w] \in Tasks /\ Polls(w, cur[w]) /\ pc[w] = "polling"
      BY DEF Spawn, ThreadInv, Polls
    <3>2. ~is_completed(state[cur[w]])
      BY <3>1 DEF PollerInv, FlagInv
    <3>3. \A v \in Pollers : Polls(v, cur[w]) => pc[v] # "ready"
      BY <3>1 DEF PollerInv
    <3> QED
      BY <1>2, <3>1, <3>2, <3>3 DEF TypeOK, ThreadInv, HandleInv, Polls, Spawn
  <2>3. NoLostJoin' /\ NoInconsistency'
    BY <1>2 DEF TypeOK, NoLostJoin, NoInconsistency, Polls, Spawn
  <2> QED
    BY <2>1, <2>2, <2>3
<1> QED
  BY <1>1, <1>2

\* Arming a waker touches no handle.
LEMMA ArmKeepsJoins ==
  ASSUME TaskInv, JoinInv, NEW w \in Pollers, Arm(w)
  PROVE  JoinInv'
<1> USE SMTT(30) DEF JoinInv, Arm, taskVars, threadVars, Polls
<1> USE DEF is_idle, is_completed, is_canceled, is_notified, has_join_handle
<1>1. StageInv' /\ HandleInv' /\ AnswerInv'
  BY DEF StageInv, HandleInv, AnswerInv
<1>2. NoLostJoin' /\ NoInconsistency'
  BY DEF NoLostJoin, NoInconsistency
<1> QED
  BY <1>1, <1>2

\* The waker is stored before the flag goes up.
LEMMA JoinPollNewKeepsJoins ==
  ASSUME TaskInv, JoinInv, NEW w \in Pollers, NEW c \in Tasks, JoinPollNew(w, c)
  PROVE  JoinInv'
<1> USE ThreadSets, SMTT(30) DEF JoinInv, TaskInv, TypeOK, JoinPollNew, Goto, Polls
<1> USE DEF is_idle, is_completed, is_canceled, is_notified, has_join_handle
<1>1. StageInv' /\ AnswerInv'
  BY DEF StageInv, AnswerInv
<1>2. HandleInv'
  BY DEF HandleInv
<1>3. NoLostJoin' /\ NoInconsistency'
  BY DEF NoLostJoin, NoInconsistency
<1> QED
  BY <1>1, <1>2, <1>3

\* A handle answers only once the task is over, and what it takes is final.
LEMMA JoinReadyKeepsJoins ==
  ASSUME TaskInv, JoinInv, NEW w \in Pollers, NEW c \in Tasks, JoinReady(w, c),
         pc[w] \in {"polling", "set_waker"}, Parent[c] = cur[w], handle[c] \in {"New", "Polled"},
         FutureRet(c) \notin {"NoData", "AlreadyDone"}
  PROVE  JoinInv'
<1> USE ThreadSets, SMTT(30) DEF JoinInv, TaskInv, TypeOK, JoinReady, Goto, Polls
<1> USE DEF is_idle, is_completed, is_canceled, is_notified, has_join_handle
<1>1. \/ is_canceled(state[c]) /\ FutureRet(c) = "OperationAborted"
      \/ /\ ~is_canceled(state[c]) /\ is_completed(state[c])
         /\ FutureRet(c) = returned[c] /\ returned[c] \in {"Ok", "Err"}
  BY DEF FutureRet, StageInv
<1>2. StageInv'
  BY <1>1 DEF StageInv, PollerInv, FlagInv, is_running
<1>3. HandleInv'
  BY DEF HandleInv, PollerInv, ThreadInv
<1>4. AnswerInv'
  BY <1>1 DEF AnswerInv
<1>5. NoLostJoin' /\ NoInconsistency'
  BY DEF NoLostJoin, NoInconsistency
<1> QED
  BY <1>2, <1>3, <1>4, <1>5

\* The flag goes up behind the stored waker; or the task was over already, and
\* then its result is there.
LEMMA SetWakerKeepsJoins ==
  ASSUME TaskInv, JoinInv, NEW w \in Pollers, SetWaker(w)
  PROVE  JoinInv'
<1> USE ThreadSets, SMTT(30) DEF JoinInv, TaskInv
<1> USE DEF is_running, is_idle, is_completed, is_canceled, is_notified, has_join_handle
<1>1. /\ tgt[w] \in Tasks /\ cur[w] \in Tasks /\ pc[w] = "set_waker"
      /\ Parent[tgt[w]] = cur[w] /\ handle[tgt[w]] = "New" /\ handle_waker[tgt[w]]
  BY SetWakerEffect DEF HandleInv
<1>2. CASE is_completed(state[tgt[w]]) \/ is_canceled(state[tgt[w]])
  <2>1. FutureRet(tgt[w]) \notin {"NoData", "AlreadyDone"}
    BY <1>1, <1>2 DEF FutureRet, StageInv
  <2>2. JoinReady(w, tgt[w])
    BY <1>2, <2>1, SetWakerEffect
  <2> QED
    BY <1>1, <2>1, <2>2, JoinReadyKeepsJoins
<1>3. ASSUME NEW n \in SUBSET Flags,
             ~is_completed(state[tgt[w]]), ~is_completed(n),
             ~is_canceled(state[tgt[w]]), ~is_canceled(n), has_join_handle(n),
             is_running(n) <=> is_running(state[tgt[w]]),
             is_idle(n) <=> is_idle(state[tgt[w]]),
             is_notified(n) <=> is_notified(state[tgt[w]]),
             state' = [state EXCEPT ![tgt[w]] = n],
             handle' = [handle EXCEPT ![tgt[w]] = "Polled"],
             todo' = [todo EXCEPT ![w] = @ \ {tgt[w]}],
             pc' = [pc EXCEPT ![w] = "polling"],
             UNCHANGED <<stage, handle_waker, result, returned, queueVars, cur, tgt, armed, panic>>
      PROVE  JoinInv'
  <2> USE <1>1, <1>3 DEF TypeOK, Polls
  <2>1. StageInv' /\ AnswerInv'
    BY DEF StageInv, AnswerInv
  <2>2. HandleInv'
    BY DEF HandleInv, ThreadInv, PollerInv
  <2>3. NoLostJoin' /\ NoInconsistency'
    BY DEF NoLostJoin, NoInconsistency
  <2> QED
    BY <2>1, <2>2, <2>3
<1> QED
  BY <1>2, <1>3, SetWakerEffect

\* A handle that is polled again is passed over only while the task goes on.
LEMMA JoinPollAgainKeepsJoins ==
  ASSUME TaskInv, JoinInv, NEW w \in Pollers, NEW c \in Tasks, JoinPollAgain(w, c)
  PROVE  JoinInv'
<1> USE ThreadSets, SMTT(30) DEF JoinInv, TaskInv
<1> USE DEF is_running, is_idle, is_completed, is_canceled, is_notified, has_join_handle
<1>1. pc[w] = "polling" /\ Parent[c] = cur[w] /\ handle[c] = "Polled"
  BY DEF JoinPollAgain, ThreadInv
<1>2. CASE FutureRet(c) = "NoData"
  <2>1. ~is_completed(state[c])
    BY <1>2 DEF FutureRet, TypeOK, Stages
  <2> USE <1>1, <1>2, <2>1 DEF TypeOK, Polls, JoinPollAgain, taskVars
  <2>2. StageInv' /\ HandleInv' /\ AnswerInv'
    BY DEF StageInv, HandleInv, AnswerInv
  <2>3. NoLostJoin' /\ NoInconsistency'
    BY DEF NoLostJoin, NoInconsistency
  <2> QED
    BY <2>2, <2>3
<1>3. FutureRet(c) # "AlreadyDone"
  BY <1>1 DEF FutureRet, StageInv, TypeOK, Stages
<1>4. CASE FutureRet(c) # "NoData"
  BY <1>1, <1>3, <1>4, JoinReadyKeepsJoins DEF JoinPollAgain
<1> QED
  BY <1>2, <1>4

\* An abort adds a flag to a task that is not over.
LEMMA AbortKeepsJoins ==
  ASSUME TaskInv, JoinInv, NEW w \in Pollers, NEW c \in Tasks, Abort(w, c)
  PROVE  JoinInv'
<1> USE ThreadSets, SMTT(30) DEF JoinInv, TaskInv
<1> USE DEF is_running, is_idle, is_completed, is_canceled, is_notified, has_join_handle
<1>1. /\ cur[w] \in Tasks /\ pc[w] = "polling" /\ Parent[c] = cur[w]
      /\ handle[c] \in {"New", "Polled"}
  BY AbortEffect
<1>2. PICK n \in SUBSET Flags :
        /\ is_running(n) <=> is_running(state[c])
        /\ is_idle(n) <=> is_idle(state[c])
        /\ is_completed(n) <=> is_completed(state[c])
        /\ is_notified(n) <=> is_notified(state[c])
        /\ has_join_handle(n) <=> has_join_handle(state[c])
        /\ is_canceled(state[c]) => is_canceled(n)
        /\ is_completed(state[c]) => n = state[c]
        /\ state' = [state EXCEPT ![c] = n]
        /\ \/ /\ is_idle(n) /\ is_canceled(n)
              /\ tgt' = [tgt EXCEPT ![w] = c]
              /\ pc' = [pc EXCEPT ![w] = "clear_stage"]
           \/ UNCHANGED <<tgt, pc>>
        /\ UNCHANGED <<stage, handle_waker, handle, result, returned, queueVars, cur,
                       todo, armed, panic>>
  BY AbortEffect
<1> USE <1>1, <1>2 DEF TypeOK, Polls
<1>3. StageInv'
  BY DEF StageInv
<1>4. HandleInv'
  BY DEF HandleInv
<1>5. AnswerInv'
  BY DEF AnswerInv
<1>6. NoLostJoin' /\ NoInconsistency'
  BY DEF NoLostJoin, NoInconsistency
<1> QED
  BY <1>3, <1>4, <1>5, <1>6

\* The stage that an abort clears is the stage of a canceled idle task; its own
\* handles are dropped with it.
LEMMA ClearStageKeepsJoins ==
  ASSUME TaskInv, JoinInv, NEW w \in Pollers, ClearStage(w)
  PROVE  JoinInv'
<1> USE ThreadSets, SMTT(30) DEF JoinInv, TaskInv
<1> USE DEF is_running, is_idle, is_completed, is_canceled, is_notified, has_join_handle
<1>1. /\ tgt[w] \in Tasks /\ pc[w] = "clear_stage" /\ cur[w] \in Tasks
      /\ is_idle(state[tgt[w]]) /\ is_canceled(state[tgt[w]])
      /\ ~is_running(state[tgt[w]]) /\ ~is_completed(state[tgt[w]])
  BY DEF ClearStage, ThreadInv, FlagInv, PollerInv
<1> USE <1>1 DEF TypeOK, Polls, ClearStage, DropHandles, Goto
<1>2. StageInv' /\ AnswerInv'
  BY DEF StageInv, AnswerInv, PollerInv
<1>3. HandleInv'
  BY DEF HandleInv, ThreadInv, PollerInv
<1>4. NoLostJoin' /\ NoInconsistency'
  BY DEF NoLostJoin, NoInconsistency
<1> QED
  BY <1>2, <1>3, <1>4
=============================================================================
