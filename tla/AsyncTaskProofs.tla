-------------------------- MODULE AsyncTaskProofs ---------------------------
(***************************************************************************)
(* Proofs about AsyncTask for any set of tasks and threads, any spawn tree   *)
(* and any queue sizes, with and without a safety worker: type correctness,  *)
(* exclusive access to the stage of a task, and that no notification is lost.*)
(***************************************************************************)
EXTENDS AsyncTask, TLAPS

\* What a thread refers to, given where it stands.
ThreadInv ==
  /\ \A th \in WakerThreads : pc[th] \in {"idle", "respawn"}
  /\ \A th \in Threads :
       pc[th] \in {"respawn", "respawn_safety", "set_waker", "clear_stage", "wake"}
         => tgt[th] \in Tasks
  /\ \A w \in Pollers : pc[w] # "idle" => cur[w] \in Tasks
  /\ \A w \in Pollers : pc[w] \in {"idle", "popped"} => todo[w] = {}
  /\ \A w \in Pollers : \A c \in todo[w] : Parent[c] = cur[w]
  /\ \A w \in Pollers : pc[w] = "set_waker" => Parent[tgt[w]] = cur[w]
  /\ \A c \in Tasks : has_join_handle(state[c]) => Parent[c] \in Tasks

\* A task is idle, running or completed, and one of these only; a completed
\* task has no join flag.
FlagInv ==
  \A t \in Tasks :
    /\ is_running(state[t]) \/ is_idle(state[t]) \/ is_completed(state[t])
    /\ is_running(state[t]) => ~is_idle(state[t])
    /\ is_completed(state[t]) =>
         ~is_running(state[t]) /\ ~is_idle(state[t]) /\ ~has_join_handle(state[t])

\* The running flag belongs to the one worker that polls the task; a stage is
\* cleared by an abort only for a task that can never run again.
PollerInv ==
  /\ \A w \in Pollers, t \in Tasks : Polls(w, t) => is_running(state[t])
  /\ \A v, w \in Pollers, t \in Tasks : Polls(v, t) /\ Polls(w, t) => v = w
  /\ \A w \in Pollers : pc[w] = "clear_stage" =>
       is_idle(state[tgt[w]]) /\ is_canceled(state[tgt[w]])

\* The inductive invariant of AsyncTaskProofs.
TaskInv == TypeOK /\ ThreadInv /\ FlagInv /\ PollerInv /\ NoLostNotification

(***************************************************************************)
(* What the transitions of the state word do, in terms of the flags.         *)
(***************************************************************************)

\* Two states that differ in notifications at most.
SameButNotified(s, n) ==
  /\ is_running(n) <=> is_running(s)
  /\ is_idle(n) <=> is_idle(s)
  /\ is_completed(n) <=> is_completed(s)
  /\ is_canceled(n) <=> is_canceled(s)
  /\ has_join_handle(n) <=> has_join_handle(s)

\* transition_to_running takes an idle task to running, with no notification
\* left, or leaves the word alone.
LEMMA ToRunning ==
  ASSUME NEW s \in SUBSET Flags
  PROVE  LET r == transition_to_running(s) IN
         /\ r.next \in SUBSET Flags
         /\ r.ret \in {"Panic", "AlreadyRunning", "Done", "Aborted"}
         /\ r.ret = "AlreadyRunning" => is_running(s)
         /\ r.ret = "Aborted" => is_canceled(s)
         /\ r.ret = "Done" => is_idle(s) /\ ~is_running(s)
         /\ r.ret = "Done" /\ ~is_completed(s) =>
              /\ ~is_canceled(s)
              /\ is_running(r.next) /\ ~is_idle(r.next) /\ ~is_completed(r.next)
              /\ ~is_canceled(r.next) /\ ~is_notified(r.next)
              /\ has_join_handle(r.next) <=> has_join_handle(s)
BY DEF transition_to_running, Result, FlipRunningIdle, unset_notified, Flags,
       is_running, is_idle, is_completed, is_canceled, is_notified, has_join_handle

\* transition_to_idle keeps the notification flags, and tells of them.
LEMMA ToIdle ==
  ASSUME NEW s \in SUBSET Flags
  PROVE  LET r == transition_to_idle(s) IN
         /\ r.next \in SUBSET Flags
         /\ r.ret \in {"Panic", "Aborted", "Notified", "Done"}
         /\ r.ret = "Panic" => ~is_running(s) \/ is_idle(s)
         /\ r.ret = "Aborted" => r.next = s /\ is_canceled(s)
         /\ r.ret \in {"Notified", "Done"} =>
              /\ ~is_canceled(s) /\ ~is_canceled(r.next)
              /\ ~is_running(r.next) /\ is_idle(r.next)
              /\ is_completed(r.next) <=> is_completed(s)
              /\ is_notified(r.next) <=> is_notified(s)
              /\ has_join_handle(r.next) <=> has_join_handle(s)
         /\ r.ret = "Done" => ~is_notified(s)
BY DEF transition_to_idle, Result, FlipRunningIdle, Flags,
       is_running, is_idle, is_completed, is_canceled, is_notified, has_join_handle

\* transition_to_completed leaves one flag only, unless the task is canceled.
LEMMA ToCompleted ==
  ASSUME NEW s \in SUBSET Flags
  PROVE  LET r == transition_to_completed(s) IN
         /\ r.next \in SUBSET Flags
         /\ r.ret \in {"Panic", "Aborted", "HadConnectedJoinHandle", "Done"}
         /\ r.ret = "Panic" => ~is_running(s) \/ is_completed(s)
         /\ r.ret = "Aborted" => r.next = s /\ is_canceled(s)
         /\ r.ret \in {"HadConnectedJoinHandle", "Done"} =>
              /\ ~is_canceled(s) /\ ~is_canceled(r.next)
              /\ is_completed(r.next) /\ ~is_running(r.next) /\ ~is_idle(r.next)
              /\ ~has_join_handle(r.next) /\ ~is_notified(r.next)
         /\ r.ret = "HadConnectedJoinHandle" <=>
              is_running(s) /\ ~is_completed(s) /\ ~is_canceled(s) /\ has_join_handle(s)
BY DEF transition_to_completed, Result, Flags,
       is_running, is_idle, is_completed, is_canceled, is_notified, has_join_handle

\* transition_to_canceled only ever adds the canceled flag.
LEMMA ToCanceled ==
  ASSUME NEW s \in SUBSET Flags
  PROVE  LET r == transition_to_canceled(s) IN
         /\ r.next \in SUBSET Flags
         /\ is_running(r.next) <=> is_running(s)
         /\ is_idle(r.next) <=> is_idle(s)
         /\ is_completed(r.next) <=> is_completed(s)
         /\ is_notified(r.next) <=> is_notified(s)
         /\ has_join_handle(r.next) <=> has_join_handle(s)
         /\ is_canceled(s) => is_canceled(r.next)
         /\ r.ret = "Done" => ~is_running(s) /\ ~is_completed(s) /\ is_canceled(r.next)
         /\ is_completed(s) => r.next = s
BY DEF transition_to_canceled, Result, Flags,
       is_running, is_idle, is_completed, is_canceled, is_notified, has_join_handle

\* set_waker raises the join flag of a task that is not over.
LEMMA ToWaker ==
  ASSUME NEW s \in SUBSET Flags
  PROVE  LET r == state_set_waker(s) IN
         /\ r.next \in SUBSET Flags
         /\ r.ret \in BOOLEAN
         /\ r.ret => /\ ~is_completed(s) /\ ~is_completed(r.next)
                     /\ ~is_canceled(s) /\ ~is_canceled(r.next)
                     /\ has_join_handle(r.next)
                     /\ is_running(r.next) <=> is_running(s)
                     /\ is_idle(r.next) <=> is_idle(s)
                     /\ is_notified(r.next) <=> is_notified(s)
         /\ ~r.ret => is_completed(s) \/ is_canceled(s)
BY DEF state_set_waker, Result, Flags,
       is_running, is_idle, is_completed, is_canceled, is_notified, has_join_handle

\* set_notified leaves the task notified unless it is over, and answers Done
\* only to the waker that has to queue the task.
LEMMA ToNotified ==
  ASSUME NEW s \in SUBSET Flags
  PROVE  LET r == set_notified(s) IN
         /\ r.next \in SUBSET Flags
         /\ SameButNotified(s, r.next)
         /\ is_notified(s) => is_notified(r.next)
         /\ is_notified(r.next) \/ is_completed(s) \/ is_canceled(s)
         /\ r.ret # "Done" => \/ is_completed(s) \/ is_running(s) \/ is_canceled(s)
                              \/ is_notified(s)
BY DEF set_notified, Result, Flags, SameButNotified,
       is_running, is_idle, is_completed, is_canceled, is_notified, has_join_handle

\* set_safety_notified, likewise.
LEMMA ToSafetyNotified ==
  ASSUME NEW s \in SUBSET Flags
  PROVE  LET r == set_safety_notified(s) IN
         /\ r.next \in SUBSET Flags
         /\ SameButNotified(s, r.next)
         /\ is_notified(s) => is_notified(r.next)
         /\ is_notified(r.next) \/ is_completed(s) \/ is_canceled(s)
         /\ r.ret # "Done" => \/ is_completed(s) \/ is_running(s) \/ is_canceled(s)
                              \/ is_notified(s)
BY DEF set_safety_notified, Result, Flags, SameButNotified, is_safety_notified,
       is_running, is_idle, is_completed, is_canceled, is_notified, has_join_handle

(***************************************************************************)
(* What the actions that change a state word do, in terms of its flags.      *)
(***************************************************************************)

\* Only pollers and waker threads are threads, and none is both.
LEMMA ThreadSets ==
  /\ \A w \in Pollers : w \in Threads /\ w \notin WakerThreads
  /\ \A th \in WakerThreads : th \in Threads
  /\ \A th \in Threads : th \notin WakerThreads => th \in Pollers
BY ThreadAssumption DEF Pollers, Threads

\* A task that starts to run, and one that goes back to idle.
Started(s, n) ==
  /\ is_idle(s) /\ ~is_running(s) /\ ~is_completed(s) /\ ~is_canceled(s)
  /\ is_running(n) /\ ~is_idle(n) /\ ~is_completed(n) /\ ~is_canceled(n)
  /\ ~is_notified(n)
  /\ has_join_handle(n) <=> has_join_handle(s)
Rested(s, n) ==
  /\ ~is_canceled(s) /\ ~is_canceled(n)
  /\ ~is_running(n) /\ is_idle(n) /\ ~is_completed(n)
  /\ is_notified(n) <=> is_notified(s)
  /\ has_join_handle(n) <=> has_join_handle(s)
Ended(s, n) ==
  /\ ~is_canceled(s) /\ ~is_canceled(n)
  /\ is_completed(n) /\ ~is_running(n) /\ ~is_idle(n)
  /\ ~has_join_handle(n) /\ ~is_notified(n)

\* Poll starts an idle task, drops the reference, or fails.
LEMMA PollEffect ==
  ASSUME TypeOK, ThreadInv, FlagInv, NEW w \in Pollers, Poll(w)
  PROVE  /\ cur[w] \in Tasks /\ pc[w] = "popped"
         /\ \/ Fail("transition_to_running")
            \/ /\ Fail("poll_core") /\ stage[cur[w]] # "InProgress"
               /\ is_idle(state[cur[w]]) /\ ~is_completed(state[cur[w]])
               /\ ~is_canceled(state[cur[w]])
            \/ /\ is_running(state[cur[w]]) \/ is_canceled(state[cur[w]])
               /\ Release(w)
               /\ UNCHANGED <<taskVars, queueVars, armed, panic>>
            \/ \E n \in SUBSET Flags :
                 /\ Started(state[cur[w]], n)
                 /\ stage[cur[w]] = "InProgress"
                 /\ state' = [state EXCEPT ![cur[w]] = n]
                 /\ pc' = [pc EXCEPT ![w] = "polling"]
                 /\ todo' = [todo EXCEPT ![w] =
                      {c \in Children(cur[w]) : handle[c] \in {"New", "Polled"}}]
                 /\ UNCHANGED <<stage, handle_waker, handle, result, returned, queueVars,
                                cur, tgt, armed, panic>>
<1> DEFINE t == cur[w]
           r == transition_to_running(state[t])
<1>1. t \in Tasks /\ pc[w] = "popped" /\ state[t] \in SUBSET Flags
  BY DEF TypeOK, ThreadInv, Poll
<1>2. /\ r.next \in SUBSET Flags
      /\ r.ret \in {"Panic", "AlreadyRunning", "Done", "Aborted"}
      /\ r.ret = "AlreadyRunning" => is_running(state[t])
      /\ r.ret = "Aborted" => is_canceled(state[t])
      /\ r.ret = "Done" => Started(state[t], r.next)
  BY <1>1, ToRunning DEF FlagInv, Started
<1>3. CASE r.ret = "Done"
  BY <1>1, <1>2, <1>3 DEF Poll, Goto, Started
<1>4. CASE r.ret # "Done"
  BY <1>1, <1>2, <1>4 DEF Poll
<1> QED
  BY <1>3, <1>4

\* PollPending hands a notified task on, leaves one that is not, and clears
\* the stage of a canceled one.
LEMMA PollPendingEffect ==
  ASSUME TypeOK, ThreadInv, FlagInv, PollerInv, NEW w \in Pollers, PollPending(w)
  PROVE  /\ cur[w] \in Tasks /\ Polls(w, cur[w]) /\ pc[w] = "polling" /\ todo[w] = {}
         /\ is_running(state[cur[w]]) /\ ~is_completed(state[cur[w]])
         /\ \/ /\ is_canceled(state[cur[w]])
               /\ stage' = [stage EXCEPT ![cur[w]] = "Extracted"]
               /\ DropHandles(cur[w]) /\ Release(w)
               /\ UNCHANGED <<state, handle_waker, result, returned, queueVars, armed, panic>>
            \/ \E n \in SUBSET Flags :
                 /\ Rested(state[cur[w]], n)
                 /\ state' = [state EXCEPT ![cur[w]] = n]
                 /\ \/ ~is_notified(n) /\ Release(w)
                    \/ pc' = [pc EXCEPT ![w] = "requeue"] /\ UNCHANGED <<cur, tgt, todo>>
                 /\ UNCHANGED <<stage, handle_waker, handle, result, returned, queueVars,
                                armed, panic>>
<1> DEFINE t == cur[w]
           r == transition_to_idle(state[t])
<1>1. /\ t \in Tasks /\ pc[w] = "polling" /\ todo[w] = {} /\ state[t] \in SUBSET Flags
      /\ Polls(w, t)
  BY DEF PollPending, TypeOK, ThreadInv, Polls
<1>2. is_running(state[t]) /\ ~is_idle(state[t]) /\ ~is_completed(state[t])
  BY <1>1 DEF PollerInv, FlagInv
<1>3. /\ r.next \in SUBSET Flags
      /\ r.ret \in {"Aborted", "Notified", "Done"}
      /\ r.ret = "Aborted" => r.next = state[t] /\ is_canceled(state[t])
      /\ r.ret # "Aborted" => Rested(state[t], r.next)
      /\ r.ret = "Done" => ~is_notified(r.next)
  BY <1>1, <1>2, ToIdle DEF Rested
<1>4. CASE r.ret = "Aborted"
  <2>1. [state EXCEPT ![t] = r.next] = state
    BY <1>1, <1>3, <1>4 DEF TypeOK
  <2> QED
    BY <1>1, <1>2, <1>3, <1>4, <2>1 DEF PollPending
<1>5. CASE r.ret # "Aborted"
  BY <1>1, <1>2, <1>3, <1>5 DEF PollPending, Goto
<1> QED
  BY <1>4, <1>5

\* Complete ends the task and goes on to wake its joiner, or clears the stage
\* of a canceled task.
LEMMA CompleteEffect ==
  ASSUME TypeOK, ThreadInv, FlagInv, PollerInv, NEW w \in Pollers, Complete(w)
  PROVE  /\ cur[w] \in Tasks /\ Polls(w, cur[w]) /\ pc[w] = "ready"
         /\ is_running(state[cur[w]]) /\ ~is_completed(state[cur[w]])
         /\ \/ /\ Fail("no_waker")
               /\ has_join_handle(state[cur[w]]) /\ ~handle_waker[cur[w]]
            \/ /\ is_canceled(state[cur[w]])
               /\ stage' = [stage EXCEPT ![cur[w]] = "Extracted"]
               /\ Release(w)
               /\ UNCHANGED <<state, handle_waker, handle, result, returned, queueVars,
                              armed, panic>>
            \/ \E n \in SUBSET Flags :
                 /\ Ended(state[cur[w]], n)
                 /\ state' = [state EXCEPT ![cur[w]] = n]
                 /\ \/ /\ has_join_handle(state[cur[w]])
                       /\ handle_waker' = [handle_waker EXCEPT ![cur[w]] = FALSE]
                       /\ tgt' = [tgt EXCEPT ![w] = Parent[cur[w]]]
                       /\ pc' = [pc EXCEPT ![w] = "wake"]
                       /\ UNCHANGED <<cur, todo>>
                    \/ /\ ~has_join_handle(state[cur[w]])
                       /\ Release(w) /\ UNCHANGED handle_waker
                 /\ UNCHANGED <<stage, handle, result, returned, queueVars, armed, panic>>
<1> DEFINE t == cur[w]
           r == transition_to_completed(state[t])
           joined == r.ret = "HadConnectedJoinHandle"
<1>1. t \in Tasks /\ pc[w] = "ready" /\ state[t] \in SUBSET Flags /\ Polls(w, t)
  BY DEF Complete, TypeOK, ThreadInv, Polls
<1>2. is_running(state[t]) /\ ~is_idle(state[t]) /\ ~is_completed(state[t])
  BY <1>1 DEF PollerInv, FlagInv
<1>3. /\ r.next \in SUBSET Flags
      /\ r.ret \in {"Aborted", "HadConnectedJoinHandle", "Done"}
      /\ r.ret = "Aborted" => r.next = state[t] /\ is_canceled(state[t])
      /\ r.ret # "Aborted" => Ended(state[t], r.next)
      /\ joined => has_join_handle(state[t])
      /\ r.ret = "Done" => ~has_join_handle(state[t])
  BY <1>1, <1>2, ToCompleted DEF Ended
<1>4. CASE joined /\ ~handle_waker[t]
  BY <1>1, <1>2, <1>3, <1>4 DEF Complete
<1>5. CASE joined /\ handle_waker[t]
  <2>1. /\ [stage EXCEPT ![t] = stage[t]] = stage
        /\ [handle_waker EXCEPT ![t] = handle_waker[t] /\ ~joined]
             = [handle_waker EXCEPT ![t] = FALSE]
    BY <1>1, <1>5 DEF TypeOK
  <2> QED
    BY <1>1, <1>2, <1>3, <1>5, <2>1 DEF Complete, Goto
<1>6. CASE ~joined
  <2>1. /\ [stage EXCEPT ![t] = stage[t]] = stage
        /\ [state EXCEPT ![t] = state[t]] = state
        /\ [handle_waker EXCEPT ![t] = handle_waker[t] /\ ~joined] = handle_waker
    BY <1>1, <1>6 DEF TypeOK
  <2> QED
    BY <1>1, <1>2, <1>3, <1>6, <2>1 DEF Complete, Goto
<1> QED
  BY <1>4, <1>5, <1>6

\* SetWaker raises the join flag, or finds the task over.
LEMMA SetWakerEffect ==
  ASSUME TypeOK, ThreadInv, NEW w \in Pollers, SetWaker(w)
  PROVE  /\ tgt[w] \in Tasks /\ cur[w] \in Tasks /\ pc[w] = "set_waker"
         /\ Parent[tgt[w]] = cur[w]
         /\ \/ /\ is_completed(state[tgt[w]]) \/ is_canceled(state[tgt[w]])
               /\ \/ JoinReady(w, tgt[w])
                     /\ FutureRet(tgt[w]) \notin {"NoData", "AlreadyDone"}
                  \/ Fail("join_new") /\ FutureRet(tgt[w]) \in {"NoData", "AlreadyDone"}
            \/ \E n \in SUBSET Flags :
                 /\ ~is_completed(state[tgt[w]]) /\ ~is_completed(n)
                 /\ ~is_canceled(state[tgt[w]]) /\ ~is_canceled(n)
                 /\ has_join_handle(n)
                 /\ is_running(n) <=> is_running(state[tgt[w]])
                 /\ is_idle(n) <=> is_idle(state[tgt[w]])
                 /\ is_notified(n) <=> is_notified(state[tgt[w]])
                 /\ state' = [state EXCEPT ![tgt[w]] = n]
                 /\ handle' = [handle EXCEPT ![tgt[w]] = "Polled"]
                 /\ todo' = [todo EXCEPT ![w] = @ \ {tgt[w]}]
                 /\ pc' = [pc EXCEPT ![w] = "polling"]
                 /\ UNCHANGED <<stage, handle_waker, result, returned, queueVars, cur, tgt,
                                armed, panic>>
<1> DEFINE c == tgt[w]
           r == state_set_waker(state[c])
<1>1. /\ c \in Tasks /\ pc[w] = "set_waker" /\ state[c] \in SUBSET Flags
      /\ cur[w] \in Tasks /\ Parent[c] = cur[w]
  BY ThreadSets DEF TypeOK, ThreadInv, SetWaker
<1>2. CASE r.ret
  BY <1>1, <1>2, ToWaker DEF SetWaker, Goto
<1>3. CASE ~r.ret
  BY <1>1, <1>3, ToWaker DEF SetWaker
<1> QED
  BY <1>2, <1>3

\* Abort adds the canceled flag; only an idle task gets its stage cleared.
LEMMA AbortEffect ==
  ASSUME TypeOK, ThreadInv, FlagInv, NEW w \in Pollers, NEW c \in Tasks, Abort(w, c)
  PROVE  /\ cur[w] \in Tasks /\ pc[w] = "polling" /\ Parent[c] = cur[w]
         /\ handle[c] \in {"New", "Polled"}
         /\ \E n \in SUBSET Flags :
              /\ is_running(n) <=> is_running(state[c])
              /\ is_idle(n) <=> is_idle(state[c])
              /\ is_completed(n) <=> is_completed(state[c])
              /\ is_notified(n) <=> is_notified(state[c])
              /\ has_join_handle(n) <=> has_join_handle(state[c])
              /\ is_canceled(state[c]) => is_canceled(n)
              /\ is_completed(state[c]) => n = state[c]
              /\ state' = [state EXCEPT ![c] = n]
              /\ \/ /\ is_idle(n) /\ is_canceled(n)
                    /\ tgt' = [tgt EXCEPT ![w] = c]
                    /\ pc' = [pc EXCEPT ![w] = "clear_stage"]
                 \/ UNCHANGED <<tgt, pc>>
              /\ UNCHANGED <<stage, handle_waker, handle, result, returned, queueVars, cur,
                             todo, armed, panic>>
<1> DEFINE r == transition_to_canceled(state[c])
<1>1. /\ pc[w] = "polling" /\ Parent[c] = cur[w] /\ cur[w] \in Tasks
      /\ handle[c] \in {"New", "Polled"} /\ state[c] \in SUBSET Flags
  BY DEF Abort, TypeOK, ThreadInv
<1>2. CASE r.ret = "Done"
  <2>1. is_idle(state[c])
    BY <1>1, <1>2, ToCanceled DEF FlagInv
  <2> QED
    BY <1>1, <1>2, <2>1, ToCanceled DEF Abort, Goto
<1>3. CASE r.ret # "Done"
  BY <1>1, <1>3, ToCanceled DEF Abort
<1> QED
  BY <1>2, <1>3

\* A waker leaves the task notified, unless it is over, and whoever raised
\* the flag of an idle task goes on to queue it.
Notified(s, n) ==
  /\ SameButNotified(s, n)
  /\ is_notified(s) => is_notified(n)
  /\ is_notified(n) \/ is_completed(s) \/ is_canceled(s)

LEMMA WakeJoinEffect ==
  ASSUME TypeOK, ThreadInv, NEW w \in Pollers, WakeJoin(w)
  PROVE  /\ tgt[w] \in Tasks /\ pc[w] = "wake"
         /\ \E n \in SUBSET Flags :
              /\ Notified(state[tgt[w]], n)
              /\ state' = [state EXCEPT ![tgt[w]] = n]
              /\ \/ /\ pc' = [pc EXCEPT ![w] = "respawn"] \/ pc' = [pc EXCEPT ![w] = "respawn_safety"]
                    /\ UNCHANGED <<cur, tgt, todo>>
                 \/ /\ \/ is_completed(state[tgt[w]]) \/ is_running(state[tgt[w]])
                       \/ is_canceled(state[tgt[w]]) \/ is_notified(state[tgt[w]])
                    /\ Release(w)
              /\ UNCHANGED <<stage, handle_waker, handle, result, returned, queueVars,
                             armed, panic>>
<1> DEFINE t == tgt[w]
           safety == cur[w] \in SafetyTasks /\ returned[cur[w]] = "Err"
           r == IF safety THEN set_safety_notified(state[t]) ELSE set_notified(state[t])
<1>1. t \in Tasks /\ pc[w] = "wake" /\ state[t] \in SUBSET Flags
  BY ThreadSets DEF WakeJoin, TypeOK, ThreadInv
<1>2. /\ r.next \in SUBSET Flags /\ Notified(state[t], r.next)
      /\ r.ret # "Done" => \/ is_completed(state[t]) \/ is_running(state[t])
                           \/ is_canceled(state[t]) \/ is_notified(state[t])
  BY <1>1, ToNotified, ToSafetyNotified DEF Notified
<1> QED
  BY <1>1, <1>2 DEF WakeJoin, Goto

\* Likewise for the waker threads.
LEMMA WakeEffect ==
  ASSUME TypeOK, NEW th \in WakerThreads, NEW t \in Tasks, Wake(th, t)
  PROVE  /\ pc[th] = "idle" /\ armed' = [armed EXCEPT ![t] = FALSE]
         /\ \E n \in SUBSET Flags :
              /\ Notified(state[t], n)
              /\ state' = [state EXCEPT ![t] = n]
              /\ \/ /\ pc' = [pc EXCEPT ![th] = "respawn"]
                    /\ tgt' = [tgt EXCEPT ![th] = t]
                 \/ /\ \/ is_completed(state[t]) \/ is_running(state[t])
                       \/ is_canceled(state[t]) \/ is_notified(state[t])
                    /\ UNCHANGED <<pc, tgt>>
              /\ UNCHANGED <<stage, handle_waker, handle, result, returned, queueVars,
                             cur, todo, panic>>
<1> DEFINE r == set_notified(state[t])
<1>1. state[t] \in SUBSET Flags
  BY DEF TypeOK
<1>2. /\ r.next \in SUBSET Flags /\ Notified(state[t], r.next)
      /\ r.ret # "Done" => \/ is_completed(state[t]) \/ is_running(state[t])
                           \/ is_canceled(state[t]) \/ is_notified(state[t])
  BY <1>1, ToNotified DEF Notified
<1> QED
  BY <1>1, <1>2 DEF Wake, Goto

(***************************************************************************)
(* The steps that leave the tasks alone but for a notification, and what they *)
(* keep of the invariant: a queue is read or written, a waker is fired.        *)
(***************************************************************************)

\* A failure changes nothing but panic.
LEMMA FailKeeps ==
  ASSUME TaskInv, Fail(panic'), panic' \in Failures
  PROVE  TaskInv'
<1> USE DEF TaskInv, Fail, taskVars, queueVars, threadVars
<1>1. TypeOK'
  BY DEF TypeOK
<1>2. ThreadInv' /\ FlagInv' /\ PollerInv'
  BY DEF ThreadInv, FlagInv, PollerInv, Polls, is_running, is_idle, is_completed,
         is_canceled, has_join_handle
<1>3. NoLostNotification'
  BY DEF NoLostNotification, Carried, is_idle, is_notified, is_canceled
<1> QED
  BY ONLY <1>1, <1>2, <1>3, Zenon DEF TaskInv

\* A thread that was not in the middle of a poll takes a reference, or lets go of
\* the one it has: whatever the queues are after it, the tasks are as before.
LEMMA FreeKeeps ==
  ASSUME TaskInv, NEW th \in Threads, UNCHANGED <<taskVars, armed, panic>>,
         queue' \in [Tasks -> Nat], safety_queue' \in [Tasks -> Nat], dropped' \subseteq Tasks,
         pc[th] \notin {"polling", "set_waker", "clear_stage", "ready", "wake"},
         \/ Release(th)
         \/ \E t \in Tasks : /\ th \in Pollers /\ pc[th] = "idle" /\ Goto(th, "popped")
                             /\ cur' = [cur EXCEPT ![th] = t] /\ UNCHANGED <<tgt, todo>>
  PROVE  TypeOK' /\ ThreadInv' /\ FlagInv' /\ PollerInv'
<1> USE ThreadSets, SMTT(30) DEF TaskInv, taskVars, threadVars, TypeOK, Goto, Release
<1> USE DEF is_running, is_idle, is_completed, is_canceled, has_join_handle
<1>1. TypeOK'
  <2>1. /\ pc' \in [Threads -> Labels] /\ cur' \in [Threads -> Tasks \cup {NoTask}]
        /\ tgt' \in [Threads -> Tasks \cup {NoTask}] /\ todo' \in [Threads -> SUBSET Tasks]
    BY DEF Labels
  <2> QED
    BY <2>1
<1>2. ThreadInv'
  <2>1. CASE Release(th)
    BY <2>1 DEF ThreadInv
  <2>2. CASE ~Release(th)
    BY <2>2 DEF ThreadInv
  <2> QED
    BY ONLY <2>1, <2>2, Zenon
<1>3. FlagInv' /\ PollerInv'
  <2>1. FlagInv'
    BY DEF FlagInv
  <2>2. \A v \in Pollers, t \in Tasks : Polls(v, t)' => Polls(v, t)
    BY DEF Polls
  <2> QED
    BY <2>1, <2>2 DEF PollerInv
<1> QED
  BY ONLY <1>1, <1>2, <1>3, Zenon

\* A reference moves from a queue to the worker.
LEMMA PopKeeps ==
  ASSUME TaskInv, NEW w \in Pollers, NEW t \in Tasks, Pop(w, t) \/ PopSafety(w, t)
  PROVE  TaskInv'
<1> USE ThreadSets, SMTT(30) DEF TaskInv, TypeOK, Pop, PopSafety, Goto
<1>1. queue' \in [Tasks -> Nat] /\ safety_queue' \in [Tasks -> Nat] /\ dropped' = dropped
  OBVIOUS
<1>2. TypeOK' /\ ThreadInv' /\ FlagInv' /\ PollerInv'
  BY <1>1, FreeKeeps
<1>3. NoLostNotification'
  BY DEF NoLostNotification, Carried, taskVars, is_idle, is_notified, is_canceled
<1> QED
  BY ONLY <1>2, <1>3, Zenon DEF TaskInv

\* A thread raises the notification of a task; unless the flag was up before, or
\* somebody else takes care of it, the thread carries the task on to a queue.
LEMMA NotifiedKeeps ==
  ASSUME TaskInv, NEW th \in Threads, NEW t \in Tasks, NEW n \in SUBSET Flags,
         Notified(state[t], n), state' = [state EXCEPT ![t] = n],
         UNCHANGED <<stage, handle_waker, handle, result, returned, queueVars, panic>>,
         armed' \in [Tasks -> BOOLEAN],
         (th \in WakerThreads /\ pc[th] = "idle") \/ pc[th] = "wake",
         \/ \E l \in {"respawn", "respawn_safety"} :
              /\ l = "respawn" \/ th \in Pollers
              /\ pc' = [pc EXCEPT ![th] = l] /\ tgt' = [tgt EXCEPT ![th] = t]
              /\ UNCHANGED <<cur, todo>>
         \/ /\ \/ is_completed(state[t]) \/ is_running(state[t])
               \/ is_canceled(state[t]) \/ is_notified(state[t])
            /\ Release(th) \/ (UNCHANGED threadVars /\ pc[th] = "idle")
  PROVE  TaskInv'
<1> USE ThreadSets, SMTT(30) DEF TaskInv, TypeOK, queueVars, threadVars, Release, Goto, Notified, SameButNotified
<1> USE DEF is_running, is_idle, is_completed, is_canceled, is_notified, has_join_handle
<1>1. TypeOK'
  <2>1. state' \in [Tasks -> SUBSET Flags]
    OBVIOUS
  <2>2. /\ pc' \in [Threads -> Labels] /\ cur' \in [Threads -> Tasks \cup {NoTask}]
        /\ tgt' \in [Threads -> Tasks \cup {NoTask}] /\ todo' \in [Threads -> SUBSET Tasks]
    BY DEF Labels
  <2> QED
    BY <2>1, <2>2
<1>2. ThreadInv'
  <2>1. \A x \in Tasks : has_join_handle(state'[x]) => has_join_handle(state[x])
    OBVIOUS
  <2>2. todo' = todo \/ todo' = [todo EXCEPT ![th] = {}]
    OBVIOUS
  <2>3. CASE Release(th)
    BY <2>1, <2>3 DEF ThreadInv
  <2>4. CASE UNCHANGED threadVars
    BY <2>1, <2>4 DEF ThreadInv
  <2>5. CASE ~(Release(th) \/ UNCHANGED threadVars)
    BY <2>1, <2>5 DEF ThreadInv
  <2> QED
    BY ONLY <2>3, <2>4, <2>5, Zenon
<1>5. FlagInv'
  BY DEF FlagInv
<1>3. PollerInv'
  BY DEF PollerInv, Polls
<1>4. NoLostNotification'
  BY DEF NoLostNotification, Carried, FlagInv
<1> QED
  BY ONLY <1>1, <1>2, <1>3, <1>4, <1>5, Zenon DEF TaskInv

\* The joiner is notified, and the worker that did it first queues it.
LEMMA WakeJoinKeeps ==
  ASSUME TaskInv, NEW w \in Pollers, WakeJoin(w)
  PROVE  TaskInv'
<1>1. tgt[w] \in Tasks /\ pc[w] = "wake" /\ w \in Threads
  BY WakeJoinEffect, ThreadSets DEF TaskInv
<1>2. [tgt EXCEPT ![w] = tgt[w]] = tgt
  BY <1>1 DEF TaskInv, TypeOK
<1>3. armed' = armed /\ armed \in [Tasks -> BOOLEAN]
  BY WakeJoinEffect, Zenon DEF TaskInv, TypeOK
<1>4. PICK n \in SUBSET Flags :
        /\ Notified(state[tgt[w]], n) /\ state' = [state EXCEPT ![tgt[w]] = n]
        /\ UNCHANGED <<stage, handle_waker, handle, result, returned, queueVars, panic>>
        /\ \/ \E l \in {"respawn", "respawn_safety"} :
                pc' = [pc EXCEPT ![w] = l] /\ UNCHANGED <<cur, tgt, todo>>
           \/ /\ \/ is_completed(state[tgt[w]]) \/ is_running(state[tgt[w]])
                 \/ is_canceled(state[tgt[w]]) \/ is_notified(state[tgt[w]])
              /\ Release(w)
  BY WakeJoinEffect, Zenon DEF TaskInv
<1>5. CASE \E l \in {"respawn", "respawn_safety"} :
             pc' = [pc EXCEPT ![w] = l] /\ UNCHANGED <<cur, tgt, todo>>
  <2>1. \E l \in {"respawn", "respawn_safety"} :
          /\ l = "respawn" \/ w \in Pollers
          /\ pc' = [pc EXCEPT ![w] = l] /\ tgt' = [tgt EXCEPT ![w] = tgt[w]]
          /\ UNCHANGED <<cur, todo>>
    BY <1>2, <1>5
  <2> QED
    BY <1>1, <1>3, <1>4, <2>1, NotifiedKeeps, ZenonT(30)
<1>6. CASE /\ \/ is_completed(state[tgt[w]]) \/ is_running(state[tgt[w]])
              \/ is_canceled(state[tgt[w]]) \/ is_notified(state[tgt[w]])
           /\ Release(w)
  BY <1>1, <1>3, <1>4, <1>6, NotifiedKeeps, ZenonT(30)
<1> QED
  BY <1>4, <1>5, <1>6, Zenon

\* A waker is fired, and the thread that did it first queues the task.
LEMMA WakeKeeps ==
  ASSUME TaskInv, NEW th \in WakerThreads, NEW t \in Tasks, Wake(th, t)
  PROVE  TaskInv'
<1>1. pc[th] = "idle" /\ armed' \in [Tasks -> BOOLEAN] /\ th \in Threads
  BY ThreadSets DEF Wake, TaskInv, TypeOK
<1> QED
  BY <1>1, WakeEffect, NotifiedKeeps, ZenonT(30) DEF TaskInv, threadVars

\* The task a thread carries is queued.
LEMMA RespawnKeeps ==
  ASSUME TaskInv, NEW th \in Threads, Respawn(th) \/ RespawnSafety(th)
  PROVE  TaskInv'
<1> USE ThreadSets, SMTT(30) DEF TaskInv, TypeOK, Respawn, RespawnSafety
<1>1. CASE Fail("overflow") \/ Fail("safety_overflow")
  BY <1>1, FailKeeps DEF Fail, Failures
<1>2. CASE ~(Fail("overflow") \/ Fail("safety_overflow"))
  <2>1. tgt[th] \in Tasks
    BY DEF ThreadInv
  <2>2. queue' \in [Tasks -> Nat] /\ safety_queue' \in [Tasks -> Nat] /\ dropped' = dropped
    BY <1>2, <2>1 DEF Push
  <2>3. TypeOK' /\ ThreadInv' /\ FlagInv' /\ PollerInv'
    BY <1>2, <2>2, FreeKeeps
  <2>4. NoLostNotification'
    BY <1>2, <2>1 DEF NoLostNotification, Carried, Push, Release, Goto, taskVars,
                      is_idle, is_notified, is_canceled
  <2> QED
    BY ONLY <2>3, <2>4, Zenon DEF TaskInv
<1> QED
  BY ONLY <1>1, <1>2, Zenon

\* A task notified while it ran is queued by the worker, or dropped when the queue
\* of the safety worker is full.
LEMMA RequeueKeeps ==
  ASSUME TaskInv, NEW w \in Pollers, Requeue(w) \/ RequeueSafety(w)
  PROVE  TaskInv'
<1> USE ThreadSets, SMTT(30) DEF TaskInv, TypeOK, Requeue, RequeueSafety
<1>1. CASE Fail("overflow")
  BY <1>1, FailKeeps DEF Fail, Failures
<1>2. CASE ~Fail("overflow")
  <2>1. cur[w] \in Tasks
    BY DEF ThreadInv
  <2>2. queue' \in [Tasks -> Nat] /\ safety_queue' \in [Tasks -> Nat] /\ dropped' \subseteq Tasks
    BY <1>2, <2>1 DEF Push
  <2>3. TypeOK' /\ ThreadInv' /\ FlagInv' /\ PollerInv'
    BY <1>2, <2>2, FreeKeeps
  <2>4. NoLostNotification'
    BY <1>2, <2>1 DEF NoLostNotification, Carried, Push, Release, Goto, taskVars,
                      is_idle, is_notified, is_canceled
  <2> QED
    BY ONLY <2>3, <2>4, Zenon DEF TaskInv
<1> QED
  BY ONLY <1>1, <1>2, Zenon

(***************************************************************************)
(* The induction: one lemma for every action.                                *)
(***************************************************************************)

\* The worker becomes the poller of an idle task, or drops a reference nobody needs.
LEMMA PollKeeps ==
  ASSUME TaskInv, NEW w \in Pollers, Poll(w)
  PROVE  TaskInv'
<1> USE TaskAssumption, ThreadSets, SMTT(30) DEF TaskInv, taskVars, queueVars, threadVars
<1> USE DEF is_running, is_idle, is_completed, is_canceled, is_notified, has_join_handle
<1>1. CASE Fail("transition_to_running") \/ Fail("poll_core")
  BY <1>1, FailKeeps DEF Fail, Failures
<1>2. CASE /\ is_running(state[cur[w]]) \/ is_canceled(state[cur[w]])
           /\ cur[w] \in Tasks /\ pc[w] = "popped" /\ Release(w)
           /\ UNCHANGED <<taskVars, queueVars, armed, panic>>
  <2> USE <1>2
  <2>1. queue' \in [Tasks -> Nat] /\ safety_queue' \in [Tasks -> Nat] /\ dropped' \subseteq Tasks
    BY DEF TypeOK
  <2>2. TypeOK' /\ ThreadInv' /\ FlagInv' /\ PollerInv'
    BY <2>1, FreeKeeps
  <2>4. NoLostNotification'
    BY DEF TypeOK, ThreadInv, FlagInv, NoLostNotification, Carried, Release, Goto
  <2> QED
    BY ONLY <2>2, <2>4, Zenon DEF TaskInv
<1>3. ASSUME NEW n \in SUBSET Flags, Started(state[cur[w]], n),
             cur[w] \in Tasks, pc[w] = "popped",
             state' = [state EXCEPT ![cur[w]] = n],
             pc' = [pc EXCEPT ![w] = "polling"],
             todo' = [todo EXCEPT ![w] = {c \in Children(cur[w]) : handle[c] \in {"New", "Polled"}}],
             UNCHANGED <<stage, handle_waker, handle, result, returned, queueVars,
                         cur, tgt, armed, panic>>
      PROVE  TaskInv'
  <2> USE <1>3
  <2>1. TypeOK'
    BY DEF TypeOK, Failures, Labels, Stages, HandleStates, Results, ThreadInv, Started, Children
  <2>2. ThreadInv' /\ FlagInv'
    BY DEF TypeOK, ThreadInv, FlagInv, Started, Children
  <2>3. PollerInv'
    BY DEF TypeOK, ThreadInv, FlagInv, PollerInv, Polls, Started, Children
  <2>4. NoLostNotification'
    BY DEF TypeOK, ThreadInv, FlagInv, NoLostNotification, Carried, Started, Children
  <2> QED
    BY ONLY <2>1, <2>2, <2>3, <2>4, Zenon DEF TaskInv
<1> QED
  BY <1>1, <1>2, <1>3, PollEffect

\* A new task, with a reference in the queue.
LEMMA SpawnKeeps ==
  ASSUME TaskInv, NEW w \in Pollers, NEW c \in Tasks, Spawn(w, c)
  PROVE  TaskInv'
<1> USE TaskAssumption, ThreadSets, SMTT(30) DEF TaskInv, taskVars, queueVars, threadVars
<1> USE DEF is_running, is_idle, is_completed, is_canceled, is_notified, has_join_handle
<1>1. CASE Size(queue) >= QueueSize
  BY <1>1, FailKeeps DEF Spawn, Fail, Failures
<1>2. CASE ~(Size(queue) >= QueueSize)
  <2> USE <1>2
  <2>1. TypeOK'
    BY DEF TypeOK, HandleStates, Spawn, Push
  <2>2. ThreadInv' /\ FlagInv'
    BY DEF TypeOK, ThreadInv, FlagInv, Spawn
  <2>3. PollerInv'
    BY DEF TypeOK, ThreadInv, FlagInv, PollerInv, Polls, Spawn, Goto, Push
  <2>4. NoLostNotification'
    BY DEF TypeOK, ThreadInv, FlagInv, NoLostNotification, Carried, Spawn, Goto, Push
  <2> QED
    BY ONLY <2>1, <2>2, <2>3, <2>4, Zenon DEF TaskInv
<1> QED
  BY ONLY <1>1, <1>2, Zenon DEF TaskInv

\* A clone of the waker leaves the task.
LEMMA ArmKeeps ==
  ASSUME TaskInv, NEW w \in Pollers, Arm(w)
  PROVE  TaskInv'
<1> USE TaskAssumption, ThreadSets, SMTT(30) DEF TaskInv, taskVars, queueVars, threadVars
<1> USE DEF is_running, is_idle, is_completed, is_canceled, is_notified, has_join_handle
<1>1. TypeOK'
  BY DEF TypeOK, Failures, Labels, Stages, HandleStates, Results, ThreadInv, Arm, Goto, Release, DropHandles
<1>2. ThreadInv' /\ FlagInv'
  BY DEF TypeOK, ThreadInv, FlagInv, Arm, Goto, Release, DropHandles
<1>3. PollerInv'
  BY DEF TypeOK, ThreadInv, FlagInv, PollerInv, Polls, Arm, Goto, Release, DropHandles
<1>4. NoLostNotification'
  BY DEF TypeOK, ThreadInv, FlagInv, NoLostNotification, Carried, Arm, Goto, Release, DropHandles
<1> QED
  BY ONLY <1>1, <1>2, <1>3, <1>4, Zenon DEF TaskInv

\* The waker is stored.
LEMMA JoinPollNewKeeps ==
  ASSUME TaskInv, NEW w \in Pollers, NEW c \in Tasks, JoinPollNew(w, c)
  PROVE  TaskInv'
<1> USE TaskAssumption, ThreadSets, SMTT(30) DEF TaskInv, taskVars, queueVars, threadVars
<1> USE DEF is_running, is_idle, is_completed, is_canceled, is_notified, has_join_handle
<1>1. TypeOK'
  BY DEF TypeOK, Failures, Labels, Stages, HandleStates, Results, ThreadInv, JoinPollNew, Goto, Release, DropHandles
<1>2. ThreadInv' /\ FlagInv'
  BY DEF TypeOK, ThreadInv, FlagInv, JoinPollNew, Goto, Release, DropHandles
<1>3. PollerInv'
  BY DEF TypeOK, ThreadInv, FlagInv, PollerInv, Polls, JoinPollNew, Goto, Release, DropHandles
<1>4. NoLostNotification'
  BY DEF TypeOK, ThreadInv, FlagInv, NoLostNotification, Carried, JoinPollNew, Goto, Release, DropHandles
<1> QED
  BY ONLY <1>1, <1>2, <1>3, <1>4, Zenon DEF TaskInv

\* JoinHandle::poll finds the task over and takes what it left.
LEMMA JoinReadyKeeps ==
  ASSUME TaskInv, NEW w \in Pollers, NEW c \in Tasks, JoinReady(w, c),
         pc[w] \in {"polling", "set_waker"}
  PROVE  TaskInv'
<1> USE DEF TaskInv, taskVars, queueVars, threadVars, is_running, is_idle, is_completed, is_canceled, is_notified, has_join_handle
<1>1. FutureRet(c) \in Results
  BY DEF FutureRet, Results, TypeOK
<1> USE DEF JoinReady, Goto
<1>2. TypeOK'
  BY <1>1 DEF TypeOK, Failures, Labels, Stages, HandleStates, Results, Pollers, Threads
<1>3. ThreadInv' /\ FlagInv'
  BY ThreadSets DEF TypeOK, ThreadInv, FlagInv
<1>4. PollerInv'
  BY ThreadSets DEF TypeOK, PollerInv, Polls
<1>5. NoLostNotification'
  BY ThreadSets DEF TypeOK, NoLostNotification, Carried
<1> QED
  BY ONLY <1>2, <1>3, <1>4, <1>5, Zenon DEF TaskInv

\* The flag goes up behind the stored waker, or the result is taken.
LEMMA SetWakerKeeps ==
  ASSUME TaskInv, NEW w \in Pollers, SetWaker(w)
  PROVE  TaskInv'
<1> USE TaskAssumption, ThreadSets, SMTT(30) DEF TaskInv, taskVars, queueVars, threadVars
<1> USE DEF is_running, is_idle, is_completed, is_canceled, is_notified, has_join_handle
<1>0. TaskInv
  OBVIOUS
<1>1. CASE Fail("join_new")
  BY ONLY <1>0, <1>1, FailKeeps DEF Fail, Failures
<1>2. CASE JoinReady(w, tgt[w]) /\ tgt[w] \in Tasks /\ pc[w] = "set_waker"
  BY <1>2, JoinReadyKeeps
<1>3. ASSUME tgt[w] \in Tasks, cur[w] \in Tasks, pc[w] = "set_waker", Parent[tgt[w]] = cur[w],
             NEW n \in SUBSET Flags,
             ~is_completed(state[tgt[w]]), ~is_completed(n),
             ~is_canceled(state[tgt[w]]), ~is_canceled(n), has_join_handle(n),
             is_running(n) <=> is_running(state[tgt[w]]),
             is_idle(n) <=> is_idle(state[tgt[w]]),
             is_notified(n) <=> is_notified(state[tgt[w]]),
             state' = [state EXCEPT ![tgt[w]] = n],
             handle' = [handle EXCEPT ![tgt[w]] = "Polled"],
             todo' = [todo EXCEPT ![w] = @ \ {tgt[w]}],
             pc' = [pc EXCEPT ![w] = "polling"],
             UNCHANGED <<stage, handle_waker, result, returned, queueVars, cur, tgt, armed, panic>>
      PROVE  TaskInv'
  <2> USE <1>3
  <2>1. TypeOK'
    BY DEF TypeOK, Failures, Labels, Stages, HandleStates, Results, ThreadInv
  <2>2. ThreadInv' /\ FlagInv'
    BY DEF TypeOK, ThreadInv, FlagInv
  <2>3. PollerInv'
    BY DEF TypeOK, ThreadInv, FlagInv, PollerInv, Polls
  <2>4. NoLostNotification'
    BY DEF TypeOK, ThreadInv, FlagInv, NoLostNotification, Carried
  <2> QED
    BY ONLY <2>1, <2>2, <2>3, <2>4, Zenon DEF TaskInv
<1>4. TaskInv /\ SetWaker(w)
  OBVIOUS
<1> QED
  BY ONLY <1>1, <1>2, <1>3, <1>4, SetWakerEffect, ZenonT(20) DEF TaskInv

\* The handle is polled again and looks at the task only.
LEMMA JoinPollAgainKeeps ==
  ASSUME TaskInv, NEW w \in Pollers, NEW c \in Tasks, JoinPollAgain(w, c)
  PROVE  TaskInv'
<1> USE TaskAssumption, ThreadSets, SMTT(30) DEF TaskInv, taskVars, queueVars, threadVars
<1> USE DEF is_running, is_idle, is_completed, is_canceled, is_notified, has_join_handle
<1>1. CASE FutureRet(c) = "NoData"
  <2> USE <1>1
  <2>1. TypeOK'
    BY DEF TypeOK, Failures, Labels, Stages, HandleStates, Results, ThreadInv, JoinPollAgain
  <2>2. ThreadInv' /\ FlagInv'
    BY DEF TypeOK, ThreadInv, FlagInv, JoinPollAgain
  <2>3. PollerInv'
    BY DEF TypeOK, ThreadInv, FlagInv, PollerInv, Polls, JoinPollAgain
  <2>4. NoLostNotification'
    BY DEF TypeOK, ThreadInv, FlagInv, NoLostNotification, Carried, JoinPollAgain
  <2> QED
    BY ONLY <2>1, <2>2, <2>3, <2>4, Zenon DEF TaskInv
<1>2. CASE FutureRet(c) = "AlreadyDone"
  BY <1>2, FailKeeps DEF JoinPollAgain, Fail, Failures
<1>3. CASE FutureRet(c) \notin {"NoData", "AlreadyDone"}
  BY <1>3, JoinReadyKeeps DEF JoinPollAgain
<1> QED
  BY ONLY <1>1, <1>2, <1>3, Zenon DEF TaskInv

\* A task is canceled; if it is idle nobody will ever poll it again.
LEMMA AbortKeeps ==
  ASSUME TaskInv, NEW w \in Pollers, NEW c \in Tasks, Abort(w, c)
  PROVE  TaskInv'
<1> USE TaskAssumption, ThreadSets, SMTT(30) DEF TaskInv, taskVars, queueVars, threadVars
<1> USE DEF is_running, is_idle, is_completed, is_canceled, is_notified, has_join_handle
<1>1. ASSUME cur[w] \in Tasks, pc[w] = "polling",
             NEW n \in SUBSET Flags,
             is_running(n) <=> is_running(state[c]), is_idle(n) <=> is_idle(state[c]),
             is_completed(n) <=> is_completed(state[c]),
             is_notified(n) <=> is_notified(state[c]),
             has_join_handle(n) <=> has_join_handle(state[c]),
             is_canceled(state[c]) => is_canceled(n),
             state' = [state EXCEPT ![c] = n],
             UNCHANGED <<stage, handle_waker, handle, result, returned, queueVars, cur,
                         todo, armed, panic>>,
             is_idle(n), is_canceled(n),
             tgt' = [tgt EXCEPT ![w] = c], pc' = [pc EXCEPT ![w] = "clear_stage"]
      PROVE  TaskInv'
  <2> USE <1>1
  <2>1. TypeOK'
    BY DEF TypeOK, Failures, Labels, Stages, HandleStates, Results, ThreadInv
  <2>2. ThreadInv' /\ FlagInv'
    BY DEF TypeOK, ThreadInv, FlagInv
  <2>3. PollerInv'
    BY DEF TypeOK, ThreadInv, FlagInv, PollerInv, Polls
  <2>4. NoLostNotification'
    BY DEF TypeOK, ThreadInv, FlagInv, NoLostNotification, Carried
  <2> QED
    BY ONLY <2>1, <2>2, <2>3, <2>4, Zenon DEF TaskInv
<1>2. ASSUME cur[w] \in Tasks, pc[w] = "polling",
             NEW n \in SUBSET Flags,
             is_running(n) <=> is_running(state[c]), is_idle(n) <=> is_idle(state[c]),
             is_completed(n) <=> is_completed(state[c]),
             is_notified(n) <=> is_notified(state[c]),
             has_join_handle(n) <=> has_join_handle(state[c]),
             is_canceled(state[c]) => is_canceled(n),
             state' = [state EXCEPT ![c] = n],
             UNCHANGED <<stage, handle_waker, handle, result, returned, queueVars, cur,
                         todo, armed, panic>>,
             UNCHANGED <<tgt, pc>>
      PROVE  TaskInv'
  <2> USE <1>2
  <2>1. TypeOK'
    BY DEF TypeOK, Failures, Labels, Stages, HandleStates, Results, ThreadInv
  <2>2. ThreadInv' /\ FlagInv'
    BY DEF TypeOK, ThreadInv, FlagInv
  <2>3. PollerInv'
    BY DEF TypeOK, ThreadInv, FlagInv, PollerInv, Polls
  <2>4. NoLostNotification'
    BY DEF TypeOK, ThreadInv, FlagInv, NoLostNotification, Carried
  <2> QED
    BY ONLY <2>1, <2>2, <2>3, <2>4, Zenon DEF TaskInv
<1> QED
  BY <1>1, <1>2, AbortEffect

\* The stage of a canceled idle task is cleared.
LEMMA ClearStageKeeps ==
  ASSUME TaskInv, NEW w \in Pollers, ClearStage(w)
  PROVE  TaskInv'
<1> USE TaskAssumption, ThreadSets, SMTT(30) DEF TaskInv, taskVars, queueVars, threadVars
<1> USE DEF is_running, is_idle, is_completed, is_canceled, is_notified, has_join_handle
<1>1. TypeOK'
  BY DEF TypeOK, Failures, Labels, Stages, HandleStates, Results, ThreadInv, ClearStage, Goto, Release, DropHandles
<1>2. ThreadInv' /\ FlagInv'
  BY DEF TypeOK, ThreadInv, FlagInv, ClearStage, Goto, Release, DropHandles
<1>3. PollerInv'
  BY DEF TypeOK, ThreadInv, FlagInv, PollerInv, Polls, ClearStage, Goto, Release, DropHandles
<1>4. NoLostNotification'
  BY DEF TypeOK, ThreadInv, FlagInv, NoLostNotification, Carried, ClearStage, Goto, Release, DropHandles
<1> QED
  BY ONLY <1>1, <1>2, <1>3, <1>4, Zenon DEF TaskInv

\* The worker gives the task up; a notification that came meanwhile is carried on.
LEMMA PollPendingKeeps ==
  ASSUME TaskInv, NEW w \in Pollers, PollPending(w)
  PROVE  TaskInv'
<1> USE TaskAssumption, ThreadSets, SMTT(30) DEF TaskInv, taskVars, queueVars, threadVars
<1> USE DEF is_running, is_idle, is_completed, is_canceled, is_notified, has_join_handle
<1>1. CASE /\ cur[w] \in Tasks /\ pc[w] = "polling" /\ is_canceled(state[cur[w]])
           /\ stage' = [stage EXCEPT ![cur[w]] = "Extracted"]
           /\ DropHandles(cur[w]) /\ Release(w)
           /\ UNCHANGED <<state, handle_waker, result, returned, queueVars, armed, panic>>
  <2> USE <1>1
  <2>1. TypeOK'
    BY DEF TypeOK, Failures, Labels, Stages, HandleStates, Results, ThreadInv, DropHandles, Release, Goto
  <2>2. ThreadInv' /\ FlagInv'
    BY DEF TypeOK, ThreadInv, FlagInv, DropHandles, Release, Goto
  <2>3. PollerInv'
    BY DEF TypeOK, ThreadInv, FlagInv, PollerInv, Polls, DropHandles, Release, Goto
  <2>4. NoLostNotification'
    BY DEF TypeOK, ThreadInv, FlagInv, NoLostNotification, Carried, DropHandles, Release, Goto
  <2> QED
    BY ONLY <2>1, <2>2, <2>3, <2>4, Zenon DEF TaskInv
<1>2. ASSUME cur[w] \in Tasks, pc[w] = "polling", todo[w] = {}, is_running(state[cur[w]]),
             NEW n \in SUBSET Flags, Rested(state[cur[w]], n),
             state' = [state EXCEPT ![cur[w]] = n],
             UNCHANGED <<stage, handle_waker, handle, result, returned, queueVars,
                         armed, panic>>,
             ~is_notified(n), Release(w)
      PROVE  TaskInv'
  <2> USE <1>2
  <2>1. TypeOK'
    BY DEF TypeOK, Failures, Labels, Stages, HandleStates, Results, ThreadInv, Rested, Release, Goto
  <2>2. ThreadInv' /\ FlagInv'
    BY DEF TypeOK, ThreadInv, FlagInv, Rested, Release, Goto
  <2>3. PollerInv'
    BY DEF TypeOK, ThreadInv, FlagInv, PollerInv, Polls, Rested, Release, Goto
  <2>4. NoLostNotification'
    BY DEF TypeOK, ThreadInv, FlagInv, NoLostNotification, Carried, Rested, Release, Goto
  <2> QED
    BY ONLY <2>1, <2>2, <2>3, <2>4, Zenon DEF TaskInv
<1>3. ASSUME cur[w] \in Tasks, pc[w] = "polling", todo[w] = {}, is_running(state[cur[w]]),
             NEW n \in SUBSET Flags, Rested(state[cur[w]], n),
             state' = [state EXCEPT ![cur[w]] = n],
             UNCHANGED <<stage, handle_waker, handle, result, returned, queueVars,
                         armed, panic>>,
             pc' = [pc EXCEPT ![w] = "requeue"], UNCHANGED <<cur, tgt, todo>>
      PROVE  TaskInv'
  <2> USE <1>3
  <2>1. TypeOK'
    BY DEF TypeOK, Failures, Labels, Stages, HandleStates, Results, ThreadInv, Rested
  <2>2. ThreadInv' /\ FlagInv'
    BY DEF TypeOK, ThreadInv, FlagInv, Rested
  <2>3. PollerInv'
    BY DEF TypeOK, ThreadInv, FlagInv, PollerInv, Polls, Rested
  <2>4. NoLostNotification'
    BY DEF TypeOK, ThreadInv, FlagInv, NoLostNotification, Carried, Rested
  <2> QED
    BY ONLY <2>1, <2>2, <2>3, <2>4, Zenon DEF TaskInv
<1>4. TaskInv /\ PollPending(w)
  OBVIOUS
<1> QED
  BY ONLY <1>1, <1>2, <1>3, <1>4, PollPendingEffect, ZenonT(20) DEF TaskInv

\* The result takes the place of the future.
LEMMA PollReadyKeeps ==
  ASSUME TaskInv, NEW w \in Pollers, NEW v \in {"Ok", "Err"}, PollReady(w, v)
  PROVE  TaskInv'
<1> USE TaskAssumption, ThreadSets, SMTT(30) DEF TaskInv, taskVars, queueVars, threadVars
<1> USE DEF is_running, is_idle, is_completed, is_canceled, is_notified, has_join_handle
<1>1. TypeOK'
  BY DEF TypeOK, Failures, Labels, Stages, HandleStates, Results, ThreadInv, PollReady, Goto, Release, DropHandles
<1>2. ThreadInv' /\ FlagInv'
  BY DEF TypeOK, ThreadInv, FlagInv, PollReady, Goto, Release, DropHandles
<1>3. PollerInv'
  BY DEF TypeOK, ThreadInv, FlagInv, PollerInv, Polls, PollReady, Goto, Release, DropHandles
<1>4. NoLostNotification'
  BY DEF TypeOK, ThreadInv, FlagInv, NoLostNotification, Carried, PollReady, Goto, Release, DropHandles
<1> QED
  BY ONLY <1>1, <1>2, <1>3, <1>4, Zenon DEF TaskInv

\* The task is over and the waker of its joiner, if any, is at hand.
LEMMA CompleteKeeps ==
  ASSUME TaskInv, NEW w \in Pollers, Complete(w)
  PROVE  TaskInv'
<1> USE TaskAssumption, ThreadSets, SMTT(30) DEF TaskInv, taskVars, queueVars, threadVars
<1> USE DEF is_running, is_idle, is_completed, is_canceled, is_notified, has_join_handle
<1>1. CASE Fail("no_waker")
  BY <1>1, FailKeeps DEF Fail, Failures
<1>2. CASE /\ cur[w] \in Tasks /\ pc[w] = "ready" /\ is_canceled(state[cur[w]])
           /\ stage' = [stage EXCEPT ![cur[w]] = "Extracted"]
           /\ Release(w)
           /\ UNCHANGED <<state, handle_waker, handle, result, returned, queueVars, armed, panic>>
  <2> USE <1>2
  <2>1. TypeOK'
    BY DEF TypeOK, Failures, Labels, Stages, HandleStates, Results, ThreadInv, Release, Goto
  <2>2. ThreadInv' /\ FlagInv'
    BY DEF TypeOK, ThreadInv, FlagInv, Release, Goto
  <2>3. PollerInv'
    BY DEF TypeOK, ThreadInv, FlagInv, PollerInv, Polls, Release, Goto
  <2>4. NoLostNotification'
    BY DEF TypeOK, ThreadInv, FlagInv, NoLostNotification, Carried, Release, Goto
  <2> QED
    BY ONLY <2>1, <2>2, <2>3, <2>4, Zenon DEF TaskInv
<1>3. ASSUME cur[w] \in Tasks, pc[w] = "ready", is_running(state[cur[w]]),
             NEW n \in SUBSET Flags, Ended(state[cur[w]], n),
             state' = [state EXCEPT ![cur[w]] = n],
             UNCHANGED <<stage, handle, result, returned, queueVars, armed, panic>>,
             has_join_handle(state[cur[w]]),
             handle_waker' = [handle_waker EXCEPT ![cur[w]] = FALSE],
             tgt' = [tgt EXCEPT ![w] = Parent[cur[w]]],
             pc' = [pc EXCEPT ![w] = "wake"], UNCHANGED <<cur, todo>>
      PROVE  TaskInv'
  <2> USE <1>3
  <2>1. TypeOK'
    BY DEF TypeOK, Failures, Labels, Stages, HandleStates, Results, ThreadInv, Ended
  <2>2. ThreadInv' /\ FlagInv'
    BY DEF TypeOK, ThreadInv, FlagInv, Ended
  <2>3. PollerInv'
    BY DEF TypeOK, ThreadInv, FlagInv, PollerInv, Polls, Ended
  <2>4. NoLostNotification'
    BY DEF TypeOK, ThreadInv, FlagInv, NoLostNotification, Carried, Ended
  <2> QED
    BY ONLY <2>1, <2>2, <2>3, <2>4, Zenon DEF TaskInv
<1>4. ASSUME cur[w] \in Tasks, pc[w] = "ready", is_running(state[cur[w]]),
             NEW n \in SUBSET Flags, Ended(state[cur[w]], n),
             state' = [state EXCEPT ![cur[w]] = n],
             UNCHANGED <<stage, handle, result, returned, queueVars, armed, panic>>,
             UNCHANGED handle_waker, Release(w)
      PROVE  TaskInv'
  <2> USE <1>4
  <2>1. TypeOK'
    BY DEF TypeOK, Failures, Labels, Stages, HandleStates, Results, ThreadInv, Ended, Release, Goto
  <2>2. ThreadInv' /\ FlagInv'
    BY DEF TypeOK, ThreadInv, FlagInv, Ended, Release, Goto
  <2>3. PollerInv'
    BY DEF TypeOK, ThreadInv, FlagInv, PollerInv, Polls, Ended, Release, Goto
  <2>4. NoLostNotification'
    BY DEF TypeOK, ThreadInv, FlagInv, NoLostNotification, Carried, Ended, Release, Goto
  <2> QED
    BY ONLY <2>1, <2>2, <2>3, <2>4, Zenon DEF TaskInv
<1>5. TaskInv /\ Complete(w)
  OBVIOUS
<1> QED
  BY ONLY <1>1, <1>2, <1>3, <1>4, <1>5, CompleteEffect, ZenonT(20) DEF TaskInv

\* The initial state.
LEMMA InitTaskInv == Init => TaskInv
<1> SUFFICES ASSUME Init PROVE TaskInv
  OBVIOUS
<1> USE DEF Init, NewState, Pollers, Threads, is_running, is_idle, is_completed,
            is_canceled, is_notified, has_join_handle
<1>1. TypeOK
  BY TaskAssumption DEF TypeOK, Flags, Stages, Labels, Failures, HandleStates, Results
<1>2. ThreadInv /\ FlagInv /\ PollerInv
  BY DEF ThreadInv, FlagInv, PollerInv, Polls
<1>3. NoLostNotification
  BY DEF NoLostNotification
<1> QED
  BY <1>1, <1>2, <1>3 DEF TaskInv

\* Every step of the system preserves the invariant.
LEMMA NextTaskInv == TaskInv /\ [Next]_vars => TaskInv'
<1> SUFFICES ASSUME TaskInv, [Next]_vars PROVE TaskInv'
  OBVIOUS
<1>1. CASE UNCHANGED vars
  <2>1. Fail(panic') /\ panic' \in Failures
    BY <1>1 DEF vars, Fail, TaskInv, TypeOK
  <2> QED
    BY <2>1, FailKeeps
<1>2. CASE Next
  <2>1. ASSUME NEW w \in Pollers, Step(w) PROVE TaskInv'
    <3>1. w \in Threads
      BY ThreadSets
    <3> QED
      BY <2>1, <3>1, PollKeeps, SpawnKeeps, ArmKeeps, JoinPollNewKeeps, SetWakerKeeps,
         JoinPollAgainKeeps, AbortKeeps, ClearStageKeeps, PollPendingKeeps,
         PollReadyKeeps, CompleteKeeps, WakeJoinKeeps, RespawnKeeps, RequeueKeeps, ZenonT(30)
         DEF Step, Body, PollReturns
  <2> QED
    BY <1>2, <2>1, PopKeeps, RespawnKeeps, WakeKeeps, ZenonT(30) DEF Next, TakeTask
<1> QED
  BY <1>1, <1>2

\* The inductive invariant holds in every reachable state.
THEOREM TaskInvariance == Spec => []TaskInv
BY InitTaskInv, NextTaskInv, PTL DEF Spec

\* Type correctness.
THEOREM TypeCorrect == Spec => []TypeOK
BY TaskInvariance, PTL DEF TaskInv

\* Two threads never touch the stage of a task at the same time.
THEOREM StageExclusion == Spec => []StageIsExclusive
<1>1. TaskInv => StageIsExclusive
  BY Zenon DEF TaskInv, ThreadInv, FlagInv, PollerInv, StageIsExclusive, Polls
<1> QED
  BY <1>1, TaskInvariance, PTL

\* A notified idle task is always in a queue or on its way into one.
THEOREM NotificationsKept == Spec => []NoLostNotification
BY TaskInvariance, PTL DEF TaskInv
=============================================================================
