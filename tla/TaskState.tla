----------------------------- MODULE TaskState -----------------------------
(***************************************************************************)
(* The atomic state word of a task (kyron/src/scheduler/task/task_state.rs) *)
(* and the seven transitions defined on it.  A state is the set of the      *)
(* flags that are up.  Every transition of the code is a compare-exchange   *)
(* loop around a pure closure, so it takes effect in one atomic step: here   *)
(* it is an operator that maps the previous state to the next state and to   *)
(* the value the caller gets.  A closure that answers None leaves the state  *)
(* as it was.  A failing assert! is the answer "Panic".                      *)
(***************************************************************************)

Flags == {"IDLE", "RUNNING", "COMPLETED", "CANCELED",
          "JOIN_HANDLE_ATTACHED", "NOTIFIED", "NOTIFIED_SAFETY"}

\* TaskState::new
NewState == {"IDLE"}

is_completed(s)       == "COMPLETED" \in s
is_running(s)         == "RUNNING" \in s
is_idle(s)            == "IDLE" \in s
is_canceled(s)        == "CANCELED" \in s
is_notified(s)        == "NOTIFIED" \in s \/ "NOTIFIED_SAFETY" \in s
is_safety_notified(s) == "NOTIFIED_SAFETY" \in s
has_join_handle(s)    == "JOIN_HANDLE_ATTACHED" \in s

\* set_running and set_idle both flip the two flags with an exclusive or.
FlipRunningIdle(s) == (s \ {"RUNNING", "IDLE"}) \cup ({"RUNNING", "IDLE"} \ s)
unset_notified(s) == s \ {"NOTIFIED", "NOTIFIED_SAFETY"}

Result(next, ret) == [next |-> next, ret |-> ret]

transition_to_completed(s) ==
  IF ~is_running(s) \/ is_completed(s) THEN Result(s, "Panic")
  ELSE IF is_canceled(s) THEN Result(s, "Aborted")
  ELSE Result({"COMPLETED"},
              IF has_join_handle(s) THEN "HadConnectedJoinHandle" ELSE "Done")

\* The test for a completed task stands behind assert!(prev.is_idle()).
transition_to_running(s) ==
  IF is_running(s) THEN Result(s, "AlreadyRunning")
  ELSE IF ~is_idle(s) THEN Result(s, "Panic")
  ELSE IF is_completed(s) THEN Result(s, "Done")
  ELSE IF is_canceled(s) THEN Result(s, "Aborted")
  ELSE Result(FlipRunningIdle(unset_notified(s)), "Done")

\* Mutant: a notification that came during the poll is not reported.
transition_to_idle_forgets(s) ==
  IF ~is_running(s) \/ is_idle(s) THEN Result(s, "Panic")
  ELSE IF is_canceled(s) THEN Result(s, "Aborted")
  ELSE Result(FlipRunningIdle(s), "Done")
transition_to_idle(s) ==
  IF ~is_running(s) \/ is_idle(s) THEN Result(s, "Panic")
  ELSE IF is_canceled(s) THEN Result(s, "Aborted")
  ELSE Result(FlipRunningIdle(s), IF is_notified(s) THEN "Notified" ELSE "Done")

\* Mutant: a running task is not told from an idle one.
transition_to_canceled_running(s) ==
  IF is_completed(s) \/ is_canceled(s)
  THEN Result(s, "AlreadyDone")
  ELSE Result(s \cup {"CANCELED"}, "Done")
transition_to_canceled(s) ==
  IF is_completed(s) \/ is_canceled(s)
  THEN Result(s, "AlreadyDone")
  ELSE Result(s \cup {"CANCELED"},
              IF is_running(s) THEN "DoneWhileRunning" ELSE "Done")

\* Mutant: the flag goes up though the task is completed.
state_set_waker_late(s) ==
  IF is_canceled(s)
  THEN Result(s, FALSE)
  ELSE Result(s \cup {"JOIN_HANDLE_ATTACHED"}, TRUE)
\* TaskState::set_waker
state_set_waker(s) ==
  IF is_completed(s) \/ is_canceled(s)
  THEN Result(s, FALSE)
  ELSE Result(s \cup {"JOIN_HANDLE_ATTACHED"}, TRUE)

\* Mutant: a completed task is notified.
set_notified_completed(s) ==
  IF is_notified(s) \/ is_canceled(s)
  THEN Result(s, "AlreadyNotified")
  ELSE Result(s \cup {"NOTIFIED"}, IF is_running(s) THEN "Running" ELSE "Done")
set_notified(s) ==
  IF is_completed(s) \/ is_notified(s) \/ is_canceled(s)
  THEN Result(s, "AlreadyNotified")
  ELSE Result(s \cup {"NOTIFIED"}, IF is_running(s) THEN "Running" ELSE "Done")

\* Looks at the safety flag only: a task that is already notified into the
\* ordinary queue is notified into the safety queue as well.
set_safety_notified(s) ==
  IF is_completed(s) \/ is_safety_notified(s) \/ is_canceled(s)
  THEN Result(s, "AlreadyNotified")
  ELSE Result(s \cup {"NOTIFIED_SAFETY"}, IF is_running(s) THEN "Running" ELSE "Done")
=============================================================================
