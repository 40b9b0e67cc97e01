SPECIFICATION MCSpec
CONSTANTS
  p = p
  c1 = c1
  c2 = c2
  a = a
  s = s
  w1 = w1
  w2 = w2
  Tasks = {p, c1, c2}
  NoTask = NoTask
  Parent <- MCParent
  SafetyTasks = {c1, c2}
  Workers = {a}
  SafetyWorkers = {s}
  WakerThreads = {x}
  QueueSize = 3
  SafetyQueueSize = 1
  Outside = Outside
  Never = Never
INVARIANTS
  StageIsExclusive NoLostNotification NoLostJoin JoinAnswer NoInconsistency NothingFails
  WokenWhereItMayRun MockStepIsFair FutureTimerIsWatched
SYMMETRY Symmetry
CHECK_DEADLOCK FALSE
