SPECIFICATION Spec
CONSTANTS
  p = p
  q = q
  c1 = c1
  c2 = c2
  NoTask = NoTask
  Tasks = {p, c1, c2}
  Parent <- MCParent
  SafetyTasks = {c1, c2}
  Workers = {w1}
  SafetyWorkers = {s1}
  WakerThreads = {x1}
  QueueSize = 3
  SafetyQueueSize = 1
INVARIANT AssertIdleHolds
CHECK_DEADLOCK FALSE
