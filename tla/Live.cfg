SPECIFICATION MCSpec
CONSTANTS
  p = p
  child = child
  NoTask = NoTask
  Tasks = {p, child}
  Parent <- MCParent
  SafetyTasks = {}
  Workers = {w1, w2}
  SafetyWorkers = {}
  WakerThreads = {x1}
  QueueSize = 2
  SafetyQueueSize = 0
PROPERTIES NotifiedIsPolled JoinCompletes EventIsDelivered SelectEnds
CHECK_DEADLOCK FALSE
