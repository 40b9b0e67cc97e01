SPECIFICATION MCSpec
CONSTANTS
  Workers = {w1, w2}
  Outsiders = {o1}
  NoWorker = none
  Timeouts = {"none"}
  StopCalls = 0
  MaxWork = 2
PROPERTIES WorkIsDone
CHECK_DEADLOCK FALSE
