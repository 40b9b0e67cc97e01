SPECIFICATION Spec
CONSTANTS
  Workers = {w1, w2}
  NoWorker = NoWorker
  Capacity = 4
  GlobalCapacity = 2
  Wrap = 16
  Start = 14
  MaxValues = 6
  MaxSteals = 2
INVARIANT NoOverrun
CHECK_DEADLOCK FALSE
