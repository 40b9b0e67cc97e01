SPECIFICATION MCSpec
CONSTANTS
  w1 = w1
  w2 = w2
  n1 = n1
  n2 = n2
  n3 = n3
  Names = {n1, n2, n3}
  QueueSizes = {3, 256}
  MaxWorkers = 2
  MaxDedicated = 2
  IdWidth = 6
  MaxEngines = 3
INVARIANTS WorkerIdsDistinct FoundByName SleepersAreReachable NoIdleSibling
SYMMETRY Symmetry
CHECK_DEADLOCK FALSE
