SPECIFICATION MCSpec
CONSTANTS
  Size = 2
  Handles = {h1, h2, h3}
  w1 = w1
  w2 = w2
  w3 = w3
  NoWorker = NoWorker
INVARIANTS LentOnce FreedExactlyOnce StealIsSafe ListIsSequence MockFnIsTruthful
PROPERTY IsWorkQueues
SYMMETRY Symmetry
CHECK_DEADLOCK FALSE
