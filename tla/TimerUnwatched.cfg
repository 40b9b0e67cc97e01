\* Two async workers and a dedicated one; deadlines up to the second millisecond.
SPECIFICATION Spec
CONSTANTS
  Workers = {w1, w2}
  Dedicated = d
  MaxTime = 2
  Never = Never
  NoOne = NoOne
INVARIANT TimerIsWatched
CHECK_DEADLOCK FALSE
