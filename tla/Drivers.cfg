\* A task that polls its reads and one that awaits its writes; two registrations,
\* so that one can be in use while the other is still being released.
SPECIFICATION MCSpec
CONSTANTS
  Tasks = {"r", "w"}
  Readers = {"r"}
  Futures = {"w"}
  Infos = {one, two}
  TickMod = 3
  MaxRead = 2
  MaxWrite = 1
  MaxOpen = 2
  None = None
  Uninit = Uninit
  Zero = Zero
  NoProc = NoProc
  Garbage = Garbage
  one = one
  two = two
INVARIANTS WaiterIsWoken UsedIsAlive SelectorHandsOver SleepIsServed SocketsAreFaithful
PROPERTY IsTimerSet
SYMMETRY Symmetry
CHECK_DEADLOCK FALSE
