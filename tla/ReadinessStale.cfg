\* One task that awaits its reads, one registration, two bytes that arrive.
SPECIFICATION Spec
CONSTANTS
  Tasks = {t1}
  Readers = {t1}
  Futures = {t1}
  Infos = {x1}
  TickMod = 3
  MaxRead = 2
  MaxWrite = 0
  MaxOpen = 1
  None = None
INVARIANT EveryWaiterIsWoken
CHECK_DEADLOCK FALSE
