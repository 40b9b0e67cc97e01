SPECIFICATION MCSpec
CONSTANTS
    a = a
    d = d
    s = s
    j = j
    Queues <- MCQueues
    Pushers <- MCPushers
    Capacity <- MCCapacity
    NoQueue = NoQueue
    AsyncWorkers = {a}
    DedicatedWorkers = {d}
    SafetyWorkers = {s}
    Producers = {p}
    Tasks = {t1, t2}
    JoinQueue = j
    LocalSize = 2
    EntryTask = EntryTask
    NoTask = NoTask
INVARIANTS
    SleeperIsNotified
    BuiltIsReady
    ReferencesKept
CHECK_DEADLOCK FALSE
PROPERTIES
    DropEnds
    QueuedIsPolled
    JoinReturns
