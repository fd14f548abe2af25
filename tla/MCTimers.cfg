CONSTANTS
  MaxTasks = 1
  PriorityLevels = 2
  Idle = Idle
  NULL = NULL
  TaskPriorities = {1}
  SleepTimes = {1}
  Calls = {"sleep", "lock", "timer"}
  TickModulus = 8
  TickLimit = 3
  LockLimit = 1
  MaxTimers = 2
  Kinds <- MCKinds
  CreateLimit = 2

SPECIFICATION TimersSpec
INVARIANTS TypeOK TicksHandledOnce EveryTickCounts
PROPERTIES LockedSchedulerKeepsTask NotTooEarly StartsAreKept
