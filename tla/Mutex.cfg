CONSTANTS
  MaxTasks = 3
  PriorityLevels = 3
  Idle = Idle
  NULL = NULL
  TaskPriorities = {1}
  SleepTimes = {1}
  Calls = {"mutex", "yield", "suspend", "resume", "mutex_create", "mutex_delete"}
  TickModulus = 8
  TickLimit = 1
  LockLimit = 1
  WaitLists = {m}
  Mutexes = {m}
  RecursionLimit = 2
  MaxWaitingNodes = 2
  Timeouts = {1}
SPECIFICATION MutexSpec
INVARIANTS MutualExclusion OwnerKnows LockersWait
