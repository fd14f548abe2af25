CONSTANTS
  MaxTasks = 2
  PriorityLevels = 2
  Idle = Idle
  NULL = NULL
  TaskPriorities = {0, 1}
  SleepTimes = {1}
  Calls = {"sem", "sleep"}
  TickModulus = 8
  TickLimit = 2
  LockLimit = 1
  WaitLists = {s}
  Semaphores = {s}
  MaxCounts = {1, 2}
  MaxWaitingNodes = 2
  Timeouts = {1}
SPECIFICATION SemSpec
INVARIANT TimeoutsFire
