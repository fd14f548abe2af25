CONSTANTS
  MaxTasks = 3
  PriorityLevels = 3
  Idle = Idle
  NULL = NULL
  TaskPriorities = {1, 2}
  SleepTimes = {1}
  Calls = {"sem", "yield", "sem_create", "sem_delete"}
  TickModulus = 8
  TickLimit = 1
  LockLimit = 1
  WaitLists = {s}
  Semaphores = {s}
  MaxCounts = {1, 2}
  MaxWaitingNodes = 2
  Timeouts = {1}
SPECIFICATION SemSpec
INVARIANTS SemTypeOK NoLostGive
