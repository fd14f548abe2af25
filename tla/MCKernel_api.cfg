CONSTANTS
  MaxTasks = 2
  PriorityLevels = 2
  Idle = Idle
  NULL = NULL
  TaskPriorities = {0, 1}
  SleepTimes = {1}
  Calls <- SchedulerCalls
  TickModulus = 8
  TickLimit = 1
  LockLimit = 1

SPECIFICATION Spec
INVARIANTS ListsIntact SuspendedCanBeResumed
  BlockedTaskRunsOnlyAlone
PROPERTY AbstractScheduler
