CONSTANTS
  MaxTasks = 3
  PriorityLevels = 3
  Idle = Idle
  NULL = NULL
  TaskPriorities = {1, 2}
  SleepTimes = {1, 2}
  Calls = {"sleep"}
  TickModulus = 8
  TickLimit = 2
  LockLimit = 1

INVARIANTS NoSleeperPassedOver NoTaskDropped
SPECIFICATION FairSpec
PROPERTY SleepersWake
