CONSTANTS
  MaxTasks = 3
  PriorityLevels = 2
  Idle = Idle
  NULL = NULL
  TaskPriorities = {1}
  SleepTimes = {1}
  Calls = {"queue", "yield", "queue_delete", "queue_create"}
  TickModulus = 8
  TickLimit = 1
  LockLimit = 1
  WaitLists = {"send", "recv"}
  Items = {a, b}
  Capacities = {2}
  MaxWaitingNodes = 2
  Timeouts = {1}
SPECIFICATION QueueSpec
INVARIANT NoLostMessage
PROPERTY FIFO
