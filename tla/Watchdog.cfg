CONSTANTS
  TaskIds = {t1, t2}
  CriticalIds = {t1}
  AdjustableIds = {t1}
  WatchdogMaxTasks = 2
  Timeouts = {0}
  CheckIntervals = {2}
  TickModulus = 4
  SilenceCap = 4
SPECIFICATION WatchdogSpec
INVARIANTS NoFalseTimeout StateFitsMisses
PROPERTIES CheckTellsTruth UnregisterKeepsOthers
