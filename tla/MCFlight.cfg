CONSTANTS
  TaskIds = {"Control", "Estimator", "Navigation"}
  CriticalIds = {}
  AdjustableIds = {}
  Timeouts = {}
  CheckIntervals = {}
  WatchdogMaxTasks = 4
  TickModulus = 16
  SilenceCap = 16
  TimeoutOf <- MCTimeoutOf
  KickingTasks = {"Sensor"}
  ControllerLevels = {0, 4}
  MonitorPeriod = 1
  TickLimit = 3
  MaxEpisodes = 1
SPECIFICATION FlightSpec
INVARIANTS AlarmHasCause OneActionPerEpisode ExecutedNotEarly
PROPERTIES MonitorCatches FirstTriggerStays LowBatteryLands FailsafeKeepsMotors
