CONSTANTS
  Control = Control
  PerfMonitor = PerfMonitor
  Telemetry = Telemetry
  NoTask = NoTask
  ControlDeadline = 1
  PerfDeadline = 2
  PerfPeriod = 2
  AnalysisInterval = 2
  PerfSleep = 1
  MaxTasks = 4
  HistorySize = 2
  Modulus = 32
  ExecTimes = {0, 1, 3}
  ExecLimit = 5

SPECIFICATION Spec
INVARIANTS AverageBounded WorstSlackIsOfMetTurns TotalsExact HistoryIsLatest
