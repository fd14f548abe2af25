CONSTANTS
  Interval = 5
  Second = 20
  MaxLate = 1
  MaxMissed = 2
  TickModulus = 67
  SeqModulus = 3

SPECIFICATION Spec
INVARIANTS SilenceBounded GapsCountLosses
PROPERTIES OneBeatPerSecond QuietAfterCleanup
