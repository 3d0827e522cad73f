SPECIFICATION Spec
CONSTANTS
  gain = gain
  freq = freq
  Param <- MCParam
  MaxValue = 1
  Step = 1
  QueueCap = 2
  PendingCap = 2
  MaxEdits = 3
  None = None
INVARIANTS TypeOK NewestFireWins NewestPushWins ExitLeavesNothing SleepNeverStrands
PROPERTY QueueDrains
CHECK_DEADLOCK FALSE
