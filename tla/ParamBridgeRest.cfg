SPECIFICATION Spec
CONSTANTS
  gain = gain
  freq = freq
  Param <- MCOneParam
  MaxValue = 2
  Step = 2
  QueueCap = 2
  PendingCap = 2
  MaxEdits = 3
  None = None
INVARIANT FinalValueReachesHost
CHECK_DEADLOCK FALSE
