SPECIFICATION Spec
CONSTANTS
  gain = gain
  freq = freq
  Param <- MCOneParam
  MaxValue = 1
  Step = 1
  QueueCap = 1
  PendingCap = 2
  MaxEdits = 1
  None = None
PROPERTY DestructorJoins
CHECK_DEADLOCK FALSE
