SPECIFICATION Spec
CONSTANTS
  vst3 = vst3
  clap = clap
  v1 = v1
  v2 = v2
  v3 = v3
  Slot <- MCSlot
  Counted <- MCCounted
  View <- MCView
  None = None
  MaxQueue = 1
INVARIANT RequestPointsToLive
\* main ends, and the sidecar with it.
CHECK_DEADLOCK FALSE
