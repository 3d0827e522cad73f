SPECIFICATION Spec
CONSTANTS
  b1 = b1
  b2 = b2
  Torn = Torn
  Block <- MCBlock
  SlotCount = 2
  Wrap = 4
  SemMax = 2
INVARIANTS TypeOK BlocksWhole SlotOwnership InputNeverStranded OutputNeverStranded
PROPERTIES ImplementsPipe BlockHandled StopReturns
\* The loop returns, the host stops: the system may end.
CHECK_DEADLOCK FALSE
