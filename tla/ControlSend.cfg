SPECIFICATION Spec
CONSTANTS
  reader = reader
  gui = gui
  drain = drain
  Sender <- MCSender
  Lossy <- MCLossy
  Message <- MCMessage
  Base = 4
  MaxPayload = 2
  Room = 5
  MaxCalls = 3
  None = None
INVARIANTS TypeOK FramesWhole ProbedRoomStays
PROPERTIES LossyWaitsForSend AllDelivered
\* Every call may be over.
CHECK_DEADLOCK FALSE
