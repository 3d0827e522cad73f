SPECIFICATION Spec
CONSTANTS
  Base = 4
  MaxPayload = 5
  HelloAck = 1
  Goodbye = 3
  Command <- MCCommand
  Attempts = 2
  MaxFrames = 3
INVARIANTS TypeOK FramesAsSent
PROPERTY SidecarEnds
\* The sidecar exits.
CHECK_DEADLOCK FALSE
