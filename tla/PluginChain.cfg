SPECIFICATION Spec
CONSTANTS
  vst3 = vst3
  clap = clap
  o1 = o1
  o2 = o2
  o3 = o3
  None = None
  Scribbled = Scribbled
  Format <- MCFormat
  Object <- MCObject
  LastSlot = 1
SYMMETRY Symmetry
INVARIANTS TypeOK OpenSlotPopulated NothingLeftBehind OutputIsComposition SteadySlotsHonoured
\* A crashed sidecar stops.
CHECK_DEADLOCK FALSE
