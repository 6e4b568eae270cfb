SPECIFICATION Spec
CONSTANTS
  NRef = 2
  NOut = 1
  Modes = {"SLAVE"}
  SlaveRefs = {0, 1}
  Tracked = {0, 1}
  ExtSupported = FALSE
  Preemptible = TRUE
  FifoMax = 1
  Faults = {"h", "f", "p"}
  HelperLock = 2
  HelperDelock = 1
  FreqLock = 2
  FreqDelock = 9
  PhaseLock = 2
  PhaseDelock = 1
INVARIANT TaggersFeedLoops
