SPECIFICATION GmSpec
CONSTANTS
  NRef = 1
  NOut = 1
  Modes = {"GRAND_MASTER"}
  SlaveRefs = {0}
  Tracked = {}
  ExtSupported = TRUE
  Preemptible = TRUE
  FifoMax = 1
  Faults = {"h", "f", "p"}
  HelperLock = 1
  HelperDelock = 0
  FreqLock = 1
  FreqDelock = 9
  PhaseLock = 1
  PhaseDelock = 0
  AlignSteps = 0
  Latencies = {0}
PROPERTY GmReadyIsEarned
