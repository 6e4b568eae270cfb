SPECIFICATION GmFairSpec
CONSTANTS
  NRef = 1
  NOut = 1
  Modes = {"GRAND_MASTER"}
  SlaveRefs = {0}
  Tracked = {}
  ExtSupported = TRUE
  Preemptible = FALSE
  FifoMax = 1
  Faults = {"h", "p"}
  HelperLock = 1
  HelperDelock = 0
  FreqLock = 1
  FreqDelock = 9
  PhaseLock = 1
  PhaseDelock = 0
  AlignSteps = 1
  Latencies = {0, 1}
INVARIANTS AlignedMeansShifted
PROPERTIES GmReadyIsEarned 
