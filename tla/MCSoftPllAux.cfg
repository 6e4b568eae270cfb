SPECIFICATION AuxSpec
CONSTANTS
  NRef = 1
  NOut = 2
  Modes = {"SLAVE"}
  SlaveRefs = {0}
  Tracked = {}
  ExtSupported = FALSE
  Preemptible = TRUE
  FifoMax = 1
  Faults = {"h", "ap"}
  HelperLock = 1
  HelperDelock = 0
  FreqLock = 1
  FreqDelock = 9
  PhaseLock = 1
  PhaseDelock = 0
  AuxModes = {"SLAVE", "PHASE_MONITOR"}
  Shifts = {0}
INVARIANTS AuxFlagMeansReady AuxFed
