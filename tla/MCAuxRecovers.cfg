SPECIFICATION AuxFairSpec
CONSTANTS
  NRef = 1
  NOut = 2
  Modes = {"SLAVE"}
  SlaveRefs = {0}
  Tracked = {}
  ExtSupported = FALSE
  Preemptible = FALSE
  FifoMax = 1
  Faults = {"h", "p", "ap"}
  HelperLock = 1
  HelperDelock = 0
  FreqLock = 1
  FreqDelock = 9
  PhaseLock = 1
  PhaseDelock = 0
  AuxModes = {"SLAVE", "PHASE_MONITOR"}
  Shifts = {0}
PROPERTY AuxRecovers
