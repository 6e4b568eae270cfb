SPECIFICATION FairSpec
CONSTANTS
  NRef = 1
  NOut = 1
  Modes = {"DISABLED", "FREE_RUNNING_MASTER", "SLAVE"}
  SlaveRefs = {0}
  Tracked = {0}
  ExtSupported = FALSE
  Preemptible = TRUE
  FifoMax = 1
  Faults = {"h", "f", "p"}
  HelperLock = 2
  HelperDelock = 1
  FreqLock = 2
  FreqDelock = 9
  PhaseLock = 2
  PhaseDelock = 1
INVARIANTS FlagMeansReady HelperEdgeNotMissed TaggersFeedLoops
PROPERTIES ReadyIsEarned Recovers
