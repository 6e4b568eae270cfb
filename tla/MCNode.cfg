SPECIFICATION MCSpec
CONSTANTS
  Sockets = {"ptp", "probe", "syslog"}
  Slots = {1, 2}
  QSize <- MCQSize
  Bind <- MCBind
  Frames <- MCFrames
  Header = 2
  Buffers <- MCBuffers
  Period = 16
  Freq = 16
  FMask = 3
  Times <- MCTimes
  Delays <- MCDelays
  Jitter <- MCJitter
  Noise <- MCJitter
  Transitions = {0, 5, 11}
  Addresses = {1, 2}
  ByHand = {0, 3}
  FifoSize = 2
  MaxPlugs = 5
  MaxSets = 2
  Parts = {"A", "B", "C"}
  Versions = {1, 2}
  SFPS_MAX = 2
  MaxCuts = 2
  PtScale = 8
  PtReverse = TRUE
  NumAvgs = {2, 3}
  MainTagsSeen = {5}
INVARIANTS AverageIsTrue QueuesHoldFrames StampIsTrue BootpAfterLinkUp LookupIsLatest
PROPERTIES OldestFirst AddressObtained
