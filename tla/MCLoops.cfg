SPECIFICATION MCSpec
CONSTANTS
  TagMod = 8
  Period = 2
  Wraparound = 10
  ErrorClamp = 3
  Jitter = 1
  MaxDrift = 4
  Kp <- MCKp
  Ki <- MCKi
  Scale = 2
  Half = 1
  Bias = 5
  YMin = 1
  YMax = 5
  MaxErr = 3
  KpErr = 3
  LockSamples = 3
  DelockSamples = 1
  Threshold = 1
  MainTagMod = 8
  MainPeriod = 4
  MainWraparound = 17
  DiscardEarly = 2
  Reverse = TRUE
  MainJitter = 1
  MaxLead = 5
  MaxTagShift = 1
  FreqLock = 2
  FreqDelock = 9
  PhaseLock = 2
  PhaseDelock = 1
  NStages = 2
  Stages <- MCStages
  MaxShift = 1
INVARIANTS TracksDrift NoWindup AddersBounded LockedIsCurrent EveryStageEarned
PROPERTIES ErrorIsTrue LockNeedsGoodSamples DelockNeedsBadSamples LockFollowsDrift PairErrorsAreTrue  LocksAndShifts
