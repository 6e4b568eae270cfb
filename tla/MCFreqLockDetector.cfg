SPECIFICATION LdFairSpec
CONSTANTS
  LockSamples = 50
  DelockSamples = 20000
PROPERTIES BadInputDelocks
