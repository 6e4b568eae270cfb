SPECIFICATION SfpSpec
CONSTANTS
  Parts = {"A", "B"}
  Versions = {1, 2}
  SFPS_MAX = 2
  MaxCuts = 1
INVARIANT InDbIsTrue
