SPECIFICATION Spec
CONSTANTS
  Ranks <- MCRanks
  Programs <- LongPrograms
  Runs <- LongRuns
  MaxBits = 3
INVARIANT RanksAgree
CHECK_DEADLOCK FALSE
