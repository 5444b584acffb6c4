SPECIFICATION HybridSpec
CONSTANTS
  Ranks <- MCRanks
  Programs <- MCPrograms
  Runs <- MCRuns
  MaxBits = 3
  Drivers <- MCDrivers
  Jobs <- MCJobs
  CpuCounts <- MCCpuCounts
  MaxStarts <- MCMaxStarts
  MaxCalls = 1
  Here = "here"
INVARIANTS BitcodeIsItsOwn RanksAgree DispatchedBeforeReturn

PROPERTIES RunsAsWritten BuildsAndCompletes
CHECK_DEADLOCK FALSE
