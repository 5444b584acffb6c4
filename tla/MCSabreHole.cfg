SPECIFICATION PassSpec
CONSTANTS
  Jobs <- HoleJobs
  Limits <- MCLimits
  Devices <- MCDevices
  Circuits <- MCCircuits
  LayoutTrials = 2
  MaxIterations = 1
INVARIANT RefusesOnlyAtLimits
CHECK_DEADLOCK FALSE
