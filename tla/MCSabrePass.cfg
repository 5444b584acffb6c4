SPECIFICATION PassSpec
CONSTANTS
  Jobs <- AllJobs
  Limits <- MCLimits
  Devices <- MCDevices
  Circuits <- MCCircuits
  LayoutTrials = 2
  MaxIterations = 1
INVARIANTS PassTypeOK DeviceLegal MapsWholeProgram ScoredTrialIsReplayed OneArrayIsMapped EveryCallRunsInOrder CallsKeepTheirWires
PROPERTIES ImplementsProgram Finishes
CHECK_DEADLOCK FALSE
