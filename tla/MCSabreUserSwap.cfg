SPECIFICATION PassSpec
CONSTANTS
  Jobs <- SwapJobs
  Limits <- MCLimits
  Devices <- MCDevices
  Circuits <- MCCircuits
  LayoutTrials = 2
  MaxIterations = 1
INVARIANT CallsKeepTheirWires
CHECK_DEADLOCK FALSE
