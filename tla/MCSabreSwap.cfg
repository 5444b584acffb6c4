SPECIFICATION Spec
CONSTANTS
  Devices <- MCDevices
  Circuits <- MCCircuits
  Limits <- MCLimits
INVARIANTS TypeOK ExecutedIsPrefix ReplayMatchesSimulation ActsOnCouplings ProgressIsPossible
PROPERTIES ImplementsRouter Terminates
CHECK_DEADLOCK FALSE
