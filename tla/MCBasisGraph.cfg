SPECIFICATION ESpec
CONSTANTS
  Wires <- mcWires
  Jobs  <- graphJob
  Unjudged <- none
INVARIANTS
  OutcomesAreKept
CHECK_DEADLOCK FALSE
