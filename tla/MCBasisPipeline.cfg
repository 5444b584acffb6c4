SPECIFICATION ESpec
CONSTANTS
  Wires <- mcWires
  Jobs  <- allJobs
  Unjudged <- mcUnjudged
INVARIANTS
  TypeOK
  CompiledIsFaithful
  DecomposedIsSupported
  CompiledIsNative
  OutcomesAreKept
  EmittedIsFaithful
PROPERTIES
  Compiles
  EffectIsKept
CHECK_DEADLOCK FALSE
