SPECIFICATION Spec
CONSTANTS
  RegisterSize = 2
  Vocabularies <- mcBreaks
  MaxDepth = 2
INVARIANTS
  ContinueEndsOneRound
CHECK_DEADLOCK FALSE
