SPECIFICATION Spec
CONSTANTS
  RegisterSize = 2
  Vocabularies <- mcNested
  MaxDepth = 2
INVARIANTS
  LinksEndAtBlocks
CHECK_DEADLOCK FALSE
