SPECIFICATION Spec
CONSTANTS
  RegisterSize = 2
  Vocabularies <- mcVocabularies
  MaxDepth = 3
INVARIANTS
  TypeOK
  GatesActWhereWritten
  ValuesAreDominated
  TranslatedLinksSkipNothing
  SimplifiedLinksAreSound
  NeighboursAreLinked
  ModifiersAreKept
  
CHECK_DEADLOCK FALSE
