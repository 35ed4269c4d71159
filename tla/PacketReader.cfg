SPECIFICATION FairSpec
CONSTANTS
  Sizes <- MCSizes
  UIntRange = 7
  Uninit = Uninit
INVARIANTS
  ReadsFit
PROPERTIES
  ReadingEnds
