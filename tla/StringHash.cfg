SPECIFICATION FairSpec
CONSTANTS
  Str = {s1, s2, s3, s4}
  hashTableSize = 4
  NULL = NULL
INVARIANTS
  IndexLeadsBack
  FullButOne
PROPERTIES
  ProbingEnds
  ImplementsInterning
