CONSTANTS
  Lines <- MCLines
SPECIFICATION Spec
INVARIANTS
  SynopsisHolds
  NoOptionSwallowed
PROPERTIES
  EachTurnAdvances
