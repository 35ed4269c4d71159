SPECIFICATION Spec
CONSTANTS
  MaxElements = 2
  Captures <- MCCaptures
INVARIANTS
  OutcomeIsOwn
  TotalsNeedPayloads
PROPERTIES
  ImplementsScan
