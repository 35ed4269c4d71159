CONSTANTS
  Tool <- Tools
  Packets <- MCPackets
SPECIFICATION FairSpec
INVARIANTS
  CursorExact
  VerdictExact
  CommonAccepted
  ItemsTile
PROPERTIES
  Decides
