SPECIFICATION FairSpec
CONSTANTS
  MaxPackets = 2
  Captures <- MCCaptures
  EtherTypes <- MCEtherTypes
  IPv4Protocols = {"IGMP", "UDP"}
  Blocks <- MCBlocks
  LeftBehind <- MCLeftBehind
  OutOfMemory = "failure"
INVARIANTS
  CountIsPosition
  TotalsExact
  OnlyCopiesStay
  TraceComplete
PROPERTIES
  UndefinedOnlyInWindows
  Terminates
  ImplementsScan
