SPECIFICATION FairSpec
CONSTANTS
  MaxPackets = 2
  Captures <- MCCaptures
INVARIANTS
  ArpAndUdpPassed
