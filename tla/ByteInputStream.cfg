CONSTANTS
  Packets <- MCPackets
  Beyond = 200
  SizeT = 1024
  Heap = 32
SPECIFICATION FairSpec
INVARIANTS
  TypeOK
  ShortNeverParsed
  LooksAtPacket
  TokensArePacket
PROPERTIES
  SeekLands
