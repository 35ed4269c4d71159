SPECIFICATION Spec
CONSTANTS
  PacketLen = 18
  Fields <- AllFields
  Byte <- MCByte
  Packets <- MCPackets
  MaxFields = 3
  Uninit = Uninit
INVARIANTS
  WritesEveryByte
