SPECIFICATION Spec
CONSTANTS
  PacketLen = 18
  Fields <- ReadableFields
  Byte <- MCByte
  Packets <- MCPackets
  MaxFields = 3
  Uninit = Uninit
INVARIANTS
  RoundTrip
