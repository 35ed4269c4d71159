----------------------------- MODULE ByteCodec -----------------------------
(***************************************************************************)
(* Integers on the wire: the get functions of the parsers (putilities.c),  *)
(* their look-ahead twins, and the writebuffer functions (sutilities.c).   *)
(* A packet is read as a run of fields, each of a width and an endianness, *)
(* and the values are then written back.                                   *)
(*                                                                         *)
(* A value is the function from 0..width-1 to its bytes, the least         *)
(* significant at 0, as memcpy sees it on the little-endian host that      *)
(* END_ORDER always takes the host for.  The calls and increments of one   *)
(* expression, which C leaves unordered, run from left to right, as the    *)
(* compiler the readme names (clang) has them.                             *)
(***************************************************************************)
EXTENDS Integers, Sequences

CONSTANTS Fields,      \* the <<width, endianness>> that a parser may read
          Byte,        \* byte values
          Packets,     \* the packets, functions from 0..len-1 to Byte
          MaxFields,   \* bound: fields in a packet
          Uninit       \* a byte of the buffer before it is written

BIGENDIAN == 0
LITTLEENDIAN == 1

Field == {1, 2, 3, 4, 6, 8} \X {BIGENDIAN, LITTLEENDIAN}

ASSUME CodecAssumption == /\ Fields \subseteq Field
                          /\ MaxFields \in Nat
                          /\ Uninit \notin Byte

VARIABLES data,     \* thePDU->data, from 0 on
          curPos,   \* thePDU->curPos
          parsed,   \* the fields read: width, endianness and value
          buffer,   \* what has been written back
          written   \* fields written back

vars == <<data, curPos, parsed, buffer, written>>

-----------------------------------------------------------------------------
(* Reading: the value of the bytes at p *)

Little(p, width) == [i \in 0..(width - 1) |-> data[p + i]]

Big(p, width) == [i \in 0..(width - 1) |-> data[p + width - 1 - i]]

\* get8_e, get16_e, get24_e and get32_e.
Ordered(p, width, e) == IF e = LITTLEENDIAN THEN Little(p, width) ELSE Big(p, width)

\* "ASSUMING ONLY BIGENDIAN (USED FOR ARP)"
get48_e(p, e) == Big(p, 6)

Join(low, high) == [i \in 0..7 |-> IF i < 4 THEN low[i] ELSE high[i - 4]]

\* Mutant: the first half read is the low half in both byte orders.
get64_eSame(p, e) == Join(Ordered(p, 4, e), Ordered(p + 4, 4, e))

get64_e(p, e) ==
  LET first == Ordered(p, 4, e)
      second == Ordered(p + 4, 4, e)
  IN  IF e = LITTLEENDIAN THEN Join(first, second) ELSE Join(second, first)

Get(p, width, e) ==
  CASE width = 6 -> get48_e(p, e)
    [] width = 8 -> get64_e(p, e)
    [] OTHER     -> Ordered(p, width, e)

-----------------------------------------------------------------------------
(* Writing: the bytes that a value becomes *)

\* memcpy, and for BIGENDIAN the exchange of the bytes two by two.
Swapped(v, width) == [i \in 0..(width - 1) |-> v[width - 1 - i]]

Native(v, width, e) == IF e = BIGENDIAN THEN Swapped(v, width) ELSE v

\* Mutant: the same slip in the big-endian half.
writebufferInt48Both(v, e) ==
  LET w == IF e = BIGENDIAN THEN Swapped(v, 6) ELSE v
  IN  [i \in 0..5 |-> CASE i = 4 -> w[3] [] i = 3 -> Uninit [] OTHER -> w[i]]

\* Little-endian: the place of the fifth byte is assigned twice, and that of
\* the fourth never.
writebufferInt48(v, e) ==
  IF e = BIGENDIAN
  THEN Swapped(v, 6)
  ELSE [i \in 0..5 |-> CASE i = 4 -> v[3] [] i = 3 -> Uninit [] OTHER -> v[i]]

writebufferInt(v, width, e) ==
  IF width = 6 THEN writebufferInt48(v, e) ELSE Native(v, width, e)

Bytes(f, width) == [k \in 1..width |-> f[k - 1]]

-----------------------------------------------------------------------------
\* The parser asks lengthRemaining first.
Fits(width) == curPos + width - 1 \in DOMAIN data

Parse(width, e) ==
  /\ written = 0 /\ Len(parsed) < MaxFields
  /\ Fits(width)
  /\ parsed' = Append(parsed, [width |-> width, e |-> e,
                               value |-> Get(curPos, width, e)])
  /\ curPos' = curPos + width
  /\ UNCHANGED <<data, buffer, written>>

Serialize ==
  /\ written < Len(parsed)
  /\ LET f == parsed[written + 1]
     IN  buffer' = buffer \o Bytes(writebufferInt(f.value, f.width, f.e), f.width)
  /\ written' = written + 1
  /\ UNCHANGED <<data, curPos, parsed>>

NextPacket ==
  /\ parsed # <<>> /\ written = Len(parsed)
  /\ data' \in Packets
  /\ curPos' = 0 /\ parsed' = <<>> /\ buffer' = <<>> /\ written' = 0

Init ==
  /\ data \in Packets
  /\ curPos = 0 /\ parsed = <<>> /\ buffer = <<>> /\ written = 0

Next == (\E f \in Fields : Parse(f[1], f[2])) \/ Serialize \/ NextPacket

Spec == Init /\ [][Next]_vars

-----------------------------------------------------------------------------
(* Properties *)

\* What is written back is what was read, byte for byte and in place, for any
\* mixture of widths and byte orders: the driver's memcmp finds no difference.
RoundTrip == buffer = [k \in 1..Len(buffer) |-> data[k - 1]]

\* The serializer "transforms the c data structures generated by the parser
\* back into their binary form" (sutilities.c): no byte of a field is left as
\* malloc left it.
WritesEveryByte == \A k \in DOMAIN buffer : buffer[k] # Uninit
=============================================================================
