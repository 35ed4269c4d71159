---------------------------- MODULE MCByteCodec ----------------------------
(***************************************************************************)
(* One packet whose bytes are all different: no function of the codec      *)
(* looks at the bytes it moves, so where each one ends up says it all.     *)
(***************************************************************************)
EXTENDS ByteCodec

CONSTANT PacketLen

MCByte == 0..(PacketLen - 1)
MCPackets == {[k \in MCByte |-> k]}

AllFields == Field
\* get48_e is for big-endian fields alone, by its comment.
ReadableFields == Field \ {<<6, LITTLEENDIAN>>}
=============================================================================
