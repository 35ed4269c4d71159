------------------------- MODULE MCByteInputStream -------------------------
(***************************************************************************)
(* Headers that announce less than their own eight bytes, nothing, what    *)
(* was captured, one byte less and two more, over bytes that are ASCII,    *)
(* 128 and 255.                                                            *)
(***************************************************************************)
EXTENDS ByteInputStream

MCPackets ==
  {[uh_ulen |-> ulen, bytes |-> bytes] :
     ulen \in {0, 3, 7, 8, 9, 11, 12, 14},
     bytes \in {<<>>, <<97, 128, 255, 0>>, <<255, 255, 7, 128>>}}
=============================================================================
