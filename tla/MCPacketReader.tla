--------------------------- MODULE MCPacketReader ---------------------------
(***************************************************************************)
(* Files of up to eight bytes, where an unsigned int holds values below    *)
(* seven: the sizes on both sides of the wrap.                             *)
(***************************************************************************)
EXTENDS PacketReader

MCSizes == 0..8
=============================================================================
