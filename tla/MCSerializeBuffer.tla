------------------------- MODULE MCSerializeBuffer -------------------------
(* Two byte values tell a lost, repeated or moved byte from a kept one; a  *)
(* node of 3 bytes with runs up to 4 makes runs that fit, that fill a node *)
(* exactly, that need another node and that need a larger one.             *)
EXTENDS SerializeBuffer
=============================================================================
