---------------------------- MODULE MCStringHash ----------------------------
(***************************************************************************)
(* Four strings in a table of four slots, under every hash function.       *)
(***************************************************************************)
EXTENDS StringHash
=============================================================================
