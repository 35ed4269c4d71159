----------------------------- MODULE MCPyDriver -----------------------------
(***************************************************************************)
(* The four scripts over every capture of at most MaxElements elements.    *)
(***************************************************************************)
EXTENDS PyDriver

CONSTANT MaxElements

MCCaptures == UNION {[1..n -> Element] : n \in 0..MaxElements}
=============================================================================
