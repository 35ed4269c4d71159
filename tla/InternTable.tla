----------------------------- MODULE InternTable -----------------------------
(***************************************************************************)
(* What a table of interned strings promises: between two initialisations  *)
(* each string it was asked for has one index, two strings never share     *)
(* one, and no index is ever taken back.                                   *)
(***************************************************************************)
EXTENDS Functions

CONSTANTS Str, Index

VARIABLE index       \* the index of every string asked for so far

Init == index = [s \in {} |-> 0]

Intern == \E s \in Str \ DOMAIN index, i \in Index \ Range(index) :
            index' = [t \in DOMAIN index \cup {s} |->
                        IF t = s THEN i ELSE index[t]]

Clear == index' = [s \in {} |-> 0]

Spec == Init /\ [][Intern \/ Clear]_index
=============================================================================
