----------------------------- MODULE MCOptions -----------------------------
(***************************************************************************)
(* Lines of up to three elements of every kind, and of up to five of the   *)
(* few that getopt_long exchanges and the loop takes back.                 *)
(***************************************************************************)
EXTENDS Options, SequencesExt

All ==
  {Operand(text) : text \in {"f", "2", "9", "long", "-"}}
  \cup {Short(letter, "none") : letter \in {"e", "h", "t", "d", "p", "E", "x"}}
  \cup {Short("t", "-x"), Short("t", "f"), Short("d", "2")}
  \cup {Long(name, "none") :
          name \in {"recordEnvironment", "envDir", "traceFile", "help", "RDF"}}
  \cup {Long("traceFile", "-x"), Long("debugLevel", "9"), Long("help", "f")}
  \cup {DashDash}

Few == {Operand("f"), Operand("2"), Short("e", "none"), Short("t", "none"),
        Short("d", "none"), DashDash}

MCLines ==
  BoundedSeq(All, 3) \cup BoundedSeq(Few, 5)
=============================================================================
