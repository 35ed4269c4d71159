----------------------------- MODULE PacketScan -----------------------------
(***************************************************************************)
(* What a driver that runs a parser over a capture file promises: it goes  *)
(* through the packets in file order, each one gets exactly one outcome    *)
(* and is never taken up again, and the totals it prints are about the     *)
(* whole file and count those outcomes.  A driver may also stop before the *)
(* end, without totals.                                                    *)
(***************************************************************************)
EXTENDS Integers, FiniteSets, Sequences

CONSTANT Outcome     \* includes "failed" and "skipped"

VARIABLES capture,   \* the packets of the file
          outcome,   \* outcomes of the packets gone through
          report     \* <<totals>> once they are printed

scanvars == <<capture, outcome, report>>

CountOf(kind) == Cardinality({k \in DOMAIN outcome : outcome[k] = kind})

Init == outcome = <<>> /\ report = <<>>

Visit == /\ report = <<>> /\ Len(outcome) < Len(capture)
         /\ \E o \in Outcome : outcome' = Append(outcome, o)
         /\ UNCHANGED <<capture, report>>

Report == /\ report = <<>> /\ Len(outcome) = Len(capture)
          /\ report' = <<[total   |-> Len(capture),
                          failed  |-> CountOf("failed"),
                          parsed  |-> Len(capture) - CountOf("failed")
                                        - CountOf("skipped")]>>
          /\ UNCHANGED <<capture, outcome>>

Spec == Init /\ [][Visit \/ Report]_scanvars
=============================================================================
