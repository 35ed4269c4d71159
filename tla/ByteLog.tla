------------------------------ MODULE ByteLog ------------------------------
(***************************************************************************)
(* What the serialization buffer promises to its callers: the bytes that   *)
(* were written for one protocol data unit come back, in order, complete   *)
(* and with nothing added, in the one buffer that combineBuffers returns.  *)
(***************************************************************************)
EXTENDS Integers, Sequences

CONSTANT Byte

VARIABLES log,        \* bytes written for the unit being serialized
          delivered   \* the combined buffer, while the caller holds it

logvars == <<log, delivered>>

Init == log = <<>> /\ delivered = <<>>

\* A write only ever extends the log.
Extend == /\ log' \in Seq(Byte)
          /\ Len(log') >= Len(log)
          /\ SubSeq(log', 1, Len(log)) = log
          /\ delivered = <<>> /\ UNCHANGED delivered

Deliver == delivered' = log /\ log' = <<>>

\* The caller is done with the unit.
Release == log = <<>> /\ delivered' = <<>> /\ UNCHANGED log

Next == Extend \/ Deliver \/ Release

Spec == Init /\ [][Next]_logvars
=============================================================================
