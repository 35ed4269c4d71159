------------------------------ MODULE PyDriver ------------------------------
(***************************************************************************)
(* The four parsePcap.py scripts.  Each reads the whole capture, takes the *)
(* payload out of every packet and hands it to its parser: a Python module *)
(* (construct, kaitaiStruct), a spicy-driver process fed through a pipe,   *)
(* or the process FormatFuzzer generates, fed through the file ./tmp.      *)
(*                                                                         *)
(* An exception inside the try is a failed packet, whether it is the       *)
(* parser's, that of ./tmp, or that of subprocess.run itself, which raises *)
(* if there is no such program or no process can be made; an exception     *)
(* outside the try, in the first call of pcap_element_to_dns, ends the     *)
(* script without totals, and so does Ctrl-C, since KeyboardInterrupt is   *)
(* no Exception.  What dpkt makes of a packet is modelled from how the     *)
(* scripts use it.                                                         *)
(***************************************************************************)
EXTENDS Integers, FiniteSets, Sequences

CONSTANT Captures    \* the captures, as the elements of pcap_elements

Library == {"construct", "kaitaiStruct"}
Process == {"spicy", "formatFuzzer"}
Tool == Library \cup Process

\* eth.data.data is an object with data, bytes itself, or not there at all.
Element == [layers  : {"object", "bytes", "none"},
            empty   : BOOLEAN,
            verdict : {"accepted", "rejected", "garbled"}]
\* verdict: what the parser says of the payload; "garbled" when its process
\* exits with 0 but prints something that is not ASCII.

Outcome == {"parsed", "failed", "skipped"}

ASSUME CapturesAssumption == Captures \subseteq Seq(Element)

VARIABLES tool,      \* which script runs
          capture,   \* pcap_elements
          pc,        \* "load", "next", "try", "write", "run", "exit"
          at,        \* elements taken from pcap_elements
          tmp,       \* element whose payload is in ./tmp; 0 none, -1 a part
          num_parsed, num_skipped, num_failed,
          outcome,   \* history: one entry per element gone through
          unheard,   \* history: elements that no parser gave a verdict on
          report     \* <<totals>> once printed

nums == <<num_parsed, num_skipped, num_failed>>
history == <<outcome, unheard>>
vars == <<tool, capture, pc, at, tmp, nums, history, report>>

element == capture[at]

\* pcap_element_to_dns: spicy's returns ip.data when that is bytes.
Raises(e) ==
  \/ e.layers = "none"
  \/ e.layers = "bytes" /\ tool # "spicy"

-----------------------------------------------------------------------------
\* list(pcap) raises when the file is not well formed.
Load ==
  /\ pc = "load"
  /\ pc' \in {"next", "exit"}
  /\ UNCHANGED <<tool, capture, at, tmp, nums, history, report>>

\* Mutant: the first call is inside the try, where it fails the packet.
TakeInTry ==
  /\ pc = "next" /\ at < Len(capture)
  /\ at' = at + 1
  /\ \/ /\ Raises(capture[at'])
        /\ num_failed' = num_failed + 1 /\ outcome' = Append(outcome, "failed")
        /\ UNCHANGED pc
     \/ ~Raises(capture[at']) /\ pc' = "try" /\ UNCHANGED <<num_failed, outcome>>
  /\ UNCHANGED <<tool, capture, tmp, num_parsed, num_skipped, unheard, report>>

\* The first call, outside the try.
Take ==
  /\ pc = "next" /\ at < Len(capture)
  /\ at' = at + 1
  /\ pc' = IF Raises(capture[at']) THEN "exit" ELSE "try"
  /\ UNCHANGED <<tool, capture, tmp, nums, history, report>>

\* Mutant: an empty payload is counted and then parsed all the same.
EmptyNoContinue ==
  /\ pc = "try" /\ element.empty
  /\ num_skipped' = num_skipped + 1
  /\ pc' = IF tool = "formatFuzzer" THEN "write" ELSE "run"
  /\ UNCHANGED <<tool, capture, at, tmp, num_parsed, num_failed, history, report>>

Empty ==
  /\ pc = "try" /\ element.empty
  /\ num_skipped' = num_skipped + 1
  /\ outcome' = Append(outcome, "skipped")
  /\ pc' = "next"
  /\ UNCHANGED <<tool, capture, at, tmp, num_parsed, num_failed, unheard,
                 report>>

\* The second call gives the same payload as the first.
Payload ==
  /\ pc = "try" /\ ~element.empty
  /\ pc' = IF tool = "formatFuzzer" THEN "write" ELSE "run"
  /\ UNCHANGED <<tool, capture, at, tmp, nums, history, report>>

\* except Exception
Failed ==
  /\ num_failed' = num_failed + 1
  /\ outcome' = Append(outcome, "failed")
  /\ pc' = "next"
  /\ UNCHANGED <<num_parsed, num_skipped>>

\* The exception is not the parser's: it was not run on the payload.
FailedUnheard == Failed /\ unheard' = unheard \cup {at}

\* Mutant: ./tmp is not opened again while an earlier packet is in it.
WriteTmpOnce ==
  /\ pc = "write"
  /\ tmp' \in {at} \cup {k \in {tmp} : k > 0}
  /\ pc' = "run"
  /\ UNCHANGED <<tool, capture, at, nums, history, report>>

\* ./tmp is opened, which empties it, and written; each may raise.
WriteTmp ==
  /\ pc = "write"
  /\ \/ tmp' = at /\ pc' = "run" /\ UNCHANGED <<nums, history>>
     \/ tmp' \in {tmp, -1} /\ FailedUnheard
  /\ UNCHANGED <<tool, capture, at, report>>

\* What the parser reads: the payload, or whatever ./tmp holds.
Input == IF tool = "formatFuzzer" THEN tmp ELSE at

\* Mutant: the process counts as a success whatever its exit status is.
AcceptsUnchecked == tool \in Process \/ capture[Input].verdict = "accepted"

\* decode('ascii') comes before the assertion on returncode; a Python parser
\* prints nothing.
Accepts ==
  \/ capture[Input].verdict = "accepted"
  \/ capture[Input].verdict = "garbled" /\ tool \in Library

\* The parser is called; subprocess.run may raise before it has a result.
Run ==
  /\ pc = "run"
  /\ \/ /\ Accepts
        /\ num_parsed' = num_parsed + 1
        /\ outcome' = Append(outcome, "parsed")
        /\ pc' = "next" /\ UNCHANGED <<num_skipped, num_failed, unheard>>
     \/ ~Accepts /\ Failed /\ UNCHANGED unheard
     \/ tool \in Process /\ FailedUnheard
  /\ UNCHANGED <<tool, capture, at, tmp, report>>

Report ==
  /\ pc = "next" /\ at = Len(capture)
  /\ report' = <<[total |-> num_parsed + num_skipped + num_failed,
                  failed |-> num_failed, parsed |-> num_parsed]>>
  /\ pc' = "exit"
  /\ UNCHANGED <<tool, capture, at, tmp, nums, history>>

KeyboardInterrupt ==
  /\ pc # "exit" /\ pc' = "exit"
  /\ UNCHANGED <<tool, capture, at, tmp, nums, history, report>>

-----------------------------------------------------------------------------
Init ==
  /\ tool \in Tool /\ capture \in Captures
  /\ pc = "load" /\ at = 0 /\ tmp = 0
  /\ num_parsed = 0 /\ num_skipped = 0 /\ num_failed = 0
  /\ outcome = <<>> /\ unheard = {} /\ report = <<>>

Script == Load \/ Take \/ Empty \/ Payload \/ WriteTmp \/ Run \/ Report

Done == pc = "exit" /\ UNCHANGED vars

Next == Script \/ KeyboardInterrupt \/ Done

Spec == Init /\ [][Next]_vars

-----------------------------------------------------------------------------
(* Properties *)

\* A failure of one packet is not charged to another, though FormatFuzzer's
\* parser reads a file that the packets share: a packet counts as parsed only
\* if the parser was run on its own payload and accepted that, and as failed
\* only if its own payload was rejected or its own file or process could not
\* be made, which happens to no script that calls its parser as a library.
OutcomeIsOwn ==
  /\ \A k \in DOMAIN outcome :
       LET e == capture[k]
           accepted == \/ e.verdict = "accepted"
                       \/ e.verdict = "garbled" /\ tool \in Library
       IN  /\ outcome[k] = "skipped" <=> e.empty
           /\ outcome[k] = "parsed" => accepted /\ k \notin unheard
           /\ outcome[k] = "failed" => ~accepted \/ k \in unheard
  /\ tool \in Library => unheard = {}

\* A script that prints totals has gone through the capture as PacketScan
\* says: what it reports as parsed and failed adds up to the file.
Scan == INSTANCE PacketScan
ImplementsScan == Scan!Spec

\* Totals are printed only if every packet of the capture has a payload the
\* script could take out: one that has none ends the script.
TotalsNeedPayloads ==
  report # <<>> => \A k \in DOMAIN capture : ~Raises(capture[k])
=============================================================================
