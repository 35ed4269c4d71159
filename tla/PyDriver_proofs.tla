--------------------------- MODULE PyDriver_proofs ---------------------------
(***************************************************************************)
(* The four scripts count every packet by what became of its own payload   *)
(* and print totals that add up, for every capture, whichever files and    *)
(* processes cannot be made, and whenever the user interrupts them.  The   *)
(* argument: between the loop's statements the outcomes so far are as many *)
(* as the elements taken, the counters are what the outcomes say, and      *)
(* ./tmp holds the payload in hand whenever the parser is about to read    *)
(* it.                                                                     *)
(***************************************************************************)
EXTENDS PyDriver, FiniteSetTheorems, SequenceTheorems, TLAPS

InHand == {"try", "write", "run"}

TypeOK ==
  /\ tool \in Tool /\ capture \in Seq(Element)
  /\ pc \in {"load", "next", "exit"} \cup InHand
  /\ at \in 0..Len(capture) /\ tmp \in Int
  /\ num_parsed \in Nat /\ num_skipped \in Nat /\ num_failed \in Nat
  /\ outcome \in Seq(Outcome)

\* One outcome for each element gone through.
Placed ==
  /\ pc = "load" => outcome = <<>> /\ at = 0
  /\ pc = "next" => Len(outcome) = at
  /\ pc \in InHand => Len(outcome) + 1 = at
  /\ Len(outcome) <= at
  /\ unheard \subseteq 1..Len(outcome)

\* Behind the first call there is a payload, behind the test it is not empty,
\* and the file that FormatFuzzer's process reads holds it.
Ready ==
  /\ pc # "exit" => \A k \in 1..at : ~Raises(capture[k])
  /\ pc \in {"write", "run"} => ~element.empty
  /\ pc = "write" => tool = "formatFuzzer"
  /\ pc = "run" => Input = at

HowMany(outcomes, kind) == Cardinality({k \in DOMAIN outcomes : outcomes[k] = kind})

\* The counters are what the outcomes say; every element has one of the three.
Counted ==
  /\ num_parsed = HowMany(outcome, "parsed")
  /\ num_skipped = HowMany(outcome, "skipped")
  /\ num_failed = HowMany(outcome, "failed")
  /\ Len(outcome) = num_parsed + num_skipped + num_failed

\* Totals are printed once, behind the last element.
Reported ==
  report # <<>> =>
    /\ pc = "exit" /\ at = Len(capture) /\ Len(outcome) = at
    /\ report = <<[total |-> Len(capture), failed |-> num_failed,
                   parsed |-> num_parsed]>>

IInv ==
  /\ TypeOK /\ Placed /\ Ready /\ Counted /\ Reported
  /\ OutcomeIsOwn /\ TotalsNeedPayloads

-----------------------------------------------------------------------------
(* Outcomes and how many there are of a kind *)

LEMMA KindFinite ==
  ASSUME NEW s \in Seq(Outcome), NEW kind
  PROVE  /\ IsFiniteSet({k \in DOMAIN s : s[k] = kind})
         /\ HowMany(s, kind) \in Nat
<1>1. DOMAIN s = 1..Len(s) /\ Len(s) \in Nat
  BY LenProperties
<1>2. IsFiniteSet(1..Len(s))
  BY <1>1, FS_Interval
<1>3. {k \in DOMAIN s : s[k] = kind} \in SUBSET (1..Len(s))
  BY <1>1
<1> QED
  BY <1>2, <1>3, FS_Subset, FS_CardinalityType DEF HowMany

\* One more outcome is one more of its kind.
LEMMA CountAppend ==
  ASSUME NEW s \in Seq(Outcome), NEW o \in Outcome, NEW kind
  PROVE  HowMany(Append(s, o), kind) = HowMany(s, kind) + IF o = kind THEN 1 ELSE 0
<1> DEFINE Of(t) == {k \in DOMAIN t : t[k] = kind}
           t == Append(s, o)
<1>1. /\ Len(s) \in Nat /\ DOMAIN s = 1..Len(s)
      /\ DOMAIN t = 1..Len(s) + 1
      /\ t[Len(s) + 1] = o /\ \A k \in 1..Len(s) : t[k] = s[k]
  BY LenProperties, AppendProperties
<1>2. IsFiniteSet(Of(s)) /\ Cardinality(Of(s)) \in Nat
  BY KindFinite DEF HowMany
<1>3. Len(s) + 1 \notin Of(s)
  BY <1>1
<1>4. CASE o = kind
  <2>1. Of(t) = Of(s) \cup {Len(s) + 1}
    BY <1>1, <1>4
  <2>2. Cardinality(Of(s) \cup {Len(s) + 1}) = Cardinality(Of(s)) + 1
    BY <1>2, <1>3, FS_AddElement
  <2> QED
    BY <1>4, <2>1, <2>2 DEF HowMany
<1>5. CASE o # kind
  <2>1. Of(t) = Of(s)
    <3>1. \A k \in 1..Len(s) + 1 : k \in 1..Len(s) \/ k = Len(s) + 1
      BY <1>1
    <3> QED
      BY <1>1, <1>5, <3>1
  <2>2. HowMany(t, kind) = HowMany(s, kind) /\ HowMany(s, kind) \in Nat
    BY <1>2, <2>1 DEF HowMany
  <2> QED
    BY <1>5, <2>2
<1> QED
  BY <1>4, <1>5

LEMMA CountNone == \A kind : HowMany(<<>>, kind) = 0
<1> SUFFICES ASSUME NEW kind PROVE HowMany(<<>>, kind) = 0
  OBVIOUS
<1>1. {k \in DOMAIN <<>> : <<>>[k] = kind} = {}
  OBVIOUS
<1> QED
  BY <1>1, FS_EmptySet DEF HowMany

-----------------------------------------------------------------------------
(* The inductive invariant *)

LEMMA InitIInv == Init => IInv
<1> SUFFICES ASSUME Init PROVE IInv
  OBVIOUS
<1>1. capture \in Seq(Element) /\ Len(capture) \in Nat
  BY CapturesAssumption, LenProperties DEF Init
<1>2. Len(<<>>) = 0 /\ DOMAIN <<>> = {}
  OBVIOUS
<1>3. TypeOK /\ Placed
  BY <1>1, <1>2 DEF Init, TypeOK, Placed, InHand
<1>4. Ready
  BY DEF Init, Ready
<1>5. Counted
  BY <1>2, CountNone DEF Init, Counted
<1>6. Reported /\ OutcomeIsOwn /\ TotalsNeedPayloads
  BY <1>2 DEF Init, Reported, OutcomeIsOwn, TotalsNeedPayloads
<1> QED
  BY <1>3, <1>4, <1>5, <1>6 DEF IInv

\* What a payload may come to, with a verdict of the parser or without.
Deserves(e, o, mute) ==
  LET accepted == \/ e.verdict = "accepted"
                  \/ e.verdict = "garbled" /\ tool \in Library
  IN  /\ o = "skipped" <=> e.empty
      /\ o = "parsed" => accepted /\ ~mute
      /\ o = "failed" => ~accepted \/ mute

LEMMA OwnIsDeserved ==
  OutcomeIsOwn <=>
    /\ \A k \in DOMAIN outcome : Deserves(capture[k], outcome[k], k \in unheard)
    /\ tool \in Library => unheard = {}
BY Zenon DEF OutcomeIsOwn, Deserves

\* The end of a turn of the loop: the element in hand gets its outcome, one
\* counter follows, and if the parser was not run that is remembered.
Gives(o, mute) ==
  /\ pc \in InHand /\ pc' = "next"
  /\ UNCHANGED <<tool, capture, at, report>> /\ tmp' \in Int
  /\ o \in Outcome /\ outcome' = Append(outcome, o)
  /\ unheard' = IF mute THEN unheard \cup {at} ELSE unheard
  /\ mute => tool \in Process
  /\ num_parsed' = num_parsed + (IF o = "parsed" THEN 1 ELSE 0)
  /\ num_skipped' = num_skipped + (IF o = "skipped" THEN 1 ELSE 0)
  /\ num_failed' = num_failed + (IF o = "failed" THEN 1 ELSE 0)

LEMMA TurnEnds ==
  ASSUME IInv, NEW o, NEW mute \in BOOLEAN, Gives(o, mute),
         Deserves(element, o, mute)
  PROVE  IInv'
<1>1. /\ outcome \in Seq(Outcome) /\ Len(outcome) \in Nat
      /\ DOMAIN outcome = 1..Len(outcome)
      /\ outcome' \in Seq(Outcome) /\ Len(outcome') = Len(outcome) + 1
      /\ DOMAIN outcome' = 1..Len(outcome) + 1
      /\ outcome'[Len(outcome) + 1] = o
      /\ \A k \in 1..Len(outcome) : outcome'[k] = outcome[k]
  BY LenProperties, AppendProperties DEF Gives, IInv, TypeOK
<1>2. /\ pc \in InHand /\ pc' = "next" /\ tmp' \in Int
      /\ tool' = tool /\ capture' = capture /\ at' = at /\ report' = report
  BY DEF Gives
<1>3. Len(outcome) + 1 = at /\ at \in Nat
  BY <1>2, LenProperties DEF IInv, Placed, TypeOK
<1>4. /\ outcome' \in Seq(Outcome) /\ Len(outcome) \in Nat
      /\ Len(outcome') = Len(outcome) + 1
  BY <1>1
<1>5. Counted' /\ num_parsed' \in Nat /\ num_skipped' \in Nat /\ num_failed' \in Nat
  <2> DEFINE One(kind) == IF o = kind THEN 1 ELSE 0
  <2>1. /\ num_parsed \in Nat /\ num_skipped \in Nat /\ num_failed \in Nat
        /\ Len(outcome) = num_parsed + num_skipped + num_failed
    BY DEF IInv, TypeOK, Counted
  <2>2. /\ num_parsed' = num_parsed + One("parsed")
        /\ num_skipped' = num_skipped + One("skipped")
        /\ num_failed' = num_failed + One("failed")
    BY DEF Gives
  <2>3. \A kind : HowMany(outcome', kind) = HowMany(outcome, kind) + One(kind)
    BY CountAppend, <1>1 DEF Gives
  <2> HIDE DEF One
  <2>4. /\ num_parsed' = HowMany(outcome', "parsed")
        /\ num_skipped' = HowMany(outcome', "skipped")
        /\ num_failed' = HowMany(outcome', "failed")
    BY <2>2, <2>3 DEF IInv, Counted
  <2>5. /\ num_parsed' \in Nat /\ num_skipped' \in Nat /\ num_failed' \in Nat
        /\ num_parsed' + num_skipped' + num_failed'
             = (num_parsed + num_skipped + num_failed) + 1
    <3> USE <2>1, <2>2 DEF One
    <3>1. CASE o = "parsed"
      BY <3>1
    <3>2. CASE o = "skipped"
      BY <3>2
    <3>3. CASE o = "failed"
      BY <3>3
    <3> QED
      BY <3>1, <3>2, <3>3 DEF Gives, Outcome
  <2>6. Len(outcome') = num_parsed' + num_skipped' + num_failed'
    BY <1>4, <2>1, <2>5
  <2> QED
    BY <2>4, <2>5, <2>6 DEF Counted
<1>6. TypeOK' /\ Placed'
  <2>1. unheard \subseteq 1..Len(outcome) /\ unheard' \subseteq unheard \cup {at}
    BY DEF IInv, Placed, Gives
  <2>2. unheard' \subseteq 1..Len(outcome')
    BY <1>3, <1>4, <2>1
  <2> QED
    BY <1>2, <1>3, <1>4, <1>5, <2>2 DEF IInv, TypeOK, Placed, InHand
<1>7. Ready'
  BY <1>2 DEF IInv, Ready, Raises, InHand
<1>8. Reported' /\ TotalsNeedPayloads'
  BY <1>2 DEF IInv, Reported, TotalsNeedPayloads, InHand
<1>9. OutcomeIsOwn'
  <2>1. /\ \A k \in 1..Len(outcome) : Deserves(capture[k], outcome[k], k \in unheard)
        /\ tool \in Library => unheard = {}
    BY <1>1, OwnIsDeserved DEF IInv
  <2>2. /\ unheard' = IF mute THEN unheard \cup {at} ELSE unheard
        /\ mute => tool \in Process
    BY DEF Gives
  <2>3. at \notin 1..Len(outcome) /\ unheard \subseteq 1..Len(outcome)
    <3>1. at \notin 1..Len(outcome)
      BY <1>3, <1>4
    <3> QED
      BY <3>1 DEF IInv, Placed
  <2>4. \A k \in 1..Len(outcome) + 1 :
          Deserves(capture[k], outcome'[k], k \in unheard')
    <3> SUFFICES ASSUME NEW k \in 1..Len(outcome) + 1
                 PROVE  Deserves(capture[k], outcome'[k], k \in unheard')
      OBVIOUS
    <3>1. CASE k \in 1..Len(outcome)
      <4>1. k # at
        BY <2>3, <3>1
      <4>2. (k \in unheard') = (k \in unheard)
        BY <2>2, <4>1
      <4>3. Deserves(capture[k], outcome'[k], k \in unheard)
        BY <1>1, <2>1, <3>1
      <4> QED
        BY <4>2, <4>3, Zenon
    <3>2. CASE k = Len(outcome) + 1
      <4>1. k = at /\ outcome'[k] = o /\ capture[k] = element
        BY <1>1, <1>3, <3>2 DEF element
      <4>2. (k \in unheard') = mute
        BY <2>2, <2>3, <4>1
      <4> QED
        BY <4>1, <4>2, Zenon
    <3> QED
      BY <1>1, <3>1, <3>2
  <2>5. tool \in Library => unheard' = {}
    BY <2>1, <2>2 DEF Library, Process
  <2> QED
    BY <1>1, <1>2, <2>4, <2>5, Zenon DEF OutcomeIsOwn, Deserves
<1> QED
  BY <1>5, <1>6, <1>7, <1>8, <1>9 DEF IInv

LEMMA EmptyStep ==
  ASSUME IInv, Empty
  PROVE  IInv'
<1>1. Deserves(element, "skipped", FALSE)
  BY DEF Empty, Deserves
<1>2. num_parsed \in Int /\ num_failed \in Int /\ tmp \in Int
  BY DEF IInv, TypeOK
<1>3. Gives("skipped", FALSE)
  BY <1>2 DEF Empty, Gives, InHand, Outcome
<1> QED
  BY <1>1, <1>3, TurnEnds

\* The statement in the handler, wherever the exception comes from.
LEMMA FailedStep ==
  ASSUME IInv, Failed, pc \in {"write", "run"}, NEW mute \in BOOLEAN,
         Deserves(element, "failed", mute), mute => tool \in Process,
         unheard' = IF mute THEN unheard \cup {at} ELSE unheard,
         UNCHANGED <<tool, capture, at, report>>, tmp' \in Int
  PROVE  IInv'
<1>1. num_parsed \in Int /\ num_skipped \in Int
  BY DEF IInv, TypeOK
<1>2. Gives("failed", mute)
  BY <1>1 DEF Failed, Gives, InHand, Outcome
<1> QED
  BY <1>2, TurnEnds

LEMMA WriteTmpStep ==
  ASSUME IInv, WriteTmp
  PROVE  IInv'
<1>1. /\ pc = "write" /\ tool = "formatFuzzer" /\ ~element.empty
      /\ UNCHANGED <<tool, capture, at, report>>
      /\ at \in Int /\ tmp \in Int /\ -1 \in Int
  BY LenProperties DEF IInv, Ready, TypeOK, WriteTmp
<1>2. CASE tmp' = at /\ pc' = "run" /\ UNCHANGED <<nums, history>>
  <2>1. TypeOK' /\ Placed'
    BY <1>1, <1>2 DEF IInv, TypeOK, Placed, InHand, nums, history
  <2>2. Ready'
    BY <1>1, <1>2 DEF IInv, Ready, Raises, Input, element
  <2>3. Counted'
    BY <1>2 DEF IInv, Counted, nums, history
  <2>4. Reported' /\ OutcomeIsOwn' /\ TotalsNeedPayloads'
    BY <1>1, <1>2
    DEF IInv, Reported, OutcomeIsOwn, TotalsNeedPayloads, Raises, nums, history
  <2> QED
    BY <2>1, <2>2, <2>3, <2>4 DEF IInv
<1>3. CASE tmp' \in {tmp, -1} /\ FailedUnheard
  <2>1. Deserves(element, "failed", TRUE)
    BY <1>1 DEF Deserves
  <2>2. tmp' \in Int /\ tool \in Process
    BY <1>1, <1>3 DEF Process
  <2>3. Failed /\ unheard' = IF TRUE THEN unheard \cup {at} ELSE unheard
    BY <1>3 DEF FailedUnheard
  <2> QED
    BY <1>1, <2>1, <2>2, <2>3, FailedStep
<1> QED
  BY <1>2, <1>3 DEF WriteTmp

LEMMA RunStep ==
  ASSUME IInv, Run
  PROVE  IInv'
<1>1. /\ pc = "run" /\ capture[Input] = element /\ ~element.empty
      /\ UNCHANGED <<tool, capture, at, tmp, report>> /\ tmp \in Int
  BY DEF IInv, Ready, TypeOK, Run, element
<1>2. CASE /\ Accepts
           /\ num_parsed' = num_parsed + 1
           /\ outcome' = Append(outcome, "parsed")
           /\ pc' = "next" /\ UNCHANGED <<num_skipped, num_failed, unheard>>
  <2>1. Deserves(element, "parsed", FALSE)
    BY <1>1, <1>2 DEF Deserves, Accepts
  <2>2. num_skipped \in Int /\ num_failed \in Int
    BY DEF IInv, TypeOK
  <2>3. Gives("parsed", FALSE)
    BY <1>1, <1>2, <2>2 DEF Gives, InHand, Outcome
  <2> QED
    BY <2>1, <2>3, TurnEnds
<1>3. CASE ~Accepts /\ Failed /\ UNCHANGED unheard
  <2>1. Deserves(element, "failed", FALSE)
    BY <1>1, <1>3 DEF Deserves, Accepts
  <2>2. unheard' = IF FALSE THEN unheard \cup {at} ELSE unheard
    BY <1>3
  <2> QED
    BY <1>1, <1>3, <2>1, <2>2, FailedStep
<1>4. CASE tool \in Process /\ FailedUnheard
  <2>1. Deserves(element, "failed", TRUE)
    BY <1>1 DEF Deserves
  <2>2. Failed /\ unheard' = IF TRUE THEN unheard \cup {at} ELSE unheard
    BY <1>4 DEF FailedUnheard
  <2> QED
    BY <1>1, <1>4, <2>1, <2>2, FailedStep
<1> QED
  BY <1>2, <1>3, <1>4 DEF Run

\* The steps that give no outcome.
LEMMA QuietStep ==
  ASSUME IInv, Load \/ Take \/ Payload \/ KeyboardInterrupt \/ Done \/ UNCHANGED vars
  PROVE  IInv'
<1>1. /\ UNCHANGED <<tool, capture, tmp, num_parsed, num_skipped, num_failed, outcome,
                     unheard, report>>
      /\ Len(outcome) \in Nat /\ Len(capture) \in Nat /\ at \in Nat
  BY LenProperties DEF IInv, TypeOK, Load, Take, Payload, KeyboardInterrupt, Done,
                       vars, nums, history
<1>2. Counted' /\ OutcomeIsOwn' /\ TotalsNeedPayloads'
  BY <1>1 DEF IInv, Counted, OutcomeIsOwn, TotalsNeedPayloads, Raises
<1>3. CASE Load \/ KeyboardInterrupt \/ Done \/ UNCHANGED vars
  <2>1. at' = at /\ (pc' \in {pc, "exit"} \/ (pc = "load" /\ pc' = "next"))
    BY <1>3 DEF Load, KeyboardInterrupt, Done, vars
  <2>2. TypeOK' /\ Placed' /\ Reported'
    BY <1>1, <2>1 DEF IInv, TypeOK, Placed, Reported, InHand
  <2>3. Ready'
    BY <1>1, <2>1 DEF IInv, Ready, Raises, Input, element
  <2> QED
    BY <1>2, <2>2, <2>3 DEF IInv
<1>4. CASE Take
  <2>1. /\ pc = "next" /\ at < Len(capture) /\ at' = at + 1
        /\ \/ pc' = "exit"
           \/ pc' = "try" /\ ~Raises(capture[at'])
    BY <1>4 DEF Take
  <2>2. TypeOK' /\ Placed' /\ Reported'
    BY <1>1, <2>1 DEF IInv, TypeOK, Placed, Reported, InHand
  <2>3. Ready'
    <3>1. \A k \in 1..at + 1 : k \in 1..at \/ k = at + 1
      BY <1>1
    <3> QED
      BY <1>1, <2>1, <3>1 DEF IInv, Ready, Raises
  <2> QED
    BY <1>2, <2>2, <2>3 DEF IInv
<1>5. CASE Payload
  <2>1. /\ pc = "try" /\ ~element.empty /\ at' = at
        /\ pc' = IF tool = "formatFuzzer" THEN "write" ELSE "run"
    BY <1>5 DEF Payload
  <2>2. TypeOK' /\ Placed' /\ Reported'
    BY <1>1, <2>1 DEF IInv, TypeOK, Placed, Reported, InHand
  <2>3. Ready'
    BY <1>1, <2>1 DEF IInv, Ready, Raises, Input, element
  <2> QED
    BY <1>2, <2>2, <2>3 DEF IInv
<1> QED
  BY <1>3, <1>4, <1>5

LEMMA ReportStep ==
  ASSUME IInv, Report
  PROVE  IInv'
<1>1. /\ pc = "next" /\ at = Len(capture) /\ pc' = "exit"
      /\ report' = <<[total |-> num_parsed + num_skipped + num_failed,
                      failed |-> num_failed, parsed |-> num_parsed]>>
      /\ UNCHANGED <<tool, capture, at, tmp, num_parsed, num_skipped, num_failed, outcome,
                     unheard>>
      /\ Len(outcome) = at
  BY DEF Report, nums, history, IInv, Placed
<1>2. DOMAIN capture = 1..Len(capture)
  BY LenProperties DEF IInv, TypeOK
<1>3. TypeOK' /\ Placed' /\ Counted'
  BY <1>1 DEF IInv, TypeOK, Placed, Counted, InHand
<1>4. Ready' /\ OutcomeIsOwn'
  BY <1>1 DEF IInv, Ready, OutcomeIsOwn
<1>5. Reported'
  BY <1>1 DEF IInv, Counted, Reported
<1>6. TotalsNeedPayloads'
  BY <1>1, <1>2 DEF IInv, Ready, TotalsNeedPayloads, Raises
<1> QED
  BY <1>3, <1>4, <1>5, <1>6 DEF IInv

\* The inductive invariant holds of every script, capture and interruption.
THEOREM ScriptInvariance == Spec => []IInv
<1>1. Init => IInv
  BY InitIInv
<1>2. IInv /\ [Next]_vars => IInv'
  BY EmptyStep, WriteTmpStep, RunStep, QuietStep, ReportStep DEF Next, Script
<1> QED
  BY <1>1, <1>2, PTL DEF Spec

\* A packet is parsed only if the parser accepted its own payload, although
\* the payloads share one file, and fails only by its own payload, file or
\* process.
THEOREM OutcomesAreOwn == Spec => []OutcomeIsOwn
<1>1. IInv => OutcomeIsOwn
  BY DEF IInv
<1> QED
  BY <1>1, ScriptInvariance, PTL

\* A script that prints totals found a payload in every packet.
THEOREM PayloadsBehindTotals == Spec => []TotalsNeedPayloads
<1>1. IInv => TotalsNeedPayloads
  BY DEF IInv
<1> QED
  BY <1>1, ScriptInvariance, PTL

-----------------------------------------------------------------------------
(* Refinement *)

LEMMA ScanCounts == \A kind : Scan!CountOf(kind) = HowMany(outcome, kind)
BY DEF Scan!CountOf, HowMany, Scan!Cardinality, Cardinality

LEMMA VisitRefines ==
  ASSUME IInv, Empty \/ WriteTmp \/ Run
  PROVE  Scan!Visit \/ UNCHANGED <<capture, outcome, report>>
<1>1. /\ pc \in InHand /\ UNCHANGED <<capture, report>>
      /\ \/ \E o \in Outcome : outcome' = Append(outcome, o)
         \/ UNCHANGED outcome
  BY DEF Empty, WriteTmp, Run, Failed, FailedUnheard, history, InHand, Outcome
<1>2. report = <<>>
  BY <1>1 DEF IInv, Reported, InHand
<1>3. Len(outcome) < Len(capture)
  BY <1>1, LenProperties DEF IInv, Placed, TypeOK
<1> QED
  BY <1>1, <1>2, <1>3 DEF Scan!Visit

LEMMA ReportRefines ==
  ASSUME IInv, Report
  PROVE  Scan!Report
<1>1. /\ pc = "next" /\ at = Len(capture) /\ Len(outcome) = at
      /\ UNCHANGED <<capture, outcome>>
      /\ report' = <<[total |-> num_parsed + num_skipped + num_failed,
                      failed |-> num_failed, parsed |-> num_parsed]>>
  BY DEF Report, history, IInv, Placed
<1>2. report = <<>>
  BY <1>1 DEF IInv, Reported
<1>3. /\ num_parsed \in Nat /\ num_skipped \in Nat /\ num_failed \in Nat
      /\ Len(capture) = num_parsed + num_skipped + num_failed
  BY <1>1 DEF IInv, TypeOK, Counted
<1>4. num_parsed = Len(capture) - num_failed - num_skipped
  BY <1>3
<1>5. num_failed = Scan!CountOf("failed") /\ num_skipped = Scan!CountOf("skipped")
  BY ScanCounts DEF IInv, Counted
<1>6. report' = <<[total |-> Len(capture), failed |-> num_failed,
                   parsed |-> Len(capture) - num_failed - num_skipped]>>
  BY <1>1, <1>3, <1>4
<1> QED
  BY <1>1, <1>2, <1>5, <1>6 DEF Scan!Report

\* Whoever reads the totals of a script sees a scan of the capture, as with
\* the drivers in C and C++.
THEOREM ScriptImplementsScan == Spec => ImplementsScan
<1>1. Init => Scan!Init
  BY DEF Init, Scan!Init
<1>2. IInv /\ [Next]_vars => [Scan!Visit \/ Scan!Report]_(Scan!scanvars)
  <2>1. Load \/ Take \/ Payload \/ KeyboardInterrupt \/ Done \/ UNCHANGED vars
          => UNCHANGED <<capture, outcome, report>>
    BY DEF Load, Take, Payload, KeyboardInterrupt, Done, vars, history
  <2> QED
    BY <2>1, VisitRefines, ReportRefines DEF Next, Script, Scan!scanvars
<1>3. Spec => [][Scan!Visit \/ Scan!Report]_(Scan!scanvars)
  BY <1>2, ScriptInvariance, PTL DEF Spec
<1> QED
  BY <1>1, <1>3, PTL DEF Spec, ImplementsScan, Scan!Spec
=============================================================================
