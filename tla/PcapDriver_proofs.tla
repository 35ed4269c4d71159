-------------------------- MODULE PcapDriver_proofs --------------------------
(***************************************************************************)
(* The driver around the parsers counts, reports, releases and closes as   *)
(* it should for every capture, every set of protocols it knows, and every *)
(* moment at which a signal is delivered.  The argument: main's place, its *)
(* position in the capture and the outcomes so far determine the counters  *)
(* and what is held, and a signal changes none of them.                    *)
(***************************************************************************)
EXTENDS PcapDriver, FiniteSetTheorems, SequenceTheorems, TLAPS

FirstPass == {"start", "open", "count", "close", "reopen"}
SecondPass == {"read", "packet", "parse", "release", "tally"}
Labels == FirstPass \cup SecondPass \cup {"report", "files", "return", "exit"}

TypeOK ==
  /\ capture \in Seq(Packet)
  /\ pc \in Labels /\ sig \in {"none", "pcap", "files", "exit"}
  /\ pcapHandle \in {"NULL", "open", "closed"}
  /\ position \in 0..Len(capture)
  /\ pduCount \in Nat /\ pduSkipped \in Nat /\ pduFailed \in Nat /\ pduTotal \in Nat
  /\ trace \in {"NULL", "open", "closed"} /\ flushed \in Nat
  /\ leaked \in Nat
  /\ outcome \in Seq(Outcome)

\* What becomes of a packet, whatever came before it.
Verdict(q) ==
  IF q.ether \in EtherTypes
  THEN IF HasParser(q) THEN IF q.ok THEN "parsed" ELSE "failed" ELSE "skipped"
  ELSE IF q.ether = "8021Q" THEN "untouched" ELSE "unknown"

\* One outcome for each packet gone through, and the counter follows.
Placed ==
  /\ pc \in FirstPass => outcome = <<>> /\ pduCount = 1
  /\ pc = "read" => Len(outcome) = position /\ pduCount = position + 1
  /\ pc \in {"packet", "parse"} => Len(outcome) + 1 = position /\ pduCount = position
  /\ pc \in {"release", "tally"} => Len(outcome) = position /\ pduCount = position
  /\ pc \in {"packet", "parse", "release", "tally"} => position > 0
  /\ pc = "report" => Len(outcome) = Len(capture) /\ pduCount = Len(capture) + 1

Verdicts ==
  /\ Len(outcome) <= Len(capture)
  /\ \A k \in 1..Len(outcome) : outcome[k] = Verdict(capture[k])

LeftByParsed == LeftBehind[TRUE]
LeftByFailed == LeftBehind[FALSE]

HowMany(outcomes, kind) == Cardinality({k \in DOMAIN outcomes : outcomes[k] = kind})

\* The counters and the leak are what the outcomes say; every packet has one.
Counted ==
  /\ pduFailed = HowMany(outcome, "failed")
  /\ pduSkipped = HowMany(outcome, "skipped")
  /\ leaked = LeftByParsed * HowMany(outcome, "parsed")
                + LeftByFailed * HowMany(outcome, "failed")
  /\ Len(outcome) = HowMany(outcome, "parsed") + HowMany(outcome, "failed")
                      + HowMany(outcome, "skipped") + HowMany(outcome, "unknown")
                      + HowMany(outcome, "untouched")

\* The first pass counts the packets.
Totalled ==
  /\ pc \in {"start", "open"} => pduTotal = 0
  /\ pc = "count" => pduTotal = position
  /\ pc \notin {"start", "open", "count", "exit"} => pduTotal = Len(capture)

\* Blocks are held from their allocation to their release.
Held ==
  /\ pc \in {"parse", "release"} => HasParser(packet) /\ heap = Blocks[packet.ether]
  /\ pc \notin {"parse", "release", "exit"} => heap = {}

\* Totals are printed once, behind the last packet.
Reported ==
  /\ pc \notin {"files", "return", "exit"} => report = <<>>
  /\ report # <<>> =>
       /\ Len(outcome) = Len(capture) /\ pduTotal = Len(capture)
       /\ report = <<[total  |-> Len(capture),
                      failed |-> HowMany(outcome, "failed"),
                      parsed |-> Len(capture) - HowMany(outcome, "skipped")
                                   - HowMany(outcome, "failed")]>>

\* Until a handler closes it the capture is open while it is read.
Opened ==
  sig \in {"none", "pcap"} =>
    /\ pc \in {"start", "open"} => pcapHandle = "NULL"
    /\ pc \in {"count", "close"} \cup SecondPass => pcapHandle = "open"

\* Nothing is traced once the trace is closed, and exit writes an open one.
Traced ==
  /\ trace = "closed" => /\ flushed = Len(outcome)
                         /\ sig = "exit" \/ pc \in {"return", "exit"}
  /\ pc = "exit" /\ status # "abort" /\ trace = "open" => flushed = Len(outcome)

IInv ==
  /\ TypeOK /\ Placed /\ Verdicts /\ Counted /\ Totalled /\ Held /\ Reported
  /\ Opened /\ Traced

-----------------------------------------------------------------------------
(* Outcomes and how many there are of a kind *)

LEMMA KindFinite ==
  ASSUME NEW s \in Seq(Outcome), NEW kind
  PROVE  /\ IsFiniteSet({k \in DOMAIN s : s[k] = kind})
         /\ HowMany(s, kind) \in Nat
<1>1. DOMAIN s = 1..Len(s) /\ Len(s) \in Nat
  BY LenProperties
<1>2. IsFiniteSet(1..Len(s))
  BY <1>1, FS_Interval
<1>3. {k \in DOMAIN s : s[k] = kind} \in SUBSET (1..Len(s))
  BY <1>1
<1> QED
  BY <1>2, <1>3, FS_Subset, FS_CardinalityType DEF HowMany

\* One more outcome is one more of its kind.
LEMMA CountAppend ==
  ASSUME NEW s \in Seq(Outcome), NEW o \in Outcome, NEW kind
  PROVE  HowMany(Append(s, o), kind) = HowMany(s, kind) + IF o = kind THEN 1 ELSE 0
<1> DEFINE Of(t) == {k \in DOMAIN t : t[k] = kind}
           t == Append(s, o)
<1>1. /\ Len(s) \in Nat /\ DOMAIN s = 1..Len(s)
      /\ DOMAIN t = 1..Len(s) + 1
      /\ t[Len(s) + 1] = o /\ \A k \in 1..Len(s) : t[k] = s[k]
  BY LenProperties, AppendProperties
<1>2. IsFiniteSet(Of(s)) /\ Cardinality(Of(s)) \in Nat
  BY KindFinite DEF HowMany
<1>3. Len(s) + 1 \notin Of(s)
  BY <1>1
<1>4. CASE o = kind
  <2>1. Of(t) = Of(s) \cup {Len(s) + 1}
    BY <1>1, <1>4
  <2>2. Cardinality(Of(s) \cup {Len(s) + 1}) = Cardinality(Of(s)) + 1
    BY <1>2, <1>3, FS_AddElement
  <2> QED
    BY <1>4, <2>1, <2>2 DEF HowMany
<1>5. CASE o # kind
  <2>1. Of(t) = Of(s)
    <3>1. \A k \in 1..Len(s) + 1 : k \in 1..Len(s) \/ k = Len(s) + 1
      BY <1>1
    <3> QED
      BY <1>1, <1>5, <3>1
  <2>2. HowMany(t, kind) = HowMany(s, kind) /\ HowMany(s, kind) \in Nat
    BY <1>2, <2>1 DEF HowMany
  <2> QED
    BY <1>5, <2>2
<1> QED
  BY <1>4, <1>5

LEMMA CountNone == \A kind : HowMany(<<>>, kind) = 0
<1> SUFFICES ASSUME NEW kind PROVE HowMany(<<>>, kind) = 0
  OBVIOUS
<1>1. {k \in DOMAIN <<>> : <<>>[k] = kind} = {}
  OBVIOUS
<1> QED
  BY <1>1, FS_EmptySet DEF HowMany

-----------------------------------------------------------------------------
(* The inductive invariant *)

LEMMA ProductNext ==
  ASSUME NEW a \in Nat, NEW n \in Nat
  PROVE  a * (n + 1) = a * n + a /\ a * n \in Nat
  OBVIOUS

LEMMA LeftIsNat == LeftByParsed \in Nat /\ LeftByFailed \in Nat
  BY DriverAssumption DEF LeftByParsed, LeftByFailed

LEMMA InitIInv == Init => IInv
<1> SUFFICES ASSUME Init PROVE IInv
  OBVIOUS
<1> USE DEF Init
<1>1. capture \in Seq(Packet) /\ Len(capture) \in Nat
  BY CapturesAssumption, LenProperties
<1>2. LeftByParsed \in Nat /\ LeftByFailed \in Nat
  BY LeftIsNat
<1>3. TypeOK
  BY <1>1 DEF TypeOK, Labels, FirstPass, SecondPass
<1>4. Len(<<>>) = 0
  OBVIOUS
<1>5. Placed /\ Totalled /\ Held
  BY <1>1 DEF Placed, Totalled, Held, FirstPass, SecondPass
<1>6. Reported /\ Opened /\ Traced
  BY DEF Reported, Opened, Traced, SecondPass
<1>7. Verdicts
  BY <1>1, <1>4 DEF Verdicts
<1>8. Counted
  <2> DEFINE None(kind) == HowMany(<<>>, kind)
  <2>1. \A kind : None(kind) = 0
    BY CountNone
  <2>2. LeftByParsed * 0 + LeftByFailed * 0 = 0
    BY <1>2
  <2> HIDE DEF None
  <2>3. /\ 0 = None("failed") /\ 0 = None("skipped")
        /\ 0 = LeftByParsed * None("parsed") + LeftByFailed * None("failed")
        /\ 0 = None("parsed") + None("failed") + None("skipped") + None("unknown")
                 + None("untouched")
    BY <2>1, <2>2
  <2> QED
    BY <1>4, <2>3 DEF Counted, None
<1> QED
  BY <1>3, <1>5, <1>6, <1>7, <1>8 DEF IInv

\* A step that adds no outcome and touches no counter but perhaps pduCount and
\* pduTotal.
LEMMA QuietCounts ==
  ASSUME IInv, UNCHANGED <<capture, outcome, pduSkipped, pduFailed, leaked>>
  PROVE  Verdicts' /\ Counted'
BY DEF IInv, Verdicts, Counted, Verdict, HasParser

\* A signal, and what its handler does, leaves alone all that main works on,
\* or ends the process.
Signal == Interrupt \/ mainIntrHandler \/ userReport

LEMMA SignalKeepsMain ==
  ASSUME Signal
  PROVE  /\ UNCHANGED <<capture, position, counts, memory, report, outcome>>
         /\ pc' \in {pc, "exit"}
         /\ pc \notin {"start", "exit"}
BY DEF Signal, Interrupt, mainIntrHandler, HandlerClosesPcap, HandlerClosesFiles,
       HandlerExits, userReport, closeFiles, UndefinedOr, Exit, Running, output

LEMMA SignalStep ==
  ASSUME IInv, Signal
  PROVE  IInv'
<1>1. /\ UNCHANGED <<capture, position, pduCount, pduSkipped, pduFailed, pduTotal,
                     heap, leaked, report, outcome>>
      /\ pc' \in {pc, "exit"}
      /\ pc \notin {"start", "exit"}
  BY SignalKeepsMain DEF counts, memory
<1>2. TypeOK'
  <2>1. Len(outcome) \in Nat
    BY LenProperties DEF IInv, TypeOK
  <2> QED
    BY <1>1, <2>1
       DEF IInv, TypeOK, Labels, Signal, Interrupt, mainIntrHandler, HandlerClosesPcap,
           HandlerClosesFiles, HandlerExits, userReport, closeFiles, UndefinedOr, Exit,
           output
<1>3. Placed' /\ Totalled' /\ Held' /\ Reported'
  BY <1>1 DEF IInv, Placed, Totalled, Held, Reported, FirstPass, HasParser, packet
<1>4. Verdicts' /\ Counted'
  BY <1>1, QuietCounts
<1>5. Opened'
  BY <1>1
     DEF IInv, Opened, SecondPass, Signal, Interrupt, mainIntrHandler,
         HandlerClosesPcap, HandlerClosesFiles, HandlerExits, userReport,
         UndefinedOr, Exit
<1>6. Traced'
  BY <1>1
     DEF IInv, TypeOK, Traced, Signal, Interrupt, mainIntrHandler, HandlerClosesPcap,
         HandlerClosesFiles, HandlerExits, userReport, closeFiles, UndefinedOr, Exit,
         output
<1> QED
  BY <1>2, <1>3, <1>4, <1>5, <1>6 DEF IInv

\* main up to the second opening of the capture.
LEMMA FirstPassStep ==
  ASSUME IInv, OpenTrace \/ Open \/ findTotal \/ CloseCounted \/ Reopen
  PROVE  IInv'
<1>1. /\ UNCHANGED <<capture, pduCount, pduSkipped, pduFailed, heap, leaked, outcome, report>>
      /\ pc \in FirstPass /\ sig = "none" /\ sig' = "none"
  BY DEF OpenTrace, Open, findTotal, CloseCounted, Reopen, OpenPcap, ClosePcap, At,
         counts, memory, output, FirstPass
<1>2. TypeOK'
  <2>1. Len(outcome) \in Nat /\ Len(capture) \in Nat
    BY LenProperties DEF IInv, TypeOK
  <2> QED
    BY <1>1, <2>1
       DEF IInv, TypeOK, Labels, FirstPass, SecondPass, OpenTrace, Open, findTotal,
           CloseCounted, Reopen, OpenPcap, ClosePcap, Exit, At, counts, output
<1>3. Placed'
  <2>1. pc' \in FirstPass \cup {"exit"} \/ (pc' = "read" /\ position' = 0)
    BY DEF OpenTrace, Open, findTotal, CloseCounted, Reopen, OpenPcap, ClosePcap, Exit,
           At, FirstPass
  <2>2. outcome = <<>> /\ Len(<<>>) = 0 /\ pduCount = 1
    BY <1>1 DEF IInv, Placed
  <2> QED
    BY <1>1, <2>1, <2>2 DEF Placed, FirstPass
<1>4. Verdicts' /\ Counted'
  BY <1>1, QuietCounts
<1>5. Totalled'
  BY DEF IInv, TypeOK, Totalled, OpenTrace, Open, findTotal, CloseCounted, Reopen,
         OpenPcap, ClosePcap, Exit, At, counts
<1>6. Held' /\ Reported'
  BY <1>1
     DEF IInv, Held, Reported, OpenTrace, Open, findTotal, CloseCounted, Reopen, OpenPcap,
         ClosePcap, Exit, At, FirstPass
<1>7. Opened'
  BY <1>1
     DEF IInv, Opened, OpenTrace, Open, findTotal, CloseCounted, Reopen, OpenPcap,
         ClosePcap, Exit, At, SecondPass
<1>8. Traced'
  BY <1>1
     DEF IInv, TypeOK, Traced, OpenTrace, Open, findTotal, CloseCounted, Reopen, OpenPcap,
         ClosePcap, Exit, At, output, FirstPass
<1> QED
  BY <1>2, <1>3, <1>4, <1>5, <1>6, <1>7, <1>8 DEF IInv

LEMMA ReadStep ==
  ASSUME IInv, ReadPacket
  PROVE  IInv'
<1>1. /\ pc = "read" /\ pc' = "packet" /\ sig = "none"
      /\ position < Len(capture) /\ position' = position + 1
      /\ UNCHANGED <<capture, sig, pcapHandle, pduCount, pduSkipped, pduFailed, pduTotal,
                     heap, leaked, trace, flushed, report, outcome, status>>
  BY DEF ReadPacket, At, counts, memory, output
<1>2. TypeOK'
  <2>1. Len(capture) \in Nat
    BY LenProperties DEF IInv, TypeOK
  <2> QED
    BY <1>1, <2>1 DEF IInv, TypeOK, Labels, SecondPass
<1>3. Placed' /\ Totalled' /\ Held' /\ Reported' /\ Opened' /\ Traced'
  BY <1>1 DEF IInv, TypeOK, Placed, Totalled, Held, Reported, Opened, Traced,
              FirstPass, SecondPass
<1>4. Verdicts' /\ Counted'
  BY <1>1, QuietCounts
<1> QED
  BY <1>2, <1>3, <1>4 DEF IInv

\* The packet main is at is the first without an outcome.
LEMMA PacketIsNext ==
  ASSUME IInv, pc \in {"packet", "parse"}
  PROVE  /\ packet = capture[Len(outcome) + 1]
         /\ packet \in Packet
         /\ Len(outcome) < Len(capture) /\ Len(outcome) \in Nat /\ Len(capture) \in Nat
<1>1. Len(outcome) + 1 = position /\ position > 0 /\ position \in 0..Len(capture)
  BY DEF IInv, TypeOK, Placed
<1>2. Len(outcome) \in Nat /\ Len(capture) \in Nat
  BY LenProperties DEF IInv, TypeOK
<1>3. capture[position] \in Packet
  BY <1>1, <1>2, ElementOfSeq DEF IInv, TypeOK
<1> QED
  BY <1>1, <1>2, <1>3 DEF packet

\* A packet gets the outcome that is due to it and the counters follow.
LEMMA OutcomeCounts ==
  ASSUME IInv, pc \in {"packet", "parse"},
         NEW o \in Outcome, o = Verdict(packet), outcome' = Append(outcome, o),
         UNCHANGED capture,
         pduFailed' = pduFailed + (IF o = "failed" THEN 1 ELSE 0),
         pduSkipped' = pduSkipped + (IF o = "skipped" THEN 1 ELSE 0),
         leaked' = leaked + (IF o = "parsed" THEN LeftByParsed
                             ELSE IF o = "failed" THEN LeftByFailed ELSE 0)
  PROVE  /\ outcome' \in Seq(Outcome) /\ Len(outcome') = Len(outcome) + 1
         /\ Verdicts' /\ Counted'
<1>1. outcome \in Seq(Outcome)
  BY DEF IInv, TypeOK
<1>2. /\ outcome' \in Seq(Outcome) /\ Len(outcome') = Len(outcome) + 1
      /\ \A i \in 1..Len(outcome) : outcome'[i] = outcome[i]
      /\ outcome'[Len(outcome) + 1] = o
  BY <1>1, AppendProperties
<1>3. /\ packet = capture[Len(outcome) + 1] /\ Len(outcome) < Len(capture)
      /\ Len(outcome) \in Nat /\ Len(capture) \in Nat
  BY PacketIsNext
<1>4. Verdicts'
  <2>1. \A k \in 1..Len(outcome) + 1 : k \in 1..Len(outcome) \/ k = Len(outcome) + 1
    BY <1>3
  <2>2. \A k \in 1..Len(outcome') : outcome'[k] = Verdict(capture[k])
    BY <1>2, <1>3, <2>1 DEF IInv, Verdicts
  <2>3. \A q : Verdict(q)' = Verdict(q)
    BY DEF Verdict, HasParser
  <2> QED
    BY <1>2, <1>3, <2>2 DEF Verdicts, Verdict, HasParser
<1>5. \A kind : /\ HowMany(outcome, kind) \in Nat
                /\ HowMany(outcome', kind)
                     = HowMany(outcome, kind) + IF o = kind THEN 1 ELSE 0
  <2> SUFFICES ASSUME NEW kind
               PROVE  /\ HowMany(outcome, kind) \in Nat
                      /\ HowMany(outcome', kind)
                           = HowMany(outcome, kind) + IF o = kind THEN 1 ELSE 0
    OBVIOUS
  <2>1. HowMany(outcome, kind) \in Nat
    BY <1>1, KindFinite
  <2>2. HowMany(Append(outcome, o), kind)
          = HowMany(outcome, kind) + IF o = kind THEN 1 ELSE 0
    BY <1>1, CountAppend
  <2>3. outcome' = Append(outcome, o)
    OBVIOUS
  <2> QED
    BY <2>1, <2>2, <2>3
<1>6. Counted'
  <2> DEFINE p == HowMany(outcome, "parsed")
             f == HowMany(outcome, "failed")
             s == HowMany(outcome, "skipped")
             u == HowMany(outcome, "unknown")
             t == HowMany(outcome, "untouched")
  <2>1. p \in Nat /\ f \in Nat /\ s \in Nat /\ u \in Nat /\ t \in Nat
    BY <1>5
  <2>2. /\ pduFailed = f /\ pduSkipped = s /\ Len(outcome) = p + f + s + u + t
        /\ leaked = LeftByParsed * p + LeftByFailed * f
    BY DEF IInv, Counted
  <2>3. /\ HowMany(outcome', "parsed") = p + IF o = "parsed" THEN 1 ELSE 0
        /\ HowMany(outcome', "failed") = f + IF o = "failed" THEN 1 ELSE 0
        /\ HowMany(outcome', "skipped") = s + IF o = "skipped" THEN 1 ELSE 0
        /\ HowMany(outcome', "unknown") = u + IF o = "unknown" THEN 1 ELSE 0
        /\ HowMany(outcome', "untouched") = t + IF o = "untouched" THEN 1 ELSE 0
    BY <1>5
  <2> HIDE DEF p, f, s, u, t
  <2>4. /\ LeftByParsed * (p + 1) = LeftByParsed * p + LeftByParsed
        /\ LeftByFailed * (f + 1) = LeftByFailed * f + LeftByFailed
        /\ LeftByParsed * p \in Nat /\ LeftByFailed * f \in Nat
    BY <2>1, LeftIsNat, ProductNext
  <2>5. /\ pduFailed' = HowMany(outcome', "failed")
        /\ pduSkipped' = HowMany(outcome', "skipped")
        /\ Len(outcome') = HowMany(outcome', "parsed") + HowMany(outcome', "failed")
                             + HowMany(outcome', "skipped") + HowMany(outcome', "unknown")
                             + HowMany(outcome', "untouched")
    <3>1. pduFailed' = HowMany(outcome', "failed") /\ pduSkipped' = HowMany(outcome', "skipped")
      BY <2>2, <2>3
    <3>2. Len(outcome') = p + f + s + u + t + 1
      BY <1>2, <2>2
    <3>3. o \in {"parsed", "failed", "skipped", "unknown", "untouched"}
      BY DEF Outcome
    <3>4. Len(outcome') = HowMany(outcome', "parsed") + HowMany(outcome', "failed")
                           + HowMany(outcome', "skipped") + HowMany(outcome', "unknown")
                           + HowMany(outcome', "untouched")
      <4> DEFINE p1 == HowMany(outcome', "parsed")
                 f1 == HowMany(outcome', "failed")
                 s1 == HowMany(outcome', "skipped")
                 u1 == HowMany(outcome', "unknown")
                 t1 == HowMany(outcome', "untouched")
                 n1 == Len(outcome')
      <4>1. /\ p1 = p + IF o = "parsed" THEN 1 ELSE 0
            /\ f1 = f + IF o = "failed" THEN 1 ELSE 0
            /\ s1 = s + IF o = "skipped" THEN 1 ELSE 0
            /\ u1 = u + IF o = "unknown" THEN 1 ELSE 0
            /\ t1 = t + IF o = "untouched" THEN 1 ELSE 0
            /\ n1 = p + f + s + u + t + 1
        BY <2>3, <3>2
      <4> HIDE DEF p1, f1, s1, u1, t1, n1
      <4>2. n1 = p1 + f1 + s1 + u1 + t1
        BY <2>1, <3>3, <4>1
      <4> QED
        BY <4>2 DEF p1, f1, s1, u1, t1, n1
    <3> QED
      BY <3>1, <3>4
  <2>6. leaked' = LeftByParsed * HowMany(outcome', "parsed")
                    + LeftByFailed * HowMany(outcome', "failed")
    <3>1. CASE o = "parsed"
      BY <2>1, <2>2, <2>3, <2>4, <3>1, LeftIsNat
    <3>2. CASE o = "failed"
      BY <2>1, <2>2, <2>3, <2>4, <3>2, LeftIsNat
    <3>3. CASE o \notin {"parsed", "failed"}
      BY <2>1, <2>2, <2>3, <2>4, <3>3, LeftIsNat
    <3> QED
      BY <3>1, <3>2, <3>3
  <2> QED
    BY <2>5, <2>6 DEF Counted, HowMany, LeftByParsed, LeftByFailed
<1> QED
  BY <1>2, <1>4, <1>6

\* The five ends that a packet can come to.
LEMMA UnknownStep ==
  ASSUME IInv, UnknownEtherType
  PROVE  IInv'
<1>1. /\ pc = "packet" /\ pc' = "read" /\ sig = "none"
      /\ outcome' = Append(outcome, "unknown") /\ pduCount' = pduCount + 1
      /\ UNCHANGED <<capture, sig, pcapHandle, position, pduSkipped, pduFailed, pduTotal,
                     heap, leaked, trace, flushed, report, status>>
  BY DEF UnknownEtherType, At, memory, output
<1>2. Verdict(packet) = "unknown"
  BY DEF UnknownEtherType, Verdict
<1>3. /\ outcome' \in Seq(Outcome) /\ Len(outcome') = Len(outcome) + 1
      /\ Verdicts' /\ Counted'
  BY <1>1, <1>2, OutcomeCounts DEF Outcome, IInv, TypeOK
<1>4. TypeOK'
  BY <1>1, <1>3 DEF IInv, TypeOK, Labels, SecondPass
<1>5. Placed' /\ Totalled' /\ Held' /\ Reported' /\ Opened' /\ Traced'
  BY <1>1, <1>3 DEF IInv, TypeOK, Placed, Totalled, Held, Reported, Opened, Traced,
                    FirstPass, SecondPass
<1> QED
  BY <1>3, <1>4, <1>5 DEF IInv

LEMMA UntouchedStep ==
  ASSUME IInv, Untouched
  PROVE  IInv'
<1>1. /\ pc = "packet" /\ pc' = "tally" /\ sig = "none" /\ packet.ether = "8021Q"
      /\ outcome' = Append(outcome, "untouched")
      /\ UNCHANGED <<capture, sig, pcapHandle, position, pduCount, pduSkipped, pduFailed,
                     pduTotal, heap, leaked, trace, flushed, report, status>>
  BY DEF Untouched, At, counts, memory, output
<1>2. Verdict(packet) = "untouched"
  BY <1>1, DriverAssumption DEF Verdict
<1>3. /\ outcome' \in Seq(Outcome) /\ Len(outcome') = Len(outcome) + 1
      /\ Verdicts' /\ Counted'
  BY <1>1, <1>2, OutcomeCounts DEF Outcome, IInv, TypeOK
<1>4. TypeOK'
  BY <1>1, <1>3 DEF IInv, TypeOK, Labels, SecondPass
<1>5. Placed' /\ Totalled' /\ Held' /\ Reported' /\ Opened' /\ Traced'
  BY <1>1, <1>3 DEF IInv, TypeOK, Placed, Totalled, Held, Reported, Opened, Traced,
                    FirstPass, SecondPass
<1> QED
  BY <1>3, <1>4, <1>5 DEF IInv

LEMMA SkipStep ==
  ASSUME IInv, Skip
  PROVE  IInv'
<1>1. /\ pc = "packet" /\ pc' = "tally" /\ sig = "none"
      /\ outcome' = Append(outcome, "skipped") /\ pduSkipped' = pduSkipped + 1
      /\ UNCHANGED <<capture, sig, pcapHandle, position, pduCount, pduFailed,
                     pduTotal, heap, leaked, trace, flushed, report, status>>
  BY DEF Skip, At, memory, output
<1>2. Verdict(packet) = "skipped"
  BY DEF Skip, Verdict
<1>3. /\ outcome' \in Seq(Outcome) /\ Len(outcome') = Len(outcome) + 1
      /\ Verdicts' /\ Counted'
  BY <1>1, <1>2, OutcomeCounts DEF Outcome, IInv, TypeOK
<1>4. TypeOK'
  BY <1>1, <1>3 DEF IInv, TypeOK, Labels, SecondPass
<1>5. Placed' /\ Totalled' /\ Held' /\ Reported' /\ Opened' /\ Traced'
  BY <1>1, <1>3 DEF IInv, TypeOK, Placed, Totalled, Held, Reported, Opened, Traced,
                    FirstPass, SecondPass
<1> QED
  BY <1>3, <1>4, <1>5 DEF IInv

LEMMA ParsedStep ==
  ASSUME IInv, ParseSucceeds
  PROVE  IInv'
<1>1. /\ pc = "parse" /\ pc' = "release" /\ sig = "none" /\ packet.ok
      /\ outcome' = Append(outcome, "parsed") /\ leaked' = leaked + LeftByParsed
      /\ UNCHANGED <<capture, sig, pcapHandle, position, pduCount, pduSkipped, pduFailed,
                     pduTotal, heap, trace, flushed, report, status>>
  BY DEF ParseSucceeds, At, counts, output, LeftByParsed
<1>2. Verdict(packet) = "parsed"
  BY <1>1 DEF Verdict, IInv, Held, HasParser
<1>3. /\ outcome' \in Seq(Outcome) /\ Len(outcome') = Len(outcome) + 1
      /\ Verdicts' /\ Counted'
  BY <1>1, <1>2, OutcomeCounts DEF Outcome, IInv, TypeOK
<1>4. TypeOK'
  BY <1>1, <1>3, LeftIsNat DEF IInv, TypeOK, Labels, SecondPass
<1>5. Placed' /\ Totalled' /\ Held' /\ Reported' /\ Opened' /\ Traced'
  BY <1>1, <1>3 DEF IInv, TypeOK, Placed, Totalled, Held, Reported, Opened, Traced,
                    FirstPass, SecondPass, packet, HasParser
<1> QED
  BY <1>3, <1>4, <1>5 DEF IInv

LEMMA FailedStep ==
  ASSUME IInv, ParseFails
  PROVE  IInv'
<1>1. /\ pc = "parse" /\ pc' = "release" /\ sig = "none" /\ ~packet.ok
      /\ outcome' = Append(outcome, "failed") /\ leaked' = leaked + LeftByFailed
      /\ pduFailed' = pduFailed + 1
      /\ UNCHANGED <<capture, sig, pcapHandle, position, pduCount, pduSkipped,
                     pduTotal, heap, trace, flushed, report, status>>
  BY DEF ParseFails, At, output, LeftByFailed
<1>2. Verdict(packet) = "failed"
  BY <1>1 DEF Verdict, IInv, Held, HasParser
<1>3. /\ outcome' \in Seq(Outcome) /\ Len(outcome') = Len(outcome) + 1
      /\ Verdicts' /\ Counted'
  BY <1>1, <1>2, OutcomeCounts DEF Outcome, IInv, TypeOK
<1>4. TypeOK'
  BY <1>1, <1>3, LeftIsNat DEF IInv, TypeOK, Labels, SecondPass
<1>5. Placed' /\ Totalled' /\ Held' /\ Reported' /\ Opened' /\ Traced'
  BY <1>1, <1>3 DEF IInv, TypeOK, Placed, Totalled, Held, Reported, Opened, Traced,
                    FirstPass, SecondPass, packet, HasParser
<1> QED
  BY <1>3, <1>4, <1>5 DEF IInv

\* What main does with a packet besides.
LEMMA PacketStep ==
  ASSUME IInv, Allocate \/ Release \/ Tally
  PROVE  IInv'
<1>1. /\ UNCHANGED <<capture, sig, pcapHandle, position, pduSkipped, pduFailed, pduTotal,
                     leaked, trace, report, outcome>>
      /\ sig = "none"
  BY DEF Allocate, Release, Tally, At, counts, memory, output
<1>2. TypeOK'
  <2>1. Len(outcome) \in Nat
    BY LenProperties DEF IInv, TypeOK
  <2> QED
    BY <1>1, <2>1 DEF IInv, TypeOK, Labels, SecondPass, Allocate, Release, Tally, At, Exit,
                      counts, output
<1>3. Placed' /\ Totalled' /\ Reported' /\ Opened'
  BY <1>1 DEF IInv, TypeOK, Placed, Totalled, Reported, Opened, FirstPass, SecondPass,
              Allocate, Release, Tally, At, Exit, counts
<1>4. Verdicts' /\ Counted'
  BY <1>1, QuietCounts
<1>5. Held'
  BY <1>1 DEF IInv, Held, Allocate, Release, Tally, At, Exit, memory, packet, HasParser
<1>6. Traced'
  BY <1>1 DEF IInv, TypeOK, Traced, Allocate, Release, Tally, At, Exit, output
<1> QED
  BY <1>2, <1>3, <1>4, <1>5, <1>6 DEF IInv

\* The end of main.
LEMMA LastStep ==
  ASSUME IInv, CloseParsed \/ Report \/ MainClosesFiles \/ Return
  PROVE  IInv'
<1>1. /\ UNCHANGED <<capture, sig, position, pduSkipped, pduFailed, pduTotal,
                     heap, leaked, outcome>>
      /\ sig = "none"
  BY DEF CloseParsed, ClosePcap, Report, MainClosesFiles, Return, At, counts, memory
<1>2. Len(outcome) \in Nat /\ Len(capture) \in Nat
  BY LenProperties DEF IInv, TypeOK
<1>3. TypeOK'
  BY <1>1, <1>2
     DEF IInv, TypeOK, Placed, Labels, SecondPass, CloseParsed, ClosePcap, Report,
         MainClosesFiles, Return, At, Exit, closeFiles, counts, output
<1>4. Placed' /\ Totalled' /\ Held' /\ Opened'
  BY <1>1
     DEF IInv, TypeOK, Placed, Totalled, Held, Opened, FirstPass, SecondPass, CloseParsed,
         ClosePcap, Report, MainClosesFiles, Return, At, Exit, counts
<1>5. Verdicts' /\ Counted'
  BY <1>1, QuietCounts
<1>6. Reported'
  <2>1. CASE Report
    <3>1. /\ Len(outcome) = Len(capture) /\ pduCount' = Len(capture)
          /\ pduTotal = Len(capture)
          /\ pduFailed = HowMany(outcome, "failed")
          /\ pduSkipped = HowMany(outcome, "skipped")
      BY <1>2, <2>1 DEF Report, At, IInv, Placed, Totalled, Counted
    <3> QED
      BY <1>1, <2>1, <3>1 DEF Report, At, Reported, HowMany
  <2>2. CASE CloseParsed \/ MainClosesFiles \/ Return
    <3>1. UNCHANGED report /\ pc' \in {"report", "return", "exit"}
          /\ (pc' = "report" => pc = "read")
      BY <2>2 DEF CloseParsed, ClosePcap, MainClosesFiles, Return, At, Exit, output
    <3> QED
      BY <1>1, <3>1 DEF IInv, Reported, HowMany
  <2> QED
    BY <2>1, <2>2
<1>7. Traced'
  BY <1>1
     DEF IInv, TypeOK, Traced, CloseParsed, ClosePcap, Report, MainClosesFiles, Return, At,
         Exit, closeFiles, output
<1> QED
  BY <1>3, <1>4, <1>5, <1>6, <1>7 DEF IInv

LEMMA StutterStep ==
  ASSUME IInv, UNCHANGED vars
  PROVE  IInv'
<1>1. UNCHANGED <<capture, pc, sig, pcapHandle, position, pduCount, pduSkipped, pduFailed,
                  pduTotal, heap, leaked, trace, flushed, report, outcome, status>>
  BY DEF vars, counts, memory, output
<1>2. Verdicts' /\ Counted'
  BY <1>1, QuietCounts
<1>3. TypeOK' /\ Placed' /\ Totalled' /\ Held' /\ Opened' /\ Traced'
  BY <1>1 DEF IInv, TypeOK, Placed, Totalled, Held, Opened, Traced, packet, HasParser
<1>4. Reported'
  BY <1>1 DEF IInv, Reported, HowMany
<1> QED
  BY <1>2, <1>3, <1>4 DEF IInv

\* The invariant holds in every state of every run, signals included.
THEOREM DriverInvariance == Spec => []IInv
<1>1. IInv /\ [Next]_vars => IInv'
  BY FirstPassStep, ReadStep, UnknownStep, UntouchedStep, SkipStep, ParsedStep, FailedStep,
     PacketStep, LastStep, SignalStep, StutterStep
     DEF Next, Main, Signal, Done
<1> QED
  BY <1>1, InitIInv, PTL DEF Spec

-----------------------------------------------------------------------------
(* What follows from it *)

\* Read off the capture, the packets of each outcome are those that deserve it.
LEMMA KindsOfPackets ==
  ASSUME IInv
  PROVE  LET n == Len(outcome)
         IN  /\ Cardinality(Failures(n)) = HowMany(outcome, "failed")
             /\ Cardinality(Successes(n)) = HowMany(outcome, "parsed")
             /\ Cardinality(Untried(n))
                  = HowMany(outcome, "unknown") + HowMany(outcome, "untouched")
<1> DEFINE n == Len(outcome)
           Of(kind) == {k \in DOMAIN outcome : outcome[k] = kind}
<1>1. /\ outcome \in Seq(Outcome) /\ DOMAIN outcome = 1..n
      /\ \A k \in 1..n : outcome[k] = Verdict(capture[k])
  BY LenProperties DEF IInv, TypeOK, Verdicts
<1>2. \A kind : Of(kind) = {k \in 1..n : Verdict(capture[k]) = kind}
  BY <1>1
<1>3. \A q : HasParser(q) => q.ether \in EtherTypes
  BY DEF HasParser
<1>4. Failures(n) = Of("failed")
  <2>1. ASSUME NEW q
        PROVE  Verdict(q) = "failed" <=> HasParser(q) /\ ~q.ok
    BY <1>3 DEF Verdict
  <2>2. \A k \in 1..n : Verdict(capture[k]) = "failed"
                          <=> HasParser(capture[k]) /\ ~capture[k].ok
    BY <2>1
  <2> HIDE DEF n, Of
  <2> QED
    BY <1>2, <2>2 DEF Failures
<1>5. Successes(n) = Of("parsed")
  BY <1>2, <1>3 DEF Successes, Verdict
<1>6. Untried(n) = Of("unknown") \cup Of("untouched")
  BY <1>2 DEF Untried, Verdict
<1>7. Of("unknown") \cap Of("untouched") = {}
  BY <1>2
<1>8. /\ IsFiniteSet(Of("unknown")) /\ IsFiniteSet(Of("untouched"))
      /\ Cardinality(Of("unknown")) \in Nat /\ Cardinality(Of("untouched")) \in Nat
  BY <1>1, KindFinite DEF HowMany
<1>9. Cardinality(Untried(n))
        = Cardinality(Of("unknown")) + Cardinality(Of("untouched"))
  <2>1. Cardinality(Of("unknown") \cup Of("untouched"))
          = Cardinality(Of("unknown")) + Cardinality(Of("untouched"))
              - Cardinality(Of("unknown") \cap Of("untouched"))
    BY <1>8, FS_Union
  <2>2. Cardinality(Of("unknown") \cap Of("untouched")) = 0
    BY <1>7, FS_EmptySet
  <2> HIDE DEF Of
  <2> QED
    BY <1>6, <1>8, <2>1, <2>2
<1> QED
  BY <1>4, <1>5, <1>9 DEF HowMany

\* Every packet is labelled with its number in the capture, though the counter
\* is advanced in two places.
THEOREM LabelsArePositions == Spec => []CountIsPosition
<1>1. IInv => CountIsPosition
  BY DEF IInv, Placed, CountIsPosition
<1> QED
  BY <1>1, DriverInvariance, PTL

\* The totals printed are those of the capture.
THEOREM TotalsAreExact == Spec => []TotalsExact
<1>1. IInv => TotalsExact
  <2> SUFFICES ASSUME IInv, report # <<>>
               PROVE  /\ report[1].total = Len(capture) /\ pduTotal = Len(capture)
                      /\ report[1].failed = Cardinality(Failures(Len(capture)))
                      /\ report[1].parsed = Cardinality(Successes(Len(capture)))
                                              + Cardinality(Untried(Len(capture)))
    BY DEF TotalsExact
  <2> DEFINE p == HowMany(outcome, "parsed")
             f == HowMany(outcome, "failed")
             s == HowMany(outcome, "skipped")
             u == HowMany(outcome, "unknown")
             t == HowMany(outcome, "untouched")
  <2>1. /\ Len(outcome) = Len(capture) /\ pduTotal = Len(capture)
        /\ report = <<[total |-> Len(capture), failed |-> f,
                       parsed |-> Len(capture) - s - f]>>
    BY DEF IInv, Reported
  <2>2. p \in Nat /\ f \in Nat /\ s \in Nat /\ u \in Nat /\ t \in Nat
    BY KindFinite DEF IInv, TypeOK
  <2>3. Len(outcome) = p + f + s + u + t
    BY DEF IInv, Counted
  <2>4. /\ Cardinality(Failures(Len(outcome))) = f
        /\ Cardinality(Successes(Len(outcome))) = p
        /\ Cardinality(Untried(Len(outcome))) = u + t
    BY KindsOfPackets
  <2> HIDE DEF p, f, s, u, t
  <2>5. /\ report[1].total = Len(capture) /\ report[1].failed = f
        /\ report[1].parsed = Len(capture) - s - f
    BY <2>1
  <2> QED
    BY <2>1, <2>2, <2>3, <2>4, <2>5
<1> QED
  BY <1>1, DriverInvariance, PTL

\* Between two packets nothing is held but what the parses left behind.
THEOREM NothingElseStays == Spec => []OnlyCopiesStay
<1>1. IInv => OnlyCopiesStay
  <2> SUFFICES ASSUME IInv, pc = "read"
               PROVE  /\ heap = {}
                      /\ leaked = LeftBehind[TRUE] * Cardinality(Successes(position))
                                    + LeftBehind[FALSE] * Cardinality(Failures(position))
    BY DEF OnlyCopiesStay
  <2>1. heap = {} /\ Len(outcome) = position
    BY DEF IInv, Held, Placed
  <2>2. /\ Cardinality(Failures(position)) = HowMany(outcome, "failed")
        /\ Cardinality(Successes(position)) = HowMany(outcome, "parsed")
    BY <2>1, KindsOfPackets
  <2>3. leaked = LeftBehind[TRUE] * HowMany(outcome, "parsed")
                   + LeftBehind[FALSE] * HowMany(outcome, "failed")
    BY DEF IInv, Counted, LeftByParsed, LeftByFailed
  <2> QED
    BY <2>1, <2>2, <2>3
<1> QED
  BY <1>1, DriverInvariance, PTL

\* The trace file is complete on every way out but an abort.
THEOREM TraceIsComplete == Spec => []TraceComplete
<1>1. IInv => TraceComplete
  BY DEF IInv, TypeOK, Traced, TraceComplete
<1> QED
  BY <1>1, DriverInvariance, PTL

\* Something closed is used only in the windows named, wherever the signals
\* arrive.
THEOREM UndefinedInWindows == Spec => UndefinedOnlyInWindows
<1>1. IInv /\ [Next]_vars => [undefined' # undefined => Windows]_vars
  <2> SUFFICES ASSUME IInv, Next, undefined' # undefined
               PROVE  Windows
    BY DEF vars
  <2>1. CASE Main \/ Interrupt \/ HandlerExits \/ Done
    BY <2>1
       DEF Main, OpenTrace, Open, findTotal, CloseCounted, Reopen, OpenPcap, ClosePcap,
           ReadPacket, UnknownEtherType, Untouched, Skip, Allocate, ParseSucceeds,
           ParseFails, Release, Tally, CloseParsed, Report, MainClosesFiles, Return,
           Interrupt, HandlerExits, Done, vars
  <2>2. CASE HandlerClosesPcap
    <3>1. pcapHandle = "closed" /\ sig = "pcap" /\ pc \notin {"start", "exit"}
      BY <2>2 DEF HandlerClosesPcap, Running
    <3> QED
      BY <3>1 DEF IInv, TypeOK, Labels, FirstPass, SecondPass, Opened, Windows
  <2>3. CASE HandlerClosesFiles \/ userReport
    <3>1. trace = "closed" /\ pc # "exit"
      BY <2>3 DEF HandlerClosesFiles, userReport, Running
    <3> QED
      BY <3>1 DEF IInv, Traced, Windows
  <2> QED
    BY <2>1, <2>2, <2>3 DEF Next, mainIntrHandler
<1> QED
  BY <1>1, DriverInvariance, PTL DEF Spec, UndefinedOnlyInWindows

-----------------------------------------------------------------------------
(* The refinement of PacketScan *)

LEMMA ScanCounts == \A kind : Scan!CountOf(kind) = HowMany(outcome, kind)
  BY DEF Scan!CountOf, HowMany, Scan!Cardinality, Cardinality

LEMMA VisitRefines ==
  ASSUME IInv, UnknownEtherType \/ Untouched \/ Skip \/ ParseSucceeds \/ ParseFails
  PROVE  Scan!Visit
<1>1. /\ pc \in {"packet", "parse"} /\ UNCHANGED <<capture, report>>
      /\ \E o \in Outcome : outcome' = Append(outcome, o)
  BY DEF UnknownEtherType, Untouched, Skip, ParseSucceeds, ParseFails, At, output, Outcome
<1>2. Len(outcome) < Len(capture)
  BY <1>1, PacketIsNext
<1>3. report = <<>>
  BY <1>1 DEF IInv, Reported
<1> QED
  BY <1>1, <1>2, <1>3 DEF Scan!Visit

LEMMA ReportRefines ==
  ASSUME IInv, Report
  PROVE  Scan!Report
<1>1. /\ pc = "report" /\ pc' = "files" /\ report' # <<>>
      /\ UNCHANGED <<capture, outcome>>
  BY DEF Report, At
<1>2. report = <<>> /\ Len(outcome) = Len(capture)
  BY <1>1 DEF IInv, Reported, Placed
<1>3. IInv'
  BY LastStep
<1>4. report' = <<[total |-> Len(capture), failed |-> HowMany(outcome, "failed"),
                   parsed |-> Len(capture) - HowMany(outcome, "skipped")
                                - HowMany(outcome, "failed")]>>
  BY <1>1, <1>3 DEF IInv, Reported, HowMany
<1>5. /\ HowMany(outcome, "skipped") \in Nat /\ HowMany(outcome, "failed") \in Nat
      /\ Len(capture) \in Nat
  BY KindFinite, LenProperties DEF IInv, TypeOK
<1>6. Len(capture) - HowMany(outcome, "skipped") - HowMany(outcome, "failed")
        = Len(capture) - HowMany(outcome, "failed") - HowMany(outcome, "skipped")
  BY <1>5
<1> QED
  BY <1>1, <1>2, <1>4, <1>6, ScanCounts DEF Scan!Report

LEMMA StepScan ==
  ASSUME IInv, [Next]_vars
  PROVE  [Scan!Visit \/ Scan!Report]_(Scan!scanvars)
<1>1. UnknownEtherType \/ Untouched \/ Skip \/ ParseSucceeds \/ ParseFails \/ Report
        => Scan!Visit \/ Scan!Report
  BY VisitRefines, ReportRefines
<1>2. OpenTrace \/ Open \/ findTotal \/ CloseCounted \/ Reopen \/ ReadPacket \/ Allocate
        \/ Release \/ Tally \/ CloseParsed \/ MainClosesFiles \/ Return \/ Done
        \/ UNCHANGED vars
        => UNCHANGED <<capture, outcome, report>>
  BY DEF OpenTrace, Open, findTotal, CloseCounted, Reopen, OpenPcap, ClosePcap, ReadPacket,
         Allocate, Release, Tally, CloseParsed, MainClosesFiles, Return, Done, vars, output
<1>3. Signal => UNCHANGED <<capture, outcome, report>>
  BY SignalKeepsMain
<1> QED
  BY <1>1, <1>2, <1>3 DEF Next, Main, Signal, Scan!scanvars

\* Whoever reads the totals sees a scan of the capture: every packet once, in
\* order, with one outcome, and totals that count the outcomes.
THEOREM DriverImplementsScan == Spec => ImplementsScan
<1>1. Init => Scan!Init
  BY DEF Init, Scan!Init
<1>2. Spec => [][Scan!Visit \/ Scan!Report]_(Scan!scanvars)
  BY DriverInvariance, StepScan, PTL DEF Spec
<1> QED
  BY <1>1, <1>2, PTL DEF Spec, ImplementsScan, Scan!Spec

-----------------------------------------------------------------------------
(* The ANTLR driver *)

\* Its program is this one with the constants that pmain.cpp gives.
Antlr == INSTANCE AntlrDriver

IsAntlr ==
  /\ EtherTypes = Antlr!EtherTypes
  /\ IPv4Protocols = Antlr!IPv4Protocols
  /\ LeftBehind = Antlr!WideCopies

\* Its totals are those of the capture as well: failed are the packets that
\* were passed to the parser and made it throw, and parsed the others that were
\* passed and every packet of an ether type the driver does not know.
THEOREM AntlrTotalsAreExact ==
  ASSUME IsAntlr
  PROVE  Spec => []Antlr!TotalsExact
<1>1. \A q : Antlr!Driver!HasParser(q) <=> HasParser(q)
  BY DEF IsAntlr, HasParser, Antlr!Driver!HasParser
<1>2. \A S : Antlr!Cardinality(S) = Cardinality(S)
  BY DEF Antlr!Cardinality, Cardinality
<1>3. ASSUME IInv, TotalsExact
      PROVE  Antlr!TotalsExact
  <2> DEFINE passed == Antlr!Passed
             thrown == {k \in passed : ~capture[k].ok}
             foreign == {k \in DOMAIN capture :
                           capture[k].ether \notin Antlr!EtherTypes}
             n == Len(capture)
  <2>1. capture \in Seq(Packet)
    BY <1>3 DEF IInv, TypeOK
  <2>2. DOMAIN capture = 1..n
    BY <2>1
  <2>3. passed = {k \in 1..n : HasParser(capture[k])}
    BY <1>1, <2>2, Zenon DEF Antlr!Passed
  <2>4. thrown = Failures(n)
    BY <2>3, Zenon DEF Failures
  <2>5. passed \ thrown = Successes(n)
    BY <2>3, Zenon DEF Successes
  <2>6. foreign = Untried(n)
    BY <2>2, Zenon DEF IsAntlr, Untried
  <2>7. report # <<>> =>
          /\ report[1].total = n /\ pduTotal = n
          /\ report[1].failed = Cardinality(thrown)
          /\ report[1].parsed = Cardinality(passed \ thrown) + Cardinality(foreign)
    BY <1>3, <2>4, <2>5, <2>6 DEF TotalsExact
  <2> QED
    BY <1>2, <2>7 DEF Antlr!TotalsExact
<1> QED
  BY <1>3, DriverInvariance, TotalsAreExact, PTL

\* Of the packets it tried it keeps one wide copy each, of every other object
\* none, whether the parser threw or not.
THEOREM AntlrDeletesObjects ==
  ASSUME IsAntlr
  PROVE  Spec => []Antlr!ObjectsDeleted
<1>1. IInv /\ OnlyCopiesStay => Antlr!ObjectsDeleted
  <2> SUFFICES ASSUME IInv, pc = "read", OnlyCopiesStay
               PROVE  heap = {} /\ leaked = Cardinality({k \in 1..position :
                                              HasParser(capture[k])})
    BY DEF IsAntlr, Antlr!ObjectsDeleted, HasParser, Antlr!Driver!HasParser,
           Antlr!Cardinality, Cardinality
  <2> DEFINE tried == {k \in 1..position : HasParser(capture[k])}
             good == Successes(position)
             bad == Failures(position)
  <2>1. position \in Nat
    BY LenProperties DEF IInv, TypeOK
  <2>2. IsFiniteSet(1..position)
    BY <2>1, FS_Interval
  <2>3. good \in SUBSET (1..position) /\ bad \in SUBSET (1..position)
    BY DEF Successes, Failures
  <2>4. /\ IsFiniteSet(good) /\ IsFiniteSet(bad)
        /\ Cardinality(good) \in Nat /\ Cardinality(bad) \in Nat
    BY <2>2, <2>3, FS_Subset, FS_CardinalityType
  <2>5. tried = good \cup bad /\ good \cap bad = {}
    BY DEF Successes, Failures
  <2>6. Cardinality(good \cup bad)
          = Cardinality(good) + Cardinality(bad) - Cardinality(good \cap bad)
    BY <2>4, FS_Union
  <2>7. Cardinality(good \cap bad) = 0
    BY <2>5, FS_EmptySet
  <2>8. LeftBehind[TRUE] = 1 /\ LeftBehind[FALSE] = 1
    BY DEF IsAntlr, Antlr!WideCopies
  <2>9. heap = {} /\ leaked = LeftBehind[TRUE] * Cardinality(good)
                                + LeftBehind[FALSE] * Cardinality(bad)
    BY DEF OnlyCopiesStay
  <2> HIDE DEF tried, good, bad
  <2>10. leaked = 1 * Cardinality(good) + 1 * Cardinality(bad)
    BY <2>8, <2>9
  <2>11. leaked = Cardinality(tried)
    BY <2>4, <2>5, <2>6, <2>7, <2>10
  <2> QED
    BY <2>9, <2>11 DEF tried
<1> QED
  BY <1>1, DriverInvariance, NothingElseStays, PTL
=============================================================================
