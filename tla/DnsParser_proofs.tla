-------------------------- MODULE DnsParser_proofs --------------------------
(***************************************************************************)
(* The cursor of the DNS parsers is exact for every payload and every      *)
(* grammar.  The delicate steps are those that overwrite one of its parts: *)
(* a substream that is opened must find no other one open, and an          *)
(* alternative that is tried again must find the cursor of the item's      *)
(* start.  Hence the strengthening: what is left to read of an item opens  *)
(* at most one substream, and none while one is open.                      *)
(*                                                                         *)
(* On that rest the other three results: the items tile the message, the   *)
(* verdict is the one of the grammar, and what the grammars have in common *)
(* is accepted by every tool.  The verdict needs the longest argument, in  *)
(* three parts: the grammar read off place by place, the fields of every   *)
(* kind of item compared with it, and the steps of the parser (Decoding).  *)
(***************************************************************************)
EXTENDS DnsParser, SequenceTheorems, WellFoundedInduction, TLAPS

Kinds == {"name", "type", "dataLength", "fixed", "length", "octets", "rest",
          "text", "substream"}

Fields == [kind : Kinds, size : Int]

\* A type may bring a substream with it.
Opening == {"type", "substream"}

Opens(s) == {k \in 1..Len(s) : s[k].kind \in Opening}

OpensOnce(s) == \A j, k \in Opens(s) : j = k

\* What is left to read.
Remains ==
  /\ fields \in Seq(Fields)
  /\ OpensOnce(fields)
  /\ Opens(fields) # {} => outer = 0
  /\ at.alt = 0 => fields = <<>>

IInv ==
  /\ packet \in Packets
  /\ TypeOK
  /\ CursorExact
  /\ Remains
  /\ verdict = "trying ntp" => outer = 0

-----------------------------------------------------------------------------
(***************************************************************************)
(* Lists of fields.                                                        *)
(***************************************************************************)
LEMMA TailOpens ==
  ASSUME NEW s \in Seq(Fields), s # <<>>, OpensOnce(s)
  PROVE  /\ Head(s) \in Fields
         /\ Tail(s) \in Seq(Fields)
         /\ OpensOnce(Tail(s))
         /\ Opens(Tail(s)) # {} => Opens(s) # {}
         /\ Head(s).kind \in Opening => Opens(s) # {} /\ Opens(Tail(s)) = {}
<1>1. /\ Head(s) = s[1] /\ Head(s) \in Fields
      /\ Tail(s) \in Seq(Fields) /\ Len(s) \in Nat /\ Len(s) >= 1
      /\ Len(Tail(s)) = Len(s) - 1
      /\ \A i \in 1..Len(Tail(s)) : Tail(s)[i] = s[i + 1]
  BY HeadTailProperties, LenProperties, EmptySeq
<1>2. \A k \in Opens(Tail(s)) : k \in Nat /\ k >= 1 /\ k + 1 \in Opens(s)
  BY <1>1 DEF Opens
<1>3. OpensOnce(Tail(s))
  BY <1>2 DEF OpensOnce
<1>4. Head(s).kind \in Opening => 1 \in Opens(s)
  BY <1>1 DEF Opens
<1>5. Head(s).kind \in Opening => Opens(Tail(s)) = {}
  BY <1>2, <1>4 DEF OpensOnce
<1> QED
  BY <1>1, <1>2, <1>3, <1>4, <1>5

LEMMA ConcatOpens ==
  ASSUME NEW s \in Seq(Fields), NEW t \in Seq(Fields)
  PROVE  /\ s \o t \in Seq(Fields)
         /\ Opens(s) = {} /\ Opens(t) = {} => Opens(s \o t) = {}
         /\ Opens(s) = {} /\ OpensOnce(t) => OpensOnce(s \o t)
         /\ OpensOnce(s) /\ Opens(t) = {} => OpensOnce(s \o t)
<1>1. /\ Len(s) \in Nat /\ Len(t) \in Nat
      /\ s \o t \in Seq(Fields)
      /\ Len(s \o t) = Len(s) + Len(t)
      /\ \A i \in 1..Len(s) + Len(t) :
           (s \o t)[i] = IF i <= Len(s) THEN s[i] ELSE t[i - Len(s)]
  BY ConcatProperties, LenProperties
<1>2. \A k \in Opens(s \o t) :
        /\ k \in Nat
        /\ k \in Opens(s) \/ (k - Len(s) \in Opens(t))
  BY <1>1 DEF Opens
<1>3. \A k \in Opens(s) \cup Opens(t) : k \in Nat
  BY <1>1 DEF Opens
<1> QED
  BY <1>1, <1>2, <1>3 DEF OpensOnce

\* Fields that bring no substream with them.
Plain == {f \in Fields : f.kind \notin Opening}

LEMMA PlainOpens ==
  ASSUME NEW s \in Seq(Plain)
  PROVE  s \in Seq(Fields) /\ Opens(s) = {} /\ OpensOnce(s)
<1>1. s \in Seq(Fields)
  BY SeqMonotonic DEF Plain
<1>2. \A k \in 1..Len(s) : s[k].kind \notin Opening
  BY ElementOfSeq DEF Plain
<1> QED
  BY <1>1, <1>2 DEF Opens, OpensOnce

LEMMA FixedPlain == \A n \in Int : Fixed(n) \in Plain
BY DEF Fixed, Plain, Fields, Kinds, Opening

LEMMA KindPlain ==
  /\ Kind("name") \in Plain /\ Kind("octets") \in Plain
  /\ Kind("length") \in Plain /\ Kind("dataLength") \in Plain
  /\ Kind("rest") \in Plain /\ Kind("text") \in Plain
BY DEF Kind, Plain, Fields, Kinds, Opening

LEMMA QueryPlain == Query \in Seq(Plain)
<1>1. Kind("name") \in Plain /\ Fixed(4) \in Plain
  BY FixedPlain, KindPlain
<1> QED
  BY <1>1 DEF Query

LEMMA RecordOpens == Record \in Seq(Fields) /\ OpensOnce(Record)
<1> DEFINE first == Kind("name")
           second == Kind("type")
<1>1. first \in Plain /\ first \in Fields /\ second \in Fields
  BY KindPlain DEF Kind, Fields, Kinds, Plain
<1> HIDE DEF first, second
<1>2. Record = <<first, second>>
  BY Zenon DEF Record, first, second
<1>3. <<first, second>> \in Seq(Fields) /\ Opens(<<first, second>>) \subseteq {2}
  BY <1>1 DEF Opens, Plain
<1> QED
  BY <1>2, <1>3 DEF OpensOnce

LEMMA CommonPlain == Common10 \in Seq(Plain)
<1>1. Kind("dataLength") \in Plain /\ Fixed(6) \in Plain
  BY FixedPlain, KindPlain
<1> QED
  BY <1>1 DEF Common10

LEMMA SignedPlain == Signed \in Seq(Plain)
<1>1. Kind("name") \in Plain /\ Kind("rest") \in Plain /\ Fixed(18) \in Plain
  BY FixedPlain, KindPlain
<1> QED
  BY <1>1 DEF Signed

LEMMA TypesKnown == dialect.types = KnownTypes
BY DEF dialect, Dialect, Common

\* A body brings no substream with it, or it begins with the one of RRSIG.
LEMMA BodyPlain ==
  ASSUME NEW t \in KnownTypes
  PROVE  \/ Body(t) \in Seq(Plain)
         \/ Body(t) = <<Kind("substream")>> \o Signed
<1> DEFINE name == Kind("name")
           octets == Kind("octets")
           length == Kind("length")
           rest == Kind("rest")
           text == Kind("text")
<1>1. {name, octets, length, rest, text} \subseteq Plain
  BY KindPlain
<1>2. t \in {A, NS, CNAME, SOA, PTR, MX, TXT, AAAA, OPT, DS, RRSIG, KEY, NSEC3}
  BY DEF KnownTypes, ResourceRecord
<1> HIDE DEF name, octets, length, rest, text
<1>3. CASE t \notin {RRSIG, NSEC3}
  <2> SUFFICES Body(t) \in Seq(Plain)
    OBVIOUS
  <2>1. \/ \E n \in Int : Body(t) = <<Fixed(n)>>
        \/ Body(t) \in {<<name>>, <<text>>, <<rest>>}
        \/ Body(t) = <<name, name, Fixed(20)>>
        \/ Body(t) = <<Fixed(2), name>>
        \/ Body(t) = <<Fixed(4), rest>>
    BY <1>2, <1>3
       DEF Body, name, text, rest, A, NS, CNAME, SOA, PTR, MX, TXT, AAAA, OPT,
           DS, RRSIG, KEY, NSEC3
  <2>2. CASE \E n \in Int : Body(t) = <<Fixed(n)>>
    <3>1. PICK n \in Int : Body(t) = <<Fixed(n)>>
      BY <2>2
    <3>2. \A f \in Plain : <<f>> \in Seq(Plain)
      OBVIOUS
    <3> QED
      BY <3>1, <3>2, FixedPlain
  <2>3. CASE Body(t) \in {<<name>>, <<text>>, <<rest>>}
    <3>1. \A f \in Plain : <<f>> \in Seq(Plain)
      OBVIOUS
    <3> QED
      BY <1>1, <2>3, <3>1
  <2>4. Fixed(20) \in Plain /\ Fixed(2) \in Plain /\ Fixed(4) \in Plain
    BY FixedPlain
  <2>5. CASE Body(t) = <<name, name, Fixed(20)>>
    BY <1>1, <2>4, <2>5
  <2>6. CASE Body(t) = <<Fixed(2), name>>
    BY <1>1, <2>4, <2>6
  <2>7. CASE Body(t) = <<Fixed(4), rest>>
    BY <1>1, <2>4, <2>7
  <2> QED
    BY <2>1, <2>2, <2>3, <2>5, <2>6, <2>7
<1>4. CASE t = RRSIG
  <2> DEFINE substream == Kind("substream")
  <2>1. Body(t) \in {<<substream>> \o Signed, Signed}
    BY <1>4 DEF Body, A, NS, CNAME, SOA, PTR, MX, TXT, AAAA, OPT, DS, RRSIG,
                KEY, NSEC3
  <2> QED
    BY <2>1, SignedPlain
<1>5. CASE t = NSEC3
  <2> DEFINE first == <<Fixed(4), length>>
             salt == IF dialect.salted THEN <<octets>> ELSE <<>>
             last == <<length, octets, Fixed(1), length, octets>>
  <2>1. Body(t) = first \o salt \o last
    BY <1>5 DEF Body, octets, length, A, NS, CNAME, SOA, PTR, MX, TXT, AAAA,
                OPT, DS, RRSIG, KEY, NSEC3
  <2>2. first \in Seq(Plain) /\ salt \in Seq(Plain) /\ last \in Seq(Plain)
    BY <1>1, FixedPlain
  <2> HIDE DEF first, salt, last
  <2>3. first \o salt \o last \in Seq(Plain)
    BY <2>2, ConcatProperties
  <2> QED
    BY <2>1, <2>3
<1> QED
  BY <1>3, <1>4, <1>5

\* No body opens more than one substream.
LEMMA BodyOpens ==
  ASSUME NEW t \in KnownTypes
  PROVE  Body(t) \in Seq(Fields) /\ OpensOnce(Body(t))
<1>1. CASE Body(t) \in Seq(Plain)
  BY <1>1, PlainOpens
<1>2. CASE Body(t) = <<Kind("substream")>> \o Signed
  <2> DEFINE substream == Kind("substream")
  <2>1. substream \in Fields
    BY DEF Kind, Fields, Kinds
  <2> HIDE DEF substream
  <2>2. <<substream>> \in Seq(Fields) /\ Opens(<<substream>>) \subseteq {1}
    BY <2>1 DEF Opens
  <2>3. OpensOnce(<<substream>>)
    BY <2>2 DEF OpensOnce
  <2>4. Body(t) = <<substream>> \o Signed
    BY <1>2 DEF substream
  <2> QED
    BY <2>2, <2>3, <2>4, SignedPlain, PlainOpens, ConcatOpens
<1> QED
  BY <1>1, <1>2, BodyPlain

-----------------------------------------------------------------------------
(***************************************************************************)
(* The cursor and the payload.                                             *)
(***************************************************************************)
Lengths == [dataLength : Nat, start : Nat, length : Byte]

LEMMA PayloadBytes ==
  ASSUME IInv
  PROVE  /\ Len(payload) \in Nat
         /\ \A k \in 1..Len(payload) : payload[k] \in Byte
<1>1. payload \in Seq(Byte)
  BY PacketsAssumption DEF IInv, payload
<1> QED
  BY <1>1, LenProperties, ElementOfSeq

LEMMA CursorFacts ==
  ASSUME IInv
  PROVE  /\ pdu.curPos \in Nat /\ pdu.remaining \in Nat /\ outer \in Nat
         /\ saved.curPos \in Nat /\ saved.remaining \in Nat
         /\ pdu.curPos + pdu.remaining + outer = Len(payload)
         /\ saved.curPos + saved.remaining = Len(payload)
         /\ at.alt = 0 => outer = 0
BY DEF IInv, TypeOK, Cursors, CursorExact

\* A number of two bytes under the cursor, and one byte.
LEMMA NumbersRead ==
  ASSUME IInv
  PROVE  /\ lengthRemaining(1) => Next8(1) \in Byte
         /\ lengthRemaining(2) => U16(payload, pdu.curPos) \in Nat
<1> DEFINE c == pdu.curPos
           r == pdu.remaining
           l == Len(payload)
<1>1. c \in Nat /\ r \in Nat /\ l \in Nat /\ c + r <= l
  <2>1. c \in Nat /\ r \in Nat /\ outer \in Nat /\ l \in Nat /\ c + r + outer = l
    BY CursorFacts, PayloadBytes
  <2> HIDE DEF c, r, l
  <2> QED
    BY <2>1
<1> HIDE DEF c, r, l
<1>2. 1 \in 0..r => c + 1 \in 1..l
  BY <1>1
<1>3. 2 \in 0..r => c + 1 \in 1..l /\ c + 2 \in 1..l
  BY <1>1
<1>4. lengthRemaining(1) => pdu.curPos + 1 \in 1..Len(payload)
  BY <1>2 DEF lengthRemaining, c, r, l
<1>5. lengthRemaining(2) => pdu.curPos + 1 \in 1..Len(payload)
                            /\ pdu.curPos + 2 \in 1..Len(payload)
  BY <1>3 DEF lengthRemaining, c, r, l
<1>6. lengthRemaining(1) => Next8(1) \in Byte
  BY <1>4, PayloadBytes DEF Next8
<1>7. lengthRemaining(2) => payload[pdu.curPos + 1] \in Byte
                            /\ payload[pdu.curPos + 2] \in Byte
  BY <1>5, PayloadBytes
<1>8. \A a, b \in Byte : 256 * a + b \in Nat
  BY DEF Byte
<1> QED
  BY <1>6, <1>7, <1>8 DEF U16

\* A read that was checked, of a field that is not the last of the item.
LEMMA ReadIInv ==
  ASSUME IInv, verdict = "none", fields # <<>>,
         NEW n \in Int, lengthRemaining(n), pdu' = Advance(n),
         UNCHANGED <<tool, packet, outer, counts, at, saved, verdict>>,
         lengths' \in Lengths,
         fields' \in Seq(Fields), OpensOnce(fields'),
         Opens(fields') # {} => outer = 0
  PROVE  IInv'
<1>1. at.alt # 0
  BY DEF IInv, Remains
<1>2. /\ pdu' = [curPos |-> pdu.curPos + n, remaining |-> pdu.remaining - n]
      /\ n \in 0..pdu.remaining
  BY DEF Advance, lengthRemaining
<1>3. payload' = payload
  BY DEF payload
<1>4. TypeOK'
  <2>1. pdu.curPos + n \in Nat /\ pdu.remaining - n \in Nat
    <3>1. pdu.curPos \in Nat /\ pdu.remaining \in Nat
      BY CursorFacts
    <3> QED
      BY <1>2, <3>1
  <2>2. pdu' \in Cursors
    BY <1>2, <2>1 DEF Cursors
  <2> QED
    BY <2>2 DEF IInv, TypeOK, Lengths
<1>5. CursorExact'
  BY <1>1, <1>2, <1>3, CursorFacts, PayloadBytes DEF CursorExact
<1>6. Remains'
  BY <1>1 DEF Remains
<1> QED
  BY <1>4, <1>5, <1>6 DEF IInv

\* What a field's check establishes.
LEMMA FitsRemaining ==
  ASSUME NEW kind, Parsing(kind)
  PROVE  /\ verdict = "none" /\ fields # <<>> /\ Head(fields).kind = kind
         /\ lengthRemaining(Size(Head(fields)))
         /\ kind = "type" => TypeFits
         /\ kind = "name" => WordFits
<1> DEFINE field == Head(fields)
<1> HIDE DEF field
<1>1. verdict = "none" /\ fields # <<>> /\ field.kind = kind /\ Fits(field)
  BY DEF Parsing, field
<1>2. CASE kind = "name"
  BY <1>1, <1>2 DEF Fits, WordFits, Size, field
<1>3. CASE kind = "type"
  BY <1>1, <1>3 DEF Fits, TypeFits, Size, field
<1>4. CASE kind \notin {"name", "type"}
  BY <1>1, <1>4 DEF Fits, field
<1> QED
  BY <1>1, <1>2, <1>3, <1>4 DEF field

\* What is left when the first field is done.
LEMMA TailRemains ==
  ASSUME IInv, fields # <<>>
  PROVE  /\ Tail(fields) \in Seq(Fields) /\ OpensOnce(Tail(fields))
         /\ Opens(Tail(fields)) # {} => outer = 0
         /\ Head(fields).kind \in Opening => outer = 0 /\ Opens(Tail(fields)) = {}
BY TailOpens DEF IInv, Remains

-----------------------------------------------------------------------------
(***************************************************************************)
(* The steps.                                                              *)
(***************************************************************************)
LEMMA InitIInv == Init => IInv
<1> SUFFICES ASSUME Init PROVE IInv
  OBVIOUS
<1>1. payload \in Seq(Byte) /\ packet \in Packets
  BY PacketsAssumption DEF Init, payload
<1>2. Len(payload) \in Nat
  BY <1>1, LenProperties
<1>3. Start \in Cursors /\ Start.curPos = 0 /\ Start.remaining = Len(payload)
  BY <1>2 DEF Start, Cursors
<1>4. TypeOK
  <2>1. counts \in [1..4 -> Nat]
    BY DEF Init
  <2>2. Len(ResourceRecord) = 13
    BY DEF ResourceRecord
  <2> QED
    BY <1>3, <2>1, <2>2 DEF Init, TypeOK, Byte
<1>5. CursorExact
  BY <1>2, <1>3 DEF Init, CursorExact
<1>6. Remains
  BY EmptySeq DEF Init, Remains, Opens, OpensOnce
<1> QED
  BY <1>1, <1>4, <1>5, <1>6 DEF Init, IInv

LEMMA ReadHeaderIInv == IInv /\ ReadHeader => IInv'
<1> SUFFICES ASSUME IInv, ReadHeader PROVE IInv'
  OBVIOUS
<1>1. /\ at.section = 0 /\ lengthRemaining(12) /\ pdu' = Advance(12)
      /\ counts' = [k \in 1..4 |-> U16(payload, 2 + 2 * k)]
      /\ at' = [at EXCEPT !.section = 1] /\ verdict = "none"
      /\ UNCHANGED <<tool, packet, outer, fields, saved, lengths, verdict>>
  BY DEF ReadHeader
<1>2. pdu' = [curPos |-> pdu.curPos + 12, remaining |-> pdu.remaining - 12]
      /\ 12 <= pdu.remaining
  BY <1>1 DEF Advance, lengthRemaining
<1>3. at' \in [section : 0..5, index : Nat, alt : 0..Len(ResourceRecord)]
      /\ at'.alt = at.alt
  <2> DEFINE sections == 0..5
             alternatives == 0..Len(ResourceRecord)
  <2>1. at \in [section : sections, index : Nat, alt : alternatives]
    BY DEF IInv, TypeOK
  <2>2. at \in [section : sections, index : Nat, alt : alternatives] /\ 1 \in sections
    <3>1. 1 \in sections
      OBVIOUS
    <3> QED
      BY <2>1, <3>1
  <2>3. at' = [at EXCEPT !.section = 1]
    BY <1>1
  <2> HIDE DEF sections, alternatives
  <2>4. /\ at' \in [section : sections, index : Nat, alt : alternatives]
        /\ at'.alt = at.alt
    BY <2>2, <2>3
  <2> QED
    BY <2>4 DEF sections, alternatives
<1>4. counts' \in [1..4 -> Nat]
  <2> SUFFICES ASSUME NEW k \in 1..4 PROVE U16(payload, 2 + 2 * k) \in Nat
    BY <1>1
  <2>1. 2 + 2 * k + 1 \in 1..Len(payload) /\ 2 + 2 * k + 2 \in 1..Len(payload)
    <3>1. Len(payload) \in Nat /\ 12 <= Len(payload)
      BY <1>2, CursorFacts, PayloadBytes
    <3>2. 2 + 2 * k + 1 \in 1..12 /\ 2 + 2 * k + 2 \in 1..12
      OBVIOUS
    <3> QED
      BY <3>1, <3>2
  <2>2. payload[2 + 2 * k + 1] \in Byte /\ payload[2 + 2 * k + 2] \in Byte
    BY <2>1, PayloadBytes
  <2>3. \A a, b \in Byte : 256 * a + b \in Nat
    BY DEF Byte
  <2> QED
    BY <2>2, <2>3 DEF U16
<1>5. pdu' \in Cursors /\ payload' = payload
  <2>1. pdu.curPos + 12 \in Nat /\ pdu.remaining - 12 \in Nat
    <3>1. pdu.curPos \in Nat /\ pdu.remaining \in Nat
      BY CursorFacts
    <3> QED
      BY <1>2, <3>1
  <2> QED
    BY <1>1, <1>2, <2>1 DEF Cursors, payload
<1>6. TypeOK'
  BY <1>1, <1>3, <1>4, <1>5 DEF IInv, TypeOK
<1>7. CursorExact'
  <2>1. pdu'.curPos = pdu.curPos + 12 /\ pdu'.remaining = pdu.remaining - 12
    BY <1>2
  <2>2. saved' = saved /\ outer' = outer /\ at'.alt = at.alt
    BY <1>1, <1>3
  <2>3. /\ pdu.curPos \in Nat /\ pdu.remaining \in Nat /\ outer \in Nat
        /\ pdu.curPos + pdu.remaining + outer = Len(payload)
    BY CursorFacts
  <2>4. pdu'.curPos + pdu'.remaining + outer' = Len(payload)
    <3>1. \A c, r, o \in Nat : (c + 12) + (r - 12) + o = c + r + o
      OBVIOUS
    <3>2. (pdu.curPos + 12) + (pdu.remaining - 12) + outer = Len(payload)
      BY <2>3, <3>1
    <3> QED
      BY <2>1, <2>2, <3>2, Zenon
  <2>5. saved.curPos + saved.remaining = Len(payload) /\ (at.alt = 0 => outer = 0)
    BY CursorFacts
  <2> QED
    BY <1>5, <2>2, <2>4, <2>5 DEF CursorExact
<1>8. Remains'
  BY <1>1, <1>3 DEF IInv, Remains
<1> QED
  BY <1>1, <1>6, <1>7, <1>8 DEF IInv

LEMMA StartItemIInv == IInv /\ StartItem => IInv'
<1> SUFFICES ASSUME IInv, StartItem PROVE IInv'
  OBVIOUS
<1>1. /\ at.alt = 0 /\ outer = 0 /\ fields' \in {Query, Record}
      /\ at' = [at EXCEPT !.alt = 1] /\ saved' = pdu /\ verdict = "none"
      /\ UNCHANGED <<tool, packet, pdu, outer, counts, lengths, verdict>>
  BY CursorFacts DEF StartItem
<1>2. at' \in [section : 0..5, index : Nat, alt : 0..Len(ResourceRecord)]
      /\ at'.alt = 1
  <2>1. Len(ResourceRecord) = 13
    BY DEF ResourceRecord
  <2> QED
    BY <1>1, <2>1 DEF IInv, TypeOK
<1>3. TypeOK'
  BY <1>1, <1>2 DEF IInv, TypeOK
<1>4. CursorExact'
  <2>1. payload' = payload
    BY <1>1 DEF payload
  <2> QED
    BY <1>1, <1>2, <2>1, CursorFacts DEF CursorExact
<1>5. fields' \in Seq(Fields) /\ OpensOnce(fields')
  BY <1>1, QueryPlain, PlainOpens, RecordOpens
<1>6. Remains'
  BY <1>1, <1>2, <1>5 DEF Remains
<1> QED
  BY <1>1, <1>3, <1>4, <1>6 DEF IInv

LEMMA NextSectionIInv == IInv /\ NextSection => IInv'
<1> SUFFICES ASSUME IInv, NextSection PROVE IInv'
  OBVIOUS
<1>1. /\ at.section \in 1..4 /\ at.alt = 0
      /\ at' = [section |-> at.section + 1, index |-> 0, alt |-> 0]
      /\ UNCHANGED <<tool, packet, pdu, outer, counts, fields, saved, lengths,
                     verdict>>
  BY DEF NextSection
<1>2. at' \in [section : 0..5, index : Nat, alt : 0..Len(ResourceRecord)]
      /\ at'.alt = at.alt
  <2>1. Len(ResourceRecord) = 13
    BY DEF ResourceRecord
  <2> QED
    BY <1>1, <2>1
<1>3. TypeOK'
  BY <1>1, <1>2 DEF IInv, TypeOK
<1>4. CursorExact' /\ Remains'
  BY <1>1, <1>2 DEF IInv, CursorExact, Remains, payload
<1> QED
  BY <1>1, <1>3, <1>4 DEF IInv

LEMMA ReadWordIInv == IInv /\ ReadWord => IInv'
<1> SUFFICES ASSUME IInv, ReadWord PROVE IInv'
  OBVIOUS
<1>1. verdict = "none" /\ fields # <<>> /\ lengthRemaining(WordLength)
  BY FitsRemaining DEF ReadWord, WordFits
<1>2. WordLength \in Int
  BY <1>1, CursorFacts DEF lengthRemaining
<1>3. /\ pdu' = Advance(WordLength) /\ fields' \in {fields, Tail(fields)}
      /\ UNCHANGED <<tool, packet, outer, counts, at, saved, lengths, verdict>>
  BY DEF ReadWord
<1>4. /\ fields' \in Seq(Fields) /\ OpensOnce(fields')
      /\ Opens(fields') # {} => outer = 0
  BY <1>1, <1>3, TailRemains DEF IInv, Remains
<1>5. lengths' \in Lengths
  BY <1>3 DEF IInv, TypeOK, Lengths
<1> QED
  BY <1>1, <1>2, <1>3, <1>4, <1>5, ReadIInv

LEMMA ReadTypeIInv == IInv /\ ReadType => IInv'
<1> SUFFICES ASSUME IInv, ReadType PROVE IInv'
  OBVIOUS
<1>1. /\ verdict = "none" /\ fields # <<>> /\ Head(fields).kind = "type"
      /\ lengthRemaining(2)
  BY FitsRemaining DEF ReadType, TypeFits
<1>2. /\ pdu' = Advance(2)
      /\ fields' = IF type \in dialect.types THEN Common10 \o Body(type) ELSE <<>>
      /\ UNCHANGED <<tool, packet, outer, counts, at, saved, lengths, verdict>>
  BY DEF ReadType
<1>3. outer = 0
  BY <1>1, TailRemains DEF Opening
<1>4. fields' \in Seq(Fields) /\ OpensOnce(fields')
  <2>1. CASE type \in dialect.types
    BY <1>2, <2>1, TypesKnown, BodyOpens, CommonPlain, PlainOpens, ConcatOpens
  <2>2. <<>> \in Seq(Fields) /\ OpensOnce(<<>>)
    BY EmptySeq DEF Opens, OpensOnce
  <2> QED
    BY <1>2, <2>1, <2>2
<1>5. lengths' \in Lengths
  BY <1>2 DEF IInv, TypeOK, Lengths
<1> QED
  BY <1>1, <1>2, <1>3, <1>4, <1>5, ReadIInv

LEMMA ReadOpaqueIInv == IInv /\ ReadOpaque => IInv'
<1> SUFFICES ASSUME IInv, ReadOpaque PROVE IInv'
  OBVIOUS
<1> DEFINE n == Size(Head(fields))
<1>1. verdict = "none" /\ fields # <<>> /\ lengthRemaining(n)
  BY FitsRemaining DEF ReadOpaque
<1>2. n \in Int
  BY <1>1, CursorFacts DEF lengthRemaining
<1>3. /\ pdu' = Advance(n) /\ fields' = Tail(fields)
      /\ UNCHANGED <<tool, packet, outer, counts, at, saved, lengths, verdict>>
  BY DEF ReadOpaque
<1>4. lengths' \in Lengths
  BY <1>3 DEF IInv, TypeOK, Lengths
<1> HIDE DEF n
<1> QED
  BY <1>1, <1>2, <1>3, <1>4, TailRemains, ReadIInv

LEMMA ReadLengthIInv == IInv /\ ReadLength => IInv'
<1> SUFFICES ASSUME IInv, ReadLength PROVE IInv'
  OBVIOUS
<1>1. /\ verdict = "none" /\ fields # <<>> /\ Head(fields).kind = "length"
      /\ lengthRemaining(Size(Head(fields)))
  BY FitsRemaining DEF ReadLength
<1>2. lengthRemaining(1)
  BY <1>1 DEF Size
<1>3. /\ pdu' = Advance(1) /\ fields' = Tail(fields)
      /\ lengths' = [lengths EXCEPT !.length = Next8(1)]
      /\ UNCHANGED <<tool, packet, outer, counts, at, saved, verdict>>
  BY DEF ReadLength
<1>4. lengths' \in Lengths
  BY <1>2, <1>3, NumbersRead DEF IInv, TypeOK, Lengths
<1> QED
  BY <1>1, <1>2, <1>3, <1>4, TailRemains, ReadIInv

LEMMA ReadDataLengthIInv == IInv /\ ReadDataLength => IInv'
<1> SUFFICES ASSUME IInv, ReadDataLength PROVE IInv'
  OBVIOUS
<1>1. /\ verdict = "none" /\ fields # <<>> /\ Head(fields).kind = "dataLength"
      /\ lengthRemaining(Size(Head(fields)))
  BY FitsRemaining DEF ReadDataLength
<1>2. lengthRemaining(2)
  BY <1>1 DEF Size
<1>3. /\ pdu' = Advance(2) /\ fields' = Tail(fields)
      /\ lengths' = [lengths EXCEPT !.dataLength = U16(payload, pdu.curPos),
                                    !.start = pdu.curPos + 2]
      /\ UNCHANGED <<tool, packet, outer, counts, at, saved, verdict>>
  BY DEF ReadDataLength
<1>4. U16(payload, pdu.curPos) \in Nat /\ pdu.curPos + 2 \in Nat
  BY <1>2, NumbersRead, CursorFacts
<1>5. lengths' \in Lengths
  BY <1>3, <1>4 DEF IInv, TypeOK, Lengths
<1> QED
  BY <1>1, <1>2, <1>3, <1>5, TailRemains, ReadIInv

\* The step that needs the strengthening: outer is overwritten.
LEMMA OpenSubstreamIInv == IInv /\ OpenSubstream => IInv'
<1> SUFFICES ASSUME IInv, OpenSubstream PROVE IInv'
  OBVIOUS
<1>1. /\ verdict = "none" /\ fields # <<>> /\ Head(fields).kind = "substream"
      /\ lengthRemaining(Size(Head(fields)))
  BY FitsRemaining DEF OpenSubstream
<1>2. lengths.dataLength \in 0..pdu.remaining
  BY <1>1 DEF Size, lengthRemaining
<1>3. /\ outer' = pdu.remaining - lengths.dataLength
      /\ pdu' = [pdu EXCEPT !.remaining = lengths.dataLength]
      /\ fields' = Tail(fields)
      /\ UNCHANGED <<tool, packet, counts, at, saved, lengths, verdict>>
  BY DEF OpenSubstream
<1>4. /\ outer = 0 /\ fields' \in Seq(Fields) /\ OpensOnce(fields')
      /\ Opens(fields') = {}
  BY <1>1, <1>3, TailRemains DEF Opening
<1>5. at.alt # 0
  BY <1>1 DEF IInv, Remains
<1>6. /\ pdu' \in Cursors /\ pdu'.curPos = pdu.curPos
      /\ pdu'.remaining = lengths.dataLength
  BY <1>3 DEF IInv, TypeOK, Cursors
<1>7. outer' \in Nat
  BY <1>2, <1>3, CursorFacts
<1>8. TypeOK'
  BY <1>3, <1>6, <1>7 DEF IInv, TypeOK
<1>9. CursorExact'
  <2>1. payload' = payload /\ saved' = saved /\ at' = at
    BY <1>3 DEF payload
  <2>2. pdu'.curPos + pdu'.remaining + outer' = Len(payload)
    BY <1>2, <1>3, <1>4, <1>6, CursorFacts
  <2> QED
    BY <1>5, <2>1, <2>2, CursorFacts DEF CursorExact
<1>10. Remains'
  BY <1>3, <1>4, <1>5 DEF Remains
<1> QED
  BY <1>1, <1>3, <1>8, <1>9, <1>10 DEF IInv

LEMMA EndItemIInv == IInv /\ EndItem => IInv'
<1> SUFFICES ASSUME IInv, EndItem PROVE IInv'
  OBVIOUS
<1>1. /\ at.alt > 0 /\ fields = <<>> /\ verdict = "none" /\ outer' = 0
      /\ pdu' = [pdu EXCEPT !.remaining = @ + outer]
      /\ at' = [at EXCEPT !.index = @ + 1, !.alt = 0]
      /\ UNCHANGED <<tool, packet, counts, fields, saved, lengths, verdict>>
  BY DEF EndItem
<1>2. pdu.remaining + outer \in Nat
  BY CursorFacts
<1>3. /\ pdu' \in Cursors /\ pdu'.curPos = pdu.curPos
      /\ pdu'.remaining = pdu.remaining + outer
  BY <1>1, <1>2 DEF IInv, TypeOK, Cursors
<1>4. at' \in [section : 0..5, index : Nat, alt : 0..Len(ResourceRecord)]
  <2>1. Len(ResourceRecord) = 13
    BY DEF ResourceRecord
  <2>2. at \in [section : 0..5, index : Nat, alt : 0..Len(ResourceRecord)]
    BY DEF IInv, TypeOK
  <2>3. at.index + 1 \in Nat /\ 0 \in 0..Len(ResourceRecord)
    BY <2>1, <2>2
  <2> QED
    BY <1>1, <2>2, <2>3
<1>5. TypeOK'
  BY <1>1, <1>3, <1>4 DEF IInv, TypeOK
<1>6. CursorExact'
  <2>1. payload' = payload /\ saved' = saved
    BY <1>1 DEF payload
  <2>2. pdu'.curPos + pdu'.remaining + outer' = Len(payload)
    BY <1>1, <1>3, CursorFacts
  <2> QED
    BY <1>1, <2>1, <2>2, CursorFacts DEF CursorExact
<1>7. Remains'
  BY <1>1 DEF IInv, Remains
<1> QED
  BY <1>1, <1>5, <1>6, <1>7 DEF IInv

\* The cursor that is put back is the one of the item's start.
LEMMA TryNextIInv == IInv /\ TryNext => IInv'
<1> SUFFICES ASSUME IInv, TryNext PROVE IInv'
  OBVIOUS
<1>1. /\ verdict = "none" /\ fields # <<>> /\ at.alt < Len(ResourceRecord)
      /\ pdu' = saved /\ outer' = 0 /\ fields' = Record
      /\ at' = [at EXCEPT !.alt = @ + 1]
      /\ UNCHANGED <<tool, packet, counts, saved, lengths, verdict>>
  BY DEF TryNext, ItemFails, MoreAlternatives
<1>2. at' \in [section : 0..5, index : Nat, alt : 0..Len(ResourceRecord)]
      /\ at'.alt # 0
  <2>1. Len(ResourceRecord) = 13
    BY DEF ResourceRecord
  <2>2. at \in [section : 0..5, index : Nat, alt : 0..Len(ResourceRecord)]
    BY DEF IInv, TypeOK
  <2>3. at.alt + 1 \in 0..Len(ResourceRecord) /\ at.alt + 1 # 0
    BY <1>1, <2>1, <2>2
  <2> QED
    BY <1>1, <2>2, <2>3
<1>3. TypeOK'
  BY <1>1, <1>2 DEF IInv, TypeOK
<1>4. CursorExact'
  <2>1. payload' = payload /\ saved' = saved
    BY <1>1 DEF payload
  <2> QED
    BY <1>1, <1>2, <2>1, CursorFacts, PayloadBytes DEF CursorExact
<1>5. Remains'
  BY <1>1, <1>2, RecordOpens DEF Remains
<1> QED
  BY <1>1, <1>3, <1>4, <1>5 DEF IInv

LEMMA RestoreIInv == IInv /\ RestoreAndTryNtp => IInv'
<1> SUFFICES ASSUME IInv, RestoreAndTryNtp PROVE IInv'
  OBVIOUS
<1>1. /\ pdu' = Start /\ outer' = 0 /\ verdict' = "trying ntp"
      /\ UNCHANGED <<tool, packet, counts, at, fields, saved, lengths>>
  BY DEF RestoreAndTryNtp
<1>2. Start \in Cursors /\ Start.curPos = 0 /\ Start.remaining = Len(payload)
  BY PayloadBytes DEF Start, Cursors
<1>3. TypeOK'
  BY <1>1, <1>2 DEF IInv, TypeOK
<1>4. CursorExact'
  <2>1. payload' = payload /\ saved' = saved
    BY <1>1 DEF payload
  <2>2. pdu'.curPos + pdu'.remaining + outer' = Len(payload)
    <3>1. pdu'.curPos = 0 /\ pdu'.remaining = Len(payload) /\ outer' = 0
      BY <1>1, <1>2
    <3> QED
      BY <3>1, PayloadBytes
  <2> QED
    BY <1>1, <2>1, <2>2, CursorFacts DEF CursorExact
<1>5. Remains'
  BY <1>1 DEF IInv, Remains
<1> QED
  BY <1>1, <1>3, <1>4, <1>5 DEF IInv

LEMMA TryNtpIInv == IInv /\ TryNtp => IInv'
<1> SUFFICES ASSUME IInv, TryNtp PROVE IInv'
  OBVIOUS
<1>1. /\ verdict = "trying ntp" /\ verdict' \in {"ntp", "reject"}
      /\ pdu' = IF IsNtp(payload, pdu.curPos) THEN Advance(48) ELSE pdu
      /\ UNCHANGED <<tool, packet, outer, counts, at, fields, saved, lengths>>
  BY DEF TryNtp
<1>2. outer = 0
  BY <1>1 DEF IInv
<1>3. pdu' \in Cursors /\ pdu'.curPos + pdu'.remaining = Len(payload)
  <2>1. CASE IsNtp(payload, pdu.curPos)
    <3>1. pdu.remaining \in Nat /\ pdu.curPos \in Nat /\ pdu.curPos + pdu.remaining = Len(payload)
      BY <1>2, CursorFacts
    <3>2. Len(payload) - pdu.curPos >= 48
      BY <2>1 DEF IsNtp
    <3>3. pdu.remaining - 48 \in Nat /\ pdu.curPos + 48 \in Nat
      BY <3>1, <3>2, SMTT(30)
    <3>4. pdu' = [curPos |-> pdu.curPos + 48, remaining |-> pdu.remaining - 48]
      BY <1>1, <2>1 DEF Advance
    <3>5. pdu.curPos + 48 + (pdu.remaining - 48) = Len(payload)
      BY <3>1
    <3> QED
      BY <3>3, <3>4, <3>5 DEF Cursors
  <2>2. CASE ~IsNtp(payload, pdu.curPos)
    <3>1. pdu' = pdu /\ pdu \in Cursors
      BY <1>1, <2>2 DEF IInv, TypeOK
    <3> QED
      BY <1>2, <3>1, CursorFacts
  <2> QED
    BY <2>1, <2>2
<1>4. TypeOK'
  BY <1>1, <1>3 DEF IInv, TypeOK
<1>5. CursorExact'
  <2>1. payload' = payload /\ saved' = saved
    BY <1>1 DEF payload
  <2>2. pdu'.curPos + pdu'.remaining + outer' = Len(payload)
    <3>1. pdu'.curPos \in Nat /\ pdu'.remaining \in Nat /\ outer' = 0
      BY <1>1, <1>2, <1>3 DEF Cursors
    <3> QED
      BY <1>3, <3>1
  <2>3. at'.alt = 0 => outer' = 0
    BY <1>1, <1>2
  <2> QED
    BY <2>1, <2>2, <2>3, CursorFacts DEF CursorExact
<1>6. Remains'
  BY <1>1 DEF IInv, Remains
<1> QED
  BY <1>1, <1>4, <1>5, <1>6 DEF IInv

\* Steps that touch nothing but the verdict, and stuttering.
LEMMA VerdictIInv ==
  ASSUME IInv, verdict' \in {"dns", "reject"} \/ verdict' = verdict,
         UNCHANGED <<tool, packet, pdu, outer, counts, at, fields, saved, lengths>>
  PROVE  IInv'
<1>1. TypeOK'
  BY DEF IInv, TypeOK
<1>2. CursorExact' /\ Remains'
  BY DEF IInv, CursorExact, Remains, payload
<1> QED
  BY <1>1, <1>2 DEF IInv

LEMMA NextIInv == IInv /\ [Next]_vars => IInv'
<1> SUFFICES ASSUME IInv, [Next]_vars PROVE IInv'
  OBVIOUS
<1>1. CASE Reject
  BY <1>1, VerdictIInv DEF Reject
<1>2. CASE Accept
  BY <1>2, VerdictIInv DEF Accept
<1>3. CASE UNCHANGED vars
  BY <1>3, VerdictIInv DEF vars
<1> QED
  BY <1>1, <1>2, <1>3, ReadHeaderIInv, StartItemIInv, NextSectionIInv,
     ReadWordIInv, ReadTypeIInv, ReadOpaqueIInv, ReadLengthIInv,
     ReadDataLengthIInv, OpenSubstreamIInv, EndItemIInv, TryNextIInv,
     RestoreIInv, TryNtpIInv
     DEF Next, Finished

-----------------------------------------------------------------------------
\* The inductive invariant, for every grammar, payload and port.
THEOREM ParserInvariance == Spec => []IInv
<1> QED
  BY InitIInv, NextIInv, PTL DEF Spec

\* The type invariant: lengths and counts are natural numbers read from
\* inside the payload, and the alternatives are those of the grammar.
THEOREM ParserTypeCorrect == Spec => []TypeOK
<1>1. IInv => TypeOK
  BY DEF IInv
<1> QED
  BY <1>1, ParserInvariance, PTL

\* The position, what remains and what lies behind an open substream are the
\* payload in every state, so no read that lengthRemaining allows leaves it.
THEOREM CursorIsExact == Spec => []CursorExact
<1>1. IInv => CursorExact
  BY DEF IInv
<1> QED
  BY <1>1, ParserInvariance, PTL

-----------------------------------------------------------------------------
(***************************************************************************)
(* The items.  While one is read the last entry of items is where it       *)
(* began; the cursor has left that place, or has yet to read a word.       *)
(***************************************************************************)

\* The items that the sections before this one announce.
Earlier(section) ==
  (IF section > 1 THEN counts[1] ELSE 0) + (IF section > 2 THEN counts[2] ELSE 0)
    + (IF section > 3 THEN counts[3] ELSE 0) + (IF section > 4 THEN counts[4] ELSE 0)

NotBegun == at.section = 0 => at.alt = 0 /\ at.index = 0 /\ pdu.curPos = 0

Tiled ==
  at.section > 0 =>
    /\ items \in Seq(Nat) /\ Len(items) = 1 + Earlier(at.section) + at.index
    /\ items[1] = 12
    /\ \A k \in 1..Len(items) - 1 : items[k] < items[k + 1]
    /\ items[Len(items)] = IF at.alt = 0 THEN pdu.curPos ELSE saved.curPos

InSection ==
  /\ at.section > 0 => \A k \in 1..4 : counts[k] = U16(payload, 2 + 2 * k)
  /\ at.section \in 1..4 => at.index <= counts[at.section]
  /\ at.section = 5 => at.alt = 0 /\ at.index = 0

Moved ==
  at.alt > 0 =>
    /\ at.section \in 1..4 /\ at.index < counts[at.section]
    /\ \/ saved.curPos < pdu.curPos
       \/ /\ saved.curPos = pdu.curPos
          /\ fields # <<>> /\ Head(fields).kind = "name"

Tiling ==
  /\ verdict \in {"none", "dns"} => NotBegun /\ Tiled /\ InSection /\ Moved
  /\ verdict = "dns" => at.section = 5 /\ ~LeftOver

LEMMA TilingFacts ==
  ASSUME IInv, Tiling, verdict = "none"
  PROVE  /\ NotBegun /\ Tiled /\ InSection /\ Moved
         /\ at \in [section : 0..5, index : Nat, alt : 0..Len(ResourceRecord)]
         /\ at.section \in 0..5 /\ at.index \in Nat /\ at.alt \in Nat
         /\ counts \in [1..4 -> Nat]
<1>1. Len(ResourceRecord) = 13
  BY DEF ResourceRecord
<1> QED
  BY <1>1 DEF IInv, TypeOK, Tiling

LEMMA InitTiling == Init => Tiling
<1> SUFFICES ASSUME Init PROVE Tiling
  OBVIOUS
<1>1. at.section = 0 /\ at.alt = 0 /\ at.index = 0 /\ pdu.curPos = 0 /\ verdict = "none"
  BY DEF Init, Start
<1> QED
  BY <1>1 DEF Tiling, NotBegun, Tiled, InSection, Moved

\* Whatever is read first of an item moves the cursor.
LEMMA ReadTiling ==
  ASSUME IInv, Tiling, verdict = "none", fields # <<>>,
         pdu'.curPos \in Nat, pdu.curPos <= pdu'.curPos,
         Head(fields).kind = "name" => pdu.curPos < pdu'.curPos,
         UNCHANGED <<tool, packet, counts, at, saved, items, verdict>>
  PROVE  Tiling'
<1>1. /\ NotBegun /\ Tiled /\ InSection /\ Moved
      /\ at.alt > 0 /\ at.section \in 0..5
  BY TilingFacts DEF IInv, Remains
<1>2. /\ saved.curPos < pdu.curPos \/ (saved.curPos = pdu.curPos /\ Head(fields).kind = "name")
      /\ at.section \in 1..4 /\ at.index < counts[at.section]
  BY <1>1 DEF Moved
<1>3. saved.curPos < pdu'.curPos
  BY <1>2, CursorFacts
<1>4. Moved'
  BY <1>2, <1>3 DEF Moved
<1>5. NotBegun' /\ Tiled' /\ InSection'
  BY <1>1, <1>2 DEF NotBegun, Tiled, InSection, Earlier, payload
<1> QED
  BY <1>4, <1>5 DEF Tiling

LEMMA ReadHeaderTiling == IInv /\ Tiling /\ ReadHeader => Tiling'
<1> SUFFICES ASSUME IInv, Tiling, ReadHeader PROVE Tiling'
  OBVIOUS
<1>1. /\ at.section = 0 /\ pdu' = Advance(12) /\ verdict = "none"
      /\ counts' = [k \in 1..4 |-> U16(payload, 2 + 2 * k)]
      /\ at' = [at EXCEPT !.section = 1] /\ items' = <<12>>
      /\ UNCHANGED <<tool, packet, outer, fields, saved, lengths, verdict>>
  BY DEF ReadHeader
<1>2. at.alt = 0 /\ at.index = 0 /\ pdu.curPos = 0
  BY <1>1, TilingFacts DEF NotBegun
<1>3. at'.section = 1 /\ at'.alt = 0 /\ at'.index = 0 /\ pdu'.curPos = 12
  BY <1>1, <1>2, TilingFacts DEF Advance
<1>4. \A k \in 1..4 : counts'[k] = U16(payload, 2 + 2 * k)' /\ counts'[k] = U16(payload, 2 + 2 * k)
  BY <1>1 DEF payload, U16
<1>5. counts'[1] \in Nat
  BY <1>1, ReadHeaderIInv DEF IInv, TypeOK
<1>6. InSection'
  BY <1>3, <1>4, <1>5 DEF InSection
<1>7. Tiled'
  BY <1>1, <1>3 DEF Tiled, Earlier
<1>8. NotBegun' /\ Moved'
  BY <1>3 DEF NotBegun, Moved
<1> QED
  BY <1>1, <1>6, <1>7, <1>8 DEF Tiling

LEMMA StartItemTiling == IInv /\ Tiling /\ StartItem => Tiling'
<1> SUFFICES ASSUME IInv, Tiling, StartItem PROVE Tiling'
  OBVIOUS
<1>1. /\ at.section \in 1..4 /\ at.alt = 0 /\ at.index < counts[at.section]
      /\ fields' \in {Query, Record} /\ at' = [at EXCEPT !.alt = 1] /\ saved' = pdu
      /\ verdict = "none"
      /\ UNCHANGED <<tool, packet, pdu, outer, counts, lengths, items, verdict>>
  BY DEF StartItem
<1>2. at'.section = at.section /\ at'.index = at.index /\ at'.alt = 1
  BY <1>1, TilingFacts
<1>3. fields' # <<>> /\ Head(fields').kind = "name"
  BY <1>1 DEF Query, Record, Kind
<1>4. Moved' /\ NotBegun'
  BY <1>1, <1>2, <1>3 DEF Moved, NotBegun
<1>5. Tiled'
  BY <1>1, <1>2, TilingFacts DEF Tiled, Earlier
<1>6. InSection'
  BY <1>1, <1>2, TilingFacts DEF InSection, payload
<1> QED
  BY <1>1, <1>4, <1>5, <1>6 DEF Tiling

LEMMA NextSectionTiling == IInv /\ Tiling /\ NextSection => Tiling'
<1> SUFFICES ASSUME IInv, Tiling, NextSection PROVE Tiling'
  OBVIOUS
<1>1. /\ at.section \in 1..4 /\ at.alt = 0 /\ at.index = counts[at.section]
      /\ at' = [section |-> at.section + 1, index |-> 0, alt |-> 0]
      /\ verdict = "none"
      /\ UNCHANGED <<tool, packet, pdu, outer, counts, fields, saved, lengths, items, verdict>>
  BY DEF NextSection
<1>2. at'.section = at.section + 1 /\ at'.index = 0 /\ at'.alt = 0 /\ at.section \in Nat
  BY <1>1
<1>3. Earlier(at.section + 1) = Earlier(at.section) + counts[at.section]
  <2>1. /\ counts[1] \in Nat /\ counts[2] \in Nat /\ counts[3] \in Nat /\ counts[4] \in Nat
        /\ at.section \in {1, 2, 3, 4}
    BY <1>1, TilingFacts
  <2>2. ASSUME NEW n \in {1, 2, 3, 4}
        PROVE  Earlier(n + 1) = Earlier(n) + counts[n]
    BY <2>1, <2>2 DEF Earlier
  <2> QED
    BY <2>1, <2>2
<1>4. Earlier(at.section)' = Earlier(at.section + 1)
  BY <1>1, <1>2 DEF Earlier
<1>5. Tiled'
  <2>1. /\ items \in Seq(Nat) /\ Len(items) = 1 + Earlier(at.section) + at.index
        /\ items[1] = 12
        /\ \A k \in 1..Len(items) - 1 : items[k] < items[k + 1]
        /\ items[Len(items)] = pdu.curPos
    BY <1>1, TilingFacts DEF Tiled
  <2>2. Len(items) = 1 + Earlier(at.section + 1) + 0
    <3>1. Len(items) \in Nat /\ counts[at.section] \in Nat
      BY <1>1, <2>1, TilingFacts, LenProperties
    <3>2. Earlier(at.section) \in Int
      <4>1. counts[1] \in Nat /\ counts[2] \in Nat /\ counts[3] \in Nat /\ counts[4] \in Nat
        BY <1>1, TilingFacts
      <4> QED
        BY <4>1 DEF Earlier
    <3> QED
      BY <1>1, <1>3, <2>1, <3>1, <3>2
  <2> QED
    BY <1>1, <1>2, <1>4, <2>1, <2>2 DEF Tiled
<1>6. InSection'
  <2>1. \A k \in 1..4 : counts[k] \in Nat
    BY <1>1, TilingFacts
  <2> QED
    BY <1>1, <1>2, <2>1, TilingFacts DEF InSection, payload
<1>7. NotBegun' /\ Moved'
  BY <1>1, <1>2 DEF NotBegun, Moved
<1> QED
  BY <1>1, <1>5, <1>6, <1>7 DEF Tiling

\* A checked read of n bytes moves the cursor by n.
LEMMA AdvanceMoves ==
  ASSUME IInv, NEW n, lengthRemaining(n)
  PROVE  /\ n \in Nat /\ Advance(n).curPos = pdu.curPos + n
         /\ Advance(n).curPos \in Nat /\ pdu.curPos <= Advance(n).curPos
BY CursorFacts DEF lengthRemaining, Advance

LEMMA ReadsTiling ==
  ASSUME IInv, Tiling,
         ReadWord \/ ReadType \/ ReadOpaque \/ ReadLength \/ ReadDataLength
  PROVE  Tiling'
<1>1. CASE ReadWord
  <2>1. verdict = "none" /\ fields # <<>> /\ lengthRemaining(1) /\ lengthRemaining(WordLength)
    BY <1>1, FitsRemaining DEF ReadWord, WordFits
  <2>2. WordLength \in Nat /\ WordLength > 0
    <3>1. Next8(1) \in Byte
      <4>1. lengthRemaining(1)
        BY <2>1
      <4> QED
        BY <4>1, NumbersRead, Zenon
    <3>2. Next8(1) \in Nat
      BY <3>1 DEF Byte
    <3> QED
      BY <3>2 DEF WordLength
  <2>3. /\ pdu' = Advance(WordLength)
        /\ UNCHANGED <<tool, packet, counts, at, saved, items, verdict>>
    BY <1>1 DEF ReadWord
  <2>4. pdu'.curPos \in Nat /\ pdu.curPos < pdu'.curPos
    BY <2>1, <2>2, <2>3, AdvanceMoves, CursorFacts
  <2> QED
    BY <2>1, <2>3, <2>4, ReadTiling, CursorFacts
<1>2. CASE ReadType \/ ReadOpaque \/ ReadLength \/ ReadDataLength
  <2>1. PICK kind \in Kinds \ {"name"} : Parsing(kind)
    BY <1>2 DEF ReadType, ReadOpaque, ReadLength, ReadDataLength, Kinds
  <2>2. /\ verdict = "none" /\ fields # <<>> /\ Head(fields).kind # "name"
        /\ lengthRemaining(Size(Head(fields)))
    BY <2>1, FitsRemaining
  <2>3. pdu' = Advance(Size(Head(fields)))
    <3>1. CASE ReadType
      <4>1. Head(fields).kind = "type"
        BY <3>1, FitsRemaining DEF ReadType
      <4> QED
        BY <3>1, <4>1 DEF ReadType, Size
    <3>2. CASE ReadOpaque
      BY <3>2 DEF ReadOpaque
    <3>3. CASE ReadLength
      <4>1. Head(fields).kind = "length"
        BY <3>3, FitsRemaining DEF ReadLength
      <4> QED
        BY <3>3, <4>1 DEF ReadLength, Size
    <3>4. CASE ReadDataLength
      <4>1. Head(fields).kind = "dataLength"
        BY <3>4, FitsRemaining DEF ReadDataLength
      <4> QED
        BY <3>4, <4>1 DEF ReadDataLength, Size
    <3> QED
      BY <1>2, <3>1, <3>2, <3>3, <3>4
  <2>4. UNCHANGED <<tool, packet, counts, at, saved, items, verdict>>
    BY <1>2 DEF ReadType, ReadOpaque, ReadLength, ReadDataLength
  <2>5. pdu'.curPos \in Nat /\ pdu.curPos <= pdu'.curPos
    <3> DEFINE n == Size(Head(fields))
    <3> HIDE DEF n
    <3> QED
      BY <2>2, <2>3, AdvanceMoves DEF n
  <2> QED
    BY <2>2, <2>4, <2>5, ReadTiling
<1> QED
  BY <1>1, <1>2

LEMMA OpenSubstreamTiling == IInv /\ Tiling /\ OpenSubstream => Tiling'
<1> SUFFICES ASSUME IInv, Tiling, OpenSubstream PROVE Tiling'
  OBVIOUS
<1>1. verdict = "none" /\ fields # <<>> /\ Head(fields).kind = "substream"
  BY FitsRemaining DEF OpenSubstream
<1>2. /\ pdu' = [pdu EXCEPT !.remaining = lengths.dataLength]
      /\ UNCHANGED <<tool, packet, counts, at, saved, items, verdict>>
  BY DEF OpenSubstream
<1>3. pdu'.curPos = pdu.curPos /\ pdu.curPos \in Nat
  BY <1>2, CursorFacts DEF IInv, TypeOK, Cursors
<1> QED
  BY <1>1, <1>2, <1>3, ReadTiling

LEMMA EndItemTiling == IInv /\ Tiling /\ EndItem => Tiling'
<1> SUFFICES ASSUME IInv, Tiling, EndItem PROVE Tiling'
  OBVIOUS
<1>1. /\ at.alt > 0 /\ fields = <<>> /\ verdict = "none"
      /\ pdu' = [pdu EXCEPT !.remaining = @ + outer]
      /\ items' = Append(items, pdu.curPos)
      /\ at' = [at EXCEPT !.index = @ + 1, !.alt = 0]
      /\ UNCHANGED <<tool, packet, counts, saved, verdict>>
  BY DEF EndItem
<1>2. at'.section = at.section /\ at'.index = at.index + 1 /\ at'.alt = 0
  BY <1>1, TilingFacts
<1>3. pdu'.curPos = pdu.curPos /\ pdu.curPos \in Nat
  BY <1>1, CursorFacts DEF IInv, TypeOK, Cursors
<1>4. /\ at.section \in 1..4 /\ at.index < counts[at.section] /\ counts[at.section] \in Nat
      /\ saved.curPos < pdu.curPos /\ at.index \in Nat
  BY <1>1, TilingFacts DEF Moved
<1>5. /\ items \in Seq(Nat) /\ Len(items) = 1 + Earlier(at.section) + at.index
      /\ items[1] = 12
      /\ \A k \in 1..Len(items) - 1 : items[k] < items[k + 1]
      /\ items[Len(items)] = saved.curPos
  <2>1. Tiled /\ at.section > 0 /\ at.alt # 0
    BY <1>1, <1>4, TilingFacts
  <2> QED
    BY <2>1 DEF Tiled
<1>6. Earlier(at.section) \in Nat
  <2>1. counts[1] \in Nat /\ counts[2] \in Nat /\ counts[3] \in Nat /\ counts[4] \in Nat
    BY <1>1, TilingFacts
  <2> QED
    BY <2>1 DEF Earlier
<1>7. /\ items' \in Seq(Nat) /\ Len(items') = Len(items) + 1
      /\ items'[Len(items) + 1] = pdu.curPos
      /\ \A k \in 1..Len(items) : items'[k] = items[k]
      /\ Len(items) \in Nat
  BY <1>1, <1>3, <1>5, AppendProperties, LenProperties
<1>8. Len(items) >= 1
  BY <1>4, <1>5, <1>6
<1>9. \A k \in 1..Len(items') - 1 : items'[k] < items'[k + 1]
  <2> DEFINE n == Len(items)
  <2> SUFFICES ASSUME NEW k \in 1..n PROVE items'[k] < items'[k + 1]
    BY <1>7
  <2>1. CASE k = n
    BY <1>4, <1>5, <1>7, <2>1
  <2>2. CASE k # n
    <3>1. k \in 1..n - 1 /\ k + 1 \in 1..n
      BY <1>7, <2>2
    <3> QED
      BY <1>5, <1>7, <3>1
  <2> QED
    BY <2>1, <2>2
<1>10. Tiled'
  <2>1. Earlier(at.section)' = Earlier(at.section)
    BY <1>1, <1>2 DEF Earlier
  <2>2. Len(items') = 1 + Earlier(at.section)' + at'.index
    BY <1>2, <1>4, <1>5, <1>6, <1>7, <2>1
  <2>3. items'[1] = 12 /\ items'[Len(items')] = pdu'.curPos
    BY <1>3, <1>5, <1>7, <1>8
  <2> QED
    BY <1>2, <1>7, <1>9, <2>2, <2>3 DEF Tiled
<1>11. InSection'
  BY <1>1, <1>2, <1>4, TilingFacts DEF InSection, payload
<1>12. NotBegun' /\ Moved'
  BY <1>2, <1>4 DEF NotBegun, Moved
<1> QED
  BY <1>1, <1>10, <1>11, <1>12 DEF Tiling

LEMMA TryNextTiling == IInv /\ Tiling /\ TryNext => Tiling'
<1> SUFFICES ASSUME IInv, Tiling, TryNext PROVE Tiling'
  OBVIOUS
<1>1. /\ verdict = "none" /\ fields # <<>> /\ pdu' = saved /\ fields' = Record
      /\ at' = [at EXCEPT !.alt = @ + 1]
      /\ UNCHANGED <<tool, packet, counts, saved, items, verdict>>
  BY DEF TryNext, ItemFails
<1>2. /\ at'.section = at.section /\ at'.index = at.index /\ at'.alt = at.alt + 1
      /\ at.alt > 0
  BY <1>1, TilingFacts DEF IInv, Remains
<1>3. fields' # <<>> /\ Head(fields').kind = "name"
  BY <1>1 DEF Record, Kind
<1>4. at.section \in 1..4 /\ at.index < counts[at.section]
  BY <1>1, <1>2, TilingFacts DEF Moved
<1>5. Moved' /\ NotBegun'
  BY <1>1, <1>2, <1>3, <1>4, TilingFacts DEF Moved, NotBegun
<1>6. Tiled'
  BY <1>1, <1>2, TilingFacts DEF Tiled, Earlier
<1>7. InSection'
  BY <1>1, <1>2, <1>4, TilingFacts DEF InSection, payload
<1> QED
  BY <1>1, <1>5, <1>6, <1>7 DEF Tiling

LEMMA NextTiling == IInv /\ Tiling /\ [Next]_vars => Tiling'
<1> SUFFICES ASSUME IInv, Tiling, [Next]_vars PROVE Tiling'
  OBVIOUS
<1>1. CASE Reject \/ RestoreAndTryNtp \/ TryNtp
  <2>1. verdict' \notin {"none", "dns"}
    BY <1>1 DEF Reject, RestoreAndTryNtp, TryNtp
  <2> QED
    BY <2>1 DEF Tiling
<1>2. ASSUME UNCHANGED <<tool, packet, pdu, outer, counts, at, fields, saved, lengths, items>>
      PROVE  /\ NotBegun' = NotBegun /\ Tiled' = Tiled /\ InSection' = InSection
             /\ Moved' = Moved /\ LeftOver' = LeftOver
  BY <1>2 DEF NotBegun, Tiled, InSection, Moved, Earlier, payload, LeftOver, dialect
<1>3. CASE Accept
  <2>1. /\ verdict = "none" /\ at.section = 5 /\ ~LeftOver
        /\ UNCHANGED <<tool, packet, pdu, outer, counts, at, fields, saved, lengths, items>>
    BY <1>3 DEF Accept
  <2> QED
    BY <1>2, <2>1, TilingFacts DEF Tiling
<1>4. CASE UNCHANGED vars
  <2>1. UNCHANGED <<tool, packet, pdu, outer, counts, at, fields, saved, lengths, items>>
        /\ verdict' = verdict
    BY <1>4 DEF vars
  <2> QED
    BY <1>2, <2>1 DEF Tiling
<1> QED
  BY <1>1, <1>3, <1>4, ReadHeaderTiling, StartItemTiling, NextSectionTiling, ReadsTiling,
     OpenSubstreamTiling, EndItemTiling, TryNextTiling
     DEF Next, Finished

\* An accepted message is the header and its items, each behind the one before
\* it, as many as announced, to the end: no alternative that failed and no
\* substream leaves a byte between two of them or a byte in both.
THEOREM ItemsTileMessage == Spec => []ItemsTile
<1>1. Init => IInv /\ Tiling
  BY InitIInv, InitTiling
<1>2. IInv /\ Tiling /\ [Next]_vars => (IInv /\ Tiling)'
  BY NextIInv, NextTiling
<1>3. IInv /\ Tiling => ItemsTile
  <2> SUFFICES ASSUME IInv, Tiling, verdict = "dns" PROVE ItemsTile
    BY DEF ItemsTile
  <2>1. at.section = 5 /\ ~LeftOver /\ Tiled /\ InSection
    BY DEF Tiling
  <2>2. at.alt = 0 /\ at.index = 0 /\ \A k \in 1..4 : counts[k] = U16(payload, 2 + 2 * k)
    BY <2>1 DEF InSection
  <2>3. /\ items \in Seq(Nat) /\ Len(items) = 1 + Earlier(5)
        /\ items[1] = 12
        /\ \A k \in 1..Len(items) - 1 : items[k] < items[k + 1]
        /\ items[Len(items)] = pdu.curPos
    <3>1. \A k \in 1..4 : counts[k] \in Nat
      BY DEF IInv, TypeOK
    <3>2. Earlier(5) \in Nat
      BY <3>1 DEF Earlier
    <3> QED
      BY <2>1, <2>2, <3>2 DEF Tiled
  <2>4. Len(items) = 1 + U16(payload, 4) + U16(payload, 6) + U16(payload, 8)
                       + U16(payload, 10)
    <3>1. /\ counts[1] = U16(payload, 4) /\ counts[2] = U16(payload, 6)
          /\ counts[3] = U16(payload, 8) /\ counts[4] = U16(payload, 10)
      BY <2>2
    <3>2. Earlier(5) = counts[1] + counts[2] + counts[3] + counts[4]
      BY DEF Earlier
    <3>3. counts[1] \in Nat /\ counts[2] \in Nat /\ counts[3] \in Nat /\ counts[4] \in Nat
      BY DEF IInv, TypeOK
    <3>4. 1 + (counts[1] + counts[2] + counts[3] + counts[4])
            = 1 + counts[1] + counts[2] + counts[3] + counts[4]
      BY <3>3
    <3> QED
      BY <2>3, <3>1, <3>2, <3>4
  <2>5. dialect.allBytes => pdu.curPos = Len(payload)
    BY <2>1, <2>2, CursorFacts DEF LeftOver
  <2> QED
    BY <2>3, <2>4, <2>5 DEF ItemsTile
<1> QED
  BY <1>1, <1>2, <1>3, PTL DEF Spec

-----------------------------------------------------------------------------
(***************************************************************************)
(* The grammar of DnsGrammar without its sets. Every rule of it leaves at  *)
(* most one end behind a given place, so that what the rules say of one    *)
(* place can be compared with what the parser does there.                  *)
(*                                                                         *)
(* The end of a name is defined by a function on the positions of the      *)
(* message that refers to itself at later positions only. That it has a    *)
(* solution is proved once, by the least number of bytes left at which it  *)
(* would have none (WFMin), and from then on a name is read off word by    *)
(* word.                                                                   *)
(***************************************************************************)
\* Induction over a set of numbers, from the least number that is missing.
LEMMA Induction ==
  ASSUME NEW S, 0 \in S, \A n \in Nat : n \in S => n + 1 \in S
  PROVE  Nat \subseteq S
<1> DEFINE R == OpToRel(<, Nat)
           T == Nat \ S
<1> SUFFICES ASSUME T # {} PROVE FALSE
  OBVIOUS
<1>1. PICK x \in T : \A y \in T : <<y, x>> \notin R
  <2> HIDE DEF R
  <2>1. IsWellFoundedOn(R, Nat)
    BY NatLessThanWellFounded DEF R
  <2> QED
    BY <2>1, WFMin
<1>2. \A y \in T : ~(y < x)
  BY <1>1 DEF OpToRel
<1>3. x # 0 /\ x \in Nat
  OBVIOUS
<1>4. x - 1 \in Nat /\ (x - 1) + 1 = x /\ x - 1 < x
  BY <1>3
<1>5. x - 1 \in S
  BY <1>2, <1>4
<1> QED
  BY <1>4, <1>5


\* The words that the grammar d takes, as the parser checks them.
WordLen(b) == IF b >= 192 THEN 2 ELSE 1 + b

WordAt(m, d, p) ==
  /\ p < Len(m)
  /\ m[p + 1] < d.labelLimit \/ m[p + 1] >= 192
  /\ p + WordLen(m[p + 1]) <= Len(m)
  /\ d.utf8 /\ m[p + 1] < 192 => Decodes(m, p + 1, m[p + 1])

EndsName(b) == b = 0 \/ b >= 192

\* n bytes behind one place: one place, or none when they are not there.
LEMMA AfterOne ==
  ASSUME NEW m, Len(m) \in Nat, NEW c \in Nat, NEW n \in Int
  PROVE  /\ n \in 0..Len(m) - c => After(m, {c}, n) = {c + n}
         /\ n \notin 0..Len(m) - c => After(m, {c}, n) = {}
<1>1. n \in 0..Len(m) - c <=> n >= 0 /\ c + n <= Len(m)
  OBVIOUS
<1>2. \A q : q \in After(m, {c}, n) <=> q = c + n /\ n >= 0 /\ q <= Len(m)
  BY DEF After
<1> QED
  BY <1>1, <1>2

LEMMA UnionOne == \A f, x : UNION {f[q] : q \in {x}} = f[x]
OBVIOUS

\* The same for n bytes of text, which must decode as well.
LEMMA TextOne ==
  ASSUME NEW m, Len(m) \in Nat, NEW c \in Nat, NEW n \in Int, NEW d
  PROVE  /\ n \in 0..Len(m) - c /\ (d.utf8 => Decodes(m, c, n))
              => Text(m, {c}, n, d) = {c + n}
         /\ ~(n \in 0..Len(m) - c /\ (d.utf8 => Decodes(m, c, n)))
              => Text(m, {c}, n, d) = {}
<1>1. c + n - n = c
  OBVIOUS
<1>2. \A q : q \in After(m, {c}, n) <=> q = c + n /\ n \in 0..Len(m) - c
  BY AfterOne
<1>3. \A q : q \in Text(m, {c}, n, d)
               <=> q = c + n /\ n \in 0..Len(m) - c /\ (d.utf8 => Decodes(m, c, n))
  <2> SUFFICES ASSUME NEW q
               PROVE  q \in Text(m, {c}, n, d)
                 <=> q = c + n /\ n \in 0..Len(m) - c /\ (d.utf8 => Decodes(m, c, n))
    BY Zenon
  <2>1. q \in Text(m, {c}, n, d)
          <=> q \in After(m, {c}, n) /\ (d.utf8 => Decodes(m, q - n, n))
    BY Zenon DEF Text
  <2>2. CASE q = c + n
    <3>1. q - n = c
      BY <1>1, <2>2
    <3> QED
      BY <1>2, <2>1, <2>2, <3>1, Zenon
  <2>3. CASE q # c + n
    BY <1>2, <2>1, <2>3, Zenon
  <2> QED
    BY <2>2, <2>3, Zenon
<1> QED
  BY <1>3

\* WordThen without the sets.
LEMMA OneWord ==
  ASSUME NEW m \in Seq(Byte), NEW d, d.labelLimit \in 1..192, NEW ends,
         NEW p \in 0..Len(m)
  PROVE  /\ ~WordAt(m, d, p) => WordThen(m, d, ends, p) = {}
         /\ WordAt(m, d, p) /\ EndsName(m[p + 1])
              => WordThen(m, d, ends, p) = {p + WordLen(m[p + 1])}
         /\ WordAt(m, d, p) /\ ~EndsName(m[p + 1])
              => WordThen(m, d, ends, p) = ends[p + WordLen(m[p + 1])]
<1>1. Len(m) \in Nat
  BY LenProperties
<1>2. CASE p = Len(m)
  BY <1>1, <1>2 DEF WordThen, WordAt
<1>3. CASE p # Len(m)
  <2> DEFINE b == m[p + 1]
             limit == d.labelLimit
  <2>1. b \in Byte
    <3>1. p + 1 \in 1..Len(m)
      BY <1>1, <1>3
    <3> QED
      BY <3>1, ElementOfSeq
  <2>2. b \in Nat /\ limit \in 1..192
    <3>1. limit \in 1..192
      OBVIOUS
    <3>2. \A x \in Byte : x \in Nat
      BY DEF Byte
    <3> QED
      BY <2>1, <3>1, <3>2
  <2>3. WordThen(m, d, ends, p)
          = CASE b = 0 -> {p + 1}
              [] b >= 192 -> After(m, {p}, 2)
              [] b \in 1..limit - 1 ->
                   UNION {ends[q] : q \in Text(m, {p + 1}, b, d)}
              [] OTHER -> {}
    BY <1>3 DEF WordThen
  <2>4. WordAt(m, d, p) <=> /\ b < limit \/ b >= 192
                            /\ p + WordLen(b) <= Len(m)
                            /\ d.utf8 /\ b < 192 => Decodes(m, p + 1, b)
    BY <1>1, <1>3 DEF WordAt
  <2> SUFFICES
        /\ ~WordAt(m, d, p) => WordThen(m, d, ends, p) = {}
        /\ WordAt(m, d, p) /\ EndsName(b)
             => WordThen(m, d, ends, p) = {p + WordLen(b)}
        /\ WordAt(m, d, p) /\ ~EndsName(b)
             => WordThen(m, d, ends, p) = ends[p + WordLen(b)]
    OBVIOUS
  <2> HIDE DEF b, limit
  <2>5. CASE b = 0
    <3>1. Decodes(m, p + 1, b)
      BY <2>5, <1>1 DEF Decodes
    <3>2. WordThen(m, d, ends, p) = {p + 1}
      BY <2>3, <2>5
    <3>3. WordLen(b) = 1 /\ EndsName(b)
      BY <2>5 DEF EndsName, WordLen
    <3>4. WordAt(m, d, p)
      BY <1>1, <1>3, <2>2, <2>4, <2>5, <3>1, <3>3
    <3> QED
      BY <3>2, <3>3, <3>4
  <2>6. CASE b >= 192
    <3>1. b # 0 /\ (b \in 1..limit - 1 => b < 192)
      BY <2>2, <2>6
    <3>2. WordThen(m, d, ends, p) = After(m, {p}, 2)
      BY <2>2, <2>3, <2>6, <3>1
    <3>3. WordLen(b) = 2 /\ EndsName(b) /\ ~(b < 192)
      BY <2>2, <2>6 DEF WordLen, EndsName
    <3>4. WordAt(m, d, p) <=> 2 \in 0..Len(m) - p
      BY <1>1, <2>2, <2>4, <2>6, <3>3
    <3> QED
      BY <1>1, <3>2, <3>3, <3>4, AfterOne
  <2>7. CASE b \in 1..limit - 1
    <3>1. b < limit /\ b < 192 /\ b # 0
      BY <2>2, <2>7
    <3>2. WordLen(b) = 1 + b /\ ~EndsName(b)
      BY <2>2, <3>1 DEF WordLen, EndsName
    <3>3. WordThen(m, d, ends, p) = UNION {ends[q] : q \in Text(m, {p + 1}, b, d)}
      BY <2>2, <2>3, <2>7, <3>1
    <3>4. WordAt(m, d, p)
            <=> b \in 0..Len(m) - (p + 1) /\ (d.utf8 => Decodes(m, p + 1, b))
      BY <1>1, <2>2, <2>4, <3>1, <3>2
    <3>5. (p + 1) + b = p + (1 + b) /\ p + 1 \in Nat
      BY <2>2
    <3>6. CASE WordAt(m, d, p)
      <4>1. Text(m, {p + 1}, b, d) = {p + (1 + b)}
        <5> DEFINE c == p + 1
        <5>1. c \in Nat /\ b \in Int /\ c + b = p + (1 + b)
          BY <2>2, <3>5
        <5> HIDE DEF c
        <5>2. Text(m, {c}, b, d) = {c + b}
          BY <1>1, <3>4, <3>6, <5>1, TextOne DEF c
        <5> QED
          BY <5>1, <5>2 DEF c
      <4> QED
        BY <3>2, <3>3, <3>6, <4>1, UnionOne
    <3>7. CASE ~WordAt(m, d, p)
      <4>1. Text(m, {p + 1}, b, d) = {}
        <5>1. b \in Int
          BY <2>2
        <5> QED
          BY <1>1, <3>4, <3>5, <3>7, <5>1, TextOne
      <4> QED
        BY <3>3, <3>7, <4>1
    <3> QED
      BY <3>6, <3>7
  <2>8. CASE ~(b = 0) /\ ~(b >= 192) /\ b \notin 1..limit - 1
    <3>1. WordThen(m, d, ends, p) = {}
      BY <2>3, <2>8
    <3>2. ~(b < limit)
      BY <2>2, <2>8
    <3> QED
      BY <2>4, <2>8, <3>1, <3>2
  <2> QED
    BY <2>5, <2>6, <2>7, <2>8
<1> QED
  BY <1>2, <1>3

\* A word ends behind its beginning and inside the message.
LEMMA WordForward ==
  ASSUME NEW m \in Seq(Byte), NEW d, NEW p \in 0..Len(m), WordAt(m, d, p)
  PROVE  /\ p + WordLen(m[p + 1]) \in p + 1..Len(m)
         /\ WordLen(m[p + 1]) \in Nat /\ m[p + 1] \in Byte
<1>1. Len(m) \in Nat /\ p < Len(m) /\ p + WordLen(m[p + 1]) <= Len(m)
  BY LenProperties DEF WordAt
<1>2. m[p + 1] \in Byte
  <2>1. p + 1 \in 1..Len(m)
    BY <1>1
  <2> QED
    BY <2>1, ElementOfSeq
<1>3. \A b \in Byte : WordLen(b) \in Nat /\ WordLen(b) >= 1
  BY DEF Byte, WordLen
<1> DEFINE n == WordLen(m[p + 1])
<1>4. n \in Nat /\ n >= 1 /\ p + n <= Len(m)
  BY <1>1, <1>2, <1>3
<1> HIDE DEF n
<1>5. p + n \in p + 1..Len(m)
  BY <1>1, <1>4
<1> QED
  BY <1>2, <1>4, <1>5 DEF n

\* Only later positions matter to a word.
LEMMA WordLocal ==
  ASSUME NEW m \in Seq(Byte), NEW d, d.labelLimit \in 1..192, NEW f, NEW g,
         NEW p \in 0..Len(m), \A q \in p + 1..Len(m) : f[q] = g[q]
  PROVE  WordThen(m, d, f, p) = WordThen(m, d, g, p)
<1>1. CASE ~WordAt(m, d, p)
  <2>1. WordThen(m, d, f, p) = {}
    BY <1>1, OneWord
  <2>2. WordThen(m, d, g, p) = {}
    BY <1>1, OneWord
  <2> QED
    BY <2>1, <2>2
<1>2. CASE WordAt(m, d, p)
  <2>1. f[p + WordLen(m[p + 1])] = g[p + WordLen(m[p + 1])]
    BY <1>2, WordForward
  <2> QED
    BY <1>2, <2>1, OneWord
<1> QED
  BY <1>1, <1>2

\* The recursion of NameEnds has a solution, from the end of m on.
LEMMA NameEndsWord ==
  ASSUME NEW m \in Seq(Byte), NEW d, d.labelLimit \in 1..192
  PROVE  NameEnds(m, d) = [p \in 0..Len(m) |-> WordThen(m, d, NameEnds(m, d), p)]
<1> DEFINE L == Len(m)
           From(k, f) == f = [p \in L - k..L |-> WordThen(m, d, f, p)]
           Solved == {k \in Nat : k <= L => \E f : From(k, f)}
<1>1. L \in Nat
  BY LenProperties
<1>2. 0 \in Solved
  <2> DEFINE f == [p \in L - 0..L |-> {}]
  <2>1. \A p \in L - 0..L : WordThen(m, d, f, p) = {}
    <3>1. \A p \in L - 0..L : p = Len(m)
      BY <1>1
    <3> QED
      BY <3>1 DEF WordThen
  <2>2. From(0, f)
    BY <2>1
  <2> QED
    BY <2>2
<1>3. \A k \in Nat : k \in Solved => k + 1 \in Solved
  <2> SUFFICES ASSUME NEW k \in Nat, k \in Solved, k + 1 <= L
               PROVE  \E g : From(k + 1, g)
    OBVIOUS
  <2>1. PICK f : From(k, f)
    BY <1>1
  <2> DEFINE x == L - (k + 1)
             g == [p \in x..L |-> IF p = x THEN WordThen(m, d, f, x) ELSE f[p]]
  <2> HIDE DEF L
  <2>2. x \in 0..L /\ \A p \in x..L : p = x \/ p \in L - k..L
    BY <1>1
  <2>3. \A p \in L - k..L : p \in x..L /\ p # x /\ p \in 0..L
    BY <1>1
  <2>4. \A p \in L - k..L : g[p] = f[p]
    BY <2>3
  <2>5. \A p \in x..L : \A q \in p + 1..L : f[q] = g[q]
    <3>1. \A p \in x..L : \A q \in p + 1..L : q \in L - k..L
      BY <1>1, <2>2
    <3> QED
      BY <2>4, <3>1
  <2>6. \A p \in x..L : WordThen(m, d, f, p) = WordThen(m, d, g, p)
    <3> SUFFICES ASSUME NEW p \in x..L
                 PROVE  WordThen(m, d, f, p) = WordThen(m, d, g, p)
      OBVIOUS
    <3>1. p \in 0..Len(m) /\ \A q \in p + 1..Len(m) : f[q] = g[q]
      BY <1>1, <2>2, <2>5 DEF L
    <3> HIDE DEF g
    <3> QED
      BY <3>1, WordLocal
  <2>7. \A p \in x..L : g[p] = WordThen(m, d, f, p)
    <3>1. \A p \in L - k..L : f[p] = WordThen(m, d, f, p)
      BY <2>1
    <3> QED
      BY <2>2, <2>3, <2>4, <3>1
  <2>8. \A p \in x..L : g[p] = WordThen(m, d, g, p)
    BY <2>6, <2>7
  <2>9. g = [p \in x..L |-> g[p]]
    OBVIOUS
  <2> HIDE DEF g
  <2>10. g = [p \in x..L |-> WordThen(m, d, g, p)]
    BY <2>8, <2>9
  <2> QED
    BY <2>10
<1>4. L \in Solved
  <2> HIDE DEF Solved
  <2> QED
    BY <1>1, <1>2, <1>3, Induction
<1>5. PICK f : From(L, f)
  BY <1>1, <1>4
<1>6. L - L = 0
  BY <1>1
<1>7. \E h : h = [p \in 0..Len(m) |-> WordThen(m, d, h, p)]
  BY <1>5, <1>6
<1>8. NameEnds(m, d) = CHOOSE h : h = [p \in 0..Len(m) |-> WordThen(m, d, h, p)]
  BY DEF NameEnds
<1> QED
  BY <1>7, <1>8

-----------------------------------------------------------------------------
(***************************************************************************)
(* Names and lists. A grammar with longer labels and fewer demands on the  *)
(* text takes every name of the narrower one, and a list with one item     *)
(* more ends where that item does.                                         *)
(***************************************************************************)
\* NameEnds read off word by word.
LEMMA NameWord ==
  ASSUME NEW m \in Seq(Byte), NEW d, d.labelLimit \in 1..192, NEW p \in 0..Len(m)
  PROVE  /\ ~WordAt(m, d, p) => NameEnds(m, d)[p] = {}
         /\ WordAt(m, d, p) /\ EndsName(m[p + 1])
              => NameEnds(m, d)[p] = {p + WordLen(m[p + 1])}
         /\ WordAt(m, d, p) /\ ~EndsName(m[p + 1])
              => NameEnds(m, d)[p] = NameEnds(m, d)[p + WordLen(m[p + 1])]
<1> DEFINE ends == NameEnds(m, d)
<1>1. ends = [q \in 0..Len(m) |-> WordThen(m, d, ends, q)]
  BY NameEndsWord
<1> HIDE DEF ends
<1>2. ends[p] = WordThen(m, d, ends, p)
  BY <1>1
<1> QED
  BY <1>2, OneWord DEF ends

\* A name ends behind the place where it begins.
LEMMA NameAhead ==
  ASSUME NEW m \in Seq(Byte), NEW d, d.labelLimit \in 1..192
  PROVE  \A p \in 0..Len(m) : \A e \in NameEnds(m, d)[p] : e \in p + 1..Len(m)
<1> DEFINE L == Len(m)
           Good(p) == \A e \in NameEnds(m, d)[p] : e \in p + 1..L
           Ahead == {k \in Nat : \A p \in 0..L : p >= L - k => Good(p)}
<1>1. L \in Nat
  BY LenProperties
<1>2. ASSUME NEW p \in 0..L, \A q \in p + 1..L : Good(q)
      PROVE  Good(p)
  <2>1. CASE ~WordAt(m, d, p)
    BY <2>1, NameWord
  <2>2. CASE WordAt(m, d, p)
    <3> DEFINE q == p + WordLen(m[p + 1])
    <3>1. q \in p + 1..L
      BY <2>2, WordForward
    <3>2. NameEnds(m, d)[p] = {q} \/ NameEnds(m, d)[p] = NameEnds(m, d)[q]
      BY <2>2, NameWord
    <3> HIDE DEF q
    <3>3. \A e : e \in q + 1..L => e \in p + 1..L
      BY <1>1, <3>1
    <3> QED
      BY <1>2, <3>1, <3>2, <3>3
  <2> QED
    BY <2>1, <2>2
<1> HIDE DEF Good, L
<1>3. 0 \in Ahead
  <2> SUFFICES ASSUME NEW p \in 0..L, p >= L - 0 PROVE Good(p)
    OBVIOUS
  <2>1. \A q \in p + 1..L : FALSE
    BY <1>1
  <2> QED
    BY <1>2, <2>1
<1>4. \A k \in Nat : k \in Ahead => k + 1 \in Ahead
  <2> SUFFICES ASSUME NEW k \in Nat, k \in Ahead, NEW p \in 0..L, p >= L - (k + 1)
               PROVE  Good(p)
    OBVIOUS
  <2>1. \A q \in p + 1..L : q \in 0..L /\ q >= L - k
    BY <1>1
  <2>2. \A q \in p + 1..L : Good(q)
    BY <2>1
  <2> QED
    BY <1>2, <2>2
<1>5. L \in Ahead
  <2> HIDE DEF Ahead
  <2> QED
    BY <1>1, <1>3, <1>4, Induction
<1>6. \A p \in 0..L : p >= L - L
  BY <1>1
<1> QED
  BY <1>5, <1>6 DEF Good, L

\* A grammar with longer labels and no more demands on text takes more names.
LEMMA NameMono ==
  ASSUME NEW m \in Seq(Byte), NEW d, d.labelLimit \in 1..192,
         NEW e, e.labelLimit \in 1..192, d.labelLimit <= e.labelLimit, e.utf8 => d.utf8
  PROVE  \A p \in 0..Len(m) : NameEnds(m, d)[p] \subseteq NameEnds(m, e)[p]
<1> DEFINE L == Len(m)
           Good(p) == NameEnds(m, d)[p] \subseteq NameEnds(m, e)[p]
           Within == {k \in Nat : \A p \in 0..L : p >= L - k => Good(p)}
<1>1. L \in Nat
  BY LenProperties
<1>2. ASSUME NEW p \in 0..L, \A q \in p + 1..L : Good(q)
      PROVE  Good(p)
  <2>1. CASE ~WordAt(m, d, p)
    BY <2>1, NameWord
  <2>2. CASE WordAt(m, d, p)
    <3> DEFINE q == p + WordLen(m[p + 1])
    <3>1. q \in p + 1..L /\ m[p + 1] \in Byte
      BY <2>2, WordForward
    <3>2. WordAt(m, e, p)
      <4> DEFINE x == d.labelLimit
                 y == e.labelLimit
      <4>1. \A b \in Byte : b < x => b < y
        <5>1. \A i \in 1..192 : i \in Nat
          OBVIOUS
        <5>2. x \in Nat /\ y \in Nat /\ x <= y
          BY <5>1, Zenon
        <5>3. \A b \in Byte : b \in Nat
          BY DEF Byte
        <5> HIDE DEF x, y
        <5> QED
          BY <5>2, <5>3
      <4> QED
        BY <2>2, <3>1, <4>1 DEF WordAt
    <3>3. CASE EndsName(m[p + 1])
      BY <2>2, <3>2, <3>3, NameWord
    <3>4. CASE ~EndsName(m[p + 1])
      <4>1. NameEnds(m, d)[p] = NameEnds(m, d)[q]
        BY <2>2, <3>4, NameWord
      <4>2. NameEnds(m, e)[p] = NameEnds(m, e)[q]
        BY <3>2, <3>4, NameWord
      <4> QED
        BY <1>2, <3>1, <4>1, <4>2
    <3> QED
      BY <3>3, <3>4
  <2> QED
    BY <2>1, <2>2
<1> HIDE DEF Good, L
<1>3. 0 \in Within
  <2> SUFFICES ASSUME NEW p \in 0..L, p >= L - 0 PROVE Good(p)
    OBVIOUS
  <2>1. \A q \in p + 1..L : FALSE
    BY <1>1
  <2> QED
    BY <1>2, <2>1
<1>4. \A k \in Nat : k \in Within => k + 1 \in Within
  <2> SUFFICES ASSUME NEW k \in Nat, k \in Within, NEW p \in 0..L, p >= L - (k + 1)
               PROVE  Good(p)
    OBVIOUS
  <2>1. \A q \in p + 1..L : q \in 0..L /\ q >= L - k
    BY <1>1
  <2>2. \A q \in p + 1..L : Good(q)
    BY <2>1
  <2> QED
    BY <1>2, <2>2
<1>5. L \in Within
  <2> HIDE DEF Within
  <2> QED
    BY <1>1, <1>3, <1>4, Induction
<1>6. \A p \in 0..L : p >= L - L
  BY <1>1
<1> QED
  BY <1>5, <1>6 DEF Good, L

\* f holds where the first, the second, ... the n-th item may end.
Chain(ends, n, S, f) ==
  f = [k \in 0..n |-> IF k = 0 THEN S ELSE UNION {ends[p] : p \in f[k - 1]}]

LEMMA ChainExists ==
  ASSUME NEW ends, NEW S PROVE \A n \in Nat : \E f : Chain(ends, n, S, f)
<1> DEFINE Solved == {n \in Nat : \E f : Chain(ends, n, S, f)}
<1>1. 0 \in Solved
  <2> DEFINE f == [k \in 0..0 |-> S]
  <2>1. \A k \in 0..0 : k = 0
    OBVIOUS
  <2>2. Chain(ends, 0, S, f)
    BY <2>1 DEF Chain
  <2> QED
    BY <2>2
<1>2. \A n \in Nat : n \in Solved => n + 1 \in Solved
  <2> SUFFICES ASSUME NEW n \in Nat, n \in Solved
               PROVE  \E g : Chain(ends, n + 1, S, g)
    OBVIOUS
  <2>1. PICK f : Chain(ends, n, S, f)
    OBVIOUS
  <2> DEFINE next == UNION {ends[p] : p \in f[n]}
             g == [k \in 0..n + 1 |-> IF k = n + 1 THEN next ELSE f[k]]
             Then(h, k) == IF k = 0 THEN S ELSE UNION {ends[p] : p \in h[k - 1]}
  <2>2. \A k \in 0..n + 1 : k \in 0..n \/ k = n + 1
    OBVIOUS
  <2>3. \A k \in 0..n : g[k] = f[k] /\ f[k] = Then(f, k) /\ k # n + 1
    <3>1. f = [k \in 0..n |-> Then(f, k)]
      BY <2>1 DEF Chain
    <3>2. \A k \in 0..n : k \in 0..n + 1 /\ k # n + 1
      OBVIOUS
    <3>3. \A k \in 0..n : g[k] = f[k]
      BY <3>2
    <3> HIDE DEF Then, g
    <3>4. \A k \in 0..n : f[k] = Then(f, k)
      BY <3>1
    <3> QED
      BY <3>2, <3>3, <3>4
  <2>4. \A k \in 0..n : Then(g, k) = Then(f, k)
    <3>1. \A k \in 0..n : k = 0 \/ k - 1 \in 0..n
      OBVIOUS
    <3>2. \A k \in 0..n : k = 0 \/ g[k - 1] = f[k - 1]
      BY <2>3, <3>1
    <3> HIDE DEF g
    <3> QED
      BY <3>2
  <2>5. g[n + 1] = Then(g, n + 1)
    <3>1. g[n + 1] = next /\ n + 1 # 0 /\ g[n] = f[n] /\ (n + 1) - 1 = n
      OBVIOUS
    <3> HIDE DEF g
    <3> QED
      BY <3>1
  <2>6. \A k \in 0..n + 1 : g[k] = Then(g, k)
    <3> HIDE DEF Then, g
    <3> QED
      BY <2>2, <2>3, <2>4, <2>5
  <2>7. g = [k \in 0..n + 1 |-> g[k]]
    OBVIOUS
  <2>8. g = [k \in 0..n + 1 |-> Then(g, k)]
    <3> HIDE DEF Then, g
    <3> QED
      BY <2>6, <2>7
  <2> HIDE DEF g
  <2> QED
    BY <2>8 DEF Chain
<1> QED
  <2> HIDE DEF Solved
  <2>1. Nat \subseteq Solved
    BY <1>1, <1>2, Induction
  <2> QED
    BY <2>1 DEF Solved

LEMMA ChainUnique ==
  ASSUME NEW ends, NEW S, NEW n \in Nat, NEW l \in Nat, n <= l,
         NEW f, Chain(ends, n, S, f), NEW g, Chain(ends, l, S, g)
  PROVE  \A k \in 0..n : f[k] = g[k]
<1> DEFINE Same == {k \in Nat : k <= n => f[k] = g[k]}
<1>1. 0 \in Same
  BY DEF Chain
<1>2. \A k \in Nat : k \in Same => k + 1 \in Same
  <2> SUFFICES ASSUME NEW k \in Nat, k \in Same, k + 1 <= n
               PROVE  f[k + 1] = g[k + 1]
    OBVIOUS
  <2>1. f[k] = g[k] /\ k + 1 \in 0..n /\ k + 1 \in 0..l /\ k + 1 # 0 /\ (k + 1) - 1 = k
    OBVIOUS
  <2>2. f[k + 1] = UNION {ends[p] : p \in f[k]}
    BY <2>1 DEF Chain
  <2>3. g[k + 1] = UNION {ends[p] : p \in g[k]}
    BY <2>1 DEF Chain
  <2> QED
    BY <2>1, <2>2, <2>3
<1> QED
  <2> HIDE DEF Same
  <2>1. Nat \subseteq Same
    BY <1>1, <1>2, Induction
  <2> QED
    BY <2>1 DEF Same

\* A list with one item more ends where that item does.
LEMMA ListUnrolls ==
  ASSUME NEW ends, NEW S
  PROVE  /\ ListEnds(ends, 0, S) = S
         /\ \A n \in Nat : ListEnds(ends, n + 1, S)
                             = UNION {ends[p] : p \in ListEnds(ends, n, S)}
<1> DEFINE At(n) == CHOOSE f : Chain(ends, n, S, f)
<1>1. \A n \in Nat : Chain(ends, n, S, At(n))
  BY ChainExists
<1>2. \A n : ListEnds(ends, n, S) = At(n)[n]
  BY DEF ListEnds, Chain
<1> HIDE DEF At
<1>3. ListEnds(ends, 0, S) = S
  BY <1>1, <1>2 DEF Chain
<1>4. ASSUME NEW n \in Nat
      PROVE  ListEnds(ends, n + 1, S) = UNION {ends[p] : p \in ListEnds(ends, n, S)}
  <2>1. n + 1 \in Nat /\ n + 1 # 0 /\ n + 1 \in 0..n + 1 /\ (n + 1) - 1 = n /\ n <= n + 1
        /\ n \in 0..n
    OBVIOUS
  <2>2. Chain(ends, n, S, At(n)) /\ Chain(ends, n + 1, S, At(n + 1))
    BY <1>1, <2>1
  <2>3. At(n)[n] = At(n + 1)[n]
    BY <2>1, <2>2, ChainUnique
  <2>4. At(n + 1)[n + 1] = UNION {ends[p] : p \in At(n + 1)[n]}
    BY <2>1, <2>2 DEF Chain
  <2> QED
    BY <1>2, <2>3, <2>4
<1> QED
  BY <1>3, <1>4

-----------------------------------------------------------------------------
(***************************************************************************)
(* The data of the records, type by type, and what a wider grammar takes:  *)
(* longer labels, no more demands on text, more types. LanguageMono is     *)
(* what CommonAccepted rests on.                                           *)
(***************************************************************************)
\* Where names that begin in S may end.
NamesEnd(m, d, S) == UNION {NameEnds(m, d)[q] : q \in S}

Salt(m, d, S) == IF d.salted THEN Counted(m, S) ELSE After(m, S, 1)

\* DataEnds type by type.
LEMMA PlainData ==
  ASSUME NEW m, NEW d, NEW p, NEW n
  PROVE  /\ DataEnds(m, d, A, p, n) = After(m, {p}, 4)
         /\ DataEnds(m, d, AAAA, p, n) = After(m, {p}, 16)
         /\ DataEnds(m, d, DS, p, n) = After(m, {p}, 36)
         /\ DataEnds(m, d, OPT, p, n) = After(m, {p}, n)
         /\ DataEnds(m, d, KEY, p, n) = IF n >= 4 THEN After(m, {p}, n) ELSE {}
<1> USE DEF A, NS, CNAME, SOA, PTR, MX, TXT, AAAA, OPT, DS, RRSIG, KEY, NSEC3
<1>1. DataEnds(m, d, A, p, n) = After(m, {p}, 4)
  BY DEF DataEnds
<1>2. DataEnds(m, d, AAAA, p, n) = After(m, {p}, 16)
  BY DEF DataEnds
<1>3. DataEnds(m, d, DS, p, n) = After(m, {p}, 36)
  BY DEF DataEnds
<1>4. DataEnds(m, d, OPT, p, n) = After(m, {p}, n)
  BY DEF DataEnds
<1>5. DataEnds(m, d, KEY, p, n) = IF n >= 4 THEN After(m, {p}, n) ELSE {}
  BY DEF DataEnds
<1> QED
  BY <1>1, <1>2, <1>3, <1>4, <1>5

LEMMA NameData ==
  ASSUME NEW m, NEW d, NEW p, NEW n, NEW t \in {NS, CNAME, PTR}
  PROVE  DataEnds(m, d, t, p, n) = NamesEnd(m, d, {p})
BY DEF DataEnds, NamesEnd, A, NS, CNAME, SOA, PTR, MX, TXT, AAAA, OPT, DS,
       RRSIG, KEY, NSEC3

LEMMA SoaData ==
  ASSUME NEW m, NEW d, NEW p, NEW n
  PROVE  DataEnds(m, d, SOA, p, n)
           = After(m, NamesEnd(m, d, NamesEnd(m, d, {p})), 20)
BY DEF DataEnds, NamesEnd, Salt, A, NS, CNAME, SOA, PTR, MX, TXT, AAAA, OPT, DS,
       RRSIG, KEY, NSEC3

LEMMA MxData ==
  ASSUME NEW m, NEW d, NEW p, NEW n
  PROVE  DataEnds(m, d, MX, p, n)
           = NamesEnd(m, d, After(m, {p}, 2))
BY DEF DataEnds, NamesEnd, Salt, A, NS, CNAME, SOA, PTR, MX, TXT, AAAA, OPT, DS,
       RRSIG, KEY, NSEC3

LEMMA TxtData ==
  ASSUME NEW m, NEW d, NEW p, NEW n
  PROVE  DataEnds(m, d, TXT, p, n)
           = Text(m, {p}, n, d)
BY DEF DataEnds, NamesEnd, Salt, A, NS, CNAME, SOA, PTR, MX, TXT, AAAA, OPT, DS,
       RRSIG, KEY, NSEC3

LEMMA RrsigData ==
  ASSUME NEW m, NEW d, NEW p, NEW n
  PROVE  DataEnds(m, d, RRSIG, p, n)
           = {i \in After(m, {p}, n) : \E j \in NamesEnd(m, d, After(m, {p}, 18)) : j <= i}
BY DEF DataEnds, NamesEnd, Salt, A, NS, CNAME, SOA, PTR, MX, TXT, AAAA, OPT, DS,
       RRSIG, KEY, NSEC3

LEMMA RrsigWithin ==
  \A m, d, p, n : DataEnds(m, d, RRSIG, p, n) \subseteq After(m, {p}, n)
<1> SUFFICES ASSUME NEW m, NEW d, NEW p, NEW n
             PROVE  DataEnds(m, d, RRSIG, p, n) \subseteq After(m, {p}, n)
  OBVIOUS
<1> QED
  BY RrsigData

LEMMA Nsec3Data ==
  ASSUME NEW m, NEW d, NEW p, NEW n
  PROVE  DataEnds(m, d, NSEC3, p, n)
           = Counted(m, After(m, Counted(m, Salt(m, d, After(m, {p}, 4))), 1))
BY DEF DataEnds, NamesEnd, Salt, A, NS, CNAME, SOA, PTR, MX, TXT, AAAA, OPT, DS,
       RRSIG, KEY, NSEC3

LEMMA AfterWithin ==
  ASSUME NEW m, Len(m) \in Nat, NEW S \in SUBSET (0..Len(m)), NEW n \in Int
  PROVE  After(m, S, n) \subseteq 0..Len(m)
<1> SUFFICES ASSUME NEW q \in After(m, S, n) PROVE q \in 0..Len(m)
  OBVIOUS
<1>1. PICK p \in S : q = p + n /\ n >= 0 /\ q <= Len(m)
  BY Zenon DEF After
<1>2. p \in Nat
  OBVIOUS
<1> QED
  BY <1>1, <1>2

LEMMA NamesWithin ==
  ASSUME NEW m \in Seq(Byte), NEW d, d.labelLimit \in 1..192, NEW S \in SUBSET (0..Len(m))
  PROVE  NamesEnd(m, d, S) \subseteq 0..Len(m)
<1> SUFFICES ASSUME NEW p \in 0..Len(m), NEW q \in NameEnds(m, d)[p]
             PROVE  q \in 0..Len(m)
  BY DEF NamesEnd
<1>1. q \in p + 1..Len(m) /\ Len(m) \in Nat
  BY NameAhead, LenProperties
<1> QED
  BY <1>1

LEMMA NamesMono ==
  ASSUME NEW m \in Seq(Byte), NEW d, d.labelLimit \in 1..192,
         NEW e, e.labelLimit \in 1..192, d.labelLimit <= e.labelLimit, e.utf8 => d.utf8,
         NEW S \in SUBSET (0..Len(m)), NEW T, S \subseteq T
  PROVE  NamesEnd(m, d, S) \subseteq NamesEnd(m, e, T)
BY NameMono DEF NamesEnd

LEMMA AfterMono ==
  ASSUME NEW m, NEW S, NEW T, S \subseteq T, NEW n
  PROVE  After(m, S, n) \subseteq After(m, T, n)
BY DEF After

\* A grammar that takes more: longer labels, no more demands on text, more
\* types; NSEC3 is left out, of which the grammars differ.
Wider(d, e) ==
  /\ d.labelLimit \in 1..192 /\ e.labelLimit \in 1..192
  /\ d.labelLimit <= e.labelLimit
  /\ e.utf8 => d.utf8
  /\ d.types \subseteq e.types /\ d.types \subseteq KnownTypes \ {NSEC3}
  /\ d.unknown = "reject" /\ d.allBytes

LEMMA DataMono ==
  ASSUME NEW m \in Seq(Byte), NEW d, NEW e, Wider(d, e), NEW t \in d.types,
         NEW p \in 0..Len(m), NEW n \in Nat
  PROVE  DataEnds(m, d, t, p, n) \subseteq DataEnds(m, e, t, p, n)
<1>1. /\ d.labelLimit \in 1..192 /\ e.labelLimit \in 1..192
      /\ d.labelLimit <= e.labelLimit /\ (e.utf8 => d.utf8)
  BY DEF Wider
<1>2. Len(m) \in Nat /\ {p} \subseteq 0..Len(m)
  BY LenProperties
<1>3. \A S \in SUBSET (0..Len(m)) :
        /\ NamesEnd(m, d, S) \subseteq 0..Len(m)
        /\ \A T : S \subseteq T => NamesEnd(m, d, S) \subseteq NamesEnd(m, e, T)
  BY <1>1, NamesWithin, NamesMono
<1>4. t \in {A, NS, CNAME, SOA, PTR, MX, TXT, AAAA, OPT, DS, RRSIG, KEY}
  BY DEF Wider, KnownTypes, ResourceRecord
<1>5. CASE t \in {A, AAAA, OPT, DS, KEY}
  <2>1. \A g : /\ DataEnds(m, g, A, p, n) = After(m, {p}, 4)
               /\ DataEnds(m, g, AAAA, p, n) = After(m, {p}, 16)
               /\ DataEnds(m, g, DS, p, n) = After(m, {p}, 36)
               /\ DataEnds(m, g, OPT, p, n) = After(m, {p}, n)
               /\ DataEnds(m, g, KEY, p, n) = IF n >= 4 THEN After(m, {p}, n) ELSE {}
    BY PlainData
  <2>2. DataEnds(m, d, t, p, n) = DataEnds(m, e, t, p, n)
    BY <1>5, <2>1
  <2> QED
    BY <2>2
<1>6. CASE t \in {NS, CNAME, PTR}
  <2>1. /\ DataEnds(m, d, t, p, n) = NamesEnd(m, d, {p})
        /\ DataEnds(m, e, t, p, n) = NamesEnd(m, e, {p})
    BY <1>6, NameData, Zenon
  <2>2. NamesEnd(m, d, {p}) \subseteq NamesEnd(m, e, {p})
    BY <1>2, <1>3
  <2> QED
    BY <2>1, <2>2, Zenon
<1>7. CASE t = SOA
  <2>1. /\ DataEnds(m, d, t, p, n) = After(m, NamesEnd(m, d, NamesEnd(m, d, {p})), 20)
        /\ DataEnds(m, e, t, p, n) = After(m, NamesEnd(m, e, NamesEnd(m, e, {p})), 20)
    BY <1>7, SoaData, Zenon
  <2>2. /\ NamesEnd(m, d, {p}) \subseteq NamesEnd(m, e, {p})
        /\ NamesEnd(m, d, {p}) \subseteq 0..Len(m)
    BY <1>2, <1>3
  <2>3. NamesEnd(m, d, NamesEnd(m, d, {p})) \subseteq NamesEnd(m, e, NamesEnd(m, e, {p}))
    BY <1>3, <2>2
  <2> DEFINE X == NamesEnd(m, d, NamesEnd(m, d, {p}))
             Y == NamesEnd(m, e, NamesEnd(m, e, {p}))
  <2>4. After(m, X, 20) \subseteq After(m, Y, 20)
    <3>1. X \subseteq Y
      BY <2>3
    <3> HIDE DEF X, Y
    <3> QED
      BY <3>1, AfterMono
  <2> QED
    BY <2>1, <2>4, Zenon
<1>8. CASE t = MX
  <2>1. /\ DataEnds(m, d, t, p, n) = NamesEnd(m, d, After(m, {p}, 2))
        /\ DataEnds(m, e, t, p, n) = NamesEnd(m, e, After(m, {p}, 2))
    BY <1>8, MxData, Zenon
  <2>2. After(m, {p}, 2) \subseteq 0..Len(m)
    BY <1>2, AfterWithin
  <2>3. NamesEnd(m, d, After(m, {p}, 2)) \subseteq NamesEnd(m, e, After(m, {p}, 2))
    BY <1>3, <2>2
  <2> QED
    BY <2>1, <2>3, Zenon
<1>9. CASE t = TXT
  <2>1. /\ DataEnds(m, d, t, p, n) = Text(m, {p}, n, d)
        /\ DataEnds(m, e, t, p, n) = Text(m, {p}, n, e)
    BY <1>9, TxtData, Zenon
  <2>2. Text(m, {p}, n, d) \subseteq Text(m, {p}, n, e)
    BY <1>1, Zenon DEF Text
  <2> QED
    BY <2>1, <2>2, Zenon
<1>10. CASE t = RRSIG
  <2>1. /\ DataEnds(m, d, t, p, n)
             = {i \in After(m, {p}, n) : \E j \in NamesEnd(m, d, After(m, {p}, 18)) : j <= i}
        /\ DataEnds(m, e, t, p, n)
             = {i \in After(m, {p}, n) : \E j \in NamesEnd(m, e, After(m, {p}, 18)) : j <= i}
    BY <1>10, RrsigData, Zenon
  <2>2. After(m, {p}, 18) \subseteq 0..Len(m)
    BY <1>2, AfterWithin
  <2>3. NamesEnd(m, d, After(m, {p}, 18)) \subseteq NamesEnd(m, e, After(m, {p}, 18))
    BY <1>3, <2>2
  <2> QED
    BY <2>1, <2>3, Zenon
<1> QED
  BY <1>4, <1>5, <1>6, <1>7, <1>8, <1>9, <1>10, Zenon

\* Where the record may end whose type ends at q.
DataFrom(m, d, q) ==
  UNION {DataEnds(m, d, U16(m, q - 2), s, U16(m, s - 2)) : s \in After(m, {q}, 8)}

RecordFrom(m, d, q) ==
  IF U16(m, q - 2) \in d.types THEN DataFrom(m, d, q)
  ELSE IF d.unknown = "skip" THEN {q} ELSE {}

LEMMA RecordIs ==
  ASSUME NEW m, NEW d, NEW p
  PROVE  RecordEnds(m, d, p)
           = UNION {RecordFrom(m, d, q) : q \in After(m, NameEnds(m, d)[p], 2)}
BY DEF RecordEnds, RecordFrom, DataFrom

\* A number of two bytes inside the message.
LEMMA NumberInside ==
  ASSUME NEW m \in Seq(Byte), NEW q \in 0..Len(m), q >= 2
  PROVE  U16(m, q - 2) \in Nat
<1>1. Len(m) \in Nat
  BY LenProperties
<1>2. q - 2 + 1 \in 1..Len(m) /\ q - 2 + 2 \in 1..Len(m)
  BY <1>1
<1>3. m[q - 2 + 1] \in Byte /\ m[q - 2 + 2] \in Byte
  BY <1>2, ElementOfSeq
<1>4. \A a, b \in Byte : 256 * a + b \in Nat
  BY DEF Byte
<1> QED
  BY <1>3, <1>4 DEF U16

LEMMA RecordMono ==
  ASSUME NEW m \in Seq(Byte), NEW d, NEW e, Wider(d, e), NEW p \in 0..Len(m)
  PROVE  RecordEnds(m, d, p) \subseteq RecordEnds(m, e, p)
<1>1. Len(m) \in Nat
  BY LenProperties
<1>2. NameEnds(m, d)[p] \subseteq NameEnds(m, e)[p]
  BY NameMono, Zenon DEF Wider
<1>3. NameEnds(m, d)[p] \subseteq 0..Len(m)
  <2> SUFFICES ASSUME NEW q \in NameEnds(m, d)[p] PROVE q \in 0..Len(m)
    OBVIOUS
  <2>1. q \in p + 1..Len(m)
    BY NameAhead, Zenon DEF Wider
  <2> QED
    BY <1>1, <2>1
<1>4. After(m, NameEnds(m, d)[p], 2) \subseteq After(m, NameEnds(m, e)[p], 2)
  BY <1>2, AfterMono
<1>5. ASSUME NEW q \in After(m, NameEnds(m, d)[p], 2)
      PROVE  RecordFrom(m, d, q) \subseteq RecordFrom(m, e, q)
  <2>1. q \in 0..Len(m) /\ q >= 2
    BY <1>1, <1>3, <1>5 DEF After
  <2>2. CASE U16(m, q - 2) \in d.types
    <3>1. U16(m, q - 2) \in e.types
      BY <2>2, Zenon DEF Wider
    <3>2. ASSUME NEW s \in After(m, {q}, 8)
          PROVE  DataEnds(m, d, U16(m, q - 2), s, U16(m, s - 2))
                   \subseteq DataEnds(m, e, U16(m, q - 2), s, U16(m, s - 2))
      <4>1. s \in 0..Len(m) /\ s >= 2
        BY <1>1, <2>1, <3>2 DEF After
      <4>2. U16(m, s - 2) \in Nat
        BY <4>1, NumberInside
      <4> QED
        BY <2>2, <4>1, <4>2, DataMono
    <3>3. DataFrom(m, d, q) \subseteq DataFrom(m, e, q)
      BY <3>2, Zenon DEF DataFrom
    <3> QED
      BY <2>2, <3>1, <3>3, Zenon DEF RecordFrom
  <2>3. CASE U16(m, q - 2) \notin d.types
    <3>1. d.unknown # "skip"
      BY DEF Wider
    <3> QED
      BY <2>3, <3>1, Zenon DEF RecordFrom
  <2> QED
    BY <2>2, <2>3, Zenon
<1>6. /\ RecordEnds(m, d, p) = UNION {RecordFrom(m, d, q) : q \in After(m, NameEnds(m, d)[p], 2)}
      /\ RecordEnds(m, e, p) = UNION {RecordFrom(m, e, q) : q \in After(m, NameEnds(m, e)[p], 2)}
  BY RecordIs, Zenon
<1> QED
  BY <1>4, <1>5, <1>6, Zenon

LEMMA QueryMono ==
  ASSUME NEW m \in Seq(Byte), NEW d, NEW e, Wider(d, e), NEW p \in 0..Len(m)
  PROVE  QueryEnds(m, d, p) \subseteq QueryEnds(m, e, p)
<1>1. NameEnds(m, d)[p] \subseteq NameEnds(m, e)[p]
  BY NameMono, Zenon DEF Wider
<1> QED
  BY <1>1, AfterMono DEF QueryEnds

\* Where what begins in S may end, when F says where from each place.
Image(F, S) == UNION {F[q] : q \in S}

LEMMA ListMore ==
  ASSUME NEW ends, NEW S, NEW n \in Nat
  PROVE  ListEnds(ends, n + 1, S) = Image(ends, ListEnds(ends, n, S))
<1>1. \A k \in Nat : ListEnds(ends, k + 1, S) = UNION {ends[p] : p \in ListEnds(ends, k, S)}
  BY ListUnrolls
<1>2. ListEnds(ends, n + 1, S) = UNION {ends[p] : p \in ListEnds(ends, n, S)}
  BY <1>1
<1> QED
  BY <1>2 DEF Image

\* Lists keep inclusion, as long as the positions are inside the message.
LEMMA ListMono ==
  ASSUME NEW L \in Nat, NEW f, NEW g,
         \A p \in 0..L : f[p] \subseteq g[p] /\ f[p] \subseteq 0..L,
         NEW S \in SUBSET (0..L), NEW T, S \subseteq T
  PROVE  \A n \in Nat : /\ ListEnds(f, n, S) \subseteq ListEnds(g, n, T)
                        /\ ListEnds(f, n, S) \subseteq 0..L
<1> DEFINE Good == {n \in Nat : /\ ListEnds(f, n, S) \subseteq ListEnds(g, n, T)
                               /\ ListEnds(f, n, S) \subseteq 0..L}
<1>1. 0 \in Good
  <2>1. ListEnds(f, 0, S) = S /\ ListEnds(g, 0, T) = T
    BY ListUnrolls
  <2> QED
    BY <2>1
<1>2. \A n \in Nat : n \in Good => n + 1 \in Good
  <2> SUFFICES ASSUME NEW n \in Nat, n \in Good PROVE n + 1 \in Good
    OBVIOUS
  <2>1. ListEnds(f, n + 1, S) = Image(f, ListEnds(f, n, S))
    BY ListMore
  <2>2. ListEnds(g, n + 1, T) = Image(g, ListEnds(g, n, T))
    BY ListMore
  <2>3. /\ ListEnds(f, n, S) \subseteq ListEnds(g, n, T)
        /\ ListEnds(f, n, S) \subseteq 0..L
    OBVIOUS
  <2> DEFINE X == ListEnds(f, n, S)
             Y == ListEnds(g, n, T)
  <2>4. X \subseteq Y /\ \A p \in X : f[p] \subseteq g[p] /\ f[p] \subseteq 0..L
    BY <2>3
  <2> HIDE DEF X, Y
  <2>5. Image(f, X) \subseteq Image(g, Y)
    BY <2>4 DEF Image
  <2>6. Image(f, X) \subseteq 0..L
    BY <2>4 DEF Image
  <2>7. /\ ListEnds(f, n + 1, S) \subseteq ListEnds(g, n + 1, T)
        /\ ListEnds(f, n + 1, S) \subseteq 0..L
    BY <2>1, <2>5, <2>6, <2>2, Zenon DEF X, Y
  <2> QED
    BY <2>7
<1>3. Nat \subseteq Good
  <2> HIDE DEF Good
  <2> QED
    BY <1>1, <1>2, Induction
<1> QED
  BY <1>3

\* From an empty set a list goes nowhere.
LEMMA ListEmpty ==
  ASSUME NEW f, NEW S, NEW n \in Nat, ListEnds(f, n, S) = {}
  PROVE  \A k \in Nat : ListEnds(f, n + k, S) = {}
<1> DEFINE Good == {k \in Nat : ListEnds(f, n + k, S) = {}}
<1>1. 0 \in Good
  <2>1. n + 0 = n
    OBVIOUS
  <2> QED
    BY <2>1
<1>2. \A k \in Nat : k \in Good => k + 1 \in Good
  <2> SUFFICES ASSUME NEW k \in Nat, ListEnds(f, n + k, S) = {}
               PROVE  ListEnds(f, n + (k + 1), S) = {}
    OBVIOUS
  <2>1. n + (k + 1) = (n + k) + 1 /\ n + k \in Nat
    OBVIOUS
  <2>2. ListEnds(f, (n + k) + 1, S) = Image(f, ListEnds(f, n + k, S))
    BY <2>1, ListMore
  <2> QED
    BY <2>1, <2>2 DEF Image
<1>3. Nat \subseteq Good
  <2> HIDE DEF Good
  <2> QED
    BY <1>1, <1>2, Induction
<1> QED
  BY <1>3

LEMMA QueryWithin ==
  ASSUME NEW m \in Seq(Byte), NEW d, d.labelLimit \in 1..192, NEW p \in 0..Len(m)
  PROVE  NameEnds(m, d)[p] \subseteq 0..Len(m) /\ QueryEnds(m, d, p) \subseteq 0..Len(m)
<1>1. Len(m) \in Nat
  BY LenProperties
<1>2. NameEnds(m, d)[p] \subseteq 0..Len(m)
  <2> SUFFICES ASSUME NEW q \in NameEnds(m, d)[p] PROVE q \in 0..Len(m)
    OBVIOUS
  <2>1. q \in p + 1..Len(m)
    BY NameAhead
  <2> QED
    BY <1>1, <2>1
<1> QED
  BY <1>1, <1>2, AfterWithin DEF QueryEnds

LEMMA RecordWithin ==
  ASSUME NEW m \in Seq(Byte), NEW d, NEW e, Wider(d, e), NEW p \in 0..Len(m)
  PROVE  RecordEnds(m, d, p) \subseteq 0..Len(m)
<1>1. Len(m) \in Nat /\ d.labelLimit \in 1..192 /\ d.unknown # "skip"
  BY LenProperties DEF Wider
<1>2. \A q : q \in After(m, NameEnds(m, d)[p], 2) => q \in 0..Len(m) /\ q >= 2
  BY <1>1, QueryWithin DEF After
<1> SUFFICES ASSUME NEW q \in After(m, NameEnds(m, d)[p], 2),
                    U16(m, q - 2) \in d.types, NEW s \in After(m, {q}, 8)
             PROVE  DataEnds(m, d, U16(m, q - 2), s, U16(m, s - 2)) \subseteq 0..Len(m)
  <2> SUFFICES ASSUME NEW q \in After(m, NameEnds(m, d)[p], 2)
               PROVE  RecordFrom(m, d, q) \subseteq 0..Len(m)
    BY RecordIs, Zenon
  <2>1. RecordFrom(m, d, q) = IF U16(m, q - 2) \in d.types THEN DataFrom(m, d, q) ELSE {}
    BY <1>1 DEF RecordFrom
  <2> QED
    BY <2>1 DEF DataFrom
<1> DEFINE t == U16(m, q - 2)
           n == U16(m, s - 2)
<1>3. s \in 0..Len(m) /\ s >= 2
  BY <1>1, <1>2 DEF After
<1>4. n \in Nat
  BY <1>3, NumberInside
<1>5. t \in {A, NS, CNAME, SOA, PTR, MX, TXT, AAAA, OPT, DS, RRSIG, KEY}
  BY DEF Wider, KnownTypes, ResourceRecord
<1> HIDE DEF t, n
<1>6. \A i \in Nat : After(m, {s}, i) \subseteq 0..Len(m)
  BY <1>1, <1>3, AfterWithin
<1>7. \A S \in SUBSET (0..Len(m)) : NamesEnd(m, d, S) \subseteq 0..Len(m)
  BY <1>1, NamesWithin
<1>8. DataEnds(m, d, t, s, n) \subseteq 0..Len(m)
  <2>1. CASE t \in {A, AAAA, OPT, DS, KEY}
    <3>1. \A g : /\ DataEnds(m, d, A, s, n) = After(m, {s}, 4)
                 /\ DataEnds(m, d, AAAA, s, n) = After(m, {s}, 16)
                 /\ DataEnds(m, d, DS, s, n) = After(m, {s}, 36)
                 /\ DataEnds(m, d, OPT, s, n) = After(m, {s}, n)
                 /\ DataEnds(m, d, KEY, s, n) = IF n >= 4 THEN After(m, {s}, n) ELSE {}
      BY PlainData
    <3> QED
      BY <1>4, <1>6, <2>1, <3>1
  <2>2. CASE t \in {NS, CNAME, PTR}
    <3>1. DataEnds(m, d, t, s, n) = NamesEnd(m, d, {s})
      BY <2>2, NameData, Zenon
    <3>2. {s} \subseteq 0..Len(m)
      BY <1>3
    <3> QED
      BY <1>7, <3>1, <3>2
  <2>3. CASE t = SOA
    <3>1. DataEnds(m, d, t, s, n) = After(m, NamesEnd(m, d, NamesEnd(m, d, {s})), 20)
      BY <2>3, SoaData, Zenon
    <3>2. {s} \subseteq 0..Len(m)
      BY <1>3
    <3> DEFINE X == NamesEnd(m, d, NamesEnd(m, d, {s}))
    <3>3. X \in SUBSET (0..Len(m))
      BY <1>7, <3>2
    <3> HIDE DEF X
    <3>4. After(m, X, 20) \subseteq 0..Len(m)
      BY <1>1, <3>3, AfterWithin
    <3> QED
      BY <3>1, <3>4, Zenon DEF X
  <2>4. CASE t = MX
    <3>1. DataEnds(m, d, t, s, n) = NamesEnd(m, d, After(m, {s}, 2))
      BY <2>4, MxData, Zenon
    <3> QED
      BY <1>6, <1>7, <3>1
  <2>5. CASE t = TXT
    <3>1. DataEnds(m, d, t, s, n) = Text(m, {s}, n, d)
      BY <2>5, TxtData, Zenon
    <3>2. Text(m, {s}, n, d) \subseteq After(m, {s}, n)
      BY DEF Text
    <3> QED
      BY <1>4, <1>6, <3>1, <3>2
  <2>6. CASE t = RRSIG
    <3>1. DataEnds(m, d, RRSIG, s, n) \subseteq After(m, {s}, n)
      BY RrsigWithin
    <3>2. DataEnds(m, d, t, s, n) \subseteq After(m, {s}, n)
      BY <2>6, <3>1, Zenon
    <3> QED
      BY <1>4, <1>6, <3>2
  <2> QED
    BY <1>5, <2>1, <2>2, <2>3, <2>4, <2>5, <2>6, Zenon
<1> QED
  BY <1>8 DEF t, n

\* The counts of the header are numbers.
LEMMA CountsInside ==
  ASSUME NEW m \in Seq(Byte), Len(m) >= 12
  PROVE  \A k \in {4, 6, 8, 10} : U16(m, k) \in Nat
<1> SUFFICES ASSUME NEW k \in {4, 6, 8, 10} PROVE U16(m, k) \in Nat
  OBVIOUS
<1>1. Len(m) \in Nat
  BY LenProperties
<1>2. k + 2 \in 0..Len(m) /\ k + 2 >= 2 /\ (k + 2) - 2 = k
  BY <1>1
<1>3. U16(m, (k + 2) - 2) \in Nat
  BY <1>2, NumberInside, Zenon
<1> QED
  BY <1>2, <1>3, Zenon

\* A wider grammar has more messages.
LEMMA LanguageMono ==
  ASSUME NEW m \in Seq(Byte), NEW d, NEW e, Wider(d, e), InLanguage(m, d)
  PROVE  InLanguage(m, e)
<1> DEFINE n == U16(m, 4)
           k == U16(m, 6) + U16(m, 8) + U16(m, 10)
<1>1. Len(m) \in Nat /\ Len(m) >= 12 /\ d.labelLimit \in 1..192
  BY LenProperties, Zenon DEF InLanguage, Wider
<1>2. n \in Nat /\ k \in Nat
  <2>1. U16(m, 4) \in Nat /\ U16(m, 6) \in Nat /\ U16(m, 8) \in Nat /\ U16(m, 10) \in Nat
    BY <1>1, CountsInside
  <2> QED
    BY <2>1
<1> HIDE DEF n, k
<1>3. \A p \in 0..Len(m) : /\ Queries(m, d)[p] \subseteq Queries(m, e)[p]
                           /\ Queries(m, d)[p] \subseteq 0..Len(m)
                           /\ Records(m, d)[p] \subseteq Records(m, e)[p]
                           /\ Records(m, d)[p] \subseteq 0..Len(m)
  <2> TAKE p \in 0..Len(m)
  <2>1. /\ Queries(m, d)[p] = QueryEnds(m, d, p) /\ Queries(m, e)[p] = QueryEnds(m, e, p)
        /\ Records(m, d)[p] = RecordEnds(m, d, p) /\ Records(m, e)[p] = RecordEnds(m, e, p)
    BY Zenon DEF Queries, Records
  <2>2. QueryEnds(m, d, p) \subseteq QueryEnds(m, e, p)
    BY QueryMono
  <2>3. QueryEnds(m, d, p) \subseteq 0..Len(m)
    BY <1>1, QueryWithin
  <2>4. RecordEnds(m, d, p) \subseteq RecordEnds(m, e, p)
    BY RecordMono
  <2>5. RecordEnds(m, d, p) \subseteq 0..Len(m)
    BY RecordWithin
  <2> QED
    BY <2>1, <2>2, <2>3, <2>4, <2>5, Zenon
<1> DEFINE qd == Queries(m, d)
           qe == Queries(m, e)
           rd == Records(m, d)
           re == Records(m, e)
           L == Len(m)
<1>4. \A p \in 0..L : /\ qd[p] \subseteq qe[p] /\ qd[p] \subseteq 0..L
                      /\ rd[p] \subseteq re[p] /\ rd[p] \subseteq 0..L
  BY <1>3
<1> DEFINE S == {12}
<1>5. L \in Nat /\ S \in SUBSET (0..L) /\ S \subseteq S
  BY <1>1
<1>6. /\ Ends(m, d) = ListEnds(rd, k, ListEnds(qd, n, {12}))
      /\ Ends(m, e) = ListEnds(re, k, ListEnds(qe, n, {12}))
  BY Zenon DEF Ends, n, k
<1> HIDE DEF qd, qe, rd, re, L, S
<1>7. \A i \in Nat : /\ ListEnds(qd, i, S) \subseteq ListEnds(qe, i, S)
                    /\ ListEnds(qd, i, S) \subseteq 0..L
  BY <1>4, <1>5, ListMono
<1> DEFINE X == ListEnds(qd, n, S)
           Y == ListEnds(qe, n, S)
<1>8. X \subseteq Y /\ X \in SUBSET (0..L)
  BY <1>2, <1>7
<1> HIDE DEF X, Y
<1>9. \A i \in Nat : ListEnds(rd, i, X) \subseteq ListEnds(re, i, Y)
  BY <1>4, <1>5, <1>8, ListMono
<1>10. Ends(m, d) \subseteq Ends(m, e)
  BY <1>2, <1>6, <1>9, Zenon DEF X, Y, S
<1>11. Len(m) \in Ends(m, d)
  BY Zenon DEF InLanguage, Wider
<1> QED
  BY <1>1, <1>10, <1>11 DEF InLanguage

-----------------------------------------------------------------------------
(***************************************************************************)
(* Lists of fields as the parser reads them. A reader is what of the       *)
(* cursor the bytes ahead depend on: where it is, where the bytes end, and *)
(* the lengths read so far. Exact says of a list of fields that a reader   *)
(* which begins at c ends where F[c] says, whatever it has read before.    *)
(* Every field of a body has its lemma, then every body its own.           *)
(***************************************************************************)
\* The bytes a field takes, other than a name.
Width(f, x) ==
  CASE f.kind = "dataLength" -> 2
    [] f.kind = "fixed" -> f.size
    [] f.kind = "length" -> 1
    [] f.kind = "octets" -> x.length
    [] f.kind \in {"rest", "text"} -> x.dataLength - (x.cur - x.start)
    [] f.kind = "substream" -> x.dataLength

Passes(m, d, f, x) ==
  /\ Width(f, x) \in 0..x.limit - x.cur
  /\ f.kind = "text" /\ d.utf8 => Decodes(m, x.cur, Width(f, x))

\* The reader behind a field that fits.
Behind(m, f, x) ==
  CASE f.kind = "dataLength" ->
         [x EXCEPT !.cur = @ + 2, !.dataLength = U16(m, x.cur), !.start = x.cur + 2]
    [] f.kind = "length" -> [x EXCEPT !.cur = @ + 1, !.length = m[x.cur + 1]]
    [] f.kind = "substream" -> [x EXCEPT !.limit = x.cur + x.dataLength]
    [] OTHER -> [x EXCEPT !.cur = @ + Width(f, x)]

\* Where the reader may be behind a field.
Take(m, d, f, x) ==
  IF f.kind = "name"
  THEN {[x EXCEPT !.cur = q] : q \in {e \in NameEnds(m, d)[x.cur] : e <= x.limit}}
  ELSE IF Passes(m, d, f, x) THEN {Behind(m, f, x)} ELSE {}

\* Readers one behind the other, one field between each and the next.
Run(m, d, s, x, run) ==
  /\ run = [k \in 1..Len(s) + 1 |-> run[k]]
  /\ run[1] = x
  /\ \A k \in 1..Len(s) : run[k + 1] \in Take(m, d, s[k], run[k])

\* Where a reader at x may end when it reads the fields s.
EndsFrom(m, d, s, x) ==
  {q \in Nat : \E run : Run(m, d, s, x, run) /\ q = run[Len(s) + 1].cur}

LEMMA NothingLeft ==
  ASSUME NEW m, NEW d, NEW x, x.cur \in Nat
  PROVE  EndsFrom(m, d, <<>>, x) = {x.cur}
<1> DEFINE one == [k \in 1..1 |-> x]
<1>1. Len(<<>>) = 0 /\ 0 + 1 = 1 /\ 1..0 = {}
  OBVIOUS
<1>2. Run(m, d, <<>>, x, one) /\ one[1] = x
  BY <1>1 DEF Run
<1> HIDE DEF one
<1>3. \A run : Run(m, d, <<>>, x, run) => run[1] = x
  BY DEF Run
<1>4. \A q : q \in EndsFrom(m, d, <<>>, x)
               <=> q \in Nat /\ \E run : Run(m, d, <<>>, x, run) /\ q = run[1].cur
  BY <1>1 DEF EndsFrom
<1>5. \A q : q \in EndsFrom(m, d, <<>>, x) <=> q = x.cur
  BY <1>2, <1>3, <1>4
<1> QED
  BY <1>5

\* The first field, then the rest.
LEMMA FieldByField ==
  ASSUME NEW m, NEW d, NEW x, NEW s \in Seq(Fields), s # <<>>
  PROVE  EndsFrom(m, d, s, x)
           = UNION {EndsFrom(m, d, Tail(s), y) : y \in Take(m, d, Head(s), x)}
<1> DEFINE n == Len(s)
           t == Tail(s)
<1>1. /\ n \in Nat /\ n >= 1 /\ Len(t) = n - 1 /\ Head(s) = s[1]
      /\ \A i \in 1..n - 1 : t[i] = s[i + 1]
  BY HeadTailProperties, LenProperties, EmptySeq
<1> HIDE DEF n, t
<1>2. \A y, run : Run(m, d, t, y, run)
        <=> /\ run = [k \in 1..n |-> run[k]] /\ run[1] = y
            /\ \A k \in 1..n - 1 : run[k + 1] \in Take(m, d, s[k + 1], run[k])
  <2> TAKE y, run
  <2>1. Len(t) + 1 = n
    BY <1>1
  <2>2. (\A k \in 1..Len(t) : run[k + 1] \in Take(m, d, t[k], run[k]))
          <=> \A k \in 1..n - 1 : run[k + 1] \in Take(m, d, s[k + 1], run[k])
    BY <1>1
  <2> QED
    BY <2>1, <2>2, Zenon DEF Run
<1>3. \A run : Run(m, d, s, x, run)
        <=> /\ run = [k \in 1..n + 1 |-> run[k]] /\ run[1] = x
            /\ \A k \in 1..n : run[k + 1] \in Take(m, d, s[k], run[k])
  BY DEF Run, n
<1>4. ASSUME NEW run, Run(m, d, s, x, run)
      PROVE  \E y \in Take(m, d, Head(s), x) : \E rest :
               Run(m, d, t, y, rest) /\ rest[n] = run[n + 1]
  <2> DEFINE y == run[2]
             rest == [k \in 1..n |-> run[k + 1]]
  <2>1. y \in Take(m, d, Head(s), x)
    <3>1. 1 \in 1..n /\ 1 + 1 = 2
      BY <1>1
    <3>2. run[1] = x /\ \A k \in 1..n : run[k + 1] \in Take(m, d, s[k], run[k])
      BY <1>3, <1>4, Zenon
    <3>3. run[1 + 1] \in Take(m, d, s[1], run[1])
      BY <3>1, <3>2, Zenon
    <3> QED
      BY <1>1, <3>1, <3>2, <3>3, Zenon
  <2>2. \A k \in 1..n : rest[k] = run[k + 1]
    OBVIOUS
  <2>3. rest = [k \in 1..n |-> rest[k]]
    OBVIOUS
  <2> HIDE DEF rest
  <2>4. rest[1] = y /\ rest[n] = run[n + 1]
    BY <1>1, <2>2
  <2>5. \A k \in 1..n - 1 : rest[k + 1] \in Take(m, d, s[k + 1], rest[k])
    <3> SUFFICES ASSUME NEW k \in 1..n - 1
                 PROVE  rest[k + 1] \in Take(m, d, s[k + 1], rest[k])
      OBVIOUS
    <3>1. k \in 1..n /\ k + 1 \in 1..n
      BY <1>1
    <3>2. run[(k + 1) + 1] \in Take(m, d, s[k + 1], run[k + 1])
      BY <1>3, <1>4, <3>1, Zenon
    <3>3. rest[k] = run[k + 1] /\ rest[k + 1] = run[(k + 1) + 1]
      BY <2>2, <3>1, Zenon
    <3> QED
      BY <3>2, <3>3, Zenon
  <2> HIDE DEF y
  <2> QED
    BY <1>2, <2>1, <2>3, <2>4, <2>5
<1>5. ASSUME NEW y \in Take(m, d, Head(s), x), NEW rest, Run(m, d, t, y, rest)
      PROVE  \E run : Run(m, d, s, x, run) /\ run[n + 1] = rest[n]
  <2> DEFINE run == [k \in 1..n + 1 |-> IF k = 1 THEN x ELSE rest[k - 1]]
  <2>1. run[1] = x /\ \A k \in 1..n : run[k + 1] = rest[k]
    BY <1>1
  <2>2. run = [k \in 1..n + 1 |-> run[k]]
    OBVIOUS
  <2> HIDE DEF run
  <2>3. \A k \in 1..n : run[k + 1] \in Take(m, d, s[k], run[k])
    <3> SUFFICES ASSUME NEW k \in 1..n PROVE run[k + 1] \in Take(m, d, s[k], run[k])
      OBVIOUS
    <3>1. CASE k = 1
      BY <1>1, <1>2, <1>5, <2>1, <3>1
    <3>2. CASE k # 1
      <4>1. k - 1 \in 1..n - 1 /\ (k - 1) + 1 = k
        BY <1>1, <3>2
      <4>2. rest[k] \in Take(m, d, s[k], rest[k - 1])
        BY <1>2, <1>5, <4>1
      <4>3. run[k] = rest[k - 1] /\ run[k + 1] = rest[k]
        BY <1>1, <2>1, <4>1
      <4> QED
        BY <4>2, <4>3
    <3> QED
      BY <3>1, <3>2
  <2>4. run[n + 1] = rest[n]
    BY <1>1, <2>1
  <2> QED
    BY <1>3, <2>1, <2>2, <2>3, <2>4
<1>6. \A q : q \in EndsFrom(m, d, s, x)
               <=> q \in Nat /\ \E run : Run(m, d, s, x, run) /\ q = run[n + 1].cur
  BY DEF EndsFrom, n
<1>7. \A q, y : q \in EndsFrom(m, d, t, y)
                  <=> q \in Nat /\ \E run : Run(m, d, t, y, run) /\ q = run[n].cur
  BY <1>1 DEF EndsFrom
<1>8. \A q : q \in EndsFrom(m, d, s, x)
               <=> \E y \in Take(m, d, Head(s), x) : q \in EndsFrom(m, d, t, y)
  BY <1>4, <1>5, <1>6, <1>7
<1> QED
  BY <1>8 DEF t

LEMMA OneThenMore ==
  ASSUME NEW m, NEW d, NEW x, NEW f \in Fields, NEW s \in Seq(Fields)
  PROVE  /\ <<f>> \o s \in Seq(Fields)
         /\ EndsFrom(m, d, <<f>> \o s, x) = UNION {EndsFrom(m, d, s, y) : y \in Take(m, d, f, x)}
<1>1. <<f>> \in Seq(Fields) /\ Len(<<f>>) = 1 /\ <<f>>[1] = f
  OBVIOUS
<1> DEFINE g == <<f>>
           t == g \o s
<1> HIDE DEF g
<1>2. /\ t \in Seq(Fields) /\ Len(t) = 1 + Len(s) /\ Len(s) \in Nat
      /\ \A i \in 1..1 + Len(s) : t[i] = IF i <= 1 THEN g[i] ELSE s[i - 1]
  BY <1>1, ConcatProperties, LenProperties DEF g
<1> HIDE DEF t
<1>3. t # <<>> /\ Head(t) = f
  <2>1. t # <<>>
    BY <1>2
  <2>2. Head(t) = t[1] /\ 1 \in 1..1 + Len(s)
    BY <1>2, <2>1, HeadTailProperties
  <2> QED
    BY <1>1, <1>2, <2>1, <2>2 DEF g
<1>4. Tail(t) = s
  <2>1. /\ Tail(t) \in Seq(Fields) /\ Len(Tail(t)) = Len(s)
        /\ \A i \in 1..Len(s) : Tail(t)[i] = t[i + 1]
    BY <1>2, <1>3, HeadTailProperties
  <2>2. \A i \in 1..Len(s) : Tail(t)[i] = s[i]
    <3> TAKE i \in 1..Len(s)
    <3>1. i + 1 \in 1..1 + Len(s) /\ ~(i + 1 <= 1) /\ (i + 1) - 1 = i
      BY <1>2
    <3> QED
      BY <1>2, <2>1, <3>1
  <2> QED
    BY <2>1, <2>2, SeqEqual
<1>5. EndsFrom(m, d, t, x) = UNION {EndsFrom(m, d, Tail(t), y) : y \in Take(m, d, Head(t), x)}
  BY <1>2, <1>3, FieldByField
<1> QED
  BY <1>2, <1>3, <1>4, <1>5 DEF t, g

LEMMA FirstThenRest ==
  \A m, d, x : \A f \in Fields, s \in Seq(Fields) :
    EndsFrom(m, d, <<f>> \o s, x) = UNION {EndsFrom(m, d, s, y) : y \in Take(m, d, f, x)}
<1> SUFFICES ASSUME NEW m, NEW d, NEW x, NEW f \in Fields, NEW s \in Seq(Fields)
             PROVE  EndsFrom(m, d, <<f>> \o s, x)
                      = UNION {EndsFrom(m, d, s, y) : y \in Take(m, d, f, x)}
  OBVIOUS
<1> QED
  BY OneThenMore

\* A field that can be taken in one way, or in none.
LEMMA OneWay ==
  ASSUME NEW m, NEW d, NEW x, NEW f \in Fields, NEW s \in Seq(Fields)
  PROVE  /\ \A y : Take(m, d, f, x) = {y}
              => EndsFrom(m, d, <<f>> \o s, x) = EndsFrom(m, d, s, y)
         /\ Take(m, d, f, x) = {} => EndsFrom(m, d, <<f>> \o s, x) = {}
<1>1. EndsFrom(m, d, <<f>> \o s, x) = UNION {EndsFrom(m, d, s, y) : y \in Take(m, d, f, x)}
  BY FirstThenRest
<1> DEFINE E == EndsFrom(m, d, <<f>> \o s, x)
           T == Take(m, d, f, x)
<1>2. E = UNION {EndsFrom(m, d, s, y) : y \in T}
  BY <1>1
<1> HIDE DEF E, T
<1>3. \A y : T = {y} => E = EndsFrom(m, d, s, y)
  BY <1>2
<1>4. T = {} => E = {}
  BY <1>2
<1> QED
  BY <1>3, <1>4 DEF E, T

\* Readers with the same bounds: w.limit, w.start and w.dataLength.
Readers(w) ==
  [cur : 0..w.limit, limit : {w.limit}, dataLength : {w.dataLength},
   start : {w.start}, length : Nat]

Frames(m) == [limit : 0..Len(m), start : Nat, dataLength : Nat]

\* Where the fields s may end depends on where they begin, as F says.
Exact(m, d, w, s, F) ==
  \A x \in Readers(w) : EndsFrom(m, d, s, x) = F[x.cur]

Stop(w) == [c \in 0..w.limit |-> {c}]

ThenFixed(w, n, F) == [c \in 0..w.limit |-> IF n \in 0..w.limit - c THEN F[c + n] ELSE {}]

ThenName(m, d, w, F) ==
  [c \in 0..w.limit |-> UNION {F[q] : q \in {e \in NameEnds(m, d)[c] : e <= w.limit}}]

ThenCounted(m, w, F) ==
  [c \in 0..w.limit |-> IF c < w.limit /\ m[c + 1] \in 0..w.limit - (c + 1)
                        THEN F[c + 1 + m[c + 1]] ELSE {}]

LEMMA ExactStop ==
  ASSUME NEW m, NEW d, NEW w \in Frames(m), Len(m) \in Nat
  PROVE  Exact(m, d, w, <<>>, Stop(w))
<1> SUFFICES ASSUME NEW x \in Readers(w)
             PROVE  EndsFrom(m, d, <<>>, x) = {x.cur} /\ Stop(w)[x.cur] = {x.cur}
  BY DEF Exact
<1>1. x.cur \in 0..w.limit /\ x.cur \in Nat
  BY DEF Readers, Frames
<1> QED
  BY <1>1, NothingLeft DEF Stop

LEMMA TakeFixed ==
  ASSUME NEW m, NEW d, NEW x, NEW n \in Int
  PROVE  Take(m, d, Fixed(n), x)
           = IF n \in 0..x.limit - x.cur THEN {[x EXCEPT !.cur = @ + n]} ELSE {}
<1>1. Fixed(n).kind = "fixed" /\ Fixed(n).size = n
  BY DEF Fixed
<1> DEFINE f == Fixed(n)
<1> HIDE DEF f
<1>2. f.kind = "fixed" /\ f.size = n
  BY <1>1 DEF f
<1>3. Width(f, x) = n
  BY <1>2 DEF Width
<1>4. Passes(m, d, f, x) <=> n \in 0..x.limit - x.cur
  BY <1>2, <1>3 DEF Passes
<1>5. Behind(m, f, x) = [x EXCEPT !.cur = @ + n]
  BY <1>2, <1>3 DEF Behind
<1>6. Take(m, d, f, x) = IF Passes(m, d, f, x) THEN {Behind(m, f, x)} ELSE {}
  BY <1>2 DEF Take
<1> QED
  BY <1>4, <1>5, <1>6 DEF f

LEMMA ExactFixed ==
  ASSUME NEW m, Len(m) \in Nat, NEW d, NEW w \in Frames(m), NEW n \in Nat,
         NEW s \in Seq(Fields), NEW F, Exact(m, d, w, s, F)
  PROVE  Exact(m, d, w, <<Fixed(n)>> \o s, ThenFixed(w, n, F))
<1> DEFINE f == Fixed(n)
<1>1. f \in Fields
  BY FixedPlain DEF Plain
<1> SUFFICES ASSUME NEW x \in Readers(w)
             PROVE  EndsFrom(m, d, <<f>> \o s, x) = ThenFixed(w, n, F)[x.cur]
  BY DEF Exact
<1>2. x.cur \in 0..w.limit /\ x.limit = w.limit /\ w.limit \in Nat
  BY DEF Readers, Frames
<1>3. Take(m, d, f, x) = IF n \in 0..w.limit - x.cur THEN {[x EXCEPT !.cur = @ + n]} ELSE {}
  BY <1>2, TakeFixed
<1> HIDE DEF f
<1>4. /\ \A y : Take(m, d, f, x) = {y}
              => EndsFrom(m, d, <<f>> \o s, x) = EndsFrom(m, d, s, y)
      /\ Take(m, d, f, x) = {} => EndsFrom(m, d, <<f>> \o s, x) = {}
  BY <1>1, OneWay, Zenon
<1>5. ThenFixed(w, n, F)[x.cur] = IF n \in 0..w.limit - x.cur THEN F[x.cur + n] ELSE {}
  BY <1>2 DEF ThenFixed
<1>6. CASE n \in 0..w.limit - x.cur
  <2> DEFINE y == [x EXCEPT !.cur = @ + n]
  <2>1. x.cur + n \in 0..w.limit
    BY <1>2, <1>6
  <2>2. y \in Readers(w) /\ y.cur = x.cur + n
    BY <2>1 DEF Readers
  <2> HIDE DEF y
  <2>3. EndsFrom(m, d, s, y) = F[x.cur + n]
    BY <2>2 DEF Exact
  <2>4. Take(m, d, f, x) = {y}
    BY <1>3, <1>6 DEF y
  <2> QED
    BY <1>4, <1>5, <1>6, <2>3, <2>4
<1>7. CASE n \notin 0..w.limit - x.cur
  <2>1. Take(m, d, f, x) = {}
    BY <1>3, <1>7
  <2> QED
    BY <1>4, <1>5, <1>7, <2>1
<1> QED
  BY <1>6, <1>7

LEMMA TakeName ==
  ASSUME NEW m, NEW d, NEW x
  PROVE  Take(m, d, Kind("name"), x)
           = {[x EXCEPT !.cur = q] : q \in {e \in NameEnds(m, d)[x.cur] : e <= x.limit}}
<1>1. Kind("name").kind = "name"
  BY DEF Kind
<1> QED
  BY <1>1 DEF Take

LEMMA ExactName ==
  ASSUME NEW m \in Seq(Byte), NEW d, d.labelLimit \in 1..192, NEW w \in Frames(m),
         NEW s \in Seq(Fields), NEW F, Exact(m, d, w, s, F)
  PROVE  Exact(m, d, w, <<Kind("name")>> \o s, ThenName(m, d, w, F))
<1> DEFINE f == Kind("name")
<1>1. Len(m) \in Nat
  BY LenProperties
<1>2. f \in Fields
  BY KindPlain DEF Plain
<1> SUFFICES ASSUME NEW x \in Readers(w)
             PROVE  EndsFrom(m, d, <<f>> \o s, x) = ThenName(m, d, w, F)[x.cur]
  BY DEF Exact
<1>3. x.cur \in 0..w.limit /\ x.limit = w.limit /\ w.limit \in 0..Len(m)
  BY DEF Readers, Frames
<1> DEFINE Q == {e \in NameEnds(m, d)[x.cur] : e <= w.limit}
<1>4. Take(m, d, f, x) = {[x EXCEPT !.cur = q] : q \in Q}
  BY <1>3, TakeName
<1> HIDE DEF f, Q
<1>5. \A g \in Fields : EndsFrom(m, d, <<g>> \o s, x)
                           = UNION {EndsFrom(m, d, s, y) : y \in Take(m, d, g, x)}
  BY FirstThenRest, SMTT(30)
<1>6. EndsFrom(m, d, <<f>> \o s, x) = UNION {EndsFrom(m, d, s, y) : y \in Take(m, d, f, x)}
  BY <1>2, <1>5
<1>7. ThenName(m, d, w, F)[x.cur] = UNION {F[q] : q \in Q}
  BY <1>3 DEF ThenName, Q
<1>8. ASSUME NEW q \in Q PROVE EndsFrom(m, d, s, [x EXCEPT !.cur = q]) = F[q]
  <2> USE DEF Q
  <2> DEFINE y == [x EXCEPT !.cur = q]
  <2>1. x.cur \in 0..Len(m)
    BY <1>1, <1>3
  <2>2. q \in x.cur + 1..Len(m)
    BY <2>1, NameAhead
  <2>3. q \in 0..w.limit
    BY <1>1, <1>3, <2>2
  <2>4. y \in Readers(w) /\ y.cur = q
    BY <2>3 DEF Readers
  <2> HIDE DEF y
  <2>5. EndsFrom(m, d, s, y) = F[q]
    BY <2>4 DEF Exact
  <2> QED
    BY <2>5 DEF y
<1>9. UNION {EndsFrom(m, d, s, y) : y \in Take(m, d, f, x)}
        = UNION {EndsFrom(m, d, s, [x EXCEPT !.cur = q]) : q \in Q}
  BY <1>4, Zenon
<1>10. UNION {EndsFrom(m, d, s, [x EXCEPT !.cur = q]) : q \in Q} = UNION {F[q] : q \in Q}
  BY <1>8, Zenon
<1> QED
  BY <1>6, <1>7, <1>9, <1>10, Zenon

LEMMA TakeLength ==
  ASSUME NEW m, NEW d, NEW x
  PROVE  Take(m, d, Kind("length"), x)
           = IF 1 \in 0..x.limit - x.cur
             THEN {[x EXCEPT !.cur = @ + 1, !.length = m[x.cur + 1]]} ELSE {}
<1>1. Kind("length").kind = "length"
  BY DEF Kind
<1> DEFINE f == Kind("length")
<1> HIDE DEF f
<1>2. f.kind = "length"
  BY <1>1 DEF f
<1>3. Width(f, x) = 1
  BY <1>2 DEF Width
<1>4. Passes(m, d, f, x) <=> 1 \in 0..x.limit - x.cur
  BY <1>2, <1>3, Zenon DEF Passes
<1>5. Behind(m, f, x) = [x EXCEPT !.cur = @ + 1, !.length = m[x.cur + 1]]
  BY <1>2, <1>3 DEF Behind
<1>6. Take(m, d, f, x) = IF Passes(m, d, f, x) THEN {Behind(m, f, x)} ELSE {}
  BY <1>2 DEF Take
<1> QED
  BY <1>4, <1>5, <1>6 DEF f

LEMMA TakeOctets ==
  ASSUME NEW m, NEW d, NEW x
  PROVE  Take(m, d, Kind("octets"), x)
           = IF x.length \in 0..x.limit - x.cur
             THEN {[x EXCEPT !.cur = @ + x.length]} ELSE {}
<1>1. Kind("octets").kind = "octets"
  BY DEF Kind
<1> DEFINE f == Kind("octets")
<1> HIDE DEF f
<1>2. f.kind = "octets"
  BY <1>1 DEF f
<1>3. Width(f, x) = x.length
  BY <1>2 DEF Width
<1>4. Passes(m, d, f, x) <=> x.length \in 0..x.limit - x.cur
  BY <1>2, <1>3, Zenon DEF Passes
<1>5. Behind(m, f, x) = [x EXCEPT !.cur = @ + x.length]
  BY <1>2, <1>3 DEF Behind
<1>6. Take(m, d, f, x) = IF Passes(m, d, f, x) THEN {Behind(m, f, x)} ELSE {}
  BY <1>2 DEF Take
<1> QED
  BY <1>4, <1>5, <1>6 DEF f

LEMMA TakeRest ==
  ASSUME NEW m, NEW d, NEW x
  PROVE  Take(m, d, Kind("rest"), x)
           = IF (x.dataLength - (x.cur - x.start)) \in 0..x.limit - x.cur
             THEN {[x EXCEPT !.cur = @ + (x.dataLength - (x.cur - x.start))]} ELSE {}
<1>1. Kind("rest").kind = "rest"
  BY DEF Kind
<1> DEFINE f == Kind("rest")
<1> HIDE DEF f
<1>2. f.kind = "rest"
  BY <1>1 DEF f
<1>3. Width(f, x) = (x.dataLength - (x.cur - x.start))
  BY <1>2 DEF Width
<1>4. Passes(m, d, f, x) <=> (x.dataLength - (x.cur - x.start)) \in 0..x.limit - x.cur
  BY <1>2, <1>3, Zenon DEF Passes
<1>5. Behind(m, f, x) = [x EXCEPT !.cur = @ + (x.dataLength - (x.cur - x.start))]
  BY <1>2, <1>3 DEF Behind
<1>6. Take(m, d, f, x) = IF Passes(m, d, f, x) THEN {Behind(m, f, x)} ELSE {}
  BY <1>2 DEF Take
<1> QED
  BY <1>4, <1>5, <1>6 DEF f

LEMMA TakeText ==
  ASSUME NEW m, NEW d, NEW x
  PROVE  Take(m, d, Kind("text"), x)
           = IF (x.dataLength - (x.cur - x.start)) \in 0..x.limit - x.cur
                /\ (d.utf8 => Decodes(m, x.cur, (x.dataLength - (x.cur - x.start))))
             THEN {[x EXCEPT !.cur = @ + (x.dataLength - (x.cur - x.start))]} ELSE {}
<1>1. Kind("text").kind = "text"
  BY DEF Kind
<1> DEFINE f == Kind("text")
<1> HIDE DEF f
<1>2. f.kind = "text"
  BY <1>1 DEF f
<1>3. Width(f, x) = (x.dataLength - (x.cur - x.start))
  BY <1>2 DEF Width
<1>4. Passes(m, d, f, x) <=> (x.dataLength - (x.cur - x.start)) \in 0..x.limit - x.cur
                /\ (d.utf8 => Decodes(m, x.cur, (x.dataLength - (x.cur - x.start))))
  BY <1>2, <1>3, Zenon DEF Passes
<1>5. Behind(m, f, x) = [x EXCEPT !.cur = @ + (x.dataLength - (x.cur - x.start))]
  BY <1>2, <1>3 DEF Behind
<1>6. Take(m, d, f, x) = IF Passes(m, d, f, x) THEN {Behind(m, f, x)} ELSE {}
  BY <1>2 DEF Take
<1> QED
  BY <1>4, <1>5, <1>6 DEF f

LEMMA TakeDataLength ==
  ASSUME NEW m, NEW d, NEW x
  PROVE  Take(m, d, Kind("dataLength"), x)
           = IF 2 \in 0..x.limit - x.cur
             THEN {[x EXCEPT !.cur = @ + 2, !.dataLength = U16(m, x.cur), !.start = x.cur + 2]} ELSE {}
<1>1. Kind("dataLength").kind = "dataLength"
  BY DEF Kind
<1> DEFINE f == Kind("dataLength")
<1> HIDE DEF f
<1>2. f.kind = "dataLength"
  BY <1>1 DEF f
<1>3. Width(f, x) = 2
  BY <1>2 DEF Width
<1>4. Passes(m, d, f, x) <=> 2 \in 0..x.limit - x.cur
  BY <1>2, <1>3, Zenon DEF Passes
<1>5. Behind(m, f, x) = [x EXCEPT !.cur = @ + 2, !.dataLength = U16(m, x.cur), !.start = x.cur + 2]
  BY <1>2, <1>3 DEF Behind
<1>6. Take(m, d, f, x) = IF Passes(m, d, f, x) THEN {Behind(m, f, x)} ELSE {}
  BY <1>2 DEF Take
<1> QED
  BY <1>4, <1>5, <1>6 DEF f

LEMMA TakeSubstream ==
  ASSUME NEW m, NEW d, NEW x
  PROVE  Take(m, d, Kind("substream"), x)
           = IF x.dataLength \in 0..x.limit - x.cur
             THEN {[x EXCEPT !.limit = x.cur + x.dataLength]} ELSE {}
<1>1. Kind("substream").kind = "substream"
  BY DEF Kind
<1> DEFINE f == Kind("substream")
<1> HIDE DEF f
<1>2. f.kind = "substream"
  BY <1>1 DEF f
<1>3. Width(f, x) = x.dataLength
  BY <1>2 DEF Width
<1>4. Passes(m, d, f, x) <=> x.dataLength \in 0..x.limit - x.cur
  BY <1>2, <1>3, Zenon DEF Passes
<1>5. Behind(m, f, x) = [x EXCEPT !.limit = x.cur + x.dataLength]
  BY <1>2, <1>3 DEF Behind
<1>6. Take(m, d, f, x) = IF Passes(m, d, f, x) THEN {Behind(m, f, x)} ELSE {}
  BY <1>2 DEF Take
<1> QED
  BY <1>4, <1>5, <1>6 DEF f

LEMMA KindField == \A k \in Kinds : Kind(k) \in Fields
BY DEF Kind, Fields

LEMMA ReaderFacts ==
  ASSUME NEW m, Len(m) \in Nat, NEW w \in Frames(m), NEW x \in Readers(w)
  PROVE  /\ w.limit \in 0..Len(m) /\ w.limit \in Nat /\ w.start \in Nat /\ w.dataLength \in Nat
         /\ x.cur \in 0..w.limit /\ x.limit = w.limit /\ x.dataLength = w.dataLength
         /\ x.start = w.start /\ x.length \in Nat
<1>1. /\ w.limit \in 0..Len(m) /\ w.limit \in Nat /\ w.start \in Nat /\ w.dataLength \in Nat
  BY DEF Frames
<1>2. /\ x.cur \in 0..w.limit /\ x.limit = w.limit /\ x.dataLength = w.dataLength
      /\ x.start = w.start /\ x.length \in Nat
  BY DEF Readers
<1> QED
  BY <1>1, <1>2

LEMMA ReaderMoves ==
  ASSUME NEW w, NEW x \in Readers(w), NEW q \in 0..w.limit
  PROVE  [x EXCEPT !.cur = q] \in Readers(w) /\ [x EXCEPT !.cur = q].cur = q
BY DEF Readers

ReadTo(x, q, l) == [x EXCEPT !.cur = q, !.length = l]

LEMMA ReaderReads ==
  ASSUME NEW w, NEW x \in Readers(w), NEW q \in 0..w.limit, NEW l \in Nat
  PROVE  /\ ReadTo(x, q, l) \in Readers(w)
         /\ ReadTo(x, q, l).cur = q
         /\ ReadTo(x, q, l).length = l
<1> DEFINE y == [x EXCEPT !.cur = q]
           z == [y EXCEPT !.length = l]
<1>1. y \in Readers(w) /\ y.cur = q
  BY ReaderMoves
<1>2. z = ReadTo(x, q, l)
  BY DEF ReadTo
<1> HIDE DEF y
<1>3. z \in Readers(w) /\ z.length = l /\ z.cur = y.cur
  BY <1>1 DEF Readers
<1> QED
  BY <1>1, <1>2, <1>3

LEMMA ByteAt ==
  ASSUME NEW m \in Seq(Byte), NEW c, c + 1 \in 1..Len(m)
  PROVE  m[c + 1] \in Nat
<1>1. m[c + 1] \in Byte
  BY ElementOfSeq
<1>2. \A b \in Byte : b \in Nat
  BY DEF Byte
<1> QED
  BY <1>1, <1>2, Zenon

\* NSEC3 without the salt: the length byte is read and nothing behind it.
LEMMA ExactLength ==
  ASSUME NEW m \in Seq(Byte), NEW d, NEW w \in Frames(m),
         NEW s \in Seq(Fields), NEW F, Exact(m, d, w, s, F)
  PROVE  Exact(m, d, w, <<Kind("length")>> \o s, ThenFixed(w, 1, F))
<1>1. Len(m) \in Nat /\ Kind("length") \in Fields
  BY LenProperties, KindField DEF Kinds
<1> SUFFICES ASSUME NEW x \in Readers(w)
             PROVE  EndsFrom(m, d, <<Kind("length")>> \o s, x) = ThenFixed(w, 1, F)[x.cur]
  BY DEF Exact
<1> DEFINE c == x.cur
           y == ReadTo(x, c + 1, m[c + 1])
           T == Take(m, d, Kind("length"), x)
           E == EndsFrom(m, d, <<Kind("length")>> \o s, x)
<1>2. c \in 0..w.limit /\ w.limit \in 0..Len(m) /\ x.limit = w.limit
  BY <1>1, ReaderFacts
<1>3. T = IF 1 \in 0..w.limit - c THEN {y} ELSE {}
  BY <1>2, TakeLength DEF ReadTo
<1>4. (T = {y} => E = EndsFrom(m, d, s, y)) /\ (T = {} => E = {})
  <2> DEFINE f == Kind("length")
  <2> HIDE DEF y, f
  <2>1. f \in Fields
    BY <1>1 DEF f
  <2>2. /\ \A z : Take(m, d, f, x) = {z}
               => EndsFrom(m, d, <<f>> \o s, x) = EndsFrom(m, d, s, z)
        /\ Take(m, d, f, x) = {} => EndsFrom(m, d, <<f>> \o s, x) = {}
    BY <2>1, OneWay, Zenon
  <2> QED
    BY <2>2 DEF f
<1>5. ThenFixed(w, 1, F)[c] = IF 1 \in 0..w.limit - c THEN F[c + 1] ELSE {}
  BY <1>2 DEF ThenFixed
<1>6. CASE 1 \in 0..w.limit - c
  <2>1. c + 1 \in 0..w.limit /\ c + 1 \in 1..Len(m)
    BY <1>1, <1>2, <1>6
  <2>2. m[c + 1] \in Nat
    <3> HIDE DEF c
    <3> QED
      BY <2>1, ByteAt
  <2>3. y \in Readers(w) /\ y.cur = c + 1
    <3> DEFINE q == c + 1
               l == m[c + 1]
    <3>1. q \in 0..w.limit /\ l \in Nat
      BY <2>1, <2>2
    <3> HIDE DEF q, l, c
    <3>2. /\ ReadTo(x, q, l) \in Readers(w)
          /\ ReadTo(x, q, l).cur = q
          /\ ReadTo(x, q, l).length = l
      BY <3>1, ReaderReads
    <3> QED
      BY <3>2, Zenon DEF q, l
  <2> HIDE DEF y, c, T, E
  <2>4. EndsFrom(m, d, s, y) = F[c + 1]
    BY <2>3 DEF Exact
  <2>5. E = F[c + 1]
    BY <1>3, <1>4, <1>6, <2>4
  <2> QED
    BY <1>5, <1>6, <2>5 DEF c, E
<1>7. CASE 1 \notin 0..w.limit - c
  <2> HIDE DEF y, T, E
  <2>1. E = {}
    BY <1>3, <1>4, <1>7
  <2> QED
    BY <1>5, <1>7, <2>1 DEF E
<1> QED
  BY <1>6, <1>7

LEMMA ExactCounted ==
  ASSUME NEW m \in Seq(Byte), NEW d, NEW w \in Frames(m),
         NEW s \in Seq(Fields), NEW F, Exact(m, d, w, s, F)
  PROVE  /\ <<Kind("octets")>> \o s \in Seq(Fields)
         /\ Exact(m, d, w, <<Kind("length")>> \o (<<Kind("octets")>> \o s), ThenCounted(m, w, F))
<1>1. Len(m) \in Nat /\ Kind("length") \in Fields /\ Kind("octets") \in Fields
  BY LenProperties, KindField DEF Kinds
<1> DEFINE t == <<Kind("octets")>> \o s
<1>2. t \in Seq(Fields)
  BY <1>1, OneThenMore
<1> SUFFICES ASSUME NEW x \in Readers(w)
             PROVE  EndsFrom(m, d, <<Kind("length")>> \o t, x) = ThenCounted(m, w, F)[x.cur]
  BY <1>2 DEF Exact
<1> DEFINE c == x.cur
           y == ReadTo(x, c + 1, m[c + 1])
           z == [y EXCEPT !.cur = c + 1 + m[c + 1]]
           T == Take(m, d, Kind("length"), x)
           U == Take(m, d, Kind("octets"), y)
           E == EndsFrom(m, d, <<Kind("length")>> \o t, x)
           G == EndsFrom(m, d, t, y)
<1>3. c \in 0..w.limit /\ w.limit \in 0..Len(m) /\ x.limit = w.limit
  BY <1>1, ReaderFacts
<1>4. T = IF 1 \in 0..w.limit - c THEN {y} ELSE {}
  BY <1>3, TakeLength DEF ReadTo
<1>5. (T = {y} => E = G) /\ (T = {} => E = {})
  <2> HIDE DEF y, t
  <2>1. /\ T = {y} => EndsFrom(m, d, <<Kind("length")>> \o t, x) = EndsFrom(m, d, t, y)
        /\ T = {} => EndsFrom(m, d, <<Kind("length")>> \o t, x) = {}
    <3> DEFINE f == Kind("length")
    <3>1. f \in Fields /\ t \in Seq(Fields)
      BY <1>1, <1>2
    <3> HIDE DEF f
    <3>2. /\ \A v : Take(m, d, f, x) = {v}
             => EndsFrom(m, d, <<f>> \o t, x) = EndsFrom(m, d, t, v)
          /\ Take(m, d, f, x) = {} => EndsFrom(m, d, <<f>> \o t, x) = {}
      BY <3>1, OneWay
    <3> QED
      BY <3>2 DEF f
  <2> QED
    BY <2>1
<1>6. ThenCounted(m, w, F)[c] = IF c < w.limit /\ m[c + 1] \in 0..w.limit - (c + 1)
                                THEN F[c + 1 + m[c + 1]] ELSE {}
  BY <1>3 DEF ThenCounted
<1>7. CASE 1 \in 0..w.limit - c
  <2>1. c + 1 \in 0..w.limit /\ c + 1 \in 1..Len(m) /\ c < w.limit
    BY <1>1, <1>3, <1>7
  <2>2. m[c + 1] \in Nat
    <3> HIDE DEF c
    <3> QED
      BY <2>1, ByteAt
  <2>3. y \in Readers(w) /\ y.cur = c + 1 /\ y.length = m[c + 1]
    <3> DEFINE q == c + 1
               l == m[c + 1]
    <3>1. q \in 0..w.limit /\ l \in Nat
      BY <2>1, <2>2
    <3> HIDE DEF q, l, c
    <3>2. /\ ReadTo(x, q, l) \in Readers(w)
          /\ ReadTo(x, q, l).cur = q
          /\ ReadTo(x, q, l).length = l
      BY <3>1, ReaderReads
    <3> QED
      BY <3>2, Zenon DEF q, l
  <2>4. E = G
    <3> HIDE DEF y, c, T, E, G
    <3> QED
      BY <1>4, <1>5, <1>7
  <2>5. y.limit = w.limit
    BY <1>1, <2>3, ReaderFacts
  <2>6. U = IF y.length \in 0..y.limit - y.cur THEN {[y EXCEPT !.cur = @ + y.length]} ELSE {}
    <3> HIDE DEF y
    <3> QED
      BY TakeOctets
  <2>7. U = IF m[c + 1] \in 0..w.limit - (c + 1) THEN {z} ELSE {}
    <3> HIDE DEF y
    <3> QED
      BY <2>3, <2>5, <2>6
  <2>8. (U = {z} => G = EndsFrom(m, d, s, z)) /\ (U = {} => G = {})
    <3> HIDE DEF y, z
    <3> QED
      BY <1>1, OneWay
  <2>9. CASE m[c + 1] \in 0..w.limit - (c + 1)
    <3>1. c + 1 + m[c + 1] \in 0..w.limit
      BY <1>1, <1>3, <2>2, <2>9
    <3>2. z \in Readers(w) /\ z.cur = c + 1 + m[c + 1]
      <4> HIDE DEF y
      <4> QED
        BY <2>3, <3>1, ReaderMoves
    <3> HIDE DEF y, z, c, U, E, G
    <3>3. EndsFrom(m, d, s, z) = F[c + 1 + m[c + 1]]
      BY <3>2 DEF Exact
    <3>4. E = F[c + 1 + m[c + 1]]
      BY <2>4, <2>7, <2>8, <2>9, <3>3
    <3> QED
      BY <1>6, <2>1, <2>9, <3>4 DEF c, E
  <2>10. CASE m[c + 1] \notin 0..w.limit - (c + 1)
    <3> HIDE DEF y, z, U, E, G
    <3>1. E = {}
      BY <2>4, <2>7, <2>8, <2>10
    <3> QED
      BY <1>6, <2>10, <3>1 DEF E
  <2> QED
    BY <2>9, <2>10
<1>8. CASE 1 \notin 0..w.limit - c
  <2>1. ~(c < w.limit)
    BY <1>1, <1>3, <1>8
  <2> HIDE DEF y, T, E, G
  <2>2. E = {}
    BY <1>4, <1>5, <1>8
  <2> QED
    BY <1>6, <2>1, <2>2 DEF E
<1> QED
  BY <1>7, <1>8

ToEnd(w) ==
  [c \in 0..w.limit |-> IF w.start + w.dataLength \in c..w.limit
                        THEN {w.start + w.dataLength} ELSE {}]

TextToEnd(m, d, w) ==
  [c \in 0..w.limit |->
     IF /\ w.start + w.dataLength \in c..w.limit
        /\ d.utf8 => Decodes(m, c, w.dataLength - (c - w.start))
     THEN {w.start + w.dataLength} ELSE {}]

LEMMA OneField ==
  ASSUME NEW f \in Fields
  PROVE  <<f>> \o <<>> = <<f>> /\ <<>> \in Seq(Fields) /\ <<f>> \in Seq(Fields)
<1>1. <<f>> \in Seq(Fields)
  OBVIOUS
<1>2. <<f>> \o <<>> = <<f>>
  BY <1>1, ConcatEmptySeq
<1> QED
  BY <1>1, <1>2, EmptySeq

\* A field before a list that is written out.
LEMMA PrefixOne ==
  ASSUME NEW f \in Fields, NEW s \in Seq(Fields), NEW t \in Seq(Fields),
         Len(t) = Len(s) + 1, t[1] = f, \A k \in 1..Len(s) : t[k + 1] = s[k]
  PROVE  <<f>> \o s = t
<1> DEFINE u == <<f>>
<1>1. u \in Seq(Fields) /\ Len(u) = 1 /\ u[1] = f
  OBVIOUS
<1> HIDE DEF u
<1>2. /\ u \o s \in Seq(Fields) /\ Len(u \o s) = 1 + Len(s) /\ Len(s) \in Nat
      /\ \A i \in 1..1 + Len(s) : (u \o s)[i] = IF i <= 1 THEN u[i] ELSE s[i - 1]
  <2>1. /\ u \o s \in Seq(Fields) /\ Len(u \o s) = Len(u) + Len(s)
        /\ \A i \in 1..Len(u) + Len(s) :
             (u \o s)[i] = IF i <= Len(u) THEN u[i] ELSE s[i - Len(u)]
    BY <1>1, ConcatProperties
  <2> QED
    BY <1>1, <2>1, LenProperties
<1>3. ASSUME NEW i \in 1..Len(t) PROVE (u \o s)[i] = t[i]
  <2>1. CASE i = 1
    BY <1>1, <1>2, <2>1
  <2>2. CASE i # 1
    <3>1. i - 1 \in 1..Len(s) /\ (i - 1) + 1 = i /\ ~(i <= 1) /\ i \in 1..1 + Len(s)
      BY <1>2, <2>2
    <3>2. t[(i - 1) + 1] = s[i - 1]
      BY <3>1, Zenon
    <3> QED
      BY <1>2, <3>1, <3>2
  <2> QED
    BY <2>1, <2>2
<1>4. u \o s = t
  BY <1>2, <1>3, SeqEqual
<1> QED
  BY <1>4 DEF u

LEMMA TwoFields ==
  ASSUME NEW f \in Fields, NEW g \in Fields
  PROVE  <<f>> \o <<g>> = <<f, g>> /\ <<f, g>> \in Seq(Fields)
<1> DEFINE s == <<g>>
           t == <<f, g>>
<1>1. /\ s \in Seq(Fields) /\ t \in Seq(Fields) /\ Len(s) = 1 /\ Len(t) = 2
      /\ s[1] = g /\ t[1] = f /\ t[2] = g
  <2>1. s \in Seq(Fields)
    OBVIOUS
  <2>2. t \in Seq(Fields)
    OBVIOUS
  <2>3. Len(s) = 1 /\ s[1] = g
    OBVIOUS
  <2>4. Len(t) = 2 /\ t[1] = f /\ t[2] = g
    OBVIOUS
  <2> QED
    BY <2>1, <2>2, <2>3, <2>4
<1> HIDE DEF s, t
<1>2. \A k \in 1..Len(s) : t[k + 1] = s[k]
  BY <1>1
<1>3. <<f>> \o s = t
  <2> USE <1>1, <1>2
  <2>1. Len(t) = Len(s) + 1 /\ t[1] = f
    OBVIOUS
  <2> QED
    BY <2>1, PrefixOne
<1> QED
  BY <1>1, <1>3 DEF s, t

LEMMA ThreeFields ==
  ASSUME NEW f \in Fields, NEW g \in Fields, NEW h \in Fields
  PROVE  <<f>> \o <<g, h>> = <<f, g, h>> /\ <<f, g, h>> \in Seq(Fields)
<1> DEFINE s == <<g, h>>
           t == <<f, g, h>>
<1>1. /\ s \in Seq(Fields) /\ t \in Seq(Fields) /\ Len(s) = 2 /\ Len(t) = 3
      /\ s[1] = g /\ s[2] = h /\ t[1] = f /\ t[2] = g /\ t[3] = h
  <2>1. s \in Seq(Fields)
    OBVIOUS
  <2>2. t \in Seq(Fields)
    OBVIOUS
  <2>3. Len(s) = 2 /\ s[1] = g /\ s[2] = h
    OBVIOUS
  <2>4. Len(t) = 3 /\ t[1] = f /\ t[2] = g /\ t[3] = h
    OBVIOUS
  <2> QED
    BY <2>1, <2>2, <2>3, <2>4
<1> HIDE DEF s, t
<1>2. \A k \in 1..Len(s) : t[k + 1] = s[k]
  BY <1>1
<1>3. <<f>> \o s = t
  <2> USE <1>1, <1>2
  <2>1. Len(t) = Len(s) + 1 /\ t[1] = f
    OBVIOUS
  <2> QED
    BY <2>1, PrefixOne
<1> QED
  BY <1>1, <1>3 DEF s, t

\* What a rest or a text does that reaches to the end of the data.
LEMMA RestWidth ==
  ASSUME NEW m, Len(m) \in Nat, NEW w \in Frames(m), NEW x \in Readers(w)
  PROVE  /\ x.dataLength - (x.cur - x.start) \in 0..x.limit - x.cur
              <=> w.start + w.dataLength \in x.cur..w.limit
         /\ x.cur + (x.dataLength - (x.cur - x.start)) = w.start + w.dataLength
<1> DEFINE c == x.cur
           a == w.start
           n == w.dataLength
           l == w.limit
<1>1. /\ c \in Nat /\ a \in Nat /\ n \in Nat /\ l \in Nat
      /\ x.dataLength = n /\ x.start = a /\ x.limit = l
  BY ReaderFacts
<1> HIDE DEF c, a, n, l
<1>2. (n - (c - a) \in 0..l - c <=> a + n \in c..l) /\ c + (n - (c - a)) = a + n
  BY <1>1
<1> QED
  BY <1>1, <1>2 DEF c, a, n, l

LEMMA ExactRest ==
  ASSUME NEW m, Len(m) \in Nat, NEW d, NEW w \in Frames(m)
  PROVE  Exact(m, d, w, <<Kind("rest")>>, ToEnd(w))
<1> DEFINE f == Kind("rest")
<1>1. f \in Fields /\ <<f>> \o <<>> = <<f>> /\ <<>> \in Seq(Fields)
  BY KindField, OneField DEF Kinds
<1> SUFFICES ASSUME NEW x \in Readers(w)
             PROVE  EndsFrom(m, d, <<f>>, x) = ToEnd(w)[x.cur]
  BY DEF Exact
<1> DEFINE e == w.start + w.dataLength
           y == [x EXCEPT !.cur = e]
           T == Take(m, d, f, x)
           fits == x.dataLength - (x.cur - x.start) \in 0..x.limit - x.cur
<1>2. fits <=> e \in x.cur..w.limit
  BY RestWidth
<1>3. T = IF fits THEN {y} ELSE {}
  <2>1. T = IF fits THEN {[x EXCEPT !.cur = @ + (x.dataLength - (x.cur - x.start))]} ELSE {}
    BY TakeRest
  <2>2. x.cur + (x.dataLength - (x.cur - x.start)) = e
    BY RestWidth
  <2> HIDE DEF fits, e, f
  <2> QED
    BY <2>1, <2>2
<1>4. x.cur \in 0..w.limit /\ e \in Nat /\ w.limit \in Nat
  BY ReaderFacts
<1>5. ToEnd(w)[x.cur] = IF e \in x.cur..w.limit THEN {e} ELSE {}
  BY <1>4 DEF ToEnd
<1>6. /\ T = {y} => EndsFrom(m, d, <<f>>, x) = EndsFrom(m, d, <<>>, y)
      /\ T = {} => EndsFrom(m, d, <<f>>, x) = {}
  <2> HIDE DEF f, y
  <2>1. /\ \A v : T = {v} => EndsFrom(m, d, <<f>> \o <<>>, x) = EndsFrom(m, d, <<>>, v)
        /\ T = {} => EndsFrom(m, d, <<f>> \o <<>>, x) = {}
    BY <1>1, OneWay
  <2> QED
    BY <1>1, <2>1
<1> HIDE DEF f, T, fits, e
<1>7. CASE e \in x.cur..w.limit
  <2>1. e \in 0..w.limit
    BY <1>4, <1>7
  <2>2. y \in Readers(w) /\ y.cur = e
    BY <2>1, ReaderMoves
  <2> HIDE DEF y
  <2>3. EndsFrom(m, d, <<>>, y) = {e}
    BY <1>4, <2>2, NothingLeft
  <2> QED
    BY <1>2, <1>3, <1>5, <1>6, <1>7, <2>3
<1>8. CASE e \notin x.cur..w.limit
  BY <1>2, <1>3, <1>5, <1>6, <1>8
<1> QED
  BY <1>7, <1>8

LEMMA ExactText ==
  ASSUME NEW m, Len(m) \in Nat, NEW d, NEW w \in Frames(m)
  PROVE  Exact(m, d, w, <<Kind("text")>>, TextToEnd(m, d, w))
<1> DEFINE f == Kind("text")
<1>1. f \in Fields /\ <<f>> \o <<>> = <<f>> /\ <<>> \in Seq(Fields)
  BY KindField, OneField DEF Kinds
<1> SUFFICES ASSUME NEW x \in Readers(w)
             PROVE  EndsFrom(m, d, <<f>>, x) = TextToEnd(m, d, w)[x.cur]
  BY DEF Exact
<1> DEFINE e == w.start + w.dataLength
           y == [x EXCEPT !.cur = e]
           T == Take(m, d, f, x)
           n == x.dataLength - (x.cur - x.start)
           legible == d.utf8 => Decodes(m, x.cur, n)
           fits == n \in 0..x.limit - x.cur
<1>2. fits <=> e \in x.cur..w.limit
  BY RestWidth
<1>3. T = IF fits /\ legible THEN {y} ELSE {}
  <2>1. T = IF fits /\ legible THEN {[x EXCEPT !.cur = @ + n]} ELSE {}
    BY TakeText, Zenon
  <2>2. x.cur + n = e
    BY RestWidth
  <2> HIDE DEF fits, e, f, legible, n
  <2> QED
    BY <2>1, <2>2
<1>4. x.cur \in 0..w.limit /\ e \in Nat /\ w.limit \in Nat
      /\ x.dataLength = w.dataLength /\ x.start = w.start
  BY ReaderFacts
<1>5. TextToEnd(m, d, w)[x.cur]
        = IF e \in x.cur..w.limit /\ legible THEN {e} ELSE {}
  <2>1. legible <=> (d.utf8 => Decodes(m, x.cur, w.dataLength - (x.cur - w.start)))
    BY <1>4, Zenon
  <2>2. TextToEnd(m, d, w)[x.cur]
          = IF /\ e \in x.cur..w.limit
               /\ d.utf8 => Decodes(m, x.cur, w.dataLength - (x.cur - w.start))
            THEN {e} ELSE {}
    BY <1>4, Zenon DEF TextToEnd
  <2> HIDE DEF legible, e
  <2> QED
    BY <2>1, <2>2, Zenon
<1>6. /\ T = {y} => EndsFrom(m, d, <<f>>, x) = EndsFrom(m, d, <<>>, y)
      /\ T = {} => EndsFrom(m, d, <<f>>, x) = {}
  <2> HIDE DEF f, y
  <2>1. /\ \A v : T = {v} => EndsFrom(m, d, <<f>> \o <<>>, x) = EndsFrom(m, d, <<>>, v)
        /\ T = {} => EndsFrom(m, d, <<f>> \o <<>>, x) = {}
    BY <1>1, OneWay
  <2> QED
    BY <1>1, <2>1
<1> HIDE DEF f, T, fits, e, legible, n
<1>7. CASE e \in x.cur..w.limit /\ legible
  <2>1. e \in 0..w.limit
    BY <1>4, <1>7
  <2>2. y \in Readers(w) /\ y.cur = e
    BY <2>1, ReaderMoves
  <2> HIDE DEF y
  <2>3. EndsFrom(m, d, <<>>, y) = {e}
    BY <1>4, <2>2, NothingLeft
  <2> QED
    BY <1>2, <1>3, <1>5, <1>6, <1>7, <2>3
<1>8. CASE ~(e \in x.cur..w.limit /\ legible)
  BY <1>2, <1>3, <1>5, <1>6, <1>8, Zenon
<1> QED
  BY <1>7, <1>8

-----------------------------------------------------------------------------
(***************************************************************************)
(* The bodies, one by one: what their fields read is what DataEnds says.   *)
(***************************************************************************)
\* One field and then fields whose ends are known.
LEMMA FixedField == \A n \in Nat : Fixed(n) \in Fields
BY FixedPlain DEF Plain

LEMMA NameField == Kind("name") \in Fields
BY KindField DEF Kinds

LEMMA ExactOneFixed ==
  ASSUME NEW m, Len(m) \in Nat, NEW d, NEW w \in Frames(m), NEW n \in Nat
  PROVE  Exact(m, d, w, <<Fixed(n)>>, ThenFixed(w, n, Stop(w)))
<1> DEFINE f == Fixed(n)
<1>1. <<f>> \o <<>> = <<f>> /\ <<>> \in Seq(Fields)
  BY FixedField, OneField
<1>2. Exact(m, d, w, <<>>, Stop(w))
  BY ExactStop
<1>3. Exact(m, d, w, <<f>> \o <<>>, ThenFixed(w, n, Stop(w)))
  BY <1>1, <1>2, ExactFixed
<1> HIDE DEF f
<1> QED
  BY <1>1, <1>3 DEF f

LEMMA ExactOneName ==
  ASSUME NEW m \in Seq(Byte), NEW d, d.labelLimit \in 1..192, NEW w \in Frames(m)
  PROVE  Exact(m, d, w, <<Kind("name")>>, ThenName(m, d, w, Stop(w)))
<1> DEFINE f == Kind("name")
<1>1. Len(m) \in Nat
  BY LenProperties
<1>2. <<f>> \o <<>> = <<f>> /\ <<>> \in Seq(Fields)
  BY NameField, OneField
<1>3. Exact(m, d, w, <<>>, Stop(w))
  BY <1>1, ExactStop
<1>4. Exact(m, d, w, <<f>> \o <<>>, ThenName(m, d, w, Stop(w)))
  BY <1>2, <1>3, ExactName
<1> HIDE DEF f
<1> QED
  BY <1>2, <1>4 DEF f

\* What the functions say at the end of the message.
LEMMA FixedStops ==
  ASSUME NEW m, Len(m) \in Nat, NEW w \in Frames(m), w.limit = Len(m), NEW n \in Nat,
         NEW c \in 0..w.limit
  PROVE  ThenFixed(w, n, Stop(w))[c] = After(m, {c}, n)
<1>1. ThenFixed(w, n, Stop(w))[c] = IF n \in 0..w.limit - c THEN Stop(w)[c + n] ELSE {}
  BY DEF ThenFixed
<1>2. n \in 0..w.limit - c => c + n \in 0..w.limit
  OBVIOUS
<1>3. n \in 0..w.limit - c => Stop(w)[c + n] = {c + n}
  BY <1>2 DEF Stop
<1>4. c \in Nat /\ n \in Int
  OBVIOUS
<1>5. /\ n \in 0..Len(m) - c => After(m, {c}, n) = {c + n}
      /\ n \notin 0..Len(m) - c => After(m, {c}, n) = {}
  BY <1>4, AfterOne
<1> QED
  BY <1>1, <1>3, <1>5

LEMMA NameThenIs ==
  ASSUME NEW m \in Seq(Byte), NEW d, d.labelLimit \in 1..192, NEW w \in Frames(m),
         w.limit = Len(m), NEW F, NEW c \in 0..w.limit
  PROVE  /\ ThenName(m, d, w, F)[c] = UNION {F[q] : q \in NameEnds(m, d)[c]}
         /\ NameEnds(m, d)[c] \subseteq 0..w.limit
<1>1. ThenName(m, d, w, F)[c]
        = UNION {F[q] : q \in {e \in NameEnds(m, d)[c] : e <= w.limit}}
  BY DEF ThenName
<1>2. Len(m) \in Nat /\ c \in 0..Len(m)
  BY LenProperties
<1>3. \A e \in NameEnds(m, d)[c] : e \in c + 1..Len(m)
  BY <1>2, NameAhead
<1>4. \A e \in NameEnds(m, d)[c] : e <= w.limit /\ e \in 0..w.limit
  BY <1>2, <1>3
<1>5. {e \in NameEnds(m, d)[c] : e <= w.limit} = NameEnds(m, d)[c]
  BY <1>4
<1> QED
  BY <1>1, <1>4, <1>5

LEMMA NameStops ==
  ASSUME NEW m \in Seq(Byte), NEW d, d.labelLimit \in 1..192, NEW w \in Frames(m),
         w.limit = Len(m), NEW c \in 0..w.limit
  PROVE  ThenName(m, d, w, Stop(w))[c] = NameEnds(m, d)[c]
<1> DEFINE N == NameEnds(m, d)[c]
           F == Stop(w)
<1> HIDE DEF F
<1>1. ThenName(m, d, w, F)[c] = UNION {F[q] : q \in NameEnds(m, d)[c]}
  BY NameThenIs
<1>2. NameEnds(m, d)[c] \subseteq 0..w.limit
  BY NameThenIs
<1>3. ThenName(m, d, w, Stop(w))[c] = UNION {Stop(w)[q] : q \in N} /\ N \subseteq 0..w.limit
  BY <1>1, <1>2 DEF F
<1> HIDE DEF N
<1>4. \A q \in N : Stop(w)[q] = {q}
  BY <1>3 DEF Stop
<1>5. UNION {Stop(w)[q] : q \in N} = N
  BY <1>4
<1> QED
  BY <1>3, <1>5 DEF N

\* NS, CNAME, PTR
LEMMA NameBody ==
  ASSUME NEW m \in Seq(Byte), NEW d, d.labelLimit \in 1..192, NEW w \in Frames(m),
         w.limit = Len(m), NEW x \in Readers(w)
  PROVE  EndsFrom(m, d, <<Kind("name")>>, x) = NamesEnd(m, d, {x.cur})
<1>1. EndsFrom(m, d, <<Kind("name")>>, x) = ThenName(m, d, w, Stop(w))[x.cur]
  BY ExactOneName DEF Exact
<1>2. x.cur \in 0..w.limit
  BY DEF Readers
<1>3. ThenName(m, d, w, Stop(w))[x.cur] = NameEnds(m, d)[x.cur]
  BY <1>2, NameStops
<1>4. NamesEnd(m, d, {x.cur}) = NameEnds(m, d)[x.cur]
  BY DEF NamesEnd
<1> QED
  BY <1>1, <1>3, <1>4

\* A, AAAA, DS
LEMMA FixedBody ==
  ASSUME NEW m, Len(m) \in Nat, NEW d, NEW w \in Frames(m), w.limit = Len(m),
         NEW x \in Readers(w), NEW n \in Nat
  PROVE  EndsFrom(m, d, <<Fixed(n)>>, x) = After(m, {x.cur}, n)
<1>1. EndsFrom(m, d, <<Fixed(n)>>, x) = ThenFixed(w, n, Stop(w))[x.cur]
  BY ExactOneFixed DEF Exact
<1>2. x.cur \in 0..w.limit
  BY DEF Readers
<1> QED
  BY <1>1, <1>2, FixedStops

\* MX
LEMMA MxBody ==
  ASSUME NEW m \in Seq(Byte), NEW d, d.labelLimit \in 1..192, NEW w \in Frames(m),
         w.limit = Len(m), NEW x \in Readers(w)
  PROVE  EndsFrom(m, d, <<Fixed(2), Kind("name")>>, x)
           = NamesEnd(m, d, After(m, {x.cur}, 2))
<1> DEFINE F == ThenName(m, d, w, Stop(w))
           c == x.cur
           name == Kind("name")
<1>1. Len(m) \in Nat /\ c \in 0..w.limit /\ c \in Nat
  BY LenProperties DEF Readers
<1>2. Exact(m, d, w, <<name>>, F)
  BY ExactOneName
<1>3. <<name>> \in Seq(Fields) /\ <<Fixed(2)>> \o <<name>> = <<Fixed(2), name>>
  BY NameField, FixedField, OneField, TwoFields
<1>4. \A q \in 0..w.limit : F[q] = NameEnds(m, d)[q]
  BY NameStops
<1> HIDE DEF F, name
<1>5. Exact(m, d, w, <<Fixed(2)>> \o <<name>>, ThenFixed(w, 2, F))
  BY <1>1, <1>2, <1>3, ExactFixed
<1>6. EndsFrom(m, d, <<Fixed(2)>> \o <<name>>, x) = ThenFixed(w, 2, F)[c]
  BY <1>5 DEF Exact
<1>7. ThenFixed(w, 2, F)[c] = IF 2 \in 0..w.limit - c THEN F[c + 2] ELSE {}
  BY <1>1 DEF ThenFixed
<1>8. /\ 2 \in 0..Len(m) - c => After(m, {c}, 2) = {c + 2}
      /\ 2 \notin 0..Len(m) - c => After(m, {c}, 2) = {}
  BY <1>1, AfterOne
<1>9. CASE 2 \in 0..Len(m) - c
  <2>1. c + 2 \in 0..w.limit
    BY <1>1, <1>9
  <2>2. NamesEnd(m, d, {c + 2}) = NameEnds(m, d)[c + 2]
    BY DEF NamesEnd
  <2>3. F[c + 2] = NameEnds(m, d)[c + 2]
    BY <1>4, <2>1
  <2> QED
    BY <1>3, <1>6, <1>7, <1>8, <1>9, <2>2, <2>3 DEF name
<1>10. CASE 2 \notin 0..Len(m) - c
  <2>1. NamesEnd(m, d, {}) = {}
    BY DEF NamesEnd
  <2> QED
    BY <1>3, <1>6, <1>7, <1>8, <1>10, <2>1 DEF name
<1> QED
  BY <1>9, <1>10

\* SOA
LEMMA SoaBody ==
  ASSUME NEW m \in Seq(Byte), NEW d, d.labelLimit \in 1..192, NEW w \in Frames(m),
         w.limit = Len(m), NEW x \in Readers(w)
  PROVE  EndsFrom(m, d, <<Kind("name"), Kind("name"), Fixed(20)>>, x)
           = After(m, NamesEnd(m, d, NamesEnd(m, d, {x.cur})), 20)
<1> DEFINE F == ThenFixed(w, 20, Stop(w))
           G == ThenName(m, d, w, F)
           H == ThenName(m, d, w, G)
           c == x.cur
           name == Kind("name")
           f == Fixed(20)
<1>1. Len(m) \in Nat /\ c \in 0..w.limit
  BY LenProperties DEF Readers
<1>2. Exact(m, d, w, <<f>>, F)
  BY <1>1, ExactOneFixed
<1>3. name \in Fields /\ f \in Fields
  BY NameField, FixedField
<1>4. \A q \in 0..w.limit : F[q] = After(m, {q}, 20)
  <2> TAKE q \in 0..w.limit
  <2>1. 20 \in Nat
    OBVIOUS
  <2> QED
    BY <1>1, <2>1, FixedStops
<1>5. \A q \in 0..w.limit : G[q] = UNION {F[e] : e \in NameEnds(m, d)[q]}
  <2> HIDE DEF F
  <2> QED
    BY NameThenIs
<1>6. \A q \in 0..w.limit : H[q] = UNION {G[e] : e \in NameEnds(m, d)[q]}
  <2> HIDE DEF G
  <2> QED
    BY NameThenIs
<1>7. \A q \in 0..w.limit : NameEnds(m, d)[q] \subseteq 0..w.limit
  BY NameThenIs
<1> HIDE DEF name, f
<1>8. /\ <<f>> \in Seq(Fields) /\ <<name, f>> \in Seq(Fields)
      /\ <<name>> \o <<f>> = <<name, f>> /\ <<name>> \o <<name, f>> = <<name, name, f>>
  BY <1>3, OneField, TwoFields, ThreeFields
<1>9. Exact(m, d, w, <<name, f>>, G)
  <2> HIDE DEF F
  <2>1. Exact(m, d, w, <<name>> \o <<f>>, G)
    BY <1>2, <1>8, ExactName DEF name
  <2> QED
    BY <1>8, <2>1
<1>10. Exact(m, d, w, <<name, name, f>>, H)
  <2> HIDE DEF G
  <2>1. Exact(m, d, w, <<name>> \o <<name, f>>, H)
    BY <1>8, <1>9, ExactName DEF name
  <2> QED
    BY <1>8, <2>1
<1>11. EndsFrom(m, d, <<name, name, f>>, x) = H[c]
  BY <1>10 DEF Exact
<1> HIDE DEF F, G, H
<1> DEFINE N(q) == NameEnds(m, d)[q]
<1>12. \A i : i \in H[c] <=> \E a \in N(c) : \E b \in N(a) : i \in After(m, {b}, 20)
  <2>1. \A i : i \in H[c] <=> \E a \in N(c) : i \in G[a]
    BY <1>1, <1>6
  <2>2. \A a \in N(c) : \A i : i \in G[a] <=> \E b \in N(a) : i \in F[b]
    BY <1>1, <1>5, <1>7
  <2>3. \A a \in N(c) : \A b \in N(a) : F[b] = After(m, {b}, 20)
    BY <1>1, <1>4, <1>7
  <2> HIDE DEF N
  <2>4. \A i : \A a \in N(c) : (i \in G[a]) <=> (\E b \in N(a) : i \in After(m, {b}, 20))
    <3> SUFFICES ASSUME NEW i, NEW a \in N(c)
                 PROVE  (i \in G[a]) <=> (\E b \in N(a) : i \in After(m, {b}, 20))
      OBVIOUS
    <3>1. (i \in G[a]) <=> \E b \in N(a) : i \in F[b]
      BY <2>2
    <3>2. \A b \in N(a) : F[b] = After(m, {b}, 20)
      BY <2>3
    <3> QED
      BY <3>1, <3>2
  <2> TAKE i
  <2>5. i \in H[c] <=> \E a \in N(c) : i \in G[a]
    BY <2>1
  <2>6. \A a \in N(c) : (i \in G[a]) <=> (\E b \in N(a) : i \in After(m, {b}, 20))
    BY <2>4
  <2> QED
    BY <2>5, <2>6
<1>13. \A i : i \in After(m, NamesEnd(m, d, NamesEnd(m, d, {c})), 20)
                <=> \E a \in N(c) : \E b \in N(a) : i \in After(m, {b}, 20)
  <2>1. \A S, b : b \in NamesEnd(m, d, S) <=> \E a \in S : b \in N(a)
    BY DEF NamesEnd
  <2>2. \A S, i : i \in After(m, S, 20) <=> \E b \in S : i \in After(m, {b}, 20)
    BY DEF After
  <2>3. \A a : a \in NamesEnd(m, d, {c}) <=> a \in N(c)
    BY <2>1
  <2> DEFINE P == NamesEnd(m, d, {c})
             R == NamesEnd(m, d, P)
  <2>4. \A b : b \in R <=> \E a \in N(c) : b \in N(a)
    BY <2>1, <2>3
  <2>5. \A i : i \in After(m, R, 20) <=> \E b \in R : i \in After(m, {b}, 20)
    BY <2>2
  <2> HIDE DEF N, R
  <2>6. \A i : i \in After(m, R, 20)
                <=> \E a \in N(c) : \E b \in N(a) : i \in After(m, {b}, 20)
    BY <2>4, <2>5
  <2> QED
    BY <2>6 DEF R
<1>14. H[c] = After(m, NamesEnd(m, d, NamesEnd(m, d, {c})), 20)
  BY <1>12, <1>13
<1> QED
  BY <1>11, <1>14 DEF name, f

\* OPT
LEMMA OptBody ==
  ASSUME NEW m, Len(m) \in Nat, NEW d, NEW w \in Frames(m), w.limit = Len(m),
         NEW x \in Readers(w), x.cur = w.start
  PROVE  EndsFrom(m, d, <<Kind("rest")>>, x) = After(m, {x.cur}, w.dataLength)
<1> DEFINE c == x.cur
           n == w.dataLength
<1>1. EndsFrom(m, d, <<Kind("rest")>>, x) = ToEnd(w)[c]
  BY ExactRest DEF Exact
<1>2. c \in 0..w.limit /\ c \in Nat /\ n \in Nat
  BY ReaderFacts
<1>3. ToEnd(w)[c] = IF c + n \in c..w.limit THEN {c + n} ELSE {}
  BY <1>2 DEF ToEnd
<1>4. /\ n \in 0..Len(m) - c => After(m, {c}, n) = {c + n}
      /\ n \notin 0..Len(m) - c => After(m, {c}, n) = {}
  <2>1. c \in Nat /\ n \in Int
    BY <1>2
  <2> HIDE DEF c, n
  <2> QED
    BY <2>1, AfterOne
<1>5. c + n \in c..w.limit <=> n \in 0..Len(m) - c
  <2> HIDE DEF c, n
  <2> QED
    BY <1>2
<1>6. ToEnd(w)[c] = After(m, {c}, n)
  <2> HIDE DEF c, n
  <2> QED
    BY <1>3, <1>4, <1>5
<1> QED
  BY <1>1, <1>6

\* TXT
LEMMA TxtBody ==
  ASSUME NEW m, Len(m) \in Nat, NEW d, NEW w \in Frames(m), w.limit = Len(m),
         NEW x \in Readers(w), x.cur = w.start
  PROVE  EndsFrom(m, d, <<Kind("text")>>, x) = Text(m, {x.cur}, w.dataLength, d)
<1> DEFINE c == x.cur
           n == w.dataLength
           legible == d.utf8 => Decodes(m, c, n)
<1>1. EndsFrom(m, d, <<Kind("text")>>, x) = TextToEnd(m, d, w)[c]
  BY ExactText DEF Exact
<1>2. c \in 0..w.limit /\ c \in Nat /\ n \in Nat
  BY ReaderFacts
<1>3. n - (c - c) = n /\ w.start = c
  BY <1>2
<1>4. TextToEnd(m, d, w)[c]
        = IF /\ w.start + n \in c..w.limit
             /\ d.utf8 => Decodes(m, c, n - (c - w.start))
          THEN {w.start + n} ELSE {}
  BY <1>2, Zenon DEF TextToEnd
<1>5. TextToEnd(m, d, w)[c] = IF c + n \in c..w.limit /\ legible THEN {c + n} ELSE {}
  BY <1>3, <1>4, Zenon
<1>6. /\ n \in 0..Len(m) - c /\ legible => Text(m, {c}, n, d) = {c + n}
      /\ ~(n \in 0..Len(m) - c /\ legible) => Text(m, {c}, n, d) = {}
  <2>1. c \in Nat /\ n \in Int
    BY <1>2
  <2> QED
    BY <2>1, TextOne, Zenon
<1>7. c + n \in c..w.limit <=> n \in 0..Len(m) - c
  BY <1>2
<1> HIDE DEF legible
<1> QED
  BY <1>1, <1>5, <1>6, <1>7

\* KEY
LEMMA KeyBody ==
  ASSUME NEW m, Len(m) \in Nat, NEW d, NEW w \in Frames(m), w.limit = Len(m),
         NEW x \in Readers(w), x.cur = w.start
  PROVE  EndsFrom(m, d, <<Fixed(4), Kind("rest")>>, x)
           = IF w.dataLength >= 4 THEN After(m, {x.cur}, w.dataLength) ELSE {}
<1> DEFINE c == x.cur
           n == w.dataLength
           rest == Kind("rest")
           F == ToEnd(w)
<1>1. rest \in Fields /\ Fixed(4) \in Fields
  BY KindField, FixedField DEF Kinds
<1>2. Exact(m, d, w, <<rest>>, F)
  BY ExactRest
<1>3. c \in 0..w.limit /\ c \in Nat /\ n \in Nat /\ w.limit \in Nat
  BY ReaderFacts
<1> HIDE DEF rest
<1>4. <<rest>> \in Seq(Fields) /\ <<Fixed(4)>> \o <<rest>> = <<Fixed(4), rest>>
  BY <1>1, OneField, TwoFields
<1>5. Exact(m, d, w, <<Fixed(4)>> \o <<rest>>, ThenFixed(w, 4, F))
  <2> HIDE DEF F
  <2> QED
    BY <1>2, <1>4, ExactFixed
<1>6. EndsFrom(m, d, <<Fixed(4)>> \o <<rest>>, x) = ThenFixed(w, 4, F)[c]
  BY <1>5 DEF Exact
<1>7. ThenFixed(w, 4, F)[c] = IF 4 \in 0..w.limit - c THEN F[c + 4] ELSE {}
  BY <1>3 DEF ThenFixed
<1>8. 4 \in 0..w.limit - c
        => F[c + 4] = IF c + n \in c + 4..w.limit THEN {c + n} ELSE {}
  <2>1. 4 \in 0..w.limit - c => c + 4 \in 0..w.limit
    BY <1>3
  <2> QED
    BY <2>1 DEF ToEnd
<1>9. /\ n \in 0..Len(m) - c => After(m, {c}, n) = {c + n}
      /\ n \notin 0..Len(m) - c => After(m, {c}, n) = {}
  <2>1. c \in Nat /\ n \in Int
    BY <1>3
  <2> HIDE DEF c, n
  <2> QED
    BY <2>1, AfterOne
<1>10. (4 \in 0..w.limit - c /\ c + n \in c + 4..w.limit) <=> (n >= 4 /\ n \in 0..Len(m) - c)
  BY <1>3
<1> HIDE DEF c, n, F
<1>11. ThenFixed(w, 4, F)[c] = IF n >= 4 THEN After(m, {c}, n) ELSE {}
  BY <1>7, <1>8, <1>9, <1>10
<1> QED
  BY <1>4, <1>6, <1>11 DEF rest, c, n

\* RRSIG, with or without a substream that ends with the data.
LEMMA SignedEnds ==
  ASSUME NEW m \in Seq(Byte), NEW d, d.labelLimit \in 1..192, NEW w \in Frames(m),
         NEW x \in Readers(w), x.cur = w.start, NEW i
  PROVE  i \in EndsFrom(m, d, Signed, x)
           <=> /\ i = w.start + w.dataLength /\ i <= w.limit
               /\ w.start + 18 <= w.limit
               /\ \E e \in NameEnds(m, d)[w.start + 18] : e <= i
<1> DEFINE c == w.start
           n == w.dataLength
           l == w.limit
           rest == Kind("rest")
           name == Kind("name")
           f == Fixed(18)
           F == ToEnd(w)
           G == ThenName(m, d, w, F)
           H == ThenFixed(w, 18, G)
           N == NameEnds(m, d)[c + 18]
<1>1. rest \in Fields /\ name \in Fields /\ f \in Fields /\ Len(m) \in Nat
  BY KindField, FixedField, LenProperties DEF Kinds
<1>2. Exact(m, d, w, <<rest>>, F)
  BY <1>1, ExactRest
<1>3. c \in 0..l /\ c \in Nat /\ n \in Nat /\ l \in Nat /\ l <= Len(m) /\ x.cur = c
  BY <1>1, ReaderFacts
<1>4. /\ <<rest>> \in Seq(Fields) /\ <<name, rest>> \in Seq(Fields)
      /\ <<name>> \o <<rest>> = <<name, rest>>
      /\ <<f>> \o <<name, rest>> = <<f, name, rest>>
  <2> HIDE DEF rest, name, f
  <2> QED
    BY <1>1, OneField, TwoFields, ThreeFields
<1>5. Exact(m, d, w, <<name, rest>>, G)
  <2> HIDE DEF F, rest
  <2>1. Exact(m, d, w, <<name>> \o <<rest>>, G)
    BY <1>2, <1>4, ExactName
  <2> QED
    BY <1>4, <2>1
<1>6. Exact(m, d, w, <<f, name, rest>>, H)
  <2> HIDE DEF G, rest, name
  <2>1. Exact(m, d, w, <<f>> \o <<name, rest>>, H)
    BY <1>1, <1>4, <1>5, ExactFixed
  <2> QED
    BY <1>4, <2>1
<1>7. EndsFrom(m, d, Signed, x) = H[c]
  BY <1>3, <1>6 DEF Exact, Signed
<1>8. H[c] = IF 18 \in 0..l - c THEN G[c + 18] ELSE {}
  BY <1>3 DEF ThenFixed
<1>9. CASE c + 18 <= l
  <2>1. c + 18 \in 0..l /\ 18 \in 0..l - c
    BY <1>3, <1>9
  <2>2. G[c + 18] = UNION {F[q] : q \in {e \in N : e <= l}}
    BY <2>1 DEF ThenName
  <2>3. \A e \in N : e \in c + 19..Len(m)
    <3>1. c + 18 \in 0..Len(m)
      BY <1>1, <1>3, <1>9
    <3>2. \A e \in N : e \in (c + 18) + 1..Len(m)
      BY <3>1, NameAhead
    <3> QED
      BY <1>3, <3>2
  <2>4. \A e \in 0..l : F[e] = IF c + n \in e..l THEN {c + n} ELSE {}
    BY DEF ToEnd
  <2> HIDE DEF F, G, H, N
  <2>5. i \in H[c] <=> \E e \in N : e <= l /\ i \in F[e]
    BY <1>8, <2>1, <2>2
  <2>6. \A e \in N : e <= l /\ i \in F[e] <=> i = c + n /\ i <= l /\ e <= i
    <3> SUFFICES ASSUME NEW e \in N
                 PROVE  e <= l /\ i \in F[e] <=> i = c + n /\ i <= l /\ e <= i
      OBVIOUS
    <3>1. e \in Nat
      BY <1>3, <2>3
    <3>2. CASE e <= l
      <4>1. e \in 0..l
        BY <1>3, <3>1, <3>2
      <4>2. F[e] = IF c + n \in e..l THEN {c + n} ELSE {}
        BY <2>4, <4>1
      <4> HIDE DEF c, n, l
      <4> QED
        BY <1>3, <3>1, <3>2, <4>2
    <3>3. CASE ~(e <= l)
      <4> HIDE DEF c, n, l
      <4> QED
        BY <1>3, <3>1, <3>3
    <3> QED
      BY <3>2, <3>3
  <2>7. i \in H[c] <=> i = c + n /\ i <= l /\ \E e \in N : e <= i
    BY <2>5, <2>6
  <2> QED
    BY <1>7, <1>9, <2>7, Zenon DEF N
<1>10. CASE ~(c + 18 <= l)
  <2>1. 18 \notin 0..l - c
    BY <1>3, <1>10
  <2>2. H[c] = {}
    BY <1>8, <2>1
  <2> QED
    BY <1>7, <1>10, <2>2
<1> QED
  BY <1>9, <1>10

LEMMA SubstreamField == Kind("substream") \in Fields
BY KindField DEF Kinds

LEMMA SignedFields == Signed \in Seq(Fields)
BY SignedPlain, PlainOpens

\* A frame or a reader with another end.
Shorten(w, l) == [w EXCEPT !.limit = l]

\* The substream ends where the data are announced to end.
LEMMA SubstreamThen ==
  ASSUME NEW m \in Seq(Byte), NEW d, NEW w \in Frames(m), NEW x \in Readers(w),
         NEW s \in Seq(Fields), w.limit = Len(m), x.cur = w.start,
         w.start + w.dataLength <= Len(m)
  PROVE  EndsFrom(m, d, <<Kind("substream")>> \o s, x)
           = EndsFrom(m, d, s, Shorten(x, w.start + w.dataLength))
<1> DEFINE c == w.start
           n == w.dataLength
           f == Kind("substream")
           y == Shorten(x, c + n)
           T == Take(m, d, f, x)
<1>1. Len(m) \in Nat /\ f \in Fields
  BY LenProperties, SubstreamField
<1>2. /\ c \in 0..w.limit /\ c \in Nat /\ n \in Nat /\ w.limit \in Nat
      /\ x.limit = w.limit /\ x.dataLength = n /\ x.cur = c
  BY <1>1, ReaderFacts
<1>3. x.dataLength \in 0..x.limit - x.cur
  <2> HIDE DEF c, n
  <2>1. c + n <= w.limit
    BY DEF c, n
  <2> QED
    BY <1>2, <2>1
<1>4. T = {[x EXCEPT !.limit = x.cur + x.dataLength]}
  BY <1>3, TakeSubstream
<1>5. [x EXCEPT !.limit = x.cur + x.dataLength] = y
  BY <1>2 DEF Shorten
<1> HIDE DEF f, y, T
<1>6. \A z : T = {z} => EndsFrom(m, d, <<f>> \o s, x) = EndsFrom(m, d, s, z)
  BY <1>1, OneWay DEF T
<1> QED
  BY <1>4, <1>5, <1>6 DEF f, y

LEMMA SubstreamFails ==
  ASSUME NEW m \in Seq(Byte), NEW d, NEW w \in Frames(m), NEW x \in Readers(w),
         NEW s \in Seq(Fields), w.limit = Len(m), x.cur = w.start,
         ~(w.start + w.dataLength <= Len(m))
  PROVE  EndsFrom(m, d, <<Kind("substream")>> \o s, x) = {}
<1> DEFINE c == w.start
           n == w.dataLength
           f == Kind("substream")
           T == Take(m, d, f, x)
<1>1. Len(m) \in Nat /\ f \in Fields
  BY LenProperties, SubstreamField
<1>2. /\ c \in 0..w.limit /\ c \in Nat /\ n \in Nat /\ w.limit \in Nat
      /\ x.limit = w.limit /\ x.dataLength = n /\ x.cur = c
  BY <1>1, ReaderFacts
<1>3. x.dataLength \notin 0..x.limit - x.cur
  <2> HIDE DEF c, n
  <2>1. ~(c + n <= w.limit)
    BY DEF c, n
  <2> QED
    BY <1>2, <2>1
<1>4. T = {}
  BY <1>3, TakeSubstream
<1> HIDE DEF f, T
<1>5. T = {} => EndsFrom(m, d, <<f>> \o s, x) = {}
  BY <1>1, OneWay DEF T
<1> QED
  BY <1>4, <1>5 DEF f

LEMMA SubstreamFrame ==
  ASSUME NEW m, Len(m) \in Nat, NEW w \in Frames(m), NEW x \in Readers(w),
         x.cur = w.start, w.start + w.dataLength <= Len(m),
         NEW v, v = Shorten(w, w.start + w.dataLength),
         NEW y, y = Shorten(x, w.start + w.dataLength)
  PROVE  /\ v \in Frames(m) /\ y \in Readers(v) /\ y.cur = v.start
         /\ v.limit = w.start + w.dataLength
         /\ v.start = w.start /\ v.dataLength = w.dataLength
<1> DEFINE c == w.start
           n == w.dataLength
<1>1. /\ c \in Nat /\ n \in Nat /\ x.dataLength = n /\ x.start = c /\ x.length \in Nat
      /\ x.cur = c
  BY ReaderFacts
<1>2. c + n \in 0..Len(m) /\ c \in 0..c + n
  <2>1. c + n <= Len(m)
    OBVIOUS
  <2> HIDE DEF c, n
  <2> QED
    BY <1>1, <2>1
<1>3. /\ v \in Frames(m) /\ v.limit = c + n /\ v.start = c /\ v.dataLength = n
  BY <1>2 DEF Frames, Shorten
<1>4. y = [cur |-> c, limit |-> c + n, dataLength |-> n, start |-> c, length |-> x.length]
  BY <1>1 DEF Readers, Shorten
<1>5. y \in Readers(v)
  BY <1>1, <1>2, <1>3, <1>4 DEF Readers
<1> QED
  BY <1>3, <1>4, <1>5

LEMMA RrsigEnds ==
  \A m, d, p, n, i :
    i \in DataEnds(m, d, RRSIG, p, n)
      <=> /\ i \in After(m, {p}, n)
          /\ \E j \in NamesEnd(m, d, After(m, {p}, 18)) : j <= i
<1> SUFFICES ASSUME NEW m, NEW d, NEW p, NEW n, NEW i
             PROVE  i \in DataEnds(m, d, RRSIG, p, n)
                      <=> /\ i \in After(m, {p}, n)
                          /\ \E j \in NamesEnd(m, d, After(m, {p}, 18)) : j <= i
  OBVIOUS
<1> QED
  BY RrsigData

LEMMA RrsigBody ==
  ASSUME NEW m \in Seq(Byte), NEW d, d.labelLimit \in 1..192, NEW w \in Frames(m),
         w.limit = Len(m), NEW x \in Readers(w), x.cur = w.start
  PROVE  /\ EndsFrom(m, d, Signed, x) = DataEnds(m, d, RRSIG, w.start, w.dataLength)
         /\ EndsFrom(m, d, <<Kind("substream")>> \o Signed, x)
              = DataEnds(m, d, RRSIG, w.start, w.dataLength)
<1> DEFINE c == w.start
           n == w.dataLength
           N == NameEnds(m, d)[c + 18]
           D == DataEnds(m, d, RRSIG, c, n)
<1>1. /\ Len(m) \in Nat /\ c \in Nat /\ n \in Nat
  BY LenProperties, ReaderFacts
<1>2. c + 18 <= Len(m) => \A e \in N : e \in Nat /\ e > c + 18
  <2> SUFFICES ASSUME c + 18 <= Len(m) PROVE \A e \in N : e \in Nat /\ e > c + 18
    OBVIOUS
  <2> HIDE DEF c
  <2>1. c + 18 \in 0..Len(m) /\ c + 18 \in Nat
    BY <1>1
  <2>2. \A e \in N : e \in (c + 18) + 1..Len(m)
    BY <2>1, NameAhead
  <2> HIDE DEF N
  <2> QED
    BY <2>1, <2>2
<1>3. \A i : i \in D <=> /\ i = c + n /\ i <= Len(m) /\ c + 18 <= Len(m)
                         /\ \E e \in N : e <= i
  <2>1. \A i : i \in D <=> /\ i \in After(m, {c}, n)
                         /\ \E j \in NamesEnd(m, d, After(m, {c}, 18)) : j <= i
    BY RrsigEnds
  <2> HIDE DEF c, n, D
  <2>2. \A i : i \in After(m, {c}, n) <=> i = c + n /\ i <= Len(m)
    BY <1>1 DEF After
  <2>3. \A j : j \in After(m, {c}, 18) <=> j = c + 18 /\ c + 18 <= Len(m)
    BY <1>1 DEF After
  <2>4. \A j : j \in NamesEnd(m, d, After(m, {c}, 18)) <=> c + 18 <= Len(m) /\ j \in N
    BY <2>3 DEF NamesEnd
  <2> HIDE DEF N
  <2> QED
    BY <2>2, <2>4, <2>1
<1>4. EndsFrom(m, d, Signed, x) = D
  <2>1. \A i : i \in EndsFrom(m, d, Signed, x)
                 <=> /\ i = c + n /\ i <= Len(m) /\ c + 18 <= Len(m)
                     /\ \E e \in N : e <= i
    BY SignedEnds
  <2> HIDE DEF c, n, N, D
  <2>2. \A i : i \in EndsFrom(m, d, Signed, x) <=> i \in D
    BY <1>3, <2>1
  <2> QED
    BY <2>2
<1>5. EndsFrom(m, d, <<Kind("substream")>> \o Signed, x) = D
  <2> DEFINE v == Shorten(w, w.start + w.dataLength)
             y == Shorten(x, w.start + w.dataLength)
             E == EndsFrom(m, d, <<Kind("substream")>> \o Signed, x)
             G == EndsFrom(m, d, Signed, y)
  <2>1. v = Shorten(w, w.start + w.dataLength) /\ y = Shorten(x, w.start + w.dataLength)
    OBVIOUS
  <2> HIDE DEF v, y
  <2>2. Len(m) \in Nat /\ Signed \in Seq(Fields)
    BY LenProperties, SignedFields
  <2>3. c + n <= Len(m) =>
          /\ v \in Frames(m) /\ y \in Readers(v) /\ y.cur = v.start
          /\ v.limit = c + n /\ v.start = c /\ v.dataLength = n
    BY <2>1, <2>2, SubstreamFrame
  <2>4. c + n <= Len(m) => E = G
    <3> SUFFICES ASSUME c + n <= Len(m) PROVE E = G
      OBVIOUS
    <3> DEFINE s == Signed
    <3>1. s \in Seq(Fields)
      BY <2>2
    <3> HIDE DEF s
    <3>2. EndsFrom(m, d, <<Kind("substream")>> \o s, x)
            = EndsFrom(m, d, s, Shorten(x, w.start + w.dataLength))
      BY <3>1, SubstreamThen
    <3> QED
      BY <2>1, <3>2 DEF s
  <2>5. ~(c + n <= Len(m)) => E = {}
    <3> SUFFICES ASSUME ~(c + n <= Len(m)) PROVE E = {}
      OBVIOUS
    <3> DEFINE s == Signed
    <3>1. s \in Seq(Fields)
      BY <2>2
    <3> HIDE DEF s
    <3>2. EndsFrom(m, d, <<Kind("substream")>> \o s, x) = {}
      BY <3>1, SubstreamFails
    <3> QED
      BY <3>2 DEF s
  <2> HIDE DEF E
  <2>6. CASE c + n <= Len(m)
    <3>1. \A i : i \in G <=> /\ i = v.start + v.dataLength /\ i <= v.limit
                             /\ v.start + 18 <= v.limit
                             /\ \E e \in NameEnds(m, d)[v.start + 18] : e <= i
      BY <2>3, <2>6, SignedEnds
    <3> HIDE DEF G, c, n, D
    <3>2. \A i : i \in G <=> /\ i = c + n /\ i <= c + n /\ c + 18 <= c + n
                             /\ \E e \in N : e <= i
      BY <2>3, <2>6, <3>1
    <3> HIDE DEF N
    <3>3. \A i : i \in G <=> i \in D
      BY <1>1, <1>2, <1>3, <2>6, <3>2
    <3> QED
      BY <2>6, <2>4, <3>3 DEF E
  <2>7. CASE ~(c + n <= Len(m))
    <3> HIDE DEF c, n, D, N
    <3>1. E = {} /\ \A i : i \notin D
      BY <1>1, <1>3, <2>7, <2>5
    <3> QED
      BY <3>1 DEF E
  <2> QED
    BY <2>6, <2>7
<1> QED
  BY <1>4, <1>5

LEMMA ImageOne == \A F, c : Image(F, {c}) = F[c]
BY DEF Image

LEMMA ImageStop ==
  ASSUME NEW w, NEW S \in SUBSET (0..w.limit)
  PROVE  Image(Stop(w), S) = S
<1>1. \A q \in S : Stop(w)[q] = {q}
  BY DEF Stop
<1> DEFINE F == Stop(w)
<1> HIDE DEF F
<1>2. \A q \in S : F[q] = {q}
  BY <1>1 DEF F
<1>3. Image(F, S) = S
  <2>1. \A i : i \in Image(F, S) <=> \E q \in S : i \in F[q]
    BY DEF Image
  <2>2. \A i : i \in Image(F, S) <=> i \in S
    <3> TAKE i
    <3>1. ASSUME i \in S PROVE i \in Image(F, S)
      <4>1. F[i] = {i}
        BY <1>2, <3>1
      <4>2. i \in F[i]
        BY <4>1
      <4> QED
        BY <2>1, <3>1, <4>2
    <3>2. ASSUME NEW q \in S, i \in F[q] PROVE i \in S
      <4>1. F[q] = {q}
        BY <1>2
      <4> QED
        BY <3>2, <4>1
    <3> QED
      BY <2>1, <3>1, <3>2
  <2> QED
    BY <2>2
<1> QED
  BY <1>3 DEF F

LEMMA ImageFixed ==
  ASSUME NEW m, NEW w, Len(m) \in Nat, w.limit = Len(m), NEW n \in Nat, NEW F,
         NEW S \in SUBSET (0..Len(m))
  PROVE  Image(ThenFixed(w, n, F), S) = Image(F, After(m, S, n))
<1> DEFINE G == ThenFixed(w, n, F)
           L == Len(m)
<1>1. \A q \in S : G[q] = IF n \in 0..L - q THEN F[q + n] ELSE {}
  BY DEF ThenFixed
<1> HIDE DEF G
<1>2. \A q \in S : n \in 0..L - q <=> q + n <= L
  <2> SUFFICES ASSUME NEW q \in S PROVE n \in 0..L - q <=> q + n <= L
    OBVIOUS
  <2>1. q \in Nat /\ L \in Nat
    OBVIOUS
  <2> HIDE DEF L
  <2> QED
    BY <2>1
<1>3. \A i : i \in Image(G, S) <=> \E q \in S : i \in G[q]
  BY DEF Image
<1>4. \A i : i \in Image(G, S) <=> \E q \in S : q + n <= L /\ i \in F[q + n]
  BY <1>1, <1>2, <1>3
<1>5. \A e : e \in After(m, S, n) <=> \E q \in S : e = q + n /\ q + n <= L
  BY DEF After
<1>6. \A i : i \in Image(F, After(m, S, n)) <=> \E e \in After(m, S, n) : i \in F[e]
  BY DEF Image
<1>7. \A i : i \in Image(F, After(m, S, n)) <=> \E q \in S : q + n <= L /\ i \in F[q + n]
  BY <1>5, <1>6
<1>8. Image(G, S) = Image(F, After(m, S, n))
  BY <1>4, <1>7
<1> QED
  BY <1>8 DEF G

LEMMA CountedWithin ==
  ASSUME NEW m \in Seq(Byte), NEW S \in SUBSET (0..Len(m))
  PROVE  /\ Counted(m, S) \subseteq 0..Len(m)
         /\ \A e : e \in Counted(m, S) <=>
              \E q \in S : /\ q < Len(m) /\ m[q + 1] \in Nat
                           /\ e = q + 1 + m[q + 1] /\ e <= Len(m)
<1> DEFINE L == Len(m)
<1>1. L \in Nat
  BY LenProperties
<1>2. \A q \in S : q < L => m[q + 1] \in Nat /\ q + 1 \in Nat
  <2> SUFFICES ASSUME NEW q \in S, q < L PROVE m[q + 1] \in Nat /\ q + 1 \in Nat
    OBVIOUS
  <2>1. q \in Nat /\ q + 1 \in 1..L /\ q + 1 \in Nat
    BY <1>1
  <2>2. m[q + 1] \in Nat
    BY <2>1, ByteAt
  <2> QED
    BY <2>1, <2>2
<1> HIDE DEF L
<1>3. \A e : e \in Counted(m, S)
               <=> \E q \in S : q < L /\ e \in After(m, {q + 1}, m[q + 1])
  <2> TAKE e
  <2> DEFINE R == {q \in S : q < Len(m)}
             G(q) == After(m, {q + 1}, m[q + 1])
  <2>1. Counted(m, S) = UNION {G(q) : q \in R}
    BY Zenon DEF Counted
  <2>2. \A q : q \in R <=> q \in S /\ q < L
    BY DEF L
  <2> HIDE DEF R, G
  <2>3. e \in Counted(m, S) <=> \E q \in S : q < L /\ e \in G(q)
    BY <2>1, <2>2
  <2> QED
    BY <2>3 DEF G
<1>4. \A q \in S : q < L => \A e : e \in After(m, {q + 1}, m[q + 1])
                                     <=> e = q + 1 + m[q + 1] /\ e <= L
  <2> SUFFICES ASSUME NEW q \in S, q < L, NEW e
               PROVE  e \in After(m, {q + 1}, m[q + 1]) <=> e = q + 1 + m[q + 1] /\ e <= L
    OBVIOUS
  <2> DEFINE b == m[q + 1]
             c == q + 1
  <2>1. b \in Nat /\ c \in Nat
    BY <1>2
  <2> HIDE DEF b, c
  <2>2. e \in After(m, {c}, b) <=> e = c + b /\ e <= L
    BY <2>1 DEF After, L
  <2> QED
    BY <2>2 DEF b, c
<1>5. \A e : e \in Counted(m, S) <=>
        \E q \in S : q < L /\ m[q + 1] \in Nat /\ e = q + 1 + m[q + 1] /\ e <= L
  <2> SUFFICES ASSUME NEW e
               PROVE  e \in Counted(m, S) <=>
                        \E q \in S : q < L /\ m[q + 1] \in Nat /\ e = q + 1 + m[q + 1] /\ e <= L
    OBVIOUS
  <2>1. \A q \in S : q < L /\ e \in After(m, {q + 1}, m[q + 1])
          <=> q < L /\ m[q + 1] \in Nat /\ e = q + 1 + m[q + 1] /\ e <= L
    BY <1>2, <1>4
  <2> QED
    BY <1>3, <2>1
<1>6. Counted(m, S) \subseteq 0..L
  <2> SUFFICES ASSUME NEW e \in Counted(m, S) PROVE e \in 0..L
    OBVIOUS
  <2>1. PICK q \in S : q < L /\ m[q + 1] \in Nat /\ e = q + 1 + m[q + 1] /\ e <= L
    BY <1>5
  <2> DEFINE b == m[q + 1]
  <2>2. b \in Nat /\ e = q + 1 + b /\ q \in Nat /\ e <= L
    BY <2>1
  <2> HIDE DEF b
  <2> QED
    BY <1>1, <2>2
<1> QED
  BY <1>5, <1>6 DEF L

LEMMA ImageCounted ==
  ASSUME NEW m \in Seq(Byte), NEW w, w.limit = Len(m), NEW F,
         NEW S \in SUBSET (0..Len(m))
  PROVE  Image(ThenCounted(m, w, F), S) = Image(F, Counted(m, S))
<1> DEFINE G == ThenCounted(m, w, F)
           L == Len(m)
<1>1. L \in Nat
  BY LenProperties
<1>2. \A q \in S : G[q] = IF q < L /\ m[q + 1] \in 0..L - (q + 1)
                          THEN F[q + 1 + m[q + 1]] ELSE {}
  BY DEF ThenCounted
<1>3. \A q \in S : q < L => m[q + 1] \in Nat
  <2> SUFFICES ASSUME NEW q \in S, q < L PROVE m[q + 1] \in Nat
    OBVIOUS
  <2>1. q \in Nat /\ q + 1 \in 1..L
    BY <1>1
  <2> QED
    BY <2>1, ByteAt
<1>4. \A e : e \in Counted(m, S) <=>
        \E q \in S : q < L /\ m[q + 1] \in Nat /\ e = q + 1 + m[q + 1] /\ e <= L
  BY CountedWithin
<1> HIDE DEF G, L
<1>5. \A q \in S : q < L => (m[q + 1] \in 0..L - (q + 1) <=> q + 1 + m[q + 1] <= L)
  <2> SUFFICES ASSUME NEW q \in S, q < L
               PROVE  m[q + 1] \in 0..L - (q + 1) <=> q + 1 + m[q + 1] <= L
    OBVIOUS
  <2> DEFINE b == m[q + 1]
  <2>1. b \in Nat /\ q \in Nat
    BY <1>3
  <2> HIDE DEF b
  <2>2. b \in 0..L - (q + 1) <=> q + 1 + b <= L
    BY <1>1, <2>1
  <2> QED
    BY <2>2 DEF b
<1>6. \A i : i \in Image(G, S)
        <=> \E q \in S : q < L /\ q + 1 + m[q + 1] <= L /\ i \in F[q + 1 + m[q + 1]]
  <2>1. \A i : i \in Image(G, S) <=> \E q \in S : i \in G[q]
    BY DEF Image
  <2>2. \A q \in S : \A i : i \in G[q]
          <=> q < L /\ q + 1 + m[q + 1] <= L /\ i \in F[q + 1 + m[q + 1]]
    BY <1>2, <1>5
  <2> QED
    BY <2>1, <2>2
<1>7. \A i : i \in Image(F, Counted(m, S)) <=> \E e \in Counted(m, S) : i \in F[e]
  BY DEF Image
<1>8. \A i : i \in Image(F, Counted(m, S))
        <=> \E q \in S : q < L /\ q + 1 + m[q + 1] <= L /\ i \in F[q + 1 + m[q + 1]]
  BY <1>3, <1>4, <1>7
<1>9. Image(G, S) = Image(F, Counted(m, S))
  BY <1>6, <1>8
<1> QED
  BY <1>9 DEF G

LEMMA FourFields ==
  ASSUME NEW f \in Fields, NEW g \in Fields, NEW h \in Fields, NEW i \in Fields
  PROVE  <<f>> \o <<g, h, i>> = <<f, g, h, i>> /\ <<f, g, h, i>> \in Seq(Fields)
<1> DEFINE s == <<g, h, i>>
           t == <<f, g, h, i>>
<1>1. /\ s \in Seq(Fields) /\ t \in Seq(Fields) /\ Len(s) = 3 /\ Len(t) = 4
      /\ s[1] = g /\ s[2] = h /\ s[3] = i /\ t[1] = f /\ t[2] = g /\ t[3] = h /\ t[4] = i
  <2>1. s \in Seq(Fields)
    OBVIOUS
  <2>2. t \in Seq(Fields)
    OBVIOUS
  <2>3. Len(s) = 3 /\ s[1] = g /\ s[2] = h /\ s[3] = i
    OBVIOUS
  <2>4. Len(t) = 4 /\ t[1] = f /\ t[2] = g /\ t[3] = h /\ t[4] = i
    OBVIOUS
  <2> QED
    BY <2>1, <2>2, <2>3, <2>4
<1> HIDE DEF s, t
<1>2. \A k \in 1..Len(s) : t[k + 1] = s[k]
  BY <1>1
<1>3. <<f>> \o s = t
  <2> USE <1>1, <1>2
  <2>1. Len(t) = Len(s) + 1 /\ t[1] = f
    OBVIOUS
  <2> QED
    BY <2>1, PrefixOne
<1> QED
  BY <1>1, <1>3 DEF s, t

LEMMA FiveFields ==
  ASSUME NEW f \in Fields, NEW g \in Fields, NEW h \in Fields, NEW i \in Fields,
         NEW j \in Fields
  PROVE  <<f>> \o <<g, h, i, j>> = <<f, g, h, i, j>> /\ <<f, g, h, i, j>> \in Seq(Fields)
<1> DEFINE s == <<g, h, i, j>>
           t == <<f, g, h, i, j>>
<1>1. /\ s \in Seq(Fields) /\ t \in Seq(Fields) /\ Len(s) = 4 /\ Len(t) = 5
      /\ s[1] = g /\ s[2] = h /\ s[3] = i /\ s[4] = j
      /\ t[1] = f /\ t[2] = g /\ t[3] = h /\ t[4] = i /\ t[5] = j
  <2>1. s \in Seq(Fields)
    OBVIOUS
  <2>2. t \in Seq(Fields)
    OBVIOUS
  <2>3. Len(s) = 4 /\ s[1] = g /\ s[2] = h /\ s[3] = i /\ s[4] = j
    OBVIOUS
  <2>4. Len(t) = 5 /\ t[1] = f /\ t[2] = g /\ t[3] = h /\ t[4] = i /\ t[5] = j
    OBVIOUS
  <2> QED
    BY <2>1, <2>2, <2>3, <2>4
<1> HIDE DEF s, t
<1>2. \A k \in 1..Len(s) : t[k + 1] = s[k]
  BY <1>1
<1>3. <<f>> \o s = t
  <2> USE <1>1, <1>2
  <2>1. Len(t) = Len(s) + 1 /\ t[1] = f
    OBVIOUS
  <2> QED
    BY <2>1, PrefixOne
<1> QED
  BY <1>1, <1>3 DEF s, t

LEMMA Associates ==
  ASSUME NEW s \in Seq(Fields), NEW t \in Seq(Fields), NEW u \in Seq(Fields)
  PROVE  (s \o t) \o u = s \o (t \o u)
BY ConcatAssociative

LEMMA AssociatesTwice ==
  ASSUME NEW p \in Seq(Fields), NEW q \in Seq(Fields), NEW r \in Seq(Fields),
         NEW last \in Seq(Fields)
  PROVE  /\ (p \o q) \o r \o last = p \o (q \o (r \o last))
         /\ (p \o q) \o <<>> \o last = p \o (q \o last)
<1>1. (p \o q) \o last = p \o (q \o last)
  BY Associates
<1>2. ASSUME NEW u \in Seq(Fields) PROVE (p \o q) \o u = p \o (q \o u)
  BY Associates, SMTT(30)
<1>3. r \o last \in Seq(Fields) /\ p \o q \in Seq(Fields)
  BY ConcatProperties
<1>4. ((p \o q) \o r) \o last = (p \o q) \o (r \o last)
  <2> DEFINE v == p \o q
  <2>1. v \in Seq(Fields)
    BY <1>3
  <2> HIDE DEF v
  <2>2. (v \o r) \o last = v \o (r \o last)
    BY <2>1, Associates
  <2> QED
    BY <2>2 DEF v
<1>5. (p \o q) \o (r \o last) = p \o (q \o (r \o last))
  BY <1>2, <1>3
<1>6. (p \o q) \o <<>> = p \o q
  BY <1>3, ConcatEmptySeq
<1> QED
  BY <1>1, <1>4, <1>5, <1>6

\* The fields of NSEC3 behind its salt.
LEMMA FieldsBehind ==
  ASSUME NEW l \in Fields, NEW o \in Fields, NEW b \in Fields
  PROVE  <<l>> \o (<<o>> \o (<<b>> \o (<<l>> \o (<<o>> \o <<>>)))) = <<l, o, b, l, o>>
<1>1. /\ <<o>> \o <<>> = <<o>> /\ <<l>> \o <<o>> = <<l, o>>
      /\ <<b>> \o <<l, o>> = <<b, l, o>> /\ <<o>> \o <<b, l, o>> = <<o, b, l, o>>
      /\ <<l>> \o <<o, b, l, o>> = <<l, o, b, l, o>>
  BY OneField, TwoFields, ThreeFields, FourFields, FiveFields
<1> QED
  BY <1>1

\* The fields of NSEC3 in front of those, with a salt and without.
SaltGroups(f, l, o, s) ==
  <<f, l>> \o <<o>> \o s = <<f>> \o (<<l>> \o (<<o>> \o s))

NoSaltGroups(f, l, s) == <<f, l>> \o <<>> \o s = <<f>> \o (<<l>> \o s)

LEMMA SaltInFront ==
  ASSUME NEW f \in Fields, NEW l \in Fields, NEW o \in Fields, NEW s \in Seq(Fields)
  PROVE  SaltGroups(f, l, o, s)
<1>1. /\ <<f>> \in Seq(Fields) /\ <<l>> \in Seq(Fields) /\ <<o>> \in Seq(Fields)
      /\ <<f, l>> \in Seq(Fields)
  OBVIOUS
<1>2. (<<f>> \o <<l>>) \o <<o>> \o s = <<f>> \o (<<l>> \o (<<o>> \o s))
  BY <1>1, AssociatesTwice
<1>3. <<f>> \o <<l>> = <<f, l>>
  BY TwoFields
<1> QED
  BY <1>2, <1>3, Zenon DEF SaltGroups

LEMMA NoSaltInFront ==
  ASSUME NEW f \in Fields, NEW l \in Fields, NEW s \in Seq(Fields)
  PROVE  NoSaltGroups(f, l, s)
<1>1. /\ <<f>> \in Seq(Fields) /\ <<l>> \in Seq(Fields)
      /\ <<f, l>> \in Seq(Fields)
  OBVIOUS
<1>2. (<<f>> \o <<l>>) \o <<>> \o s = <<f>> \o (<<l>> \o s)
  BY <1>1, AssociatesTwice
<1>3. <<f>> \o <<l>> = <<f, l>>
  BY TwoFields
<1> QED
  BY <1>2, <1>3, Zenon DEF NoSaltGroups

\* NSEC3, with the salt that its length announces or without.
LEMMA Nsec3Body ==
  ASSUME NEW m \in Seq(Byte), NEW d, NEW w \in Frames(m), w.limit = Len(m),
         NEW x \in Readers(w), NEW n
  PROVE  EndsFrom(m, d,
           <<Fixed(4), Kind("length")>>
             \o (IF d.salted THEN <<Kind("octets")>> ELSE <<>>)
             \o <<Kind("length"), Kind("octets"), Fixed(1), Kind("length"), Kind("octets")>>, x)
           = DataEnds(m, d, NSEC3, x.cur, n)
<1> DEFINE f == Fixed(4)
           l == Kind("length")
           o == Kind("octets")
           b == Fixed(1)
           none == <<>>
           s1 == <<l>> \o (<<o>> \o none)
           s2 == <<b>> \o s1
           last == <<l>> \o (<<o>> \o s2)
           full == <<l>> \o (<<o>> \o last)
           bare == <<l>> \o last
           F1 == ThenCounted(m, w, Stop(w))
           F2 == ThenFixed(w, 1, F1)
           F3 == ThenCounted(m, w, F2)
           FF == ThenCounted(m, w, F3)
           FB == ThenFixed(w, 1, F3)
           c == x.cur
<1>1. Len(m) \in Nat /\ w.limit \in Nat /\ c \in 0..Len(m)
  BY LenProperties DEF Readers, Frames
<1>2. f \in Fields /\ l \in Fields /\ o \in Fields /\ b \in Fields
  BY FixedField, KindField DEF Kinds
<1>3. none \in Seq(Fields) /\ Exact(m, d, w, none, Stop(w))
  BY <1>1, ExactStop, EmptySeq
<1>4. <<o>> \o none \in Seq(Fields) /\ s1 \in Seq(Fields) /\ Exact(m, d, w, s1, F1)
  <2> DEFINE F == Stop(w)
  <2> HIDE DEF none, F
  <2>1. <<o>> \o none \in Seq(Fields) /\ Exact(m, d, w, s1, ThenCounted(m, w, F))
    BY <1>3, ExactCounted DEF F
  <2>2. s1 \in Seq(Fields)
    <3> DEFINE t == <<o>> \o none
    <3>1. t \in Seq(Fields)
      BY <2>1
    <3> HIDE DEF t, l
    <3> QED
      BY <1>2, <3>1, OneThenMore DEF t
  <2> QED
    BY <2>1, <2>2 DEF F
<1>5. s2 \in Seq(Fields) /\ Exact(m, d, w, s2, F2)
  <2> HIDE DEF s1, F1
  <2>1. Exact(m, d, w, s2, F2)
    BY <1>1, <1>4, ExactFixed
  <2>2. s2 \in Seq(Fields)
    <3> HIDE DEF b
    <3> QED
      BY <1>2, <1>4, OneThenMore
  <2> QED
    BY <2>1, <2>2
<1>6. last \in Seq(Fields) /\ Exact(m, d, w, last, F3)
  <2> HIDE DEF s2, F2
  <2>1. <<o>> \o s2 \in Seq(Fields) /\ Exact(m, d, w, last, F3)
    BY <1>5, ExactCounted
  <2>2. last \in Seq(Fields)
    <3> DEFINE t == <<o>> \o s2
    <3>1. t \in Seq(Fields)
      BY <2>1
    <3> HIDE DEF t, l
    <3> QED
      BY <1>2, <3>1, OneThenMore DEF t
  <2> QED
    BY <2>1, <2>2
<1>7. full \in Seq(Fields) /\ Exact(m, d, w, full, FF)
  <2> HIDE DEF last, F3
  <2>1. <<o>> \o last \in Seq(Fields) /\ Exact(m, d, w, full, FF)
    BY <1>6, ExactCounted
  <2>2. full \in Seq(Fields)
    <3> DEFINE t == <<o>> \o last
    <3>1. t \in Seq(Fields)
      BY <2>1
    <3> HIDE DEF t, l
    <3> QED
      BY <1>2, <3>1, OneThenMore DEF t
  <2> QED
    BY <2>1, <2>2
<1>8. bare \in Seq(Fields) /\ Exact(m, d, w, bare, FB)
  <2> HIDE DEF last, F3
  <2>1. Exact(m, d, w, bare, FB)
    BY <1>6, ExactLength
  <2>2. bare \in Seq(Fields)
    <3> HIDE DEF l
    <3> QED
      BY <1>2, <1>6, OneThenMore
  <2> QED
    BY <2>1, <2>2
<1>9. /\ last = <<l, o, b, l, o>>
      /\ <<f, l>> \o <<o>> \o last = <<f>> \o full
      /\ <<f, l>> \o <<>> \o last = <<f>> \o bare
  <2>1. last = <<l, o, b, l, o>>
    <3> HIDE DEF f, l, o, b
    <3> QED
      BY <1>2, FieldsBehind
  <2>2. /\ <<f, l>> \o <<o>> \o last = <<f>> \o full
        /\ <<f, l>> \o <<>> \o last = <<f>> \o bare
    <3>1. last \in Seq(Fields)
      BY <1>6
    <3> HIDE DEF f, l, o, b, last
    <3>2. <<f, l>> \o <<o>> \o last = <<f>> \o (<<l>> \o (<<o>> \o last))
      <4>1. SaltGroups(f, l, o, last)
        BY <1>2, <3>1, SaltInFront
      <4> QED
        BY <4>1, Zenon DEF SaltGroups
    <3>3. <<f, l>> \o <<>> \o last = <<f>> \o (<<l>> \o last)
      <4>1. NoSaltGroups(f, l, last)
        BY <1>2, <3>1, NoSaltInFront
      <4> QED
        BY <4>1, Zenon DEF NoSaltGroups
    <3> QED
      BY <3>2, <3>3, Zenon
  <2> QED
    BY <2>1, <2>2
<1> DEFINE S0 == After(m, {c}, 4)
           S1 == Salt(m, d, S0)
           S2 == Counted(m, S1)
           S3 == After(m, S2, 1)
           S4 == Counted(m, S3)
<1>10. S0 \in SUBSET (0..Len(m)) /\ S1 \in SUBSET (0..Len(m)) /\ S2 \in SUBSET (0..Len(m))
      /\ S3 \in SUBSET (0..Len(m)) /\ S4 \in SUBSET (0..Len(m))
  <2>1. {c} \in SUBSET (0..Len(m))
    BY <1>1
  <2>2. S0 \in SUBSET (0..Len(m))
    BY <1>1, <2>1, AfterWithin
  <2>3. Counted(m, S0) \subseteq 0..Len(m) /\ After(m, S0, 1) \subseteq 0..Len(m)
    <3> HIDE DEF S0
    <3> QED
      BY <1>1, <2>2, AfterWithin, CountedWithin
  <2>4. S1 \in SUBSET (0..Len(m))
    BY <2>3 DEF Salt
  <2>5. S2 \in SUBSET (0..Len(m))
    <3> HIDE DEF S1
    <3> QED
      BY <2>4, CountedWithin
  <2>6. S3 \in SUBSET (0..Len(m))
    <3> HIDE DEF S2
    <3> QED
      BY <1>1, <2>5, AfterWithin
  <2>7. S4 \in SUBSET (0..Len(m))
    <3> HIDE DEF S3
    <3> QED
      BY <2>6, CountedWithin
  <2> QED
    BY <2>2, <2>4, <2>5, <2>6, <2>7
<1>11. S4 = DataEnds(m, d, NSEC3, c, n)
  BY Nsec3Data
<1>12. Image(F3, S1) = S4
  <2>1. Image(F3, S1) = Image(F2, S2)
    <3> HIDE DEF F2, S1
    <3> QED
      BY <1>10, ImageCounted
  <2>2. Image(F2, S2) = Image(F1, S3)
    <3> HIDE DEF F1, S2
    <3> QED
      BY <1>1, <1>10, ImageFixed
  <2>3. Image(F1, S3) = Image(Stop(w), S4)
    <3> HIDE DEF S3
    <3> QED
      BY <1>10, ImageCounted
  <2>4. Image(Stop(w), S4) = S4
    <3> HIDE DEF S4
    <3> QED
      BY <1>10, ImageStop
  <2> HIDE DEF F1, F2, F3, S1, S2, S3, S4
  <2> QED
    BY <2>1, <2>2, <2>3, <2>4
<1>13. ASSUME NEW s \in Seq(Fields), NEW F, Exact(m, d, w, s, F), Image(F, S0) = S4
       PROVE  EndsFrom(m, d, <<f>> \o s, x) = S4
  <2> HIDE DEF S4
  <2>1. Exact(m, d, w, <<f>> \o s, ThenFixed(w, 4, F))
    BY <1>1, <1>13, ExactFixed
  <2>2. EndsFrom(m, d, <<f>> \o s, x) = ThenFixed(w, 4, F)[c]
    BY <2>1 DEF Exact
  <2>3. Image(ThenFixed(w, 4, F), {c}) = Image(F, S0)
    <3>1. {c} \in SUBSET (0..Len(m))
      BY <1>1
    <3> QED
      BY <1>1, <3>1, ImageFixed
  <2>4. Image(ThenFixed(w, 4, F), {c}) = ThenFixed(w, 4, F)[c]
    BY ImageOne
  <2> QED
    BY <1>13, <2>2, <2>3, <2>4
<1>14. CASE d.salted
  <2>1. Image(FF, S0) = Image(F3, S1)
    <3>1. S1 = Counted(m, S0)
      BY <1>14 DEF Salt
    <3> HIDE DEF F3, S0, S1
    <3>2. Image(FF, S0) = Image(F3, Counted(m, S0))
      BY <1>10, ImageCounted
    <3> QED
      BY <3>1, <3>2
  <2> HIDE DEF FF, full, f, l, o, b, last, S4, S0, S1, F3
  <2>2. EndsFrom(m, d, <<f>> \o full, x) = S4
    BY <1>7, <1>12, <1>13, <2>1
  <2>3. EndsFrom(m, d, <<f, l>> \o <<o>> \o <<l, o, b, l, o>>, x) = S4
    BY <1>9, <2>2, Zenon
  <2>4. EndsFrom(m, d, <<f, l>> \o (IF d.salted THEN <<o>> ELSE <<>>) \o <<l, o, b, l, o>>, x) = S4
    BY <1>14, <2>3, Zenon
  <2> QED
    BY <1>11, <2>4, Zenon DEF f, l, o, b
<1>15. CASE ~d.salted
  <2>1. Image(FB, S0) = Image(F3, S1)
    <3>1. S1 = After(m, S0, 1)
      BY <1>15 DEF Salt
    <3> HIDE DEF F3, S0, S1
    <3>2. Image(FB, S0) = Image(F3, After(m, S0, 1))
      BY <1>1, <1>10, ImageFixed
    <3> QED
      BY <3>1, <3>2
  <2> HIDE DEF FB, bare, f, l, o, b, last, S4, S0, S1, F3
  <2>2. EndsFrom(m, d, <<f>> \o bare, x) = S4
    BY <1>8, <1>12, <1>13, <2>1
  <2>3. EndsFrom(m, d, <<f, l>> \o <<>> \o <<l, o, b, l, o>>, x) = S4
    BY <1>9, <2>2, Zenon
  <2>4. EndsFrom(m, d, <<f, l>> \o (IF d.salted THEN <<o>> ELSE <<>>) \o <<l, o, b, l, o>>, x) = S4
    BY <1>15, <2>3, Zenon
  <2> QED
    BY <1>11, <2>4, Zenon DEF f, l, o, b
<1> QED
  BY <1>14, <1>15

-----------------------------------------------------------------------------
(***************************************************************************)
(* All bodies together, and the fields of a record in front of its body.   *)
(***************************************************************************)
LEMMA DialectFacts ==
  ASSUME tool \in Tools
  PROVE  /\ dialect.labelLimit \in 1..192 /\ dialect.types = KnownTypes
         /\ dialect.unknown \in {"reject", "skip"}
         /\ TriesEachAlternative(tool) => dialect.unknown = "reject"
<1>1. tool \in {"scl", "antlr", "construct", "construct_switch", "kaitai", "spicy",
                "spicy_lookahead", "formatFuzzer"}
  BY DEF Tools
<1>2. dialect.labelLimit \in {64, 65}
  BY DEF dialect, Dialect, Common
<1>3. dialect.unknown \in {"reject", "skip"}
  BY DEF dialect, Dialect, Common
<1>4. TriesEachAlternative(tool) => dialect.unknown = "reject"
  BY DEF dialect, Dialect, Common, TriesEachAlternative
<1> QED
  BY <1>2, <1>3, <1>4, TypesKnown

\* What the fields of a body read is what the grammar says of its data.
LEMMA BodyEnds ==
  ASSUME NEW m \in Seq(Byte), tool \in Tools, NEW t \in KnownTypes, NEW w \in Frames(m),
         w.limit = Len(m), NEW x \in Readers(w), x.cur = w.start
  PROVE  EndsFrom(m, dialect, Body(t), x)
           = DataEnds(m, dialect, t, w.start, w.dataLength)
<1> DEFINE d == dialect
           n == w.dataLength
           c == w.start
<1>1. t \in {A, NS, CNAME, SOA, PTR, MX, TXT, AAAA, OPT, DS, RRSIG, KEY, NSEC3}
  BY DEF KnownTypes, ResourceRecord
<1>2. d.labelLimit \in 1..192 /\ Len(m) \in Nat
  BY DialectFacts, LenProperties
<1>3. /\ t = A => Body(t) = <<Fixed(4)>>
      /\ t \in {NS, CNAME, PTR} => Body(t) = <<Kind("name")>>
      /\ t = AAAA => Body(t) = <<Fixed(16)>>
      /\ t = DS => Body(t) = <<Fixed(36)>>
  <2>1. t = A => Body(t) = <<Fixed(4)>>
    BY DEF Body, A, NS, CNAME, SOA, PTR, MX, TXT, AAAA, OPT, DS, RRSIG, KEY, NSEC3
  <2>2. t \in {NS, CNAME, PTR} => Body(t) = <<Kind("name")>>
    <3>1. t = NS => Body(t) = <<Kind("name")>>
      BY DEF Body, A, NS, CNAME, SOA, PTR, MX, TXT, AAAA, OPT, DS, RRSIG, KEY, NSEC3
    <3>2. t = CNAME => Body(t) = <<Kind("name")>>
      BY DEF Body, A, NS, CNAME, SOA, PTR, MX, TXT, AAAA, OPT, DS, RRSIG, KEY, NSEC3
    <3>3. t = PTR => Body(t) = <<Kind("name")>>
      BY DEF Body, A, NS, CNAME, SOA, PTR, MX, TXT, AAAA, OPT, DS, RRSIG, KEY, NSEC3
    <3> QED
      BY <3>1, <3>2, <3>3
  <2>3. t = AAAA => Body(t) = <<Fixed(16)>>
    BY DEF Body, A, NS, CNAME, SOA, PTR, MX, TXT, AAAA, OPT, DS, RRSIG, KEY, NSEC3
  <2>4. t = DS => Body(t) = <<Fixed(36)>>
    BY DEF Body, A, NS, CNAME, SOA, PTR, MX, TXT, AAAA, OPT, DS, RRSIG, KEY, NSEC3
  <2> QED
    BY <2>1, <2>2, <2>3, <2>4
<1>4. /\ t = SOA => Body(t) = <<Kind("name"), Kind("name"), Fixed(20)>>
      /\ t = MX => Body(t) = <<Fixed(2), Kind("name")>>
      /\ t = TXT => Body(t) = <<Kind("text")>>
      /\ t = OPT => Body(t) = <<Kind("rest")>>
      /\ t = KEY => Body(t) = <<Fixed(4), Kind("rest")>>
  <2>1. t = SOA => Body(t) = <<Kind("name"), Kind("name"), Fixed(20)>>
    BY DEF Body, A, NS, CNAME, SOA, PTR, MX, TXT, AAAA, OPT, DS, RRSIG, KEY, NSEC3
  <2>2. t = MX => Body(t) = <<Fixed(2), Kind("name")>>
    BY DEF Body, A, NS, CNAME, SOA, PTR, MX, TXT, AAAA, OPT, DS, RRSIG, KEY, NSEC3
  <2>3. t = TXT => Body(t) = <<Kind("text")>>
    BY DEF Body, A, NS, CNAME, SOA, PTR, MX, TXT, AAAA, OPT, DS, RRSIG, KEY, NSEC3
  <2>4. t = OPT => Body(t) = <<Kind("rest")>>
    BY DEF Body, A, NS, CNAME, SOA, PTR, MX, TXT, AAAA, OPT, DS, RRSIG, KEY, NSEC3
  <2>5. t = KEY => Body(t) = <<Fixed(4), Kind("rest")>>
    BY DEF Body, A, NS, CNAME, SOA, PTR, MX, TXT, AAAA, OPT, DS, RRSIG, KEY, NSEC3
  <2> QED
    BY <2>1, <2>2, <2>3, <2>4, <2>5
<1>5. t = RRSIG => Body(t) \in {<<Kind("substream")>> \o Signed, Signed}
  BY DEF Body, A, NS, CNAME, SOA, PTR, MX, TXT, AAAA, OPT, DS, RRSIG, KEY, NSEC3
<1>6. t = NSEC3
        => Body(t) = <<Fixed(4), Kind("length")>>
             \o (IF d.salted THEN <<Kind("octets")>> ELSE <<>>)
             \o <<Kind("length"), Kind("octets"), Fixed(1), Kind("length"), Kind("octets")>>
  BY DEF Body, A, NS, CNAME, SOA, PTR, MX, TXT, AAAA, OPT, DS, RRSIG, KEY, NSEC3
<1> HIDE DEF d
<1>7. CASE t \in {A, AAAA, DS}
  <2>1. \A k \in Nat : EndsFrom(m, d, <<Fixed(k)>>, x) = After(m, {c}, k)
    BY <1>2, FixedBody
  <2>2. /\ DataEnds(m, d, A, c, n) = After(m, {c}, 4)
        /\ DataEnds(m, d, AAAA, c, n) = After(m, {c}, 16)
        /\ DataEnds(m, d, DS, c, n) = After(m, {c}, 36)
    <3> HIDE DEF n, c
    <3>1. DataEnds(m, d, A, c, n) = After(m, {c}, 4)
      BY DEF DataEnds, A, NS, CNAME, SOA, PTR, MX, TXT, AAAA, OPT, DS, RRSIG, KEY, NSEC3
    <3>2. DataEnds(m, d, AAAA, c, n) = After(m, {c}, 16)
      BY DEF DataEnds, A, NS, CNAME, SOA, PTR, MX, TXT, AAAA, OPT, DS, RRSIG, KEY, NSEC3
    <3>3. DataEnds(m, d, DS, c, n) = After(m, {c}, 36)
      BY DEF DataEnds, A, NS, CNAME, SOA, PTR, MX, TXT, AAAA, OPT, DS, RRSIG, KEY, NSEC3
    <3> QED
      BY <3>1, <3>2, <3>3
  <2> QED
    BY <1>3, <1>7, <2>1, <2>2 DEF d
<1>8. CASE t \in {NS, CNAME, PTR}
  <2>1. EndsFrom(m, d, <<Kind("name")>>, x) = NamesEnd(m, d, {c})
    BY <1>2, NameBody
  <2>2. DataEnds(m, d, t, c, n) = NamesEnd(m, d, {c})
    <3> HIDE DEF n, c
    <3> QED
      BY <1>8, NameData
  <2> QED
    BY <1>3, <1>8, <2>1, <2>2 DEF d
<1>9. CASE t = SOA
  <2>1. EndsFrom(m, d, <<Kind("name"), Kind("name"), Fixed(20)>>, x)
          = After(m, NamesEnd(m, d, NamesEnd(m, d, {x.cur})), 20)
    BY <1>2, SoaBody
  <2>2. DataEnds(m, d, SOA, c, n) = After(m, NamesEnd(m, d, NamesEnd(m, d, {c})), 20)
    BY SoaData
  <2> QED
    BY <1>4, <1>9, <2>1, <2>2 DEF d
<1>10. CASE t = MX
  <2>1. EndsFrom(m, d, <<Fixed(2), Kind("name")>>, x) = NamesEnd(m, d, After(m, {x.cur}, 2))
    BY <1>2, MxBody
  <2>2. DataEnds(m, d, MX, c, n) = NamesEnd(m, d, After(m, {c}, 2))
    BY MxData
  <2> QED
    BY <1>4, <1>10, <2>1, <2>2 DEF d
<1>11. CASE t = TXT
  <2>1. EndsFrom(m, d, <<Kind("text")>>, x) = Text(m, {x.cur}, w.dataLength, d)
    BY <1>2, TxtBody
  <2>2. DataEnds(m, d, TXT, c, n) = Text(m, {c}, n, d)
    BY TxtData
  <2> QED
    BY <1>4, <1>11, <2>1, <2>2 DEF d
<1>12. CASE t = OPT
  <2>1. EndsFrom(m, d, <<Kind("rest")>>, x) = After(m, {x.cur}, w.dataLength)
    BY <1>2, OptBody
  <2>2. DataEnds(m, d, OPT, c, n) = After(m, {c}, n)
    <3> HIDE DEF n, c
    <3> QED
      BY DEF DataEnds, A, NS, CNAME, SOA, PTR, MX, TXT, AAAA, OPT, DS, RRSIG, KEY, NSEC3
  <2> QED
    BY <1>4, <1>12, <2>1, <2>2 DEF d
<1>13. CASE t = KEY
  <2>1. EndsFrom(m, d, <<Fixed(4), Kind("rest")>>, x)
          = IF w.dataLength >= 4 THEN After(m, {x.cur}, w.dataLength) ELSE {}
    BY <1>2, KeyBody
  <2>2. DataEnds(m, d, KEY, c, n) = IF n >= 4 THEN After(m, {c}, n) ELSE {}
    BY PlainData
  <2> QED
    BY <1>4, <1>13, <2>1, <2>2 DEF d
<1>14. CASE t = RRSIG
  <2>1. /\ EndsFrom(m, d, Signed, x) = DataEnds(m, d, RRSIG, w.start, w.dataLength)
        /\ EndsFrom(m, d, <<Kind("substream")>> \o Signed, x)
             = DataEnds(m, d, RRSIG, w.start, w.dataLength)
    BY <1>2, RrsigBody
  <2> QED
    BY <1>5, <1>14, <2>1 DEF d
<1>15. CASE t = NSEC3
  <2>1. EndsFrom(m, d,
           <<Fixed(4), Kind("length")>>
             \o (IF d.salted THEN <<Kind("octets")>> ELSE <<>>)
             \o <<Kind("length"), Kind("octets"), Fixed(1), Kind("length"), Kind("octets")>>, x)
           = DataEnds(m, d, NSEC3, x.cur, n)
    BY Nsec3Body
  <2> QED
    BY <1>6, <1>15, <2>1 DEF d
<1> QED
  BY <1>1, <1>7, <1>8, <1>9, <1>10, <1>11, <1>12, <1>13, <1>14, <1>15

\* The reader behind the length of the data.
AtData(m, x) ==
  [x EXCEPT !.cur = @ + 2, !.dataLength = U16(m, x.cur), !.start = x.cur + 2]

DataFrame(m, w, x) == [w EXCEPT !.dataLength = U16(m, x.cur), !.start = x.cur + 2]

LEMMA FrameAtData ==
  ASSUME NEW m, NEW w \in Frames(m), NEW x
  PROVE  /\ DataFrame(m, w, x).limit = w.limit /\ DataFrame(m, w, x).start = x.cur + 2
         /\ DataFrame(m, w, x).dataLength = U16(m, x.cur)
BY DEF Frames, DataFrame

LEMMA ReaderAtData ==
  ASSUME NEW m, Len(m) \in Nat, NEW w \in Frames(m), NEW x \in Readers(w),
         x.cur + 2 <= w.limit, U16(m, x.cur) \in Nat
  PROVE  /\ DataFrame(m, w, x) \in Frames(m) /\ AtData(m, x) \in Readers(DataFrame(m, w, x))
         /\ AtData(m, x).cur = DataFrame(m, w, x).start
<1> DEFINE v == DataFrame(m, w, x)
           n == U16(m, x.cur)
           s == x.cur + 2
<1>1. /\ w.limit \in 0..Len(m) /\ w.limit \in Nat /\ x.cur \in 0..w.limit /\ x.limit = w.limit
      /\ x.length \in Nat
  BY ReaderFacts
<1>2. n \in Nat /\ s \in Nat /\ s \in 0..w.limit
  BY <1>1
<1> HIDE DEF n
<1>3. v = [w EXCEPT !.dataLength = n, !.start = s]
  BY DEF n, DataFrame
<1> HIDE DEF s, v
<1>4. v \in Frames(m) /\ v.limit = w.limit /\ v.start = s /\ v.dataLength = n
  BY <1>2, <1>3 DEF Frames
<1>5. AtData(m, x) = [x EXCEPT !.cur = s, !.dataLength = n, !.start = s]
  BY DEF AtData, n, s
<1>6. AtData(m, x) \in Readers(v) /\ AtData(m, x).cur = s
  BY <1>1, <1>2, <1>4, <1>5 DEF Readers
<1> QED
  BY <1>4, <1>6 DEF v

\* One field first: the reader behind it, or none.
LEMMA StepOn ==
  ASSUME NEW m, NEW d, NEW x, NEW f \in Fields, NEW s \in Seq(Fields), NEW y,
         Take(m, d, f, x) = {y}
  PROVE  EndsFrom(m, d, <<f>> \o s, x) = EndsFrom(m, d, s, y)
BY OneWay

LEMMA StepFails ==
  ASSUME NEW m, NEW d, NEW x, NEW f \in Fields, NEW s \in Seq(Fields),
         Take(m, d, f, x) = {}
  PROVE  EndsFrom(m, d, <<f>> \o s, x) = {}
BY OneWay

LEMMA AfterPoint ==
  ASSUME NEW m, Len(m) \in Nat, NEW c \in Nat, NEW n \in Nat
  PROVE  After(m, {c}, n) = IF c + n <= Len(m) THEN {c + n} ELSE {}
<1>1. \A q : q \in After(m, {c}, n) <=> q = c + n /\ c + n <= Len(m)
  BY DEF After
<1> QED
  BY <1>1

\* The fields of a record behind its type read the data of that type.
LEMMA CommonEnds ==
  ASSUME NEW m \in Seq(Byte), tool \in Tools, NEW t \in KnownTypes, NEW w \in Frames(m),
         w.limit = Len(m), NEW x \in Readers(w)
  PROVE  EndsFrom(m, dialect, Common10 \o Body(t), x)
           = UNION {DataEnds(m, dialect, t, s, U16(m, s - 2)) : s \in After(m, {x.cur}, 8)}
<1> DEFINE d == dialect
           f == Fixed(6)
           g == Kind("dataLength")
           body == Body(t)
           c == x.cur
<1>1. /\ w.limit \in 0..Len(m) /\ w.limit \in Nat /\ c \in 0..w.limit /\ x.limit = w.limit
      /\ Len(m) \in Nat /\ c \in Nat /\ x.limit = Len(m)
  BY LenProperties, ReaderFacts
<1>2. f \in Fields /\ g \in Fields /\ body \in Seq(Fields)
  BY FixedField, KindField, BodyOpens DEF Kinds
<1>3. Common10 \o body = <<f>> \o (<<g>> \o body) /\ <<g>> \o body \in Seq(Fields)
  <2>1. Common10 = <<f, g>>
    BY DEF Common10
  <2> HIDE DEF f, g, body
  <2>2. <<f>> \in Seq(Fields) /\ <<g>> \in Seq(Fields)
    BY <1>2
  <2>3. (<<f>> \o <<g>>) \o body = <<f>> \o (<<g>> \o body)
    BY <1>2, <2>2, Associates
  <2>4. <<f>> \o <<g>> = <<f, g>>
    BY <1>2, TwoFields
  <2>5. <<g>> \o body \in Seq(Fields)
    BY <1>2, OneThenMore
  <2> QED
    BY <2>1, <2>3, <2>4, <2>5, Zenon
<1>4. After(m, {c}, 8) = IF c + 8 <= Len(m) THEN {c + 8} ELSE {}
  <2> HIDE DEF c
  <2> QED
    BY <1>1, AfterPoint
<1>5. Take(m, d, f, x) = IF 6 \in 0..x.limit - x.cur THEN {[x EXCEPT !.cur = @ + 6]} ELSE {}
  <2> HIDE DEF d
  <2> QED
    BY TakeFixed
<1>6. CASE c + 6 <= Len(m)
  <2> DEFINE y == [x EXCEPT !.cur = c + 6]
             b == c + 6
  <2>1. Take(m, d, f, x) = {y}
    <3>1. 6 \in 0..x.limit - x.cur
      BY <1>1, <1>6
    <3> QED
      BY <1>5, <3>1
  <2>2. b \in 0..w.limit
    BY <1>1, <1>6
  <2>3. y \in Readers(w) /\ y.cur = b
    BY <2>2, ReaderMoves
  <2>4. EndsFrom(m, d, <<f>> \o (<<g>> \o body), x) = EndsFrom(m, d, <<g>> \o body, y)
    <3> DEFINE rest == <<g>> \o body
    <3>1. rest \in Seq(Fields)
      BY <1>3
    <3> HIDE DEF rest, d, f, y
    <3>2. EndsFrom(m, d, <<f>> \o rest, x) = EndsFrom(m, d, rest, y)
      BY <1>2, <2>1, <3>1, StepOn
    <3> QED
      BY <3>2 DEF rest
  <2> HIDE DEF y, b
  <2>5. y.limit = w.limit
    BY <2>3, <1>1, ReaderFacts
  <2>6. Take(m, d, g, y) = IF 2 \in 0..y.limit - y.cur THEN {AtData(m, y)} ELSE {}
    <3> HIDE DEF d
    <3> QED
      BY TakeDataLength DEF AtData
  <2>7. CASE c + 8 <= Len(m)
    <3> DEFINE n == U16(m, b)
               s == c + 8
               v == DataFrame(m, w, y)
               z == AtData(m, y)
    <3>1. Take(m, d, g, y) = {z}
      <4>1. 2 \in 0..y.limit - y.cur
        BY <1>1, <2>3, <2>5, <2>7 DEF b
      <4> QED
        BY <2>6, <4>1
    <3>2. EndsFrom(m, d, <<g>> \o body, y) = EndsFrom(m, d, body, z)
      <4> HIDE DEF d, g, body, z, n, s, v
      <4> QED
        <5>1. \A q : Take(m, d, g, y) = {q}
                 => EndsFrom(m, d, <<g>> \o body, y) = EndsFrom(m, d, body, q)
          BY <1>2, OneWay, Zenon
        <5> QED
          BY <3>1, <5>1, Zenon
    <3>3. s - 2 = b /\ b + 2 = s /\ s \in 0..Len(m) /\ s >= 2
      BY <1>1, <2>7 DEF b
    <3>4. n \in Nat
      <4> HIDE DEF s
      <4>1. U16(m, s - 2) \in Nat
        BY <3>3, NumberInside
      <4> QED
        BY <3>3, <4>1
    <3>5. y.cur + 2 <= w.limit /\ U16(m, y.cur) \in Nat
      BY <1>1, <2>3, <2>7, <3>4 DEF b
    <3> HIDE DEF s, n
    <3>6. /\ v \in Frames(m) /\ z \in Readers(v) /\ z.cur = v.start
          /\ v.limit = w.limit /\ v.start = s /\ v.dataLength = n
      <4>1. /\ v \in Frames(m) /\ z \in Readers(v) /\ z.cur = v.start
            /\ v.limit = w.limit /\ v.start = y.cur + 2 /\ v.dataLength = U16(m, y.cur)
        <5>1. v \in Frames(m) /\ z \in Readers(v) /\ z.cur = v.start
          BY <1>1, <2>3, <3>5, ReaderAtData
        <5>2. v.limit = w.limit /\ v.start = y.cur + 2 /\ v.dataLength = U16(m, y.cur)
          BY <1>1, <2>3, <3>5, FrameAtData
        <5> QED
          BY <5>1, <5>2
      <4> QED
        BY <2>3, <3>3, <4>1 DEF n
    <3> HIDE DEF v, z
    <3>7. EndsFrom(m, d, body, z) = DataEnds(m, d, t, v.start, v.dataLength)
      <4>1. v.limit = Len(m)
        BY <1>1, <3>6
      <4> QED
        BY <3>6, <4>1, BodyEnds
    <3>8. EndsFrom(m, d, Common10 \o body, x) = DataEnds(m, d, t, s, U16(m, s - 2))
      <4> HIDE DEF body, d
      <4> QED
        BY <1>3, <2>4, <3>2, <3>3, <3>6, <3>7 DEF n
    <3>9. After(m, {c}, 8) = {s}
      BY <1>4, <2>7 DEF s
    <3> QED
      BY <3>8, <3>9
  <2>8. CASE ~(c + 8 <= Len(m))
    <3>1. Take(m, d, g, y) = {}
      <4>1. ~(2 \in 0..y.limit - y.cur)
        BY <1>1, <2>3, <2>5, <2>8 DEF b
      <4> QED
        BY <2>6, <4>1
    <3>2. EndsFrom(m, d, <<g>> \o body, y) = {}
      <4> HIDE DEF d, g, body
      <4> QED
        BY <1>2, <3>1, StepFails, Zenon
    <3>3. EndsFrom(m, d, Common10 \o body, x) = {}
      <4> HIDE DEF body, d
      <4> QED
        BY <1>3, <2>4, <3>2
    <3>4. After(m, {c}, 8) = {}
      BY <1>4, <2>8
    <3> QED
      BY <3>3, <3>4
  <2> QED
    BY <2>7, <2>8
<1>7. CASE ~(c + 6 <= Len(m))
  <2>1. Take(m, d, f, x) = {}
    <3>1. ~(6 \in 0..x.limit - x.cur)
      BY <1>1, <1>7
    <3> QED
      BY <1>5, <3>1
  <2>2. EndsFrom(m, d, <<f>> \o (<<g>> \o body), x) = {}
    <3>1. <<g>> \o body \in Seq(Fields)
      BY <1>3
    <3> HIDE DEF d, f, g, body
    <3> QED
      BY <1>2, <2>1, <3>1, StepFails
  <2>3. After(m, {c}, 8) = {}
    <3>1. ~(c + 8 <= Len(m))
      BY <1>1, <1>7
    <3> QED
      BY <1>4, <3>1
  <2> QED
    BY <1>3, <2>2, <2>3
<1> QED
  BY <1>6, <1>7

\* A question is a name and four bytes.
LEMMA QueryReads ==
  ASSUME NEW m \in Seq(Byte), NEW d, d.labelLimit \in 1..192, NEW w \in Frames(m),
         w.limit = Len(m), NEW x \in Readers(w)
  PROVE  EndsFrom(m, d, Query, x) = QueryEnds(m, d, x.cur)
<1> DEFINE c == x.cur
           name == Kind("name")
           four == Fixed(4)
           s == <<four>>
           G == ThenFixed(w, 4, Stop(w))
           N == NameEnds(m, d)[c]
<1>1. Len(m) \in Nat /\ w.limit \in Nat /\ c \in 0..w.limit
  BY LenProperties, ReaderFacts
<1>2. name \in Fields /\ four \in Fields
  BY NameField, FixedField
<1>3. s \in Seq(Fields) /\ Exact(m, d, w, s, G)
  <2>1. s \in Seq(Fields)
    BY <1>2
  <2>2. Exact(m, d, w, s, G)
    BY <1>1, ExactOneFixed
  <2> QED
    BY <2>1, <2>2
<1>4. Query = <<name>> \o s
  <2>1. Query = <<name, four>>
    BY DEF Query
  <2> HIDE DEF name, four
  <2>2. <<name>> \o <<four>> = <<name, four>>
    BY <1>2, TwoFields
  <2> QED
    BY <2>1, <2>2
<1>5. EndsFrom(m, d, <<name>> \o s, x) = ThenName(m, d, w, G)[c]
  <2>1. Exact(m, d, w, <<name>> \o s, ThenName(m, d, w, G))
    <3> HIDE DEF s, G
    <3> QED
      BY <1>3, ExactName
  <2> QED
    BY <2>1 DEF Exact
<1>6. ThenName(m, d, w, G)[c] = UNION {G[q] : q \in N} /\ N \subseteq 0..w.limit
  <2> HIDE DEF G, c
  <2>1. ThenName(m, d, w, G)[c] = UNION {G[q] : q \in NameEnds(m, d)[c]}
    BY <1>1, NameThenIs
  <2>2. NameEnds(m, d)[c] \subseteq 0..w.limit
    BY <1>1, NameThenIs
  <2> QED
    BY <2>1, <2>2
<1>7. ASSUME NEW q \in N PROVE G[q] = After(m, {q}, 4)
  BY <1>1, <1>6, FixedStops
<1> HIDE DEF N, G
<1>8. \A i : i \in UNION {G[q] : q \in N} <=> i \in After(m, N, 4)
  <2> SUFFICES ASSUME NEW i
               PROVE  i \in UNION {G[q] : q \in N} <=> i \in After(m, N, 4)
    OBVIOUS
  <2>1. i \in UNION {G[q] : q \in N} <=> \E q \in N : i \in G[q]
    BY Zenon
  <2>2. i \in After(m, N, 4) <=> \E q \in N : i = q + 4 /\ i <= Len(m)
    BY DEF After
  <2>3. ASSUME NEW q \in N PROVE i \in After(m, {q}, 4) <=> i = q + 4 /\ i <= Len(m)
    BY DEF After
  <2>4. \A q \in N : i \in G[q] <=> i = q + 4 /\ i <= Len(m)
    BY <1>7, <2>3
  <2>5. (\E q \in N : i \in G[q]) <=> \E q \in N : i = q + 4 /\ i <= Len(m)
    BY <2>4, Zenon
  <2> QED
    BY <2>1, <2>2, <2>5, Zenon
<1>9. UNION {G[q] : q \in N} = After(m, N, 4)
  BY <1>8
<1> QED
  BY <1>4, <1>5, <1>6, <1>9 DEF QueryEnds, N

-----------------------------------------------------------------------------
(***************************************************************************)
(* The cursor as a reader. What the parser checks before it reads a field  *)
(* (Fits) is what the grammar asks of it (Passes), and what it does then   *)
(* (Advance, OpenSubstream) is what the reader does (Behind).              *)
(***************************************************************************)
\* The cursor with what the lengths read so far say of the bytes ahead.
Reader ==
  [cur |-> pdu.curPos, limit |-> pdu.curPos + pdu.remaining,
   dataLength |-> lengths.dataLength, start |-> lengths.start,
   length |-> lengths.length]

Frame ==
  [limit |-> pdu.curPos + pdu.remaining, start |-> lengths.start,
   dataLength |-> lengths.dataLength]

LEMMA PayloadIs ==
  ASSUME IInv
  PROVE  payload \in Seq(Byte) /\ tool \in Tools
<1>1. payload \in Seq(Byte)
  BY PacketsAssumption DEF IInv, payload
<1>2. tool \in Tools
  BY ToolAssumption DEF IInv, TypeOK
<1> QED
  BY <1>1, <1>2

LEMMA ReaderIs ==
  /\ Reader.cur = pdu.curPos /\ Reader.limit = pdu.curPos + pdu.remaining
  /\ Reader.dataLength = lengths.dataLength /\ Reader.start = lengths.start
  /\ Reader.length = lengths.length
BY DEF Reader

LEMMA ReaderNow ==
  ASSUME IInv
  PROVE  /\ Frame \in Frames(payload) /\ Reader \in Readers(Frame)
         /\ Reader.cur = pdu.curPos /\ Frame.limit = pdu.curPos + pdu.remaining
         /\ Frame.start = lengths.start /\ Frame.dataLength = lengths.dataLength
<1> DEFINE l == pdu.curPos + pdu.remaining
<1>1. /\ pdu.curPos \in Nat /\ pdu.remaining \in Nat /\ l \in 0..Len(payload)
      /\ pdu.curPos \in 0..l
  BY CursorFacts, PayloadBytes
<1>2. lengths.dataLength \in Nat /\ lengths.start \in Nat /\ lengths.length \in Nat
  <2>1. lengths \in [dataLength : Nat, start : Nat, length : Byte]
    BY DEF IInv, TypeOK
  <2> QED
    BY <2>1 DEF Byte
<1> HIDE DEF l
<1>3. Frame = [limit |-> l, start |-> lengths.start, dataLength |-> lengths.dataLength]
  BY DEF Frame, l
<1>4. Reader = [cur |-> pdu.curPos, limit |-> l, dataLength |-> lengths.dataLength,
                start |-> lengths.start, length |-> lengths.length]
  BY DEF Reader, l
<1>5. Frame \in Frames(payload)
  BY <1>1, <1>2, <1>3 DEF Frames
<1>6. Reader \in Readers(Frame)
  BY <1>1, <1>2, <1>3, <1>4 DEF Readers
<1> QED
  BY <1>3, <1>4, <1>5, <1>6 DEF l

\* The parser checks what the grammar asks, field by field.
LEMMA FitsPasses ==
  ASSUME IInv, NEW f \in Fields, f.kind \notin {"name", "type"}
  PROVE  Width(f, Reader) = Size(f) /\ (Passes(payload, dialect, f, Reader) <=> Fits(f))
<1>1. f.kind \in {"dataLength", "fixed", "length", "octets", "rest", "text", "substream"}
  BY DEF Fields, Kinds
<1>2. Width(f, Reader) = Size(f)
  BY <1>1, ReaderIs DEF Width, Size, Rest
<1>3. Reader.limit - Reader.cur = pdu.remaining
  BY ReaderIs, CursorFacts
<1>4. f.kind = "text" => Size(f) = Rest
  BY DEF Size
<1>5. Fits(f) <=> /\ lengthRemaining(Size(f))
                  /\ f.kind = "text" /\ dialect.utf8 => Decodes(payload, pdu.curPos, Rest)
  BY <1>1 DEF Fits
<1>6. Passes(payload, dialect, f, Reader)
        <=> /\ Size(f) \in 0..pdu.remaining
            /\ f.kind = "text" /\ dialect.utf8 => Decodes(payload, pdu.curPos, Size(f))
  BY <1>2, <1>3, ReaderIs DEF Passes
<1> QED
  BY <1>2, <1>4, <1>5, <1>6 DEF lengthRemaining

LEMMA TakeNow ==
  ASSUME IInv, NEW f \in Fields, f.kind \notin {"name", "type"}
  PROVE  Take(payload, dialect, f, Reader)
           = IF Fits(f) THEN {Behind(payload, f, Reader)} ELSE {}
<1>1. Passes(payload, dialect, f, Reader) <=> Fits(f)
  BY FitsPasses
<1> QED
  BY <1>1 DEF Take

\* A field that is read or fails.
LEMMA FieldEnds ==
  ASSUME IInv, fields # <<>>, Head(fields).kind \notin {"name", "type"}
  PROVE  /\ Head(fields) \in Fields
         /\ EndsFrom(payload, dialect, fields, Reader)
              = IF Fits(Head(fields))
                THEN EndsFrom(payload, dialect, Tail(fields), Behind(payload, Head(fields), Reader))
                ELSE {}
<1> DEFINE f == Head(fields)
           T == Take(payload, dialect, f, Reader)
<1>1. fields \in Seq(Fields) /\ f \in Fields
  BY TailOpens DEF IInv, Remains
<1>2. EndsFrom(payload, dialect, fields, Reader)
        = UNION {EndsFrom(payload, dialect, Tail(fields), y) : y \in T}
  <2>1. \A m, d, x : EndsFrom(m, d, fields, x)
          = UNION {EndsFrom(m, d, Tail(fields), y) : y \in Take(m, d, Head(fields), x)}
    BY <1>1, FieldByField
  <2> QED
    BY <2>1
<1>3. T = IF Fits(f) THEN {Behind(payload, f, Reader)} ELSE {}
  <2> HIDE DEF f
  <2>1. f.kind \notin {"name", "type"}
    BY DEF f
  <2> QED
    BY <1>1, <2>1, TakeNow
<1> HIDE DEF T, f
<1>4. CASE Fits(f)
  BY <1>1, <1>2, <1>3, <1>4 DEF f
<1>5. CASE ~Fits(f)
  BY <1>1, <1>2, <1>3, <1>5 DEF f
<1> QED
  BY <1>4, <1>5

\* What a read does to the reader.
LEMMA ReadsBehind ==
  ASSUME IInv, fields # <<>>, NEW f, f = Head(fields), f \in Fields,
         ReadOpaque \/ ReadLength \/ ReadDataLength \/ OpenSubstream
  PROVE  /\ Reader' = Behind(payload, f, Reader) /\ Fits(f) /\ fields' = Tail(fields)
         /\ f.kind \notin {"name", "type"}
<1>1. pdu \in Cursors
  BY DEF IInv, TypeOK
<1>2. pdu = [curPos |-> pdu.curPos, remaining |-> pdu.remaining]
  BY <1>1 DEF Cursors
<1>3. /\ Advance(2).curPos = pdu.curPos + 2 /\ Advance(1).curPos = pdu.curPos + 1
      /\ \A n \in Int : /\ Advance(n).curPos = pdu.curPos + n
                        /\ Advance(n).curPos + Advance(n).remaining = pdu.curPos + pdu.remaining
  BY CursorFacts DEF Advance
<1>4. lengths = [dataLength |-> lengths.dataLength, start |-> lengths.start,
                 length |-> lengths.length]
  <2>1. lengths \in [dataLength : Nat, start : Nat, length : Byte]
    BY DEF IInv, TypeOK
  <2> QED
    BY <2>1
<1>5. Reader' = [cur |-> pdu'.curPos, limit |-> pdu'.curPos + pdu'.remaining,
                 dataLength |-> lengths'.dataLength, start |-> lengths'.start,
                 length |-> lengths'.length]
  BY DEF Reader
<1>6. CASE ReadOpaque
  <2>1. /\ f.kind \in {"fixed", "octets", "rest", "text"} /\ Fits(f)
        /\ pdu' = Advance(Size(f)) /\ fields' = Tail(fields) /\ lengths' = lengths
    BY <1>6 DEF ReadOpaque, Parsing
  <2>2. Size(f) = Width(f, Reader)
    BY <2>1, FitsPasses
  <2>3. Size(f) \in Int
    BY <2>1, CursorFacts DEF Fits, lengthRemaining
  <2>4. Behind(payload, f, Reader) = [Reader EXCEPT !.cur = @ + Width(f, Reader)]
    BY <2>1 DEF Behind
  <2>5. Reader' = [cur |-> pdu.curPos + Size(f), limit |-> pdu.curPos + pdu.remaining,
                   dataLength |-> lengths.dataLength, start |-> lengths.start,
                   length |-> lengths.length]
    BY <1>3, <1>5, <2>1, <2>3
  <2> QED
    BY <2>1, <2>2, <2>4, <2>5 DEF Reader
<1>7. CASE ReadLength
  <2>1. /\ f.kind = "length" /\ Fits(f) /\ pdu' = Advance(1) /\ fields' = Tail(fields)
        /\ lengths' = [lengths EXCEPT !.length = Next8(1)]
    BY <1>7 DEF ReadLength, Parsing
  <2>2. Behind(payload, f, Reader)
          = [Reader EXCEPT !.cur = @ + 1, !.length = payload[Reader.cur + 1]]
    BY <2>1 DEF Behind
  <2>3. Next8(1) = payload[Reader.cur + 1]
    BY ReaderIs DEF Next8
  <2>4. Reader' = [cur |-> pdu.curPos + 1, limit |-> pdu.curPos + pdu.remaining,
                   dataLength |-> lengths.dataLength, start |-> lengths.start,
                   length |-> Next8(1)]
    BY <1>3, <1>4, <1>5, <2>1
  <2> QED
    BY <2>1, <2>2, <2>3, <2>4 DEF Reader
<1>8. CASE ReadDataLength
  <2>1. /\ f.kind = "dataLength" /\ Fits(f) /\ pdu' = Advance(2) /\ fields' = Tail(fields)
        /\ lengths' = [lengths EXCEPT !.dataLength = U16(payload, pdu.curPos),
                                      !.start = pdu.curPos + 2]
    BY <1>8 DEF ReadDataLength, Parsing
  <2>2. Behind(payload, f, Reader)
          = [Reader EXCEPT !.cur = @ + 2, !.dataLength = U16(payload, Reader.cur),
                           !.start = Reader.cur + 2]
    BY <2>1 DEF Behind
  <2>3. Reader' = [cur |-> pdu.curPos + 2, limit |-> pdu.curPos + pdu.remaining,
                   dataLength |-> U16(payload, pdu.curPos), start |-> pdu.curPos + 2,
                   length |-> lengths.length]
    BY <1>3, <1>4, <1>5, <2>1
  <2> QED
    BY <2>1, <2>2, <2>3, ReaderIs DEF Reader
<1>9. CASE OpenSubstream
  <2>1. /\ f.kind = "substream" /\ Fits(f) /\ fields' = Tail(fields) /\ lengths' = lengths
        /\ pdu' = [pdu EXCEPT !.remaining = lengths.dataLength]
    BY <1>9 DEF OpenSubstream, Parsing
  <2>2. Behind(payload, f, Reader) = [Reader EXCEPT !.limit = Reader.cur + Reader.dataLength]
    BY <2>1 DEF Behind
  <2>3. pdu'.curPos = pdu.curPos /\ pdu'.remaining = lengths.dataLength
    BY <1>2, <2>1
  <2>4. Reader' = [cur |-> pdu.curPos, limit |-> pdu.curPos + lengths.dataLength,
                   dataLength |-> lengths.dataLength, start |-> lengths.start,
                   length |-> lengths.length]
    BY <1>5, <2>1, <2>3
  <2> QED
    BY <2>1, <2>2, <2>4, ReaderIs DEF Reader
<1> QED
  BY <1>6, <1>7, <1>8, <1>9

-----------------------------------------------------------------------------
(***************************************************************************)
(* The next word of a name: the parser's checks, and the names that begin  *)
(* with it.                                                                *)
(***************************************************************************)
\* The next word: the parser's checks, and the names that begin with it.
LEMMA WordChecks ==
  ASSUME IInv
  PROVE  /\ WordFits <=> /\ WordAt(payload, dialect, pdu.curPos)
                         /\ WordLen(payload[pdu.curPos + 1]) \in 0..pdu.remaining
         /\ Next8(1) = payload[pdu.curPos + 1]
         /\ WordLength = WordLen(payload[pdu.curPos + 1])
         /\ EndWord <=> EndsName(payload[pdu.curPos + 1])
<1> DEFINE p == pdu.curPos
           b == payload[p + 1]
           r == pdu.remaining
           L == Len(payload)
<1>1. p \in Nat /\ r \in Nat /\ L \in Nat /\ p + r <= L
  BY CursorFacts, PayloadBytes
<1>2. Next8(1) = b
  BY DEF Next8
<1>3. WordLength = WordLen(b) /\ (EndWord <=> EndsName(b))
  BY <1>2 DEF WordLength, WordLen, EndWord, EndsName
<1>4. WordFits <=> /\ 1 \in 0..r /\ (b < dialect.labelLimit \/ b >= 192)
                   /\ WordLen(b) \in 0..r
                   /\ (dialect.utf8 /\ b < 192 => Decodes(payload, p + 1, b))
  BY <1>2, <1>3 DEF WordFits, lengthRemaining
<1>5. WordAt(payload, dialect, p)
        <=> /\ p < L /\ (b < dialect.labelLimit \/ b >= 192) /\ p + WordLen(b) <= L
            /\ (dialect.utf8 /\ b < 192 => Decodes(payload, p + 1, b))
  BY DEF WordAt
<1>6. 1 \in 0..r => p < L
  BY <1>1
<1>7. WordLen(b) \in 0..r => p + WordLen(b) <= L
  BY <1>1
<1>8. p < L => b \in Byte
  BY <1>1, PayloadBytes
<1>9. p < L /\ WordLen(b) \in 0..r => 1 \in 0..r
  <2>1. \A c \in Byte : WordLen(c) \in Nat /\ WordLen(c) >= 1
    BY DEF WordLen, Byte
  <2> DEFINE n == WordLen(b)
  <2>2. p < L => n \in Nat /\ n >= 1
    <3> HIDE DEF b, p, L
    <3> QED
      BY <1>8, <2>1
  <2> HIDE DEF n
  <2>3. p < L /\ n \in 0..r => 1 \in 0..r
    BY <1>1, <2>2
  <2> QED
    BY <2>3 DEF n
<1> HIDE DEF b, p, L, r
<1>10. WordFits <=> WordAt(payload, dialect, p) /\ WordLen(b) \in 0..r
  BY <1>4, <1>5, <1>6, <1>7, <1>9, Zenon
<1> QED
  BY <1>2, <1>3, <1>10 DEF b, p, r

LEMMA WordsAhead ==
  ASSUME IInv, NEW N, N = NameEnds(payload, dialect),
         NEW l, l = pdu.curPos + pdu.remaining
  PROVE  /\ ~WordFits => {e \in N[pdu.curPos] : e <= l} = {}
         /\ WordFits /\ EndWord
              => /\ N[pdu.curPos] = {pdu.curPos + WordLength}
                 /\ pdu.curPos + WordLength <= l
         /\ WordFits /\ ~EndWord => N[pdu.curPos] = N[pdu.curPos + WordLength]
<1> DEFINE p == pdu.curPos
           m == payload
           d == dialect
           b == m[p + 1]
           n == WordLen(b)
           r == pdu.remaining
<1>1. /\ m \in Seq(Byte) /\ d.labelLimit \in 1..192 /\ p \in 0..Len(m) /\ r \in Nat /\ p \in Nat
      /\ Len(m) \in Nat /\ l \in 0..Len(m)
  BY PayloadIs, DialectFacts, CursorFacts, PayloadBytes
<1>2. /\ WordFits <=> WordAt(m, d, p) /\ n \in 0..r
      /\ WordLength = n /\ (EndWord <=> EndsName(b))
  BY WordChecks
<1> HIDE DEF m, d
<1>3. ~WordAt(m, d, p) => N[p] = {}
  <2> HIDE DEF p
  <2> QED
    BY <1>1, NameWord DEF m, d
<1>4. WordAt(m, d, p) /\ EndsName(b) => N[p] = {p + n}
  <2> HIDE DEF p
  <2> QED
    BY <1>1, NameWord DEF m, d
<1>5. WordAt(m, d, p) /\ ~EndsName(b) => N[p] = N[p + n]
  <2> HIDE DEF p
  <2> QED
    BY <1>1, NameWord DEF m, d
<1>6. WordAt(m, d, p) => p + n \in p + 1..Len(m) /\ n \in Nat
  <2> HIDE DEF p
  <2> QED
    BY <1>1, WordForward
<1>7. \A q \in 0..Len(m) : \A e \in N[q] : e \in q + 1..Len(m)
  BY <1>1, NameAhead DEF m, d
<1> HIDE DEF n, b
<1>8. ~WordFits => {e \in N[p] : e <= l} = {}
  <2>1. CASE ~WordAt(m, d, p)
    BY <1>3, <2>1
  <2>2. CASE WordAt(m, d, p) /\ n \notin 0..r
    <3>1. p + n > l /\ p + n \in 0..Len(m)
      BY <1>1, <1>6, <2>2
    <3>2. CASE EndsName(b)
      BY <1>1, <1>4, <2>2, <3>1, <3>2
    <3>3. CASE ~EndsName(b)
      <4>1. \A e \in N[p] : e \in p + n + 1..Len(m)
        BY <1>5, <1>7, <2>2, <3>1, <3>3
      <4> QED
        BY <1>1, <3>1, <4>1
    <3> QED
      BY <3>2, <3>3
  <2> QED
    BY <1>2, <2>1, <2>2
<1>9. WordFits => p + n <= l
  BY <1>1, <1>2
<1> QED
  BY <1>2, <1>4, <1>5, <1>8, <1>9

\* The rest behind the one reader that the first field leaves, and readers
\* that the first field leaves alike.
LEMMA FieldOn ==
  ASSUME NEW m, NEW d, NEW x, NEW s \in Seq(Fields), s # <<>>, NEW y,
         Take(m, d, Head(s), x) = {y}
  PROVE  EndsFrom(m, d, s, x) = EndsFrom(m, d, Tail(s), y)
<1> DEFINE T == Take(m, d, Head(s), x)
<1>1. EndsFrom(m, d, s, x) = UNION {EndsFrom(m, d, Tail(s), v) : v \in T}
  BY FieldByField
<1>2. T = {y}
  OBVIOUS
<1> HIDE DEF T
<1> QED
  BY <1>1, <1>2

LEMMA FieldAgain ==
  ASSUME NEW m, NEW d, NEW x, NEW s \in Seq(Fields), s # <<>>, NEW y,
         Take(m, d, Head(s), x) = Take(m, d, Head(s), y)
  PROVE  EndsFrom(m, d, s, x) = EndsFrom(m, d, s, y)
<1> DEFINE T == Take(m, d, Head(s), x)
           U == Take(m, d, Head(s), y)
<1>1. EndsFrom(m, d, s, x) = UNION {EndsFrom(m, d, Tail(s), v) : v \in T}
  BY FieldByField
<1>2. EndsFrom(m, d, s, y) = UNION {EndsFrom(m, d, Tail(s), v) : v \in U}
  BY FieldByField
<1>3. T = U
  OBVIOUS
<1> HIDE DEF T, U
<1> QED
  BY <1>1, <1>2, <1>3

\* A word of a name that is read.
LEMMA WordEnds ==
  ASSUME IInv, ReadWord
  PROVE  EndsFrom(payload', dialect', fields', Reader')
           = EndsFrom(payload, dialect, fields, Reader)
<1> DEFINE f == Head(fields)
           p == pdu.curPos
           q == p + WordLength
           l == pdu.curPos + pdu.remaining
           m == payload
           d == dialect
           N == NameEnds(m, d)
           x == Reader
           y == [x EXCEPT !.cur = q]
<1>1. /\ verdict = "none" /\ fields # <<>> /\ f.kind = "name" /\ WordFits
      /\ fields' = (IF EndWord THEN Tail(fields) ELSE fields)
      /\ pdu' = Advance(WordLength) /\ lengths' = lengths /\ payload' = m /\ dialect' = d
  BY DEF ReadWord, Parsing, Fits, payload, dialect
<1>2. fields \in Seq(Fields) /\ f \in Fields /\ p \in Nat /\ pdu.remaining \in Nat
  BY <1>1, TailOpens, CursorFacts DEF IInv, Remains
<1>3. WordLength \in Int /\ pdu'.curPos = q /\ pdu'.curPos + pdu'.remaining = l
  <2>1. WordLength \in Int
    BY <1>1, <1>2 DEF WordFits, lengthRemaining
  <2> QED
    BY <1>1, <1>2, <2>1 DEF Advance
<1>4. Reader' = y /\ y.limit = x.limit /\ y.cur = q
  <2>1. Reader' = [cur |-> pdu'.curPos, limit |-> pdu'.curPos + pdu'.remaining,
                   dataLength |-> lengths'.dataLength, start |-> lengths'.start,
                   length |-> lengths'.length]
    BY DEF Reader
  <2>2. Reader' = [cur |-> q, limit |-> l, dataLength |-> lengths.dataLength,
                   start |-> lengths.start, length |-> lengths.length]
    BY <1>1, <1>3, <2>1
  <2> QED
    BY <2>2 DEF Reader
<1>5. \A z : z.limit = x.limit /\ (\E i : z = [x EXCEPT !.cur = i])
        => \A i : [z EXCEPT !.cur = i] = [x EXCEPT !.cur = i]
  BY DEF Reader
<1>6. \A i : [y EXCEPT !.cur = i] = [x EXCEPT !.cur = i]
  BY DEF Reader
<1>7. x.cur = p /\ x.limit = l
  BY ReaderIs
<1>8. \A z : Take(m, d, f, z)
              = {[z EXCEPT !.cur = i] : i \in {e \in N[z.cur] : e <= z.limit}}
  <2> HIDE DEF f
  <2> QED
    BY <1>1 DEF Take
<1> HIDE DEF m, d
<1>9. N = NameEnds(payload, dialect)
  BY DEF m, d
<1>10. CASE EndWord
  <2>1. N[p] = {q} /\ q <= l
    <3> HIDE DEF N, l
    <3>1. l = pdu.curPos + pdu.remaining
      BY DEF l
    <3> QED
      BY <1>1, <1>9, <1>10, <3>1, WordsAhead
  <2>2. Take(m, d, f, x) = {y}
    <3> HIDE DEF f, x, N
    <3> QED
      BY <1>7, <1>8, <2>1
  <2>3. EndsFrom(m, d, fields, x) = EndsFrom(m, d, Tail(fields), y)
    <3> HIDE DEF x, y
    <3> QED
      BY <1>1, <1>2, <2>2, FieldOn
  <2> QED
    BY <1>1, <1>4, <1>10, <2>3 DEF m, d
<1>11. CASE ~EndWord
  <2>1. N[p] = N[q]
    <3> HIDE DEF N
    <3> QED
      BY <1>1, <1>9, <1>11, WordsAhead
  <2>2. Take(m, d, f, x) = Take(m, d, f, y)
    <3> HIDE DEF f, x, N, y
    <3> DEFINE S == {e \in N[p] : e <= l}
    <3>1. Take(m, d, f, x) = {[x EXCEPT !.cur = i] : i \in S}
      BY <1>7, <1>8
    <3>2. Take(m, d, f, y) = {[y EXCEPT !.cur = i] : i \in S}
      <4>1. y.cur = q /\ y.limit = l
        BY <1>4, <1>7
      <4>2. Take(m, d, f, y) = {[y EXCEPT !.cur = i] : i \in {e \in N[y.cur] : e <= y.limit}}
        BY <1>8
      <4> QED
        BY <2>1, <4>1, <4>2
    <3> HIDE DEF S
    <3>3. \A v : v \in {[x EXCEPT !.cur = i] : i \in S} <=> v \in {[y EXCEPT !.cur = i] : i \in S}
      BY <1>6
    <3> QED
      BY <3>1, <3>2, <3>3
  <2>3. EndsFrom(m, d, fields, x) = EndsFrom(m, d, fields, y)
    <3> HIDE DEF x, y
    <3> QED
      BY <1>1, <1>2, <2>2, FieldAgain
  <2> QED
    BY <1>1, <1>4, <1>11, <2>3 DEF m, d
<1> QED
  BY <1>10, <1>11

\* A word that does not fit.
LEMMA WordFails ==
  ASSUME IInv, fields # <<>>, Head(fields).kind = "name", ~WordFits
  PROVE  EndsFrom(payload, dialect, fields, Reader) = {}
<1> DEFINE f == Head(fields)
           l == pdu.curPos + pdu.remaining
           m == payload
           d == dialect
           N == NameEnds(m, d)
           x == Reader
<1>1. fields \in Seq(Fields)
  BY DEF IInv, Remains
<1>2. x.cur = pdu.curPos /\ x.limit = l
  BY ReaderIs
<1>3. {e \in N[pdu.curPos] : e <= l} = {}
  BY WordsAhead
<1>4. Take(m, d, f, x) = {}
  <2>1. Take(m, d, f, x)
          = {[x EXCEPT !.cur = i] : i \in {e \in N[x.cur] : e <= x.limit}}
    <3> DEFINE g == f
    <3>1. g.kind = "name"
      OBVIOUS
    <3> HIDE DEF g
    <3>2. Take(m, d, g, x)
            = {[x EXCEPT !.cur = i] : i \in {e \in N[x.cur] : e <= x.limit}}
      BY <3>1 DEF Take
    <3> QED
      BY <3>2 DEF g
  <2> QED
    BY <1>2, <1>3, <2>1
<1>5. \A k, c, z : EndsFrom(k, c, fields, z)
              = UNION {EndsFrom(k, c, Tail(fields), v) : v \in Take(k, c, f, z)}
  BY <1>1, FieldByField
<1>6. EndsFrom(m, d, fields, x)
              = UNION {EndsFrom(m, d, Tail(fields), v) : v \in Take(m, d, f, x)}
  BY <1>5
<1> HIDE DEF m, d, x, f
<1>7. EndsFrom(m, d, fields, x) = {}
  BY <1>4, <1>6
<1> QED
  BY <1>7 DEF m, d, x

-----------------------------------------------------------------------------
(***************************************************************************)
(* What is known of an item under way. Where what is left of it may end is *)
(* where the grammar lets the whole item end: this is all that the parser  *)
(* has to remember, and it is what each read, each alternative given up    *)
(* and each alternative begun must keep.                                   *)
(***************************************************************************)
\* Fields other than the type of a record.
Untyped == {f \in Fields : f.kind # "type"}

LEMMA PlainUntyped ==
  ASSUME NEW s \in Seq(Plain)
  PROVE  s \in Seq(Untyped)
<1>1. Plain \subseteq Untyped
  BY DEF Plain, Untyped, Opening
<1> QED
  BY <1>1

LEMMA UntypedTail ==
  ASSUME NEW s \in Seq(Untyped), s # <<>>
  PROVE  /\ Head(s) \in Fields /\ Head(s).kind # "type" /\ Tail(s) \in Seq(Untyped)
<1>1. Head(s) \in Untyped /\ Tail(s) \in Seq(Untyped)
  BY HeadTailProperties
<1> QED
  BY <1>1 DEF Untyped

LEMMA BodyUntyped ==
  ASSUME NEW t \in KnownTypes
  PROVE  Common10 \o Body(t) \in Seq(Untyped)
<1>1. Signed \in Seq(Untyped) /\ Common10 \in Seq(Untyped)
  BY SignedPlain, CommonPlain, PlainUntyped
<1>2. CASE Body(t) \in Seq(Plain)
  <2>1. Body(t) \in Seq(Untyped)
    BY <1>2, PlainUntyped
  <2> QED
    BY <1>1, <2>1, ConcatProperties
<1>3. CASE Body(t) = <<Kind("substream")>> \o Signed
  <2> DEFINE substream == Kind("substream")
  <2>1. substream \in Untyped
    BY DEF Kind, Fields, Kinds, Untyped
  <2> HIDE DEF substream
  <2>2. <<substream>> \in Seq(Untyped)
    BY <2>1
  <2>3. <<substream>> \o Signed \in Seq(Untyped)
    BY <1>1, <2>2, ConcatProperties
  <2>4. Body(t) = <<substream>> \o Signed
    BY <1>3 DEF substream
  <2> QED
    BY <1>1, <2>3, <2>4, ConcatProperties
<1> QED
  BY <1>2, <1>3, BodyPlain

LEMMA QueryUntyped == Query \in Seq(Untyped)
BY QueryPlain, PlainUntyped

NameOfItem == NameEnds(payload, dialect)[saved.curPos]

RecordOfItem == RecordEnds(payload, dialect, saved.curPos)

\* Where what is left of the item may end.
Left == EndsFrom(payload, dialect, fields, Reader)

\* A question: what is left of it ends where the grammar says it ends.
InQuery ==
  /\ at.section = 1 /\ fields \in Seq(Untyped)
  /\ Left = QueryEnds(payload, dialect, saved.curPos)

\* The name of a record.
InName ==
  /\ at.section # 1 /\ fields = Record
  /\ NameEnds(payload, dialect)[pdu.curPos] = NameOfItem

\* Its type, behind the only end that its name has.
AtType ==
  /\ at.section # 1 /\ fields = <<Kind("type")>>
  /\ NameOfItem = {pdu.curPos}

\* The fields behind the type.
InBody ==
  /\ at.section # 1 /\ fields \in Seq(Untyped)
  /\ Left = RecordOfItem

\* The alternatives tried before had their reason to fail.
Tried ==
  TriesEachAlternative(tool) /\ at.section # 1 =>
    \A h \in NameOfItem : \A j \in 1..at.alt - 1 :
      h + 2 <= Len(payload) /\ U16(payload, h) = Alternatives(tool)[j]
        => RecordOfItem = {}

InItem == (InQuery \/ InName \/ AtType \/ InBody) /\ Tried

\* A field of a question or of a body that is read.
LEMMA ReadsKeep ==
  ASSUME IInv, fields \in Seq(Untyped),
         ReadWord \/ ReadOpaque \/ ReadLength \/ ReadDataLength \/ OpenSubstream
  PROVE  fields' \in Seq(Untyped) /\ Left' = Left
<1>1. payload' = payload /\ dialect' = dialect /\ fields # <<>>
  BY DEF ReadWord, ReadOpaque, ReadLength, ReadDataLength, OpenSubstream, Parsing,
         payload, dialect
<1>2. Head(fields) \in Fields /\ Head(fields).kind # "type" /\ Tail(fields) \in Seq(Untyped)
  BY <1>1, UntypedTail
<1>3. CASE ReadWord
  <2>1. fields' \in {Tail(fields), fields}
    BY <1>3 DEF ReadWord
  <2> QED
    BY <1>2, <1>3, <2>1, WordEnds DEF Left
<1>4. CASE ReadOpaque \/ ReadLength \/ ReadDataLength \/ OpenSubstream
  <2> DEFINE f == Head(fields)
  <2>1. /\ Reader' = Behind(payload, f, Reader) /\ Fits(f) /\ fields' = Tail(fields)
        /\ f.kind \notin {"name", "type"}
    BY <1>1, <1>2, <1>4, ReadsBehind
  <2>2. Left = EndsFrom(payload, dialect, Tail(fields), Behind(payload, f, Reader))
    BY <1>1, <2>1, FieldEnds DEF Left
  <2>3. Left' = EndsFrom(payload, dialect, Tail(fields), Behind(payload, f, Reader))
    BY <1>1, <2>1 DEF Left
  <2> QED
    BY <1>2, <2>1, <2>2, <2>3
<1> QED
  BY <1>3, <1>4

LEMMA FieldFails ==
  ASSUME IInv, fields \in Seq(Untyped), ItemFails
  PROVE  Left = {}
<1>1. fields # <<>> /\ ~Fits(Head(fields))
  BY DEF ItemFails
<1>2. Head(fields) \in Fields /\ Head(fields).kind # "type"
  BY <1>1, UntypedTail
<1>3. CASE Head(fields).kind = "name"
  <2>1. ~WordFits
    BY <1>1, <1>3 DEF Fits
  <2> QED
    BY <1>1, <1>3, <2>1, WordFails DEF Left
<1>4. CASE Head(fields).kind # "name"
  BY <1>1, <1>2, <1>4, FieldEnds DEF Left
<1> QED
  BY <1>3, <1>4

LEMMA ItemRead ==
  ASSUME IInv, fields = <<>>
  PROVE  Left = {pdu.curPos}
<1>1. Reader.cur = pdu.curPos /\ Reader.cur \in Nat
  BY ReaderIs, CursorFacts
<1> QED
  BY <1>1, NothingLeft DEF Left

LEMMA RecordIsTwo ==
  /\ Record \in Seq(Fields) /\ Record # <<>>
  /\ Head(Record) = Kind("name") /\ Tail(Record) = <<Kind("type")>>
  /\ Head(<<Kind("type")>>) = Kind("type")
  /\ Opens(Record) # {} /\ Opens(<<Kind("type")>>) # {}
  /\ Head(Record).kind = "name" /\ Kind("type").kind = "type"
<1> DEFINE n == Kind("name")
           t == Kind("type")
<1>1. n \in Fields /\ t \in Fields /\ t.kind = "type" /\ n.kind = "name"
  BY DEF Kind, Fields, Kinds
<1>2. Record = <<n, t>>
  BY DEF Record
<1> HIDE DEF n, t
<1>3. <<n, t>> \in Seq(Fields) /\ <<n, t>> # <<>> /\ Head(<<n, t>>) = n /\ Tail(<<n, t>>) = <<t>>
  BY <1>1
<1>4. Head(<<t>>) = t
  OBVIOUS
<1>5. 2 \in Opens(<<n, t>>) /\ 1 \in Opens(<<t>>)
  BY <1>1 DEF Opens, Opening
<1> QED
  BY <1>1, <1>2, <1>3, <1>4, <1>5 DEF n, t

\* In front of the body the bytes that remain are those of the payload.
LEMMA NoneOutside ==
  ASSUME IInv, Opens(fields) # {}
  PROVE  /\ outer = 0 /\ pdu.curPos + pdu.remaining = Len(payload)
         /\ pdu.curPos \in 0..Len(payload) /\ pdu.remaining \in Nat
<1>1. outer = 0
  BY DEF IInv, Remains
<1> QED
  BY <1>1, CursorFacts, PayloadBytes

LEMMA SameItem ==
  ASSUME UNCHANGED <<tool, packet, at, saved>>
  PROVE  /\ payload' = payload /\ dialect' = dialect
         /\ NameOfItem' = NameOfItem /\ RecordOfItem' = RecordOfItem /\ (Tried' <=> Tried)
BY DEF payload, dialect, NameOfItem, RecordOfItem, Tried

\* A word of the name of a record.
LEMMA NameReads ==
  ASSUME IInv, InName, ReadWord
  PROVE  InName' \/ AtType'
<1>1. /\ WordFits /\ fields' = (IF EndWord THEN Tail(fields) ELSE fields)
      /\ pdu' = Advance(WordLength) /\ UNCHANGED <<tool, packet, at, saved>>
  BY DEF ReadWord, Parsing, Fits, InName, Record, Kind
<1>2. /\ payload' = payload /\ dialect' = dialect /\ NameOfItem' = NameOfItem /\ at' = at
  BY <1>1, SameItem
<1>3. WordLength \in Nat
  BY <1>1, CursorFacts DEF WordFits, lengthRemaining
<1>4. pdu'.curPos = pdu.curPos + WordLength
  BY <1>1 DEF Advance
<1> DEFINE N == NameEnds(payload, dialect)
           l == pdu.curPos + pdu.remaining
<1>5. N = NameEnds(payload, dialect) /\ l = pdu.curPos + pdu.remaining
  OBVIOUS
<1>6. at.section # 1 /\ fields = Record /\ N[pdu.curPos] = NameOfItem
  BY DEF InName
<1>7. NameEnds(payload, dialect)' = N
  BY <1>2
<1> HIDE DEF N, l
<1>8. CASE EndWord
  <2>1. N[pdu.curPos] = {pdu.curPos + WordLength}
    BY <1>1, <1>5, <1>8, WordsAhead
  <2>2. fields' = <<Kind("type")>>
    BY <1>1, <1>6, <1>8, RecordIsTwo
  <2> QED
    BY <1>2, <1>4, <1>6, <2>1, <2>2 DEF AtType
<1>9. CASE ~EndWord
  <2>1. N[pdu.curPos] = N[pdu.curPos + WordLength]
    BY <1>1, <1>5, <1>9, WordsAhead
  <2>2. NameEnds(payload, dialect)'[pdu'.curPos] = N[pdu.curPos + WordLength]
    BY <1>4, <1>7
  <2> QED
    BY <1>1, <1>2, <1>6, <1>9, <2>1, <2>2 DEF InName
<1> QED
  BY <1>8, <1>9

\* The record behind its type.
LEMMA RecordBehind ==
  ASSUME IInv, AtType
  PROVE  RecordOfItem = IF lengthRemaining(2)
                        THEN RecordFrom(payload, dialect, pdu.curPos + 2) ELSE {}
<1> DEFINE m == payload
           d == dialect
           p == pdu.curPos
           R == [q \in {p + 2} |-> RecordFrom(m, d, q)]
<1>1. /\ p \in Nat /\ pdu.remaining \in Nat /\ p + pdu.remaining = Len(m) /\ Len(m) \in Nat
  <2>1. Opens(fields) # {}
    BY RecordIsTwo DEF AtType
  <2> QED
    BY <2>1, NoneOutside, CursorFacts, PayloadBytes
<1>2. lengthRemaining(2) <=> p + 2 <= Len(m)
  BY <1>1 DEF lengthRemaining
<1>3. RecordOfItem = UNION {RecordFrom(m, d, q) : q \in After(m, NameOfItem, 2)}
  <2>1. \A c : RecordEnds(m, d, c) = UNION {RecordFrom(m, d, q) : q \in After(m, NameEnds(m, d)[c], 2)}
    BY RecordIs
  <2> QED
    BY <2>1 DEF RecordOfItem, NameOfItem
<1>4. NameOfItem = {p}
  BY DEF AtType
<1>5. After(m, {p}, 2) = IF p + 2 <= Len(m) THEN {p + 2} ELSE {}
  <2> HIDE DEF m, p
  <2> QED
    BY <1>1, AfterPoint
<1> HIDE DEF m, d, p
<1>6. CASE p + 2 <= Len(m)
  <2>1. RecordOfItem = UNION {RecordFrom(m, d, q) : q \in {p + 2}}
    BY <1>3, <1>4, <1>5, <1>6
  <2> QED
    BY <1>2, <1>6, <2>1 DEF m, d, p
<1>7. CASE ~(p + 2 <= Len(m))
  <2>1. RecordOfItem = UNION {RecordFrom(m, d, q) : q \in {}}
    BY <1>3, <1>4, <1>5, <1>7
  <2> QED
    BY <1>2, <1>7, <2>1 DEF m, d, p
<1> QED
  BY <1>6, <1>7

-----------------------------------------------------------------------------
(***************************************************************************)
(* The type of a record decides which alternative reads it, and an         *)
(* alternative that gives up had its reason: the name breaks off, the type *)
(* is cut off or another one, or the fields of the body do not fit.        *)
(***************************************************************************)
LEMMA AlternativesKnown ==
  ASSUME NEW t, TriesEachAlternative(tool)
  PROVE  /\ \A k \in 1..13 : Alternatives(tool)[k] \in KnownTypes
         /\ t \in KnownTypes => \E k \in 1..13 : Alternatives(tool)[k] = t
<1> DEFINE r == ResourceRecord
           types == {A, NS, CNAME, SOA, PTR, MX, TXT, AAAA, OPT, DS, RRSIG, KEY, NSEC3}
<1>1. KnownTypes = types
  BY DEF KnownTypes, ResourceRecord
<1>2. /\ r[1] = A /\ r[2] = NS /\ r[3] = CNAME /\ r[4] = SOA /\ r[5] = PTR /\ r[6] = MX
      /\ r[7] = TXT /\ r[8] = AAAA /\ r[9] = OPT /\ r[10] = DS /\ r[11] = RRSIG
      /\ r[12] = KEY /\ r[13] = NSEC3 /\ DOMAIN r = 1..13
  BY DEF ResourceRecord
<1> HIDE DEF r
<1>3. CASE Alternatives(tool) = r
  <2>1. \A k \in 1..13 : r[k] \in types
    BY <1>2
  <2>2. \A u \in types : \E k \in 1..13 : r[k] = u
    BY <1>2
  <2> QED
    BY <1>1, <1>3, <2>1, <2>2
<1>4. CASE Alternatives(tool) = [r EXCEPT ![11] = KEY, ![12] = RRSIG]
  <2> DEFINE s == [r EXCEPT ![11] = KEY, ![12] = RRSIG]
  <2>1. /\ s[1] = A /\ s[2] = NS /\ s[3] = CNAME /\ s[4] = SOA /\ s[5] = PTR /\ s[6] = MX
        /\ s[7] = TXT /\ s[8] = AAAA /\ s[9] = OPT /\ s[10] = DS /\ s[11] = KEY
        /\ s[12] = RRSIG /\ s[13] = NSEC3
    BY <1>2
  <2> HIDE DEF s
  <2>2. \A k \in 1..13 : s[k] \in types
    BY <2>1
  <2>3. \A u \in types : \E k \in 1..13 : s[k] = u
    BY <2>1
  <2> QED
    BY <1>1, <1>4, <2>2, <2>3 DEF s
<1> QED
  BY <1>3, <1>4 DEF Alternatives, r

\* The type of a record: its body, or nothing of a type that is skipped.
LEMMA TypeReads ==
  ASSUME IInv, at.alt \in 1..13, AtType, ReadType
  PROVE  InBody'
<1> DEFINE m == payload
           d == dialect
           p == pdu.curPos
           q == p + 2
<1>1. /\ TypeFits /\ pdu' = Advance(2) /\ UNCHANGED <<tool, packet, at, saved, lengths>>
      /\ fields' = IF type \in d.types THEN Common10 \o Body(type) ELSE <<>>
  BY FitsRemaining DEF ReadType
<1>2. lengthRemaining(2)
  BY <1>1 DEF TypeFits
<1>3. payload' = m /\ dialect' = d /\ RecordOfItem' = RecordOfItem /\ at' = at
  BY <1>1, SameItem
<1>4. RecordOfItem = RecordFrom(m, d, q)
  BY <1>2, RecordBehind
<1>5. d.types = KnownTypes /\ m \in Seq(Byte) /\ tool \in Tools
  BY PayloadIs, DialectFacts
<1>6. /\ p \in Nat /\ pdu.remaining \in Nat /\ p + pdu.remaining = Len(m) /\ outer = 0
      /\ Len(m) \in Nat
  <2>1. Opens(fields) # {}
    BY RecordIsTwo DEF AtType
  <2> QED
    BY <2>1, NoneOutside, CursorFacts, PayloadBytes
<1>7. U16(m, q - 2) = type
  <2>1. q - 2 = p
    BY <1>6
  <2> QED
    BY <2>1 DEF type
<1>8. Reader'.cur = q /\ Reader'.limit = Len(m)
  <2>1. Reader'.cur = pdu'.curPos /\ Reader'.limit = pdu'.curPos + pdu'.remaining
    BY DEF Reader
  <2> QED
    BY <1>1, <1>6, <2>1 DEF Advance
<1>9. Frame' \in Frames(m) /\ Reader' \in Readers(Frame') /\ Frame'.limit = Len(m)
  <2> DEFINE L == Len(m)
             f == [limit |-> L, start |-> lengths.start, dataLength |-> lengths.dataLength]
             r == [cur |-> q, limit |-> L, dataLength |-> lengths.dataLength,
                   start |-> lengths.start, length |-> lengths.length]
  <2>1. pdu'.curPos = q /\ pdu'.curPos + pdu'.remaining = L /\ lengths' = lengths
    BY <1>1, <1>6 DEF Advance
  <2>2. lengths.dataLength \in Nat /\ lengths.start \in Nat /\ lengths.length \in Nat
    <3>1. lengths \in [dataLength : Nat, start : Nat, length : Byte]
      BY DEF IInv, TypeOK
    <3> QED
      BY <3>1 DEF Byte
  <2>3. q \in 0..L /\ L \in 0..L
    BY <1>2, <1>6 DEF lengthRemaining
  <2>4. Frame' = f /\ Reader' = r
    BY <2>1 DEF Frame, Reader
  <2> HIDE DEF L, q
  <2>5. f \in Frames(m)
    BY <2>2, <2>3 DEF Frames, L
  <2>6. r \in Readers(f)
    BY <2>2, <2>3 DEF Readers
  <2> QED
    BY <2>4, <2>5, <2>6 DEF L
<1>10. Left' = EndsFrom(m, d, fields', Reader')
  BY <1>3 DEF Left
<1>11. CASE type \in d.types
  <2>1. fields' = Common10 \o Body(type) /\ fields' \in Seq(Untyped)
    BY <1>1, <1>5, <1>11, BodyUntyped
  <2>2. Left' = UNION {DataEnds(m, d, type, s, U16(m, s - 2)) : s \in After(m, {q}, 8)}
    <3> DEFINE w == Frame'
               x == Reader'
    <3>1. /\ w \in Frames(m) /\ w.limit = Len(m) /\ x \in Readers(w) /\ x.cur = q
          /\ type \in KnownTypes
      BY <1>5, <1>8, <1>9, <1>11
    <3> HIDE DEF w, x, q, m
    <3>2. EndsFrom(m, dialect, Common10 \o Body(type), x)
            = UNION {DataEnds(m, dialect, type, s, U16(m, s - 2)) : s \in After(m, {x.cur}, 8)}
      BY <1>5, <3>1, CommonEnds
    <3> QED
      BY <1>10, <2>1, <3>1, <3>2 DEF x
  <2>3. RecordFrom(m, d, q) = DataFrom(m, d, q)
    BY <1>7, <1>11 DEF RecordFrom
  <2>4. DataFrom(m, d, q)
          = UNION {DataEnds(m, d, type, s, U16(m, s - 2)) : s \in After(m, {q}, 8)}
    <3> HIDE DEF q
    <3> QED
      BY <1>7 DEF DataFrom
  <2>5. Left' = RecordOfItem
    BY <1>4, <2>2, <2>3, <2>4
  <2> QED
    BY <1>3, <2>1, <2>5 DEF InBody, AtType
<1>12. CASE type \notin d.types
  <2>1. fields' = <<>> /\ fields' \in Seq(Untyped)
    BY <1>1, <1>12
  <2>2. Left' = {q}
    <3> DEFINE x == Reader'
    <3>1. x.cur = q /\ x.cur \in Nat
      BY <1>6, <1>8
    <3> HIDE DEF x
    <3>2. EndsFrom(m, d, <<>>, x) = {x.cur}
      <4> HIDE DEF m, d
      <4> QED
        BY <3>1, NothingLeft
    <3> QED
      BY <1>10, <2>1, <3>1, <3>2 DEF x
  <2>3. ~TriesEachAlternative(tool)
    <3>1. SUFFICES ASSUME TriesEachAlternative(tool) PROVE FALSE
      OBVIOUS
    <3>2. type = Alternatives(tool)[at.alt]
      BY <1>1, <3>1 DEF TypeFits
    <3>3. type \in KnownTypes
      BY <3>1, <3>2, AlternativesKnown
    <3> QED
      BY <1>5, <1>12, <3>3
  <2>4. d.unknown = "skip"
    BY <1>1, <1>12, <2>3 DEF TypeFits
  <2>5. RecordFrom(m, d, q) = {q}
    BY <1>7, <1>12, <2>4 DEF RecordFrom
  <2>6. Left' = RecordOfItem
    BY <1>4, <2>2, <2>5
  <2> QED
    BY <1>3, <2>1, <2>6 DEF InBody, AtType
<1> QED
  BY <1>11, <1>12

\* A name that breaks off: the record has no end.
LEMMA NameFails ==
  ASSUME IInv, InName, ItemFails
  PROVE  NameOfItem = {} /\ RecordOfItem = {}
<1> DEFINE m == payload
           d == dialect
           p == pdu.curPos
           N == NameEnds(m, d)
           l == p + pdu.remaining
<1>1. ~WordFits /\ Opens(fields) # {}
  BY RecordIsTwo DEF InName, ItemFails, Fits
<1>2. l = Len(m) /\ p \in 0..Len(m) /\ Len(m) \in Nat
  BY <1>1, NoneOutside, PayloadBytes
<1>3. m \in Seq(Byte) /\ d.labelLimit \in 1..192
  BY PayloadIs, DialectFacts
<1>4. {e \in N[p] : e <= l} = {}
  BY <1>1, WordsAhead
<1>5. \A e \in N[p] : e \in p + 1..Len(m)
  <2> HIDE DEF m, d, p
  <2> QED
    BY <1>2, <1>3, NameAhead
<1>6. N[p] = {}
  BY <1>2, <1>4, <1>5
<1>7. NameOfItem = {}
  BY <1>6 DEF InName
<1>8. RecordOfItem = UNION {RecordFrom(m, d, q) : q \in After(m, NameOfItem, 2)}
  <2>1. \A c : RecordEnds(m, d, c) = UNION {RecordFrom(m, d, q) : q \in After(m, NameEnds(m, d)[c], 2)}
    BY RecordIs
  <2> QED
    BY <2>1 DEF RecordOfItem, NameOfItem
<1>9. After(m, {}, 2) = {}
  BY DEF After
<1> HIDE DEF m, d
<1>10. RecordOfItem = {}
  BY <1>7, <1>8, <1>9
<1> QED
  BY <1>7, <1>10

\* A type that is cut off, or that the alternative does not have.
LEMMA TypeFails ==
  ASSUME IInv, AtType, ItemFails
  PROVE  /\ ~lengthRemaining(2) => RecordOfItem = {}
         /\ TriesEachAlternative(tool) /\ lengthRemaining(2)
              => U16(payload, pdu.curPos) # Alternatives(tool)[at.alt]
         /\ ~TriesEachAlternative(tool) => RecordOfItem = {}
         /\ U16(payload, pdu.curPos) \notin KnownTypes /\ dialect.unknown # "skip"
              => RecordOfItem = {}
<1> DEFINE q == pdu.curPos + 2
<1>1. ~TypeFits /\ pdu.curPos \in Nat
  <2>1. Head(fields).kind = "type" /\ ~Fits(Head(fields))
    BY RecordIsTwo DEF AtType, ItemFails
  <2> QED
    BY <2>1, CursorFacts DEF Fits
<1>2. RecordOfItem = IF lengthRemaining(2) THEN RecordFrom(payload, dialect, q) ELSE {}
  BY RecordBehind
<1>3. q - 2 = pdu.curPos
  BY <1>1
<1>4. type = U16(payload, pdu.curPos)
  BY DEF type
<1>5. dialect.types = KnownTypes
  BY TypesKnown
<1>6. type \notin KnownTypes /\ dialect.unknown # "skip"
        => RecordFrom(payload, dialect, q) = {}
  BY <1>3, <1>4, <1>5 DEF RecordFrom
<1>7. ~lengthRemaining(2) => RecordOfItem = {}
  BY <1>2
<1>8. TriesEachAlternative(tool) /\ lengthRemaining(2) => type # Alternatives(tool)[at.alt]
  BY <1>1 DEF TypeFits
<1>9. ~TriesEachAlternative(tool) /\ lengthRemaining(2)
        => type \notin KnownTypes /\ dialect.unknown # "skip"
  BY <1>1, <1>5 DEF TypeFits
<1> QED
  BY <1>2, <1>4, <1>6, <1>7, <1>8, <1>9

\* An alternative that fails has its reason, like those before it.
LEMMA AlternativeFails ==
  ASSUME IInv, InItem, ItemFails, TriesEachAlternative(tool), at.section # 1,
         NEW h \in NameOfItem, h + 2 <= Len(payload),
         U16(payload, h) = Alternatives(tool)[at.alt]
  PROVE  RecordOfItem = {}
<1>1. CASE InName
  BY <1>1, NameFails
<1>2. CASE AtType
  <2>1. h = pdu.curPos
    BY <1>2 DEF AtType
  <2>2. Opens(fields) # {}
    BY <1>2, RecordIsTwo DEF AtType
  <2>3. lengthRemaining(2)
    BY <2>1, <2>2, NoneOutside, CursorFacts, PayloadBytes DEF lengthRemaining
  <2> QED
    BY <1>2, <2>1, <2>3, TypeFails
<1>3. CASE InBody
  BY <1>3, FieldFails DEF InBody
<1>4. ~InQuery
  BY DEF InQuery
<1> QED
  BY <1>1, <1>2, <1>3, <1>4 DEF InItem

\* The next alternative begins where the last one began.
LEMMA TryNextItem ==
  ASSUME IInv, InItem, TryNext, at.section \in 1..4, at.alt \in 1..13
  PROVE  InItem'
<1>1. /\ ItemFails /\ TriesEachAlternative(tool) /\ at.section > 1
      /\ pdu' = saved /\ fields' = Record /\ at' = [at EXCEPT !.alt = @ + 1]
      /\ UNCHANGED <<tool, packet, saved>>
  BY DEF TryNext, MoreAlternatives
<1>2. /\ payload' = payload /\ dialect' = dialect /\ NameOfItem' = NameOfItem
      /\ RecordOfItem' = RecordOfItem /\ tool' = tool
  BY <1>1 DEF payload, dialect, NameOfItem, RecordOfItem
<1>3. at'.alt = at.alt + 1 /\ at'.section = at.section /\ at.section # 1
  <2>1. at \in [section : 0..5, index : Nat, alt : 0..Len(ResourceRecord)]
    BY DEF IInv, TypeOK
  <2> QED
    BY <1>1, <2>1
<1>4. InName'
  <2>1. NameEnds(payload, dialect)'[pdu'.curPos] = NameOfItem
    BY <1>1, <1>2 DEF NameOfItem
  <2> QED
    BY <1>1, <1>2, <1>3, <2>1 DEF InName
<1>5. ASSUME NEW h \in NameOfItem, NEW j \in 1..at.alt, h + 2 <= Len(payload),
             U16(payload, h) = Alternatives(tool)[j]
      PROVE  RecordOfItem = {}
  <2>1. CASE j = at.alt
    BY <1>1, <1>3, <1>5, <2>1, AlternativeFails
  <2>2. CASE j \in 1..at.alt - 1
    BY <1>1, <1>3, <1>5, <2>2 DEF InItem, Tried
  <2> QED
    BY <2>1, <2>2
<1>6. Tried'
  <2>1. at'.alt - 1 = at.alt
    BY <1>3
  <2> QED
    BY <1>2, <1>5, <2>1 DEF Tried
<1> QED
  BY <1>4, <1>6 DEF InItem

\* When the last alternative fails, the item has no end.
LEMMA ItemEndless ==
  ASSUME IInv, InItem, ItemFails, ~MoreAlternatives, at.section \in 1..4, at.alt \in 1..13
  PROVE  IF at.section = 1 THEN QueryEnds(payload, dialect, saved.curPos) = {}
         ELSE RecordOfItem = {}
<1>1. CASE InQuery
  BY <1>1, FieldFails DEF InQuery
<1>2. CASE InName
  BY <1>2, NameFails DEF InName
<1>3. CASE InBody
  BY <1>3, FieldFails DEF InBody
<1>4. CASE AtType
  <2>1. at.section # 1 /\ at.section > 1 /\ NameOfItem = {pdu.curPos}
    BY <1>4 DEF AtType
  <2>2. CASE ~lengthRemaining(2) \/ ~TriesEachAlternative(tool)
    BY <1>4, <2>1, <2>2, TypeFails
  <2>3. CASE lengthRemaining(2) /\ TriesEachAlternative(tool)
    <3>1. at.alt = 13
      <4>1. Len(ResourceRecord) = 13
        BY DEF ResourceRecord
      <4> QED
        BY <2>1, <2>3, <4>1 DEF MoreAlternatives
    <3>2. dialect.unknown # "skip"
      <4>1. dialect.unknown = "reject"
        BY <2>3, PayloadIs, DialectFacts
      <4> QED
        BY <4>1
    <3>3. CASE U16(payload, pdu.curPos) \notin KnownTypes
      BY <1>4, <2>1, <3>2, <3>3, TypeFails
    <3>4. CASE U16(payload, pdu.curPos) \in KnownTypes
      <4>1. PICK k \in 1..13 : Alternatives(tool)[k] = U16(payload, pdu.curPos)
        BY <2>3, <3>4, AlternativesKnown
      <4>2. k # at.alt
        BY <1>4, <2>3, <4>1, TypeFails
      <4>3. k \in 1..at.alt - 1
        BY <3>1, <4>2
      <4>4. pdu.curPos + 2 <= Len(payload)
        <5>1. Opens(fields) # {}
          BY <1>4, RecordIsTwo DEF AtType
        <5> QED
          BY <2>3, <5>1, NoneOutside, PayloadBytes DEF lengthRemaining
      <4>5. \A h \in NameOfItem : \A j \in 1..at.alt - 1 :
              h + 2 <= Len(payload) /\ U16(payload, h) = Alternatives(tool)[j]
                => RecordOfItem = {}
        BY <2>1, <2>3 DEF InItem, Tried
      <4>6. pdu.curPos \in NameOfItem
        BY <2>1
      <4> QED
        BY <2>1, <4>1, <4>3, <4>4, <4>5, <4>6
    <3> QED
      BY <3>3, <3>4
  <2> QED
    BY <2>2, <2>3
<1> QED
  BY <1>1, <1>2, <1>3, <1>4 DEF InItem

-----------------------------------------------------------------------------
(***************************************************************************)
(* The message. The items read so far are a list that has one end, the     *)
(* place where the next item begins, or the item under way did: Decoding,  *)
(* the invariant.                                                          *)
(***************************************************************************)
\* Where n questions may end, and n records behind all the questions.
QueriesRead(n) == ListEnds(Queries(payload, dialect), n, {12})

RecordsRead(n) == ListEnds(Records(payload, dialect), n, QueriesRead(counts[1]))

\* Where the items before the one that is next or being read may end.
Reached ==
  IF at.section = 1 THEN QueriesRead(at.index)
  ELSE RecordsRead(Earlier(at.section) - counts[1] + at.index)

\* Where that item begins.
Here == IF at.alt = 0 THEN pdu.curPos ELSE saved.curPos

\* What VerdictExact wants of a message that is accepted as DNS.
IsDns ==
  /\ InLanguage(payload, dialect)
  /\ tool = "scl" => packet.port = 53

\* The items before the one that is next or under way end where it begins, and
\* the header was there.
Underway ==
  /\ Reached = {Here}
  /\ Len(payload) >= 12
  /\ tool = "scl" => packet.port = 53

\* The strengthening of VerdictExact: it says of every moment before the
\* verdict what the rest of the message decides.
Decoding ==
  /\ verdict = "none" /\ at.section > 0 => Underway
  /\ verdict = "none" /\ at.alt > 0 => InItem
  /\ verdict = "trying ntp" => pdu = Start /\ tool = "scl" /\ ~IsDns
  /\ VerdictExact

LEMMA ListNext ==
  ASSUME NEW ends, NEW S, NEW n \in Nat, NEW c, ListEnds(ends, n, S) = {c}
  PROVE  ListEnds(ends, n + 1, S) = ends[c]
<1>1. ListEnds(ends, n + 1, S) = Image(ends, {c})
  BY ListMore
<1> QED
  BY <1>1, ImageOne

LEMMA ListNone ==
  ASSUME NEW ends, NEW S PROVE ListEnds(ends, 0, S) = S
BY ListUnrolls

LEMMA EarlierIs ==
  /\ Earlier(1) = 0
  /\ counts[1] \in Nat => Earlier(2) = counts[1]
  /\ counts[1] \in Nat /\ counts[2] \in Nat => Earlier(3) = counts[1] + counts[2]
  /\ counts[1] \in Nat /\ counts[2] \in Nat /\ counts[3] \in Nat
       => Earlier(4) = counts[1] + counts[2] + counts[3]
  /\ counts \in [1..4 -> Nat]
       => Earlier(5) = counts[1] + counts[2] + counts[3] + counts[4]
BY DEF Earlier

\* The number of records before the one that is next or being read.
RecordsBefore == Earlier(at.section) - counts[1] + at.index

RecordsAnnounced == counts[2] + counts[3] + counts[4]

\* The numbers of items read so far, when a section or an item ends.
LEMMA CountsInOrder ==
  ASSUME IInv, Tiling, verdict = "none", at.section > 0
  PROVE  /\ at.section = 1 => at.index \in Nat /\ at.index <= counts[1] /\ counts[1] \in Nat
         /\ at.section # 1 => RecordsBefore \in Nat
         /\ at.section # 1 /\ at.alt > 0 => RecordsBefore + 1 <= RecordsAnnounced
         /\ at.section = 5 => RecordsBefore = RecordsAnnounced
         /\ RecordsAnnounced \in Nat /\ counts[1] \in Nat
         /\ at.section \in 1..5 /\ at.index \in Nat
         /\ \A k \in 1..4 : counts[k] = U16(payload, 2 + 2 * k)
         /\ at.alt > 0 => at.section \in 1..4 /\ at.alt \in 1..13
<1>1. /\ InSection /\ Moved /\ at.section \in 0..5 /\ at.index \in Nat
      /\ counts \in [1..4 -> Nat]
      /\ at \in [section : 0..5, index : Nat, alt : 0..Len(ResourceRecord)]
  BY TilingFacts
<1>2. at.section \in {1, 2, 3, 4, 5}
  BY <1>1
<1>3. /\ counts[1] \in Nat /\ counts[2] \in Nat /\ counts[3] \in Nat /\ counts[4] \in Nat
  BY <1>1
<1>4. /\ Earlier(2) = counts[1] /\ Earlier(3) = counts[1] + counts[2]
      /\ Earlier(4) = counts[1] + counts[2] + counts[3]
      /\ Earlier(5) = counts[1] + counts[2] + counts[3] + counts[4]
  BY <1>1, <1>3, EarlierIs
<1>5. /\ at.section \in 1..4 => at.index <= counts[at.section]
      /\ at.section = 5 => at.index = 0 /\ at.alt = 0
      /\ \A k \in 1..4 : counts[k] = U16(payload, 2 + 2 * k)
  BY <1>1, <1>2 DEF InSection
<1>6. at.alt > 0 => at.section \in 1..4 /\ at.index < counts[at.section]
  BY <1>1 DEF Moved
<1>7. at.alt > 0 => at.alt \in 1..13
  <2>1. Len(ResourceRecord) = 13
    BY DEF ResourceRecord
  <2> QED
    BY <1>1, <2>1
<1>8. RecordsAnnounced \in Nat
  BY <1>3 DEF RecordsAnnounced
<1>9. /\ at.section # 1 => RecordsBefore \in Nat
      /\ at.section # 1 /\ at.alt > 0 => RecordsBefore + 1 <= RecordsAnnounced
      /\ at.section = 5 => RecordsBefore = RecordsAnnounced
  <2>1. CASE at.section = 1
    BY <2>1
  <2>2. CASE at.section = 2
    <3>1. RecordsBefore = at.index
      BY <1>1, <1>3, <1>4, <2>2, SMTT(30) DEF RecordsBefore
    <3>2. at.alt > 0 => at.index < counts[2]
      BY <1>6, <2>2
    <3> QED
      BY <1>1, <1>3, <2>2, <3>1, <3>2, SMTT(30) DEF RecordsAnnounced
  <2>3. CASE at.section = 3
    <3>1. RecordsBefore = counts[2] + at.index
      BY <1>1, <1>3, <1>4, <2>3, SMTT(30) DEF RecordsBefore
    <3>2. at.alt > 0 => at.index < counts[3]
      BY <1>6, <2>3
    <3> QED
      BY <1>1, <1>3, <2>3, <3>1, <3>2, SMTT(30) DEF RecordsAnnounced
  <2>4. CASE at.section = 4
    <3>1. RecordsBefore = counts[2] + counts[3] + at.index
      BY <1>1, <1>3, <1>4, <2>4, SMTT(30) DEF RecordsBefore
    <3>2. at.alt > 0 => at.index < counts[4]
      BY <1>6, <2>4
    <3> QED
      BY <1>1, <1>3, <2>4, <3>1, <3>2, SMTT(30) DEF RecordsAnnounced
  <2>5. CASE at.section = 5
    <3>1. RecordsBefore = counts[2] + counts[3] + counts[4]
      BY <1>1, <1>3, <1>4, <1>5, <2>5, SMTT(30) DEF RecordsBefore
    <3> QED
      BY <1>3, <1>5, <2>5, <3>1, SMTT(30) DEF RecordsAnnounced
  <2> QED
    BY <1>2, <2>1, <2>2, <2>3, <2>4, <2>5
<1> QED
  BY <1>1, <1>2, <1>3, <1>5, <1>6, <1>7, <1>8, <1>9

\* What the counts announce, read from the message.
LEMMA EndsAre ==
  ASSUME \A k \in 1..4 : counts[k] = U16(payload, 2 + 2 * k)
  PROVE  Ends(payload, dialect) = RecordsRead(RecordsAnnounced)
<1>1. /\ counts[1] = U16(payload, 4) /\ counts[2] = U16(payload, 6)
      /\ counts[3] = U16(payload, 8) /\ counts[4] = U16(payload, 10)
  <2>1. /\ 2 + 2 * 1 = 4 /\ 2 + 2 * 2 = 6 /\ 2 + 2 * 3 = 8 /\ 2 + 2 * 4 = 10
    OBVIOUS
  <2>2. 1 \in 1..4 /\ 2 \in 1..4 /\ 3 \in 1..4 /\ 4 \in 1..4
    OBVIOUS
  <2> QED
    BY <2>1, <2>2
<1> QED
  BY <1>1 DEF Ends, RecordsRead, QueriesRead, RecordsAnnounced

\* An item without an end leaves none to the message.
LEMMA EndlessItem ==
  ASSUME IInv, Tiling, verdict = "none", at.section > 0, at.alt > 0, Reached = {Here},
         IF at.section = 1 THEN QueryEnds(payload, dialect, saved.curPos) = {}
         ELSE RecordOfItem = {}
  PROVE  Ends(payload, dialect) = {}
<1> DEFINE Q == Queries(payload, dialect)
           R == Records(payload, dialect)
           p == saved.curPos
<1>1. /\ \A k \in 1..4 : counts[k] = U16(payload, 2 + 2 * k)
      /\ RecordsAnnounced \in Nat /\ counts[1] \in Nat
      /\ at.section = 1 => at.index \in Nat /\ at.index + 1 <= counts[1]
      /\ at.section # 1 => RecordsBefore \in Nat /\ RecordsBefore + 1 <= RecordsAnnounced
  <2>1. at.section = 1 => at.index < counts[1]
    BY TilingFacts DEF Moved
  <2> QED
    BY <2>1, CountsInOrder
<1>2. Ends(payload, dialect) = RecordsRead(RecordsAnnounced)
  BY <1>1, EndsAre
<1>3. p \in 0..Len(payload)
  BY CursorFacts, PayloadBytes
<1>4. Q[p] = QueryEnds(payload, dialect, p) /\ R[p] = RecordOfItem
  BY <1>3 DEF Queries, Records, RecordOfItem
<1>5. Reached = {p}
  BY TilingFacts DEF Here
<1>6. CASE at.section = 1
  <2>1. ListEnds(Q, at.index, {12}) = {p}
    BY <1>5, <1>6 DEF Reached, QueriesRead
  <2> DEFINE n == at.index + 1
             k == counts[1] - n
  <2>2. n \in Nat /\ k \in Nat /\ n + k = counts[1]
    BY <1>1, <1>6
  <2>3. ListEnds(Q, n, {12}) = {}
    <3> HIDE DEF Q
    <3>1. ListEnds(Q, n, {12}) = Q[p]
      BY <1>1, <1>6, <2>1, ListNext
    <3> QED
      BY <1>4, <1>6, <3>1
  <2>4. QueriesRead(counts[1]) = {}
    <3> HIDE DEF n, k, Q
    <3>1. ListEnds(Q, n + k, {12}) = {}
      BY <2>2, <2>3, ListEmpty
    <3> QED
      BY <2>2, <3>1 DEF QueriesRead, Q
  <2>5. RecordsRead(RecordsAnnounced) = {}
    <3> DEFINE r == RecordsAnnounced
    <3> HIDE DEF R, r
    <3>1. r \in Nat
      BY <1>1 DEF r
    <3>2. ListEnds(R, 0, {}) = {}
      BY ListNone
    <3>3. \A j \in Nat : ListEnds(R, 0 + j, {}) = {}
      BY <3>2, ListEmpty
    <3>4. ListEnds(R, 0 + r, {}) = {}
      BY <3>1, <3>3
    <3>5. ListEnds(R, r, {}) = {}
      BY <3>1, <3>4
    <3> QED
      BY <2>4, <3>5 DEF RecordsRead, R, r
  <2> QED
    BY <1>2, <2>5
<1>7. CASE at.section # 1
  <2> DEFINE S == QueriesRead(counts[1])
             b == RecordsBefore
             n == b + 1
             k == RecordsAnnounced - n
  <2>1. ListEnds(R, b, S) = {p}
    BY <1>5, <1>7 DEF Reached, RecordsRead, RecordsBefore
  <2>2. b \in Nat /\ n \in Nat /\ k \in Nat /\ n + k = RecordsAnnounced
    BY <1>1, <1>7
  <2>3. ListEnds(R, n, S) = {}
    <3> HIDE DEF R, S, b
    <3>1. ListEnds(R, n, S) = R[p]
      BY <2>1, <2>2, ListNext
    <3> QED
      BY <1>4, <1>7, <3>1
  <2>4. RecordsRead(RecordsAnnounced) = {}
    <3> HIDE DEF n, k, R, S
    <3>1. ListEnds(R, n + k, S) = {}
      BY <2>2, <2>3, ListEmpty
    <3> QED
      BY <2>2, <3>1 DEF RecordsRead, R, S
  <2> QED
    BY <1>2, <2>4
<1> QED
  BY <1>6, <1>7

-----------------------------------------------------------------------------
(***************************************************************************)
(* Decoding, step by step.                                                 *)
(***************************************************************************)
LEMMA InitDecoding == Init => Decoding
BY DEF Init, Decoding, VerdictExact, Decided

LEMMA StillParsing ==
  ASSUME verdict' = "none", at'.section > 0 => Underway', at'.alt > 0 => InItem'
  PROVE  Decoding'
BY DEF Decoding, VerdictExact, Decided

LEMMA ParsingFacts ==
  ASSUME IInv, Tiling, Decoding, verdict = "none"
  PROVE  /\ at.section > 0 => Underway
         /\ at.alt > 0 => InItem /\ Underway /\ at.section \in 1..4 /\ at.alt \in 1..13
         /\ fields # <<>> => at.alt > 0
         /\ at \in [section : 0..5, index : Nat, alt : 0..Len(ResourceRecord)]
         /\ at.section \in 0..5 /\ at.index \in Nat /\ at.alt \in Nat
<1>1. /\ at \in [section : 0..5, index : Nat, alt : 0..Len(ResourceRecord)]
      /\ at.section \in 0..5 /\ at.index \in Nat /\ at.alt \in Nat /\ Moved
  BY TilingFacts
<1>2. at.section > 0 => Underway
  BY DEF Decoding
<1>3. at.alt > 0 => InItem
  BY DEF Decoding
<1>4. fields # <<>> => at.alt > 0
  BY <1>1 DEF IInv, Remains
<1>5. at.alt > 0 => at.section \in 1..4 /\ at.section > 0
  BY <1>1 DEF Moved
<1>6. at.alt > 0 => at.alt \in 1..13
  <2>1. Len(ResourceRecord) = 13
    BY DEF ResourceRecord
  <2> QED
    BY <1>1, <2>1
<1> QED
  BY <1>1, <1>2, <1>3, <1>4, <1>5, <1>6

LEMMA ReadHeaderDecoding == IInv /\ Tiling /\ Decoding /\ ReadHeader => Decoding'
<1> SUFFICES ASSUME IInv, Tiling, Decoding, ReadHeader PROVE Decoding'
  OBVIOUS
<1>1. /\ verdict = "none" /\ at.section = 0 /\ 12 \in 0..pdu.remaining
      /\ tool = "scl" => packet.port = 53
      /\ pdu' = Advance(12) /\ at' = [at EXCEPT !.section = 1]
      /\ UNCHANGED <<tool, packet, verdict>>
  BY DEF ReadHeader, lengthRemaining
<1>2. /\ NotBegun /\ at \in [section : 0..5, index : Nat, alt : 0..Len(ResourceRecord)]
  BY <1>1, TilingFacts
<1>3. /\ at.alt = 0 /\ at.index = 0 /\ pdu.curPos = 0
      /\ at'.alt = 0 /\ at'.index = 0 /\ at'.section = 1
  BY <1>1, <1>2 DEF NotBegun
<1>4. pdu'.curPos = 12
  BY <1>1, <1>3 DEF Advance
<1>5. Len(payload) >= 12
  <2>1. outer = 0
    BY <1>3, CursorFacts
  <2> QED
    BY <1>1, <1>3, <2>1, CursorFacts, PayloadBytes
<1>6. payload' = payload /\ dialect' = dialect
  BY <1>1 DEF payload, dialect
<1>7. Reached' = {12}
  <2>1. Reached' = ListEnds(Queries(payload, dialect), 0, {12})
    BY <1>3, <1>6 DEF Reached, QueriesRead
  <2>2. \A e, S : ListEnds(e, 0, S) = S
    BY ListNone
  <2> QED
    BY <2>1, <2>2
<1>8. Here' = 12
  BY <1>3, <1>4 DEF Here
<1>9. Underway'
  BY <1>1, <1>5, <1>6, <1>7, <1>8 DEF Underway
<1> QED
  BY <1>1, <1>3, <1>9, StillParsing

LEMMA NextSectionDecoding == IInv /\ Tiling /\ Decoding /\ NextSection => Decoding'
<1> SUFFICES ASSUME IInv, Tiling, Decoding, NextSection PROVE Decoding'
  OBVIOUS
<1>1. /\ verdict = "none" /\ at.section \in 1..4 /\ at.alt = 0
      /\ at.index = counts[at.section]
      /\ at' = [section |-> at.section + 1, index |-> 0, alt |-> 0]
      /\ UNCHANGED <<tool, packet, pdu, counts, verdict>>
  BY DEF NextSection
<1>2. payload' = payload /\ dialect' = dialect
  BY <1>1 DEF payload, dialect
<1>3. at'.section = at.section + 1 /\ at'.index = 0 /\ at'.alt = 0 /\ at'.section # 1
  BY <1>1
<1>4. counts \in [1..4 -> Nat]
  BY <1>1, TilingFacts
<1>5. counts[1] \in Nat /\ counts[2] \in Nat /\ counts[3] \in Nat /\ counts[4] \in Nat
  BY <1>4
<1>6. Underway
  BY <1>1 DEF Decoding
<1> DEFINE Q == QueriesRead(counts[1])
           R == Records(payload, dialect)
           n == Earlier(at.section + 1) - counts[1]
<1>7. Reached' = ListEnds(R, n, Q)
  <2>1. Earlier(at.section)' = Earlier(at.section + 1)
    BY <1>1, <1>3 DEF Earlier
  <2>2. n \in Int
    BY <1>1, <1>5 DEF Earlier
  <2>3. Earlier(at.section)' - counts'[1] + at'.index = n
    BY <1>1, <1>3, <2>1, <2>2
  <2>4. QueriesRead(counts[1])' = Q
    BY <1>1, <1>2 DEF QueriesRead
  <2>5. Reached' = ListEnds(Records(payload', dialect'),
                            Earlier(at.section)' - counts'[1] + at'.index,
                            ListEnds(Queries(payload', dialect'), counts'[1], {12}))
    BY <1>3 DEF Reached, RecordsRead, QueriesRead
  <2> QED
    BY <1>1, <1>2, <2>3, <2>4, <2>5 DEF QueriesRead
<1>8. ListEnds(R, n, Q) = Reached
  <2>1. CASE at.section = 1
    <3>1. n = 0
      BY <1>5, <2>1, EarlierIs
    <3>2. ListEnds(R, 0, Q) = Q
      <4> HIDE DEF R, Q
      <4> QED
        BY ListNone
    <3>3. Reached = Q
      BY <1>1, <2>1 DEF Reached
    <3> QED
      BY <3>1, <3>2, <3>3
  <2>2. CASE at.section # 1
    <3>1. n = Earlier(at.section) - counts[1] + at.index
      <4>1. at.section \in {2, 3, 4}
        BY <1>1, <2>2
      <4>2. /\ Earlier(2) = counts[1] /\ Earlier(3) = counts[1] + counts[2]
            /\ Earlier(4) = counts[1] + counts[2] + counts[3]
            /\ Earlier(5) = counts[1] + counts[2] + counts[3] + counts[4]
        BY <1>4, <1>5, EarlierIs
      <4>3. CASE at.section = 2
        BY <1>1, <1>5, <4>2, <4>3
      <4>4. CASE at.section = 3
        BY <1>1, <1>5, <4>2, <4>4
      <4>5. CASE at.section = 4
        BY <1>1, <1>5, <4>2, <4>5
      <4> QED
        BY <4>1, <4>3, <4>4, <4>5
    <3> QED
      BY <2>2, <3>1 DEF Reached, RecordsRead
  <2> QED
    BY <2>1, <2>2
<1>9. Here' = Here
  BY <1>1, <1>3 DEF Here
<1>10. Underway'
  BY <1>1, <1>2, <1>6, <1>7, <1>8, <1>9 DEF Underway
<1> QED
  BY <1>1, <1>3, <1>10, StillParsing

LEMMA StartItemDecoding == IInv /\ Tiling /\ Decoding /\ StartItem => Decoding'
<1> SUFFICES ASSUME IInv, Tiling, Decoding, StartItem PROVE Decoding'
  OBVIOUS
<1>1. /\ verdict = "none" /\ at.section \in 1..4 /\ at.alt = 0
      /\ fields' = IF at.section = 1 THEN Query ELSE Record
      /\ at' = [at EXCEPT !.alt = 1] /\ saved' = pdu
      /\ UNCHANGED <<tool, packet, pdu, counts, lengths, verdict>>
  BY DEF StartItem
<1>2. payload' = payload /\ dialect' = dialect
  BY <1>1 DEF payload, dialect
<1>3. at'.section = at.section /\ at'.index = at.index /\ at'.alt = 1
  <2>1. at \in [section : 0..5, index : Nat, alt : 0..Len(ResourceRecord)]
    BY DEF IInv, TypeOK
  <2> QED
    BY <1>1, <2>1
<1>4. Underway
  BY <1>1 DEF Decoding
<1>5. Reached' = Reached /\ Here' = Here
  <2>1. Here' = pdu.curPos /\ Here = pdu.curPos
    BY <1>1, <1>3 DEF Here
  <2>2. Reached' = Reached
    BY <1>1, <1>2, <1>3 DEF Reached, QueriesRead, RecordsRead, Earlier
  <2> QED
    BY <2>1, <2>2
<1>6. Underway'
  BY <1>1, <1>2, <1>4, <1>5 DEF Underway
<1>7. outer = 0 /\ pdu.curPos + pdu.remaining = Len(payload)
  BY <1>1, CursorFacts
<1>8. CASE at.section = 1
  <2>1. fields' = Query /\ fields' \in Seq(Untyped)
    BY <1>1, <1>8, QueryUntyped
  <2>2. Reader' = Reader
    BY <1>1 DEF Reader
  <2>3. EndsFrom(payload, dialect, Query, Reader) = QueryEnds(payload, dialect, pdu.curPos)
    <3> DEFINE m == payload
               d == dialect
               w == Frame
               x == Reader
    <3>1. /\ m \in Seq(Byte) /\ d.labelLimit \in 1..192 /\ w \in Frames(m)
          /\ w.limit = Len(m) /\ x \in Readers(w) /\ x.cur = pdu.curPos
      BY <1>7, PayloadIs, DialectFacts, ReaderNow
    <3> HIDE DEF m, d, w, x
    <3>2. EndsFrom(m, d, Query, x) = QueryEnds(m, d, x.cur)
      BY <3>1, QueryReads
    <3> QED
      BY <3>1, <3>2 DEF m, d, x
  <2>4. Left' = EndsFrom(payload, dialect, Query, Reader)
    BY <1>2, <2>1, <2>2 DEF Left
  <2>5. InQuery'
    BY <1>1, <1>2, <1>3, <1>8, <2>1, <2>3, <2>4 DEF InQuery
  <2>6. Tried'
    BY <1>3, <1>8 DEF Tried
  <2>7. InItem'
    BY <2>5, <2>6 DEF InItem
  <2> QED
    BY <1>1, <1>6, <2>7, StillParsing
<1>9. CASE at.section # 1
  <2>1. InName'
    BY <1>1, <1>2, <1>3, <1>9 DEF InName, NameOfItem
  <2>2. Tried'
    <3>1. 1..at'.alt - 1 = {}
      BY <1>3
    <3> QED
      BY <3>1 DEF Tried
  <2>3. InItem'
    BY <2>1, <2>2 DEF InItem
  <2> QED
    BY <1>1, <1>6, <2>3, StillParsing
<1> QED
  BY <1>8, <1>9

\* A read leaves the item where it was.
LEMMA ReadDecoding ==
  ASSUME IInv, Tiling, Decoding, verdict = "none", fields # <<>>,
         UNCHANGED <<tool, packet, counts, at, saved, verdict>>,
         InQuery' \/ InName' \/ AtType' \/ InBody'
  PROVE  Decoding'
<1>1. at.alt > 0 /\ InItem /\ Underway
  BY ParsingFacts
<1>2. /\ payload' = payload /\ dialect' = dialect /\ (Tried' <=> Tried)
  BY SameItem
<1>3. Reached' = Reached
  BY <1>2 DEF Reached, QueriesRead, RecordsRead, Earlier
<1>4. Here' = Here
  BY <1>1 DEF Here
<1>5. Underway'
  BY <1>1, <1>2, <1>3, <1>4 DEF Underway
<1>6. InItem'
  BY <1>1, <1>2 DEF InItem
<1> QED
  BY <1>5, <1>6, StillParsing

LEMMA ReadsDecoding ==
  ASSUME IInv, Tiling, Decoding,
         ReadWord \/ ReadType \/ ReadOpaque \/ ReadLength \/ ReadDataLength \/ OpenSubstream
  PROVE  Decoding'
<1>1. /\ verdict = "none" /\ fields # <<>>
      /\ UNCHANGED <<tool, packet, counts, at, saved, verdict>>
  BY DEF ReadWord, ReadType, ReadOpaque, ReadLength, ReadDataLength, OpenSubstream, Parsing
<1>2. InItem /\ at.section \in 1..4 /\ at.alt \in 1..13
  BY <1>1, ParsingFacts
<1>3. /\ payload' = payload /\ dialect' = dialect /\ NameOfItem' = NameOfItem
      /\ RecordOfItem' = RecordOfItem /\ at' = at /\ saved' = saved
  BY <1>1, SameItem
<1>4. Head(fields).kind = "type" => ReadType
  BY DEF ReadWord, ReadOpaque, ReadLength, ReadDataLength, OpenSubstream, Parsing
<1>5. Head(fields).kind = "name" => ReadWord
  BY DEF ReadType, ReadOpaque, ReadLength, ReadDataLength, OpenSubstream, Parsing
<1>6. ReadType => Head(fields).kind = "type"
  BY DEF ReadType, Parsing
<1>7. fields \in Seq(Untyped) => Head(fields).kind # "type"
  BY <1>1, UntypedTail
<1>8. CASE InQuery
  <2>1. fields' \in Seq(Untyped) /\ Left' = Left
    BY <1>6, <1>7, <1>8, ReadsKeep DEF InQuery
  <2>2. InQuery'
    BY <1>3, <1>8, <2>1 DEF InQuery
  <2> QED
    BY <1>1, <2>2, ReadDecoding
<1>9. CASE InBody
  <2>1. fields' \in Seq(Untyped) /\ Left' = Left
    BY <1>6, <1>7, <1>9, ReadsKeep DEF InBody
  <2>2. InBody'
    BY <1>3, <1>9, <2>1 DEF InBody
  <2> QED
    BY <1>1, <2>2, ReadDecoding
<1>10. CASE InName
  <2>1. ReadWord
    BY <1>5, <1>10, RecordIsTwo DEF InName
  <2> QED
    BY <1>1, <1>10, <2>1, NameReads, ReadDecoding
<1>11. CASE AtType
  <2>1. ReadType
    BY <1>4, <1>11, RecordIsTwo DEF AtType
  <2> QED
    BY <1>1, <1>2, <1>11, <2>1, TypeReads, ReadDecoding
<1> QED
  BY <1>2, <1>8, <1>9, <1>10, <1>11 DEF InItem

LEMMA TryNextDecoding == IInv /\ Tiling /\ Decoding /\ TryNext => Decoding'
<1> SUFFICES ASSUME IInv, Tiling, Decoding, TryNext PROVE Decoding'
  OBVIOUS
<1>1. /\ verdict = "none" /\ fields # <<>> /\ pdu' = saved /\ at' = [at EXCEPT !.alt = @ + 1]
      /\ UNCHANGED <<tool, packet, counts, saved, verdict>>
  BY DEF TryNext, ItemFails
<1>2. /\ at.alt > 0 /\ InItem /\ Underway /\ at.section \in 1..4 /\ at.alt \in 1..13
      /\ at \in [section : 0..5, index : Nat, alt : 0..Len(ResourceRecord)] /\ at.alt \in Nat
  BY <1>1, ParsingFacts
<1>3. at'.alt = at.alt + 1 /\ at'.section = at.section /\ at'.index = at.index
  BY <1>1, <1>2
<1>4. payload' = payload /\ dialect' = dialect
  BY <1>1 DEF payload, dialect
<1>5. Reached' = Reached
  BY <1>1, <1>3, <1>4 DEF Reached, QueriesRead, RecordsRead, Earlier
<1>6. Here' = Here
  BY <1>1, <1>2, <1>3 DEF Here
<1>7. Underway'
  BY <1>1, <1>2, <1>4, <1>5, <1>6 DEF Underway
<1>8. InItem'
  BY <1>2, TryNextItem
<1> QED
  BY <1>1, <1>7, <1>8, StillParsing

LEMMA EndItemDecoding == IInv /\ Tiling /\ Decoding /\ EndItem => Decoding'
<1> SUFFICES ASSUME IInv, Tiling, Decoding, EndItem PROVE Decoding'
  OBVIOUS
<1>1. /\ verdict = "none" /\ at.alt > 0 /\ fields = <<>>
      /\ pdu' = [pdu EXCEPT !.remaining = @ + outer]
      /\ at' = [at EXCEPT !.index = @ + 1, !.alt = 0]
      /\ UNCHANGED <<tool, packet, counts, saved, verdict>>
  BY DEF EndItem
<1>2. /\ InItem /\ Underway /\ at.section \in 1..4
      /\ at \in [section : 0..5, index : Nat, alt : 0..Len(ResourceRecord)] /\ at.index \in Nat
  BY <1>1, ParsingFacts
<1>3. at'.alt = 0 /\ at'.section = at.section /\ at'.index = at.index + 1
  BY <1>1, <1>2
<1>4. payload' = payload /\ dialect' = dialect
  BY <1>1 DEF payload, dialect
<1>5. pdu'.curPos = pdu.curPos
  <2>1. pdu \in Cursors
    BY DEF IInv, TypeOK
  <2> QED
    BY <1>1, <2>1 DEF Cursors
<1> DEFINE Q == Queries(payload, dialect)
           R == Records(payload, dialect)
           S == QueriesRead(counts[1])
           p == saved.curPos
           b == RecordsBefore
<1>6. p \in 0..Len(payload)
  BY CursorFacts, PayloadBytes
<1>7. Q[p] = QueryEnds(payload, dialect, p) /\ R[p] = RecordOfItem
  BY <1>6 DEF Queries, Records, RecordOfItem
<1>8. Reached = {p}
  BY <1>1, <1>2 DEF Underway, Here
<1>9. Here' = pdu.curPos
  BY <1>3, <1>5 DEF Here
<1>10. Left = {pdu.curPos}
  BY <1>1, ItemRead
<1>11. fields # Record /\ fields # <<Kind("type")>>
  BY <1>1, RecordIsTwo
<1>12. CASE at.section = 1
  <2>1. Q[p] = {pdu.curPos}
    BY <1>2, <1>7, <1>10, <1>11, <1>12 DEF InItem, InQuery, InName, AtType, InBody
  <2>2. ListEnds(Q, at.index, {12}) = {p}
    BY <1>8, <1>12 DEF Reached, QueriesRead
  <2>3. ListEnds(Q, at.index + 1, {12}) = Q[p]
    <3> HIDE DEF Q, p
    <3> QED
      BY <1>2, <2>2, ListNext
  <2>4. Reached' = ListEnds(Q, at.index + 1, {12})
    BY <1>3, <1>4, <1>12 DEF Reached, QueriesRead
  <2>5. Underway'
    BY <1>1, <1>2, <1>4, <1>9, <2>1, <2>3, <2>4 DEF Underway
  <2> QED
    BY <1>1, <1>3, <2>5, StillParsing
<1>13. CASE at.section # 1
  <2>1. R[p] = {pdu.curPos}
    BY <1>2, <1>7, <1>10, <1>11, <1>13 DEF InItem, InQuery, InName, AtType, InBody
  <2>2. ListEnds(R, b, S) = {p}
    BY <1>8, <1>13 DEF Reached, RecordsRead, RecordsBefore
  <2>3. b \in Nat /\ Earlier(at.section) - counts[1] \in Int
    <3>1. counts \in [1..4 -> Nat] /\ at.section \in 0..5
      BY <1>1, TilingFacts
    <3>2. Earlier(at.section) \in Int /\ counts[1] \in Int
      BY <3>1 DEF Earlier
    <3> QED
      BY <1>1, <1>2, <1>13, <3>2, CountsInOrder
  <2>4. ListEnds(R, b + 1, S) = R[p]
    <3> HIDE DEF R, S, p, b
    <3> QED
      BY <2>2, <2>3, ListNext
  <2>5. Reached' = ListEnds(R, b + 1, S)
    <3>1. Reached' = RecordsRead(Earlier(at.section) - counts[1] + at.index)'
      BY <1>3, <1>13 DEF Reached
    <3>2. (Earlier(at.section) - counts[1])' = Earlier(at.section) - counts[1]
      BY <1>1, <1>3 DEF Earlier
    <3>3. (Earlier(at.section) - counts[1] + at.index)' = b + 1
      BY <1>2, <1>3, <2>3, <3>2 DEF RecordsBefore
    <3>4. Reached' = ListEnds(Records(payload', dialect'),
                              (Earlier(at.section) - counts[1] + at.index)',
                              ListEnds(Queries(payload', dialect'), counts'[1], {12}))
      BY <3>1 DEF RecordsRead, QueriesRead
    <3> QED
      BY <1>1, <1>4, <3>3, <3>4 DEF QueriesRead
  <2>6. Underway'
    BY <1>1, <1>2, <1>4, <1>9, <2>1, <2>4, <2>5 DEF Underway
  <2> QED
    BY <1>1, <1>3, <2>6, StillParsing
<1> QED
  BY <1>12, <1>13

-----------------------------------------------------------------------------
(***************************************************************************)
(* The verdict. When the parser gives DNS up, for the header, for an item  *)
(* or for the bytes behind the last one, the grammar has no such message;  *)
(* when it accepts, the one end of the counted items is where the grammar  *)
(* wants it.                                                               *)
(***************************************************************************)
\* The parser gives DNS up for no message of the grammar.
LEMMA FailsRightly ==
  ASSUME IInv, Tiling, Decoding, DnsFails
  PROVE  ~IsDns
<1>1. verdict = "none"
  BY DEF DnsFails
<1>2. /\ at.section > 0 => Underway
      /\ at.alt > 0 => InItem /\ Underway /\ at.section \in 1..4 /\ at.alt \in 1..13
      /\ fields # <<>> => at.alt > 0
      /\ at.section \in 0..5
  BY <1>1, ParsingFacts
<1>3. CASE HeaderFails
  <2>1. at.section = 0 /\ (12 \notin 0..pdu.remaining \/ (tool = "scl" /\ packet.port # 53))
    BY <1>3 DEF HeaderFails, lengthRemaining
  <2>2. at.alt = 0 /\ pdu.curPos = 0
    BY <1>1, <2>1, TilingFacts DEF NotBegun
  <2>3. outer = 0 /\ pdu.remaining = Len(payload)
    BY <2>2, CursorFacts, PayloadBytes
  <2>4. Len(payload) < 12 \/ (tool = "scl" /\ packet.port # 53)
    BY <2>1, <2>3, PayloadBytes
  <2> QED
    BY <2>4, PayloadBytes DEF IsDns, InLanguage
<1>4. CASE ItemFails /\ ~MoreAlternatives
  <2>1. /\ at.alt > 0 /\ InItem /\ Underway /\ at.section \in 1..4 /\ at.alt \in 1..13
        /\ at.section > 0
    BY <1>2, <1>4 DEF ItemFails
  <2>2. IF at.section = 1 THEN QueryEnds(payload, dialect, saved.curPos) = {}
        ELSE RecordOfItem = {}
    BY <1>4, <2>1, ItemEndless
  <2>3. Reached = {Here}
    BY <2>1 DEF Underway
  <2>4. Ends(payload, dialect) = {}
    BY <1>1, <2>1, <2>2, <2>3, EndlessItem
  <2> QED
    BY <2>4 DEF IsDns, InLanguage
<1>5. CASE LeftOver
  <2>1. at.section = 5 /\ dialect.allBytes /\ pdu.remaining > 0 /\ at.section > 0 /\ at.section # 1
    BY <1>5 DEF LeftOver
  <2>2. Ends(payload, dialect) = Reached
    BY <1>1, <2>1, CountsInOrder, EndsAre DEF Reached, RecordsBefore
  <2>3. at.alt = 0
    BY <1>1, <2>1, TilingFacts DEF InSection
  <2>4. Ends(payload, dialect) = {pdu.curPos}
    BY <1>2, <2>1, <2>2, <2>3 DEF Underway, Here
  <2>5. pdu.curPos # Len(payload)
    BY <2>1, <2>3, CursorFacts, PayloadBytes
  <2> QED
    BY <2>1, <2>4, <2>5 DEF IsDns, InLanguage
<1> QED
  BY <1>3, <1>4, <1>5 DEF DnsFails

LEMMA RejectDecoding == IInv /\ Tiling /\ Decoding /\ Reject => Decoding'
<1> SUFFICES ASSUME IInv, Tiling, Decoding, Reject PROVE Decoding'
  OBVIOUS
<1>1. ~IsDns
  BY FailsRightly DEF Reject
<1>2. verdict' = "reject" /\ tool # "scl" /\ tool' = tool /\ packet' = packet
  BY DEF Reject
<1>3. ~IsDns'
  BY <1>1, <1>2 DEF IsDns, payload, dialect
<1>4. VerdictExact'
  BY <1>2, <1>3 DEF VerdictExact, IsDns
<1> QED
  BY <1>2, <1>4 DEF Decoding

LEMMA RestoreDecoding == IInv /\ Tiling /\ Decoding /\ RestoreAndTryNtp => Decoding'
<1> SUFFICES ASSUME IInv, Tiling, Decoding, RestoreAndTryNtp PROVE Decoding'
  OBVIOUS
<1>1. ~IsDns
  BY FailsRightly DEF RestoreAndTryNtp
<1>2. /\ verdict' = "trying ntp" /\ tool = "scl" /\ tool' = tool /\ packet' = packet
      /\ pdu' = Start
  BY DEF RestoreAndTryNtp
<1>3. ~IsDns' /\ Start' = Start
  BY <1>1, <1>2 DEF IsDns, payload, dialect, Start
<1>4. VerdictExact'
  BY <1>2 DEF VerdictExact, Decided
<1> QED
  BY <1>2, <1>3, <1>4 DEF Decoding

LEMMA TryNtpDecoding == IInv /\ Tiling /\ Decoding /\ TryNtp => Decoding'
<1> SUFFICES ASSUME IInv, Tiling, Decoding, TryNtp PROVE Decoding'
  OBVIOUS
<1>1. /\ verdict = "trying ntp" /\ tool' = tool /\ packet' = packet
      /\ verdict' = IF IsNtp(payload, pdu.curPos) THEN "ntp" ELSE "reject"
  BY DEF TryNtp
<1>2. pdu = Start /\ tool = "scl" /\ ~IsDns
  BY <1>1 DEF Decoding
<1>3. Start.curPos = 0
  BY DEF Start
<1>4. pdu.curPos = 0
  BY <1>2, <1>3
<1>5. ~IsDns' /\ payload' = payload
  BY <1>1, <1>2 DEF IsDns, payload, dialect
<1>6. verdict' = IF IsNtp(payload, 0) THEN "ntp" ELSE "reject"
  BY <1>1, <1>4
<1>7. VerdictExact'
  BY <1>1, <1>2, <1>5, <1>6 DEF VerdictExact, IsDns
<1> QED
  BY <1>6, <1>7 DEF Decoding

LEMMA AcceptDecoding == IInv /\ Tiling /\ Decoding /\ Accept => Decoding'
<1> SUFFICES ASSUME IInv, Tiling, Decoding, Accept PROVE Decoding'
  OBVIOUS
<1>1. /\ verdict = "none" /\ at.section = 5 /\ ~LeftOver /\ verdict' = "dns"
      /\ tool' = tool /\ packet' = packet
  BY DEF Accept
<1>2. at.section > 0 /\ at.section # 1 /\ Underway
  BY <1>1 DEF Decoding
<1>3. Ends(payload, dialect) = Reached
  BY <1>1, <1>2, CountsInOrder, EndsAre DEF Reached, RecordsBefore
<1>4. at.alt = 0
  BY <1>1, TilingFacts DEF InSection
<1>5. Ends(payload, dialect) = {pdu.curPos}
  BY <1>2, <1>3, <1>4 DEF Underway, Here
<1>6. dialect.allBytes => pdu.curPos = Len(payload)
  <2>1. dialect.allBytes => ~(pdu.remaining > 0)
    BY <1>1 DEF LeftOver
  <2> QED
    BY <1>4, <2>1, CursorFacts, PayloadBytes
<1>7. IsDns
  BY <1>2, <1>5, <1>6 DEF IsDns, InLanguage, Underway
<1>8. IsDns'
  BY <1>1, <1>7 DEF IsDns, payload, dialect
<1>9. VerdictExact'
  BY <1>1, <1>8 DEF VerdictExact, IsDns
<1> QED
  BY <1>1, <1>9 DEF Decoding

LEMMA SameDecoding == Decoding /\ UNCHANGED vars => Decoding'
<1> SUFFICES ASSUME Decoding, UNCHANGED vars PROVE Decoding'
  OBVIOUS
<1>1. UNCHANGED <<tool, packet, pdu, outer, counts, at, fields, saved, lengths, items, verdict>>
  BY DEF vars
<1>2. payload' = payload /\ dialect' = dialect /\ Reader' = Reader
  BY <1>1 DEF payload, dialect, Reader
<1>3. Reached' = Reached /\ Here' = Here /\ Left' = Left /\ Start' = Start
  BY <1>1, <1>2 DEF Reached, QueriesRead, RecordsRead, Earlier, Here, Left, Start
<1>4. NameOfItem' = NameOfItem /\ RecordOfItem' = RecordOfItem /\ (Tried' <=> Tried)
  BY <1>1, SameItem
<1>5. /\ InQuery' <=> InQuery
      /\ InName' <=> InName
      /\ AtType' <=> AtType
      /\ InBody' <=> InBody
  BY <1>1, <1>2, <1>3, <1>4 DEF InQuery, InName, AtType, InBody
<1>6. (InItem' <=> InItem) /\ (Underway' <=> Underway) /\ (IsDns' <=> IsDns)
  BY <1>1, <1>2, <1>3, <1>4, <1>5 DEF InItem, Underway, IsDns
<1>7. VerdictExact' <=> VerdictExact
  BY <1>1, <1>2 DEF VerdictExact, Decided
<1> QED
  BY <1>1, <1>3, <1>6, <1>7 DEF Decoding

\* Every step keeps Decoding.
LEMMA NextDecoding == IInv /\ Tiling /\ Decoding /\ [Next]_vars => Decoding'
<1> SUFFICES ASSUME IInv, Tiling, Decoding, [Next]_vars PROVE Decoding'
  OBVIOUS
<1>1. CASE ReadWord \/ ReadType \/ ReadOpaque \/ ReadLength \/ ReadDataLength \/ OpenSubstream
  BY <1>1, ReadsDecoding
<1>2. CASE Finished \/ UNCHANGED vars
  BY <1>2, SameDecoding DEF Finished
<1> QED
  BY <1>1, <1>2, ReadHeaderDecoding, StartItemDecoding, NextSectionDecoding,
     EndItemDecoding, TryNextDecoding, RejectDecoding, RestoreDecoding, TryNtpDecoding,
     AcceptDecoding DEF Next

\* For every payload, port and tool: the parser's verdict is "dns" exactly when
\* the payload is a message of the tool's grammar (and, with SCL, goes to port
\* 53); with SCL what is not DNS is NTP exactly when it has the shape of an NTP
\* packet from its first byte on, whatever the failed attempt at DNS read or
\* moved.
THEOREM VerdictIsExact == Spec => []VerdictExact
<1>1. Decoding => VerdictExact
  BY DEF Decoding
<1>2. Init => IInv /\ Tiling /\ Decoding
  BY InitIInv, InitTiling, InitDecoding
<1>3. IInv /\ Tiling /\ Decoding /\ [Next]_vars => (IInv /\ Tiling /\ Decoding)'
  BY NextIInv, NextTiling, NextDecoding
<1> QED
  BY <1>1, <1>2, <1>3, PTL DEF Spec

\* The grammar that the tools have in common.
CommonGrammar == [Common EXCEPT !.types = @ \ {NSEC3}, !.utf8 = TRUE]

LEMMA CommonWider ==
  ASSUME tool \in Tools
  PROVE  Wider(CommonGrammar, dialect)
<1> DEFINE c == CommonGrammar
<1>1. /\ c.labelLimit = 64 /\ c.types = KnownTypes \ {NSEC3} /\ c.unknown = "reject"
      /\ c.allBytes /\ c.utf8
  BY DEF CommonGrammar, Common
<1>2. dialect.labelLimit \in {64, 65} /\ dialect.types = KnownTypes
  BY TypesKnown DEF dialect, Dialect, Common
<1> QED
  BY <1>1, <1>2 DEF Wider

\* For every payload: a message of the grammar that all tools have in common,
\* sent to port 53, is accepted as DNS by each of them.
THEOREM CommonIsAccepted == Spec => []CommonAccepted
<1>1. IInv /\ VerdictExact => CommonAccepted
  <2> SUFFICES ASSUME IInv, VerdictExact, Decided, packet.port = 53,
                      InLanguage(payload, CommonGrammar)
               PROVE  verdict = "dns"
    BY DEF CommonAccepted, CommonGrammar
  <2>1. payload \in Seq(Byte) /\ Wider(CommonGrammar, dialect)
    BY PayloadIs, CommonWider
  <2>2. InLanguage(payload, dialect)
    <3> DEFINE c == CommonGrammar
               d == dialect
               m == payload
    <3>1. m \in Seq(Byte) /\ Wider(c, d) /\ InLanguage(m, c)
      BY <2>1
    <3> HIDE DEF c, d, m
    <3>2. InLanguage(m, d)
      BY <3>1, LanguageMono
    <3> QED
      BY <3>2 DEF d, m
  <2> QED
    BY <2>2 DEF VerdictExact
<1> QED
  BY <1>1, ParserInvariance, VerdictIsExact, PTL
=============================================================================
