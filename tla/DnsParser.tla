----------------------------- MODULE DnsParser -----------------------------
(***************************************************************************)
(* A parser made from a DNS grammar, reading one UDP payload: a cursor     *)
(* that moves one field at a time, a check of the bytes that remain before *)
(* each read, ordered choice with the cursor put back after an alternative *)
(* that failed, substreams for signatures where the grammar has them, and  *)
(* in SCL the choice of UDP.scl5 around it all, which goes on to NTP when  *)
(* DNS fails.  Each tool is one grammar of DnsGrammar; the code that the   *)
(* tools make from the grammars is not in the repository.  The choice      *)
(* tries RTPS first: no payload considered begins with its magic number.   *)
(***************************************************************************)
EXTENDS DnsGrammar

CONSTANTS
  Tool,      \* the tools that are run, a subset of Tools
  Packets    \* what they read: records of a payload and a port

ASSUME ToolAssumption == Tool \subseteq Tools

ASSUME PacketsAssumption ==
  \A packet \in Packets : packet.payload \in Seq(Byte) /\ packet.port \in Nat

VARIABLES
  tool,
  packet,
  pdu,        \* curPos, remaining: the cursor
  outer,      \* the bytes that remain after the substream, if one is open
  counts,     \* numQuestion, numAnswer, numAuthority, numAdditional
  at,         \* the section, the items read in it, the alternative tried
  fields,     \* what is left to read of the item
  saved,      \* the cursor at the start of the item
  lengths,    \* dataLength, where the data begin, the last length byte
  items,      \* the positions where the items read so far ended
  verdict     \* "none" while parsing, then "dns", "ntp" or "reject"

vars == <<tool, packet, pdu, outer, counts, at, fields, saved, lengths, items,
          verdict>>

payload == packet.payload

dialect == Dialect(tool)

\* The next bytes under the cursor, the first being Next8(1).
Next8(k) == payload[pdu.curPos + k]

\* The argument is unsigned: a length below zero is a huge one.
lengthRemaining(n) == n \in 0..pdu.remaining

\* Mutant: the cursor moves, the bytes that remain are not counted down.
AdvanceCursorOnly(n) == [curPos |-> pdu.curPos + n, remaining |-> pdu.remaining]

\* The two counts as the parsers keep them: get8_e moves curPos, and what is
\* generated around it counts the bytes that lengthRemaining compares with (its
\* own line that did so is a comment in putilities.c).
Advance(n) == [curPos |-> pdu.curPos + n, remaining |-> pdu.remaining - n]

-----------------------------------------------------------------------------
\* The fields of a record after its type and, by type, after the length of
\* its data: a fixed number of bytes, a name, a length byte with as many
\* bytes, the rest of the data, a substream of the data.
Fixed(n) == [kind |-> "fixed", size |-> n]
Kind(k) == [kind |-> k, size |-> 0]

Query == <<Kind("name"), Fixed(4)>>

Record == <<Kind("name"), Kind("type")>>

Common10 == <<Fixed(6), Kind("dataLength")>>

Signed == <<Fixed(18), Kind("name"), Kind("rest")>>

Body(t) ==
  CASE t = A -> <<Fixed(4)>>
    [] t \in {NS, CNAME, PTR} -> <<Kind("name")>>
    [] t = SOA -> <<Kind("name"), Kind("name"), Fixed(20)>>
    [] t = MX -> <<Fixed(2), Kind("name")>>
    [] t = TXT -> <<Kind("text")>>
    [] t = AAAA -> <<Fixed(16)>>
    [] t = OPT -> <<Kind("rest")>>
    [] t = DS -> <<Fixed(36)>>
    [] t = RRSIG -> IF tool \in {"kaitai", "spicy", "spicy_lookahead"}
                    THEN <<Kind("substream")>> \o Signed ELSE Signed
    [] t = KEY -> <<Fixed(4), Kind("rest")>>
    [] t = NSEC3 ->
         <<Fixed(4), Kind("length")>>
         \o (IF dialect.salted THEN <<Kind("octets")>> ELSE <<>>)
         \o <<Kind("length"), Kind("octets"), Fixed(1), Kind("length"),
              Kind("octets")>>

-----------------------------------------------------------------------------
WordLength == IF Next8(1) >= 192 THEN 2 ELSE 1 + Next8(1)

\* A label shorter than the limit, the null word or a reference.
WordFits ==
  /\ lengthRemaining(1)
  /\ Next8(1) < dialect.labelLimit \/ Next8(1) >= 192
  /\ lengthRemaining(WordLength)
  /\ dialect.utf8 /\ Next8(1) < 192 =>
       Decodes(payload, pdu.curPos + 1, Next8(1))

EndWord == Next8(1) = 0 \/ Next8(1) >= 192

\* The bytes of the data that are left: dataLength less the fields read.
Rest == lengths.dataLength - (pdu.curPos - lengths.start)

type == U16(payload, pdu.curPos)

TypeFits ==
  /\ lengthRemaining(2)
  /\ IF TriesEachAlternative(tool) THEN type = Alternatives(tool)[at.alt]
     ELSE type \in dialect.types \/ dialect.unknown = "skip"

\* The bytes a field takes.
Size(field) ==
  CASE field.kind = "name" -> WordLength
    [] field.kind \in {"type", "dataLength"} -> 2
    [] field.kind = "fixed" -> field.size
    [] field.kind = "length" -> 1
    [] field.kind = "octets" -> lengths.length
    [] field.kind \in {"rest", "text"} -> Rest
    [] field.kind = "substream" -> lengths.dataLength

\* The check that comes before the read of a field.
Fits(field) ==
  CASE field.kind = "name" -> WordFits
    [] field.kind = "type" -> TypeFits
    [] OTHER -> /\ lengthRemaining(Size(field))
                /\ field.kind = "text" /\ dialect.utf8 =>
                     Decodes(payload, pdu.curPos, Rest)

Start == [curPos |-> 0, remaining |-> Len(payload)]

Init ==
  /\ tool \in Tool
  /\ packet \in Packets
  /\ pdu = Start
  /\ outer = 0
  /\ counts = <<0, 0, 0, 0>>
  /\ at = [section |-> 0, index |-> 0, alt |-> 0]
  /\ fields = <<>>
  /\ saved = Start
  /\ lengths = [dataLength |-> 0, start |-> 0, length |-> 0]
  /\ items = <<>>
  /\ verdict = "none"

Parsing(kind) ==
  /\ verdict = "none"
  /\ fields # <<>>
  /\ Head(fields).kind = kind
  /\ Fits(Head(fields))

\* SCL looks at the ports; the other programs are told that it is DNS.
ReadHeader ==
  /\ verdict = "none"
  /\ at.section = 0
  /\ lengthRemaining(12)
  /\ tool = "scl" => packet.port = 53
  /\ counts' = [k \in 1..4 |-> U16(payload, 2 + 2 * k)]
  /\ pdu' = Advance(12)
  /\ at' = [at EXCEPT !.section = 1]
  /\ items' = <<12>>
  /\ UNCHANGED <<tool, packet, outer, fields, saved, lengths, verdict>>

StartItem ==
  /\ verdict = "none"
  /\ at.section \in 1..4
  /\ at.alt = 0
  /\ at.index < counts[at.section]
  /\ fields' = IF at.section = 1 THEN Query ELSE Record
  /\ at' = [at EXCEPT !.alt = 1]
  /\ saved' = pdu
  /\ UNCHANGED <<tool, packet, pdu, outer, counts, lengths, items, verdict>>

\* Mutant: the last item of a list may be left out.
NextSectionEarly ==
  /\ verdict = "none"
  /\ at.section \in 1..4
  /\ at.alt = 0
  /\ at.index + 1 >= counts[at.section]
  /\ at' = [section |-> at.section + 1, index |-> 0, alt |-> 0]
  /\ UNCHANGED <<tool, packet, pdu, outer, counts, fields, saved, lengths,
                 items, verdict>>

NextSection ==
  /\ verdict = "none"
  /\ at.section \in 1..4
  /\ at.alt = 0
  /\ at.index = counts[at.section]
  /\ at' = [section |-> at.section + 1, index |-> 0, alt |-> 0]
  /\ UNCHANGED <<tool, packet, pdu, outer, counts, fields, saved, lengths,
                 items, verdict>>

ReadWord ==
  /\ Parsing("name")
  /\ fields' = IF EndWord THEN Tail(fields) ELSE fields
  /\ pdu' = Advance(WordLength)
  /\ UNCHANGED <<tool, packet, outer, counts, at, saved, lengths, items,
                 verdict>>

ReadType ==
  /\ Parsing("type")
  /\ fields' = IF type \in dialect.types THEN Common10 \o Body(type) ELSE <<>>
  /\ pdu' = Advance(2)
  /\ UNCHANGED <<tool, packet, outer, counts, at, saved, lengths, items,
                 verdict>>

\* A field whose bytes are not looked at.
ReadOpaque ==
  /\ \E kind \in {"fixed", "octets", "rest", "text"} : Parsing(kind)
  /\ pdu' = Advance(Size(Head(fields)))
  /\ fields' = Tail(fields)
  /\ UNCHANGED <<tool, packet, outer, counts, at, saved, lengths, items,
                 verdict>>

ReadLength ==
  /\ Parsing("length")
  /\ lengths' = [lengths EXCEPT !.length = Next8(1)]
  /\ pdu' = Advance(1)
  /\ fields' = Tail(fields)
  /\ UNCHANGED <<tool, packet, outer, counts, at, saved, items, verdict>>

ReadDataLength ==
  /\ Parsing("dataLength")
  /\ lengths' = [lengths EXCEPT !.dataLength = U16(payload, pdu.curPos),
                                !.start = pdu.curPos + 2]
  /\ pdu' = Advance(2)
  /\ fields' = Tail(fields)
  /\ UNCHANGED <<tool, packet, outer, counts, at, saved, items, verdict>>

OpenSubstream ==
  /\ Parsing("substream")
  /\ outer' = pdu.remaining - lengths.dataLength
  /\ pdu' = [pdu EXCEPT !.remaining = lengths.dataLength]
  /\ fields' = Tail(fields)
  /\ UNCHANGED <<tool, packet, counts, at, saved, lengths, items, verdict>>

EndItem ==
  /\ verdict = "none"
  /\ at.alt > 0
  /\ fields = <<>>
  /\ pdu' = [pdu EXCEPT !.remaining = @ + outer]
  /\ outer' = 0
  /\ items' = Append(items, pdu.curPos)
  /\ at' = [at EXCEPT !.index = @ + 1, !.alt = 0]
  /\ UNCHANGED <<tool, packet, counts, fields, saved, lengths, verdict>>

-----------------------------------------------------------------------------
ItemFails == fields # <<>> /\ ~Fits(Head(fields))

MoreAlternatives ==
  /\ TriesEachAlternative(tool)
  /\ at.section > 1
  /\ at.alt < Len(ResourceRecord)

\* Mutant: the next alternative goes on where the last one failed.
TryNextInPlace ==
  /\ verdict = "none"
  /\ ItemFails
  /\ MoreAlternatives
  /\ fields' = Record
  /\ at' = [at EXCEPT !.alt = @ + 1]
  /\ UNCHANGED <<tool, packet, pdu, outer, counts, saved, lengths, items,
                 verdict>>

\* Mutant: an alternative that fails is tried again.
TrySame ==
  /\ verdict = "none"
  /\ ItemFails
  /\ MoreAlternatives
  /\ pdu' = saved
  /\ outer' = 0
  /\ fields' = Record
  /\ UNCHANGED <<tool, packet, counts, at, saved, lengths, items,
                 verdict>>

\* An alternative that fails puts the cursor back for the next one.
TryNext ==
  /\ verdict = "none"
  /\ ItemFails
  /\ MoreAlternatives
  /\ pdu' = saved
  /\ outer' = 0
  /\ fields' = Record
  /\ at' = [at EXCEPT !.alt = @ + 1]
  /\ UNCHANGED <<tool, packet, counts, saved, lengths, items, verdict>>

HeaderFails ==
  /\ at.section = 0
  /\ ~lengthRemaining(12) \/ (tool = "scl" /\ packet.port # 53)

LeftOver == at.section = 5 /\ dialect.allBytes /\ pdu.remaining > 0

DnsFails ==
  /\ verdict = "none"
  /\ HeaderFails \/ (ItemFails /\ ~MoreAlternatives) \/ LeftOver

\* The other parsers give up; SCL goes back to the first byte and tries NTP.
Reject ==
  /\ DnsFails
  /\ tool # "scl"
  /\ verdict' = "reject"
  /\ UNCHANGED <<tool, packet, pdu, outer, counts, at, fields, saved, lengths,
                 items>>

\* Mutant: NTP is tried where DNS stopped.
TryNtpInPlace ==
  /\ DnsFails
  /\ tool = "scl"
  /\ verdict' = "trying ntp"
  /\ UNCHANGED <<tool, packet, pdu, outer, counts, at, fields, saved, lengths,
                 items>>

RestoreAndTryNtp ==
  /\ DnsFails
  /\ tool = "scl"
  /\ pdu' = Start
  /\ outer' = 0
  /\ verdict' = "trying ntp"
  /\ UNCHANGED <<tool, packet, counts, at, fields, saved, lengths,
                 items>>

TryNtp ==
  /\ verdict = "trying ntp"
  /\ verdict' = IF IsNtp(payload, pdu.curPos) THEN "ntp" ELSE "reject"
  /\ pdu' = IF IsNtp(payload, pdu.curPos) THEN Advance(48) ELSE pdu
  /\ UNCHANGED <<tool, packet, outer, counts, at, fields, saved, lengths,
                 items>>

Accept ==
  /\ verdict = "none"
  /\ at.section = 5
  /\ ~LeftOver
  /\ verdict' = "dns"
  /\ UNCHANGED <<tool, packet, pdu, outer, counts, at, fields, saved, lengths,
                 items>>

Decided == verdict \in {"dns", "ntp", "reject"}

Finished == Decided /\ UNCHANGED vars

Next ==
  \/ ReadHeader
  \/ StartItem
  \/ NextSection
  \/ ReadWord
  \/ ReadType
  \/ ReadOpaque
  \/ ReadLength
  \/ ReadDataLength
  \/ OpenSubstream
  \/ EndItem
  \/ TryNext
  \/ Reject
  \/ RestoreAndTryNtp
  \/ TryNtp
  \/ Accept
  \/ Finished

Spec == Init /\ [][Next]_vars

\* The parser is one sequential loop: it goes on as long as it can.
FairSpec == Spec /\ WF_vars(Next)

-----------------------------------------------------------------------------
Cursors == [curPos : Nat, remaining : Nat]

TypeOK ==
  /\ tool \in Tool
  /\ pdu \in Cursors
  /\ outer \in Nat
  /\ counts \in [1..4 -> Nat]
  /\ at \in [section : 0..5, index : Nat, alt : 0..Len(ResourceRecord)]
  /\ saved \in Cursors
  /\ lengths \in [dataLength : Nat, start : Nat, length : Byte]
  /\ verdict \in {"none", "dns", "trying ntp", "ntp", "reject"}

\* The position and the count of remaining bytes are kept apart, in every
\* read, every restored alternative and every substream; together they make
\* up the payload, or a length check would let a read go past its end.
CursorExact ==
  /\ pdu.curPos + pdu.remaining + outer = Len(payload)
  /\ saved.curPos + saved.remaining = Len(payload)
  /\ at.alt = 0 => outer = 0

\* Alternatives that read the name again, restored cursors, substreams and
\* lengths below zero decide what the grammar says: DNS when the payload is
\* in its language, and in SCL, when it is not, NTP by its first 48 bytes.
VerdictExact ==
  Decided =>
    LET isDns == /\ InLanguage(payload, dialect)
                 /\ tool = "scl" => packet.port = 53
    IN verdict = IF isDns THEN "dns"
                 ELSE IF tool = "scl" /\ IsNtp(payload, 0) THEN "ntp"
                 ELSE "reject"

\* A message of the grammar that the tools have in common is DNS to all of
\* them, so their totals may differ over no more than NSEC3, text that is not
\* UTF-8, ports, and what only some of them accept.
CommonAccepted ==
  Decided /\ packet.port = 53
    => LET common == [Common EXCEPT !.types = @ \ {NSEC3}, !.utf8 = TRUE]
       IN InLanguage(payload, common) => verdict = "dns"

\* The items of an accepted message follow each other from the end of the
\* header, none empty and none shared, as many as the four counts announce,
\* and they end where the message ends unless the grammar does not look.
ItemsTile ==
  verdict = "dns" =>
    /\ items[1] = 12
    /\ \A k \in 1..Len(items) - 1 : items[k] < items[k + 1]
    /\ Len(items) = 1 + U16(payload, 4) + U16(payload, 6) + U16(payload, 8)
                     + U16(payload, 10)
    /\ dialect.allBytes => items[Len(items)] = Len(payload)

\* Every payload is decided: each word of a name, each alternative and each
\* item goes on, however often the cursor is put back.
Decides == <>Decided
=============================================================================
