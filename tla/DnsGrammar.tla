---------------------------- MODULE DnsGrammar ----------------------------
(***************************************************************************)
(* The DNS grammars of the compared tools as data, and the language each   *)
(* one describes as sets of positions: where a name, a record or a list    *)
(* that starts at a position may end.  A message is a sequence of bytes,   *)
(* with the widths the grammars give the fields; a position is the number  *)
(* of bytes before it.  DnsParser is the machine that reads a message      *)
(* field by field; this module says what it ought to decide.               *)
(***************************************************************************)
EXTENDS Integers, Sequences

Byte == 0..255

Tools == {"scl", "antlr", "construct", "construct_switch", "kaitai", "spicy",
          "spicy_lookahead", "formatFuzzer"}

A == 1
NS == 2
CNAME == 5
SOA == 6
PTR == 12
MX == 15
TXT == 16
AAAA == 28
OPT == 41
DS == 43
RRSIG == 46
KEY == 48
NSEC3 == 50

\* The alternatives of a record in the order of the grammar.
ResourceRecord == <<A, NS, CNAME, SOA, PTR, MX, TXT, AAAA, OPT, DS, RRSIG,
                    KEY, NSEC3>>

KnownTypes == {ResourceRecord[k] : k \in DOMAIN ResourceRecord}

-----------------------------------------------------------------------------
(***************************************************************************)
(* What tells the grammars apart: the first length that is no label, the   *)
(* types they know, what a record of another type is (rejected, or a       *)
(* record without a body), whether NSEC3 has the salt its length           *)
(* announces, whether bytes may be left over, whether text must be UTF-8.  *)
(***************************************************************************)
Common == [labelLimit |-> 64, types |-> KnownTypes, unknown |-> "reject",
           salted |-> TRUE, allBytes |-> TRUE, utf8 |-> FALSE]

\* Mutant: the last label length is 62.
Dialect62(tool) ==
  [labelLimit |-> 63, types |-> KnownTypes,
   unknown |-> IF tool \in {"construct_switch", "kaitai", "formatFuzzer"}
               THEN "skip" ELSE "reject",
   salted |-> tool # "scl", allBytes |-> tool # "formatFuzzer",
   utf8 |-> tool = "kaitai"]

Dialect(tool) ==
  CASE tool = "scl" -> [Common EXCEPT !.salted = FALSE]
    [] tool = "antlr" -> [Common EXCEPT !.labelLimit = 65]
    [] tool = "construct_switch" -> [Common EXCEPT !.unknown = "skip"]
    [] tool = "kaitai" -> [Common EXCEPT !.unknown = "skip", !.utf8 = TRUE]
    [] tool = "formatFuzzer" ->
         [Common EXCEPT !.unknown = "skip", !.allBytes = FALSE]
    [] OTHER -> Common

\* The two grammars that name a choice whose every alternative begins with
\* the name of the record, so that each alternative reads it again.
TriesEachAlternative(tool) == tool \in {"scl", "construct"}

\* dns.py lists KEY before RRSIG.
Alternatives(tool) ==
  IF tool = "construct"
  THEN [ResourceRecord EXCEPT ![11] = KEY, ![12] = RRSIG]
  ELSE ResourceRecord

\* A type is read as two bytes, a count or length of one byte as it is.
U16(m, p) == 256 * m[p + 1] + m[p + 2]

\* UTF-8: how many bytes follow the one that begins a character, -1 for a
\* byte that begins none.
Followers(b) ==
  CASE b < 128 -> 0
    [] b \in 194..223 -> 1
    [] b \in 224..239 -> 2
    [] b \in 240..244 -> 3
    [] OTHER -> -1

\* The second byte: no longer form than needed, no surrogate, no number above
\* those of Unicode.
Seconds(b) ==
  CASE b = 224 -> 160..191
    [] b = 237 -> 128..159
    [] b = 240 -> 144..191
    [] b = 244 -> 128..143
    [] OTHER -> 128..191

\* Every byte of the text begins a character that lies inside it or follows
\* such a byte.
Decodes(m, p, n) ==
  \A k \in p + 1..p + n :
    \/ /\ Followers(m[k]) \in 0..p + n - k
       /\ \A j \in 1..Followers(m[k]) :
            m[k + j] \in IF j = 1 THEN Seconds(m[k]) ELSE 128..191
    \/ /\ m[k] \in 128..191
       /\ \E j \in 1..3 : k - j > p /\ Followers(m[k - j]) >= j

\* The Back constraint of NTP, (flags & 56) == 32, on its 48 bytes.
IsNtp(m, p) == /\ Len(m) - p >= 48
               /\ (m[p + 1] \div 8) % 8 = 4

-----------------------------------------------------------------------------
\* The positions of m that S, moved on by n bytes, leaves inside it.
After(m, S, n) == {q \in {p + n : p \in S} : n >= 0 /\ q <= Len(m)}

Text(m, S, n, d) == {q \in After(m, S, n) : d.utf8 => Decodes(m, q - n, n)}

\* Where a name at p may end, from where the names behind its first word may.
WordThen(m, d, ends, p) ==
  IF p = Len(m) THEN {}
  ELSE LET b == m[p + 1] IN
       CASE b = 0 -> {p + 1}
         [] b >= 192 -> After(m, {p}, 2)
         [] b \in 1..d.labelLimit - 1 ->
              UNION {ends[q] : q \in Text(m, {p + 1}, b, d)}
         [] OTHER -> {}

\* Words up to one that ends the name: a null word or a reference.
NameEnds(m, d) ==
  LET ends[p \in 0..Len(m)] == WordThen(m, d, ends, p)
  IN ends

Counted(m, S) ==
  UNION {After(m, {p + 1}, m[p + 1]) : p \in {q \in S : q < Len(m)}}

\* Where the data of a record of type t may end when they begin at p.
DataEnds(m, d, t, p, dataLength) ==
  LET Names(S) == UNION {NameEnds(m, d)[q] : q \in S}
      Whole == After(m, {p}, dataLength)
      Salt(S) == IF d.salted THEN Counted(m, S) ELSE After(m, S, 1)
  IN CASE t = A -> After(m, {p}, 4)
       [] t \in {NS, CNAME, PTR} -> Names({p})
       [] t = SOA -> After(m, Names(Names({p})), 20)
       [] t = MX -> Names(After(m, {p}, 2))
       [] t = TXT -> Text(m, {p}, dataLength, d)
       [] t = AAAA -> After(m, {p}, 16)
       [] t = OPT -> Whole
       [] t = DS -> After(m, {p}, 36)
       [] t = KEY -> IF dataLength >= 4 THEN Whole ELSE {}
       [] t = RRSIG -> {q \in Whole : \E s \in Names(After(m, {p}, 18)) :
                                        s <= q}
       [] t = NSEC3 ->
            Counted(m, After(m, Counted(m, Salt(After(m, {p}, 4))), 1))
       [] OTHER -> {}

\* A record: a name, its type, eight bytes that end in the length of the
\* data, and the data.
RecordEnds(m, d, p) ==
  LET typed == After(m, NameEnds(m, d)[p], 2)
      Body(q) == LET t == U16(m, q - 2) IN
                 IF t \in d.types
                 THEN UNION {DataEnds(m, d, t, s, U16(m, s - 2)) :
                               s \in After(m, {q}, 8)}
                 ELSE IF d.unknown = "skip" THEN {q} ELSE {}
  IN UNION {Body(q) : q \in typed}

QueryEnds(m, d, p) == After(m, NameEnds(m, d)[p], 4)

\* Where n items one after the other may end, one item where ends says.
ListEnds(ends, n, S) ==
  LET after[k \in 0..n] ==
        IF k = 0 THEN S ELSE UNION {ends[p] : p \in after[k - 1]}
  IN after[n]

Queries(m, d) == [p \in 0..Len(m) |-> QueryEnds(m, d, p)]

Records(m, d) == [p \in 0..Len(m) |-> RecordEnds(m, d, p)]

Ends(m, d) ==
  LET queries == ListEnds(Queries(m, d), U16(m, 4), {12})
  IN ListEnds(Records(m, d), U16(m, 6) + U16(m, 8) + U16(m, 10), queries)

\* The messages of a dialect.
InLanguage(m, d) ==
  /\ Len(m) >= 12
  /\ IF d.allBytes THEN Len(m) \in Ends(m, d) ELSE Ends(m, d) # {}
=============================================================================
