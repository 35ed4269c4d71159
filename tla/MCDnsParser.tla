---------------------------- MODULE MCDnsParser ----------------------------
(***************************************************************************)
(* The messages of the runs, put together from names, records and lists    *)
(* that meet and miss each boundary of the grammars: labels of 63, 64 and  *)
(* 65 letters, references, names and records cut short, every type of      *)
(* record with a data length that is right, one off or zero, unknown types *)
(* with and without a body, counts that are one off, bytes left over, and  *)
(* payloads that NTP would take.                                           *)
(***************************************************************************)
EXTENDS DnsParser, SequencesExt

Bytes(n, b) == [k \in 1..n |-> b]

Label(n, letter) == <<n>> \o Bytes(n, letter) \o <<0>>

Root == <<0>>
Short == Label(1, 97)
Odd == Label(1, 255)
Accent == <<2, 195, 169, 0>>              \* one letter of two bytes
Halves == <<1, 195, 1, 169, 0>>           \* the same in two labels
Ref == <<192, 12>>

Names == {Root, Short, Odd, Accent, Halves, Ref,
          Label(63, 97), Label(64, 97), Label(65, 97), <<1, 97>>, <<1, 97, 192, 12>>, <<192>>}

PlainNames == {Short, Ref}

\* Data of each type that its grammar takes.
DataOf(t, n) ==
  CASE t = A -> {Bytes(4, 1)}
    [] t \in {NS, CNAME, PTR} -> {n}
    [] t = SOA -> {n \o Ref \o Bytes(20, 0)}
    [] t = MX -> {<<0, 1>> \o n}
    [] t \in {TXT, OPT} -> {<<>>, <<1, 97>>, <<255>>, <<195, 169>>}
    [] t = AAAA -> {Bytes(16, 1)}
    [] t = DS -> {Bytes(36, 0)}
    [] t = RRSIG -> {Bytes(18, 0) \o n \o <<7>>}
    [] t = KEY -> {Bytes(4, 0), Bytes(5, 0)}
    [] t = NSEC3 -> {<<1, 0, 0, 1, 0, 1, 9, 0, 1, 64>>,
                     <<1, 0, 0, 1, 1, 8, 1, 9, 0, 1, 64>>}
    [] OTHER -> {<<>>, Bytes(4, 1)}

Types == KnownTypes \cup {99}

\* The length of the data as announced.
Announced(data) == {Len(data), Len(data) + 1, 0, Len(data) - 1} \cap Nat

Resource(n, t, data, dataLength) ==
  n \o <<0, t, 0, 1, 0, 0, 0, 60, 0, dataLength>> \o data

Header(id, questions, answers, authorities, additionals) ==
  <<id, 1, 0, 0, 0, questions, 0, answers, 0, authorities, 0, additionals>>

Question == Short \o <<0, 1, 0, 1>>

Answer(r) == Header(0, 0, 1, 0, 0) \o r

\* One record of each kind, under each kind of name.
OfOneRecord ==
  UNION {UNION {{Answer(Resource(n, t, data, l)) : l \in Announced(data)} :
                  data \in DataOf(t, m)} :
           t \in Types, n \in PlainNames, m \in PlainNames}

OfOneName ==
  UNION {{Answer(Resource(n, A, Bytes(4, 1), 4)),
          Answer(Resource(Ref, NS, n, Len(n))),
          Answer(Resource(Ref, RRSIG, Bytes(18, 0) \o n \o <<7>>, 19 + Len(n))),
          Answer(Resource(Ref, RRSIG, Bytes(18, 0) \o n \o <<7>>, 17 + Len(n))),
          Header(0, 1, 0, 0, 0) \o n \o <<0, 1, 0, 1>>} : n \in Names}

\* A record of an unknown type that ends with its type.
Bodiless == {Answer(Ref \o <<0, 99>>), Answer(Ref \o <<1, 1>>)}

\* All four lists, with the counts that fit and one off.
ARecord == Resource(Ref, A, Bytes(4, 1), 4)

OfLists ==
  {Header(0, q, a, au, ad) \o Question \o ARecord
     \o Resource(Ref, KEY, Bytes(4, 0), 4) \o ARecord :
       q \in 0..2, a \in 0..2, au \in 0..1, ad \in 0..2}

\* Cut short by one byte, or with bytes left over.
Spoiled(m) == {m, Front(m), Append(m, 0), m \o <<0, 0>>}

\* The first byte that NTP looks at.
WithId(m, id) == [m EXCEPT ![1] = id]

Payloads ==
  UNION {Spoiled(m) : m \in OfOneName \cup OfOneRecord \cup Bodiless}
  \cup OfLists \cup {<<>>, Bytes(11, 0), Bytes(12, 0), Bytes(48, 0)}

MCPackets ==
  {[payload |-> m, port |-> 53] : m \in Payloads}
  \cup {[payload |-> WithId(m, 32), port |-> p] :
          m \in OfLists \cup OfOneName, p \in {53, 123}}
=============================================================================
