-------------------------- MODULE ByteCodec_proofs --------------------------
(***************************************************************************)
(* What the writebuffer functions write is what the get functions read,    *)
(* for packets of any bytes and any number of fields of any width and byte *)
(* order, but for the one field that both functions say or show they do    *)
(* not support.  The argument: each value is the bytes at the place where  *)
(* the widths before it put it, and its bytes are written at that place.   *)
(***************************************************************************)
EXTENDS ByteCodec, SequenceTheorems, TLAPS

\* get48_e: "ASSUMING ONLY BIGENDIAN (USED FOR ARP)".
Supported == <<6, LITTLEENDIAN>> \notin Fields

\* A sequence, of whatever.
IsSequence(s) == s \in Seq({s[i] : i \in DOMAIN s})

\* The fields read lie behind one another from place 0 on, off giving their
\* places, and each has the value of the bytes at its place; the buffer ends
\* where the next field to be written begins.
LaidOut(off) ==
  /\ off[1] = 0 /\ curPos = off[Len(parsed) + 1]
  /\ \A i \in 1..Len(parsed) + 1 : off[i] <= curPos
  /\ \A i \in 1..Len(parsed) :
       /\ off[i + 1] = off[i] + parsed[i].width
       /\ parsed[i].value = Get(off[i], parsed[i].width, parsed[i].e)
  /\ Len(buffer) = off[written + 1]

TypeOK ==
  /\ data \in Packets
  /\ curPos \in Nat /\ (curPos > 0 => curPos - 1 \in DOMAIN data)
  /\ IsSequence(parsed) /\ IsSequence(buffer)
  /\ written \in 0..Len(parsed)
  /\ \A i \in 1..Len(parsed) : <<parsed[i].width, parsed[i].e>> \in Fields

IInv ==
  /\ TypeOK /\ RoundTrip
  /\ \E off \in [1..Len(parsed) + 1 -> Nat] : LaidOut(off)

-----------------------------------------------------------------------------
(* Sequences *)

LEMMA SequenceProperties ==
  ASSUME NEW s, IsSequence(s)
  PROVE  /\ Len(s) \in Nat /\ DOMAIN s = 1..Len(s)
         /\ s = [i \in 1..Len(s) |-> s[i]]
BY LenProperties DEF IsSequence

LEMMA SequenceOf ==
  ASSUME NEW S, NEW s \in Seq(S)
  PROVE  IsSequence(s)
BY LenProperties DEF IsSequence

LEMMA SequenceAppend ==
  ASSUME NEW s, IsSequence(s), NEW x
  PROVE  /\ IsSequence(Append(s, x)) /\ Len(Append(s, x)) = Len(s) + 1
         /\ Append(s, x)[Len(s) + 1] = x
         /\ \A i \in 1..Len(s) : Append(s, x)[i] = s[i]
<1> DEFINE T == {s[i] : i \in DOMAIN s} \cup {x}
<1>1. s \in Seq(T) /\ x \in T
  BY SequenceProperties DEF IsSequence
<1>2. /\ Append(s, x) \in Seq(T) /\ Len(Append(s, x)) = Len(s) + 1
      /\ Append(s, x)[Len(s) + 1] = x
      /\ \A i \in 1..Len(s) : Append(s, x)[i] = s[i]
  BY <1>1, AppendProperties
<1>3. IsSequence(Append(s, x))
  BY <1>2, SequenceOf
<1> QED
  BY <1>2, <1>3

\* A sequence that says at every place what is there needs no more said.
LEMMA FunctionIsSequence ==
  ASSUME NEW n \in Nat, NEW f, f = [k \in 1..n |-> f[k]]
  PROVE  IsSequence(f) /\ Len(f) = n
BY IsASeq DEF IsSequence

-----------------------------------------------------------------------------
(* The codec: writing undoes reading *)

\* Wherever a field is read from, and for 64 bits however the halves are
\* joined, its value has the byte that the byte order says at every place.
LEMMA GetIsOrdered ==
  ASSUME Supported, NEW p \in Nat, NEW w, NEW e, <<w, e>> \in Fields
  PROVE  Get(p, w, e) = IF e = LITTLEENDIAN THEN Little(p, w) ELSE Big(p, w)
<1>1. w \in {1, 2, 3, 4, 6, 8} /\ e \in {BIGENDIAN, LITTLEENDIAN}
  BY CodecAssumption DEF Field
<1>2. CASE w = 6
  BY <1>1, <1>2 DEF Supported, Get, get48_e, BIGENDIAN, LITTLEENDIAN
<1>3. CASE w = 8
  <2>1. CASE e = LITTLEENDIAN
    <3>1. Get(p, w, e) = [i \in 0..7 |-> IF i < 4 THEN data[p + i]
                                         ELSE data[p + 4 + (i - 4)]]
      BY <1>3, <2>1 DEF Get, get64_e, Join, Ordered, Little
    <3>2. \A i \in 0..7 : p + 4 + (i - 4) = p + i
      OBVIOUS
    <3> QED
      BY <1>3, <2>1, <3>1, <3>2 DEF Little
  <2>2. CASE e = BIGENDIAN
    <3>1. Get(p, w, e) = [i \in 0..7 |-> IF i < 4 THEN data[p + 4 + 4 - 1 - i]
                                         ELSE data[p + 4 - 1 - (i - 4)]]
      BY <1>3, <2>2 DEF Get, get64_e, Join, Ordered, Big, BIGENDIAN, LITTLEENDIAN
    <3>2. \A i \in 0..7 : /\ p + 4 + 4 - 1 - i = p + 8 - 1 - i
                          /\ p + 4 - 1 - (i - 4) = p + 8 - 1 - i
      OBVIOUS
    <3> QED
      BY <1>3, <2>2, <3>1, <3>2 DEF Big, BIGENDIAN, LITTLEENDIAN
  <2> QED
    BY <1>1, <2>1, <2>2
<1>4. CASE w \notin {6, 8}
  BY <1>4 DEF Get, Ordered
<1> QED
  BY <1>2, <1>3, <1>4

\* The bytes written for the field at p are the bytes at p.
LEMMA WriteUndoesGet ==
  ASSUME Supported, NEW p \in Nat, NEW w, NEW e, <<w, e>> \in Fields
  PROVE  Bytes(writebufferInt(Get(p, w, e), w, e), w) = [k \in 1..w |-> data[p + k - 1]]
<1>1. w \in {1, 2, 3, 4, 6, 8} /\ e \in {BIGENDIAN, LITTLEENDIAN} /\ w \in Nat
  BY CodecAssumption DEF Field
<1>2. writebufferInt(Get(p, w, e), w, e) = Native(Get(p, w, e), w, e)
  <2>1. w = 6 => e = BIGENDIAN
    BY <1>1 DEF Supported
  <2> QED
    BY <2>1 DEF writebufferInt, writebufferInt48, Native
<1>3. Native(Get(p, w, e), w, e) = [i \in 0..(w - 1) |-> data[p + i]]
  <2> DEFINE v == Get(p, w, e)
  <2>0. v = IF e = LITTLEENDIAN THEN Little(p, w) ELSE Big(p, w)
    BY GetIsOrdered
  <2> HIDE DEF v
  <2>1. CASE e = LITTLEENDIAN
    BY <2>0, <2>1 DEF v, Native, Little, BIGENDIAN, LITTLEENDIAN
  <2>2. CASE e = BIGENDIAN
    <3>1. v = [i \in 0..(w - 1) |-> data[p + w - 1 - i]]
      BY <2>0, <2>2 DEF Big, BIGENDIAN, LITTLEENDIAN
    <3>2. Native(v, w, e) = [i \in 0..(w - 1) |-> data[p + w - 1 - (w - 1 - i)]]
      BY <1>1, <2>2, <3>1 DEF Native, Swapped
    <3>3. \A i \in 0..(w - 1) : p + w - 1 - (w - 1 - i) = p + i
      BY <1>1
    <3> QED
      BY <3>2, <3>3 DEF v
  <2> QED
    BY <1>1, <2>1, <2>2
<1>4. \A k \in 1..w : k - 1 \in 0..(w - 1) /\ p + (k - 1) = p + k - 1
  BY <1>1
<1> QED
  BY <1>1, <1>2, <1>3, <1>4 DEF Bytes

-----------------------------------------------------------------------------
(* The inductive invariant *)

Fresh == data \in Packets /\ curPos = 0 /\ parsed = <<>> /\ buffer = <<>> /\ written = 0

\* No field read and none written is laid out.
LEMMA FreshIInv == Fresh => IInv
<1> SUFFICES ASSUME Fresh PROVE IInv
  OBVIOUS
<1>1. Len(<<>>) = 0 /\ DOMAIN <<>> = {} /\ IsSequence(<<>>)
  BY DEF IsSequence
<1>2. TypeOK
  BY <1>1 DEF Fresh, TypeOK
<1>3. RoundTrip
  BY <1>1 DEF Fresh, RoundTrip
<1>4. LaidOut([i \in 1..1 |-> 0]) /\ [i \in 1..1 |-> 0] \in [1..1 -> Nat]
  BY <1>1 DEF Fresh, LaidOut
<1>5. Len(parsed) + 1 = 1
  BY <1>1 DEF Fresh
<1> QED
  BY <1>2, <1>3, <1>4, <1>5 DEF IInv

LEMMA NextPacketStep == NextPacket => IInv'
<1>1. NextPacket => Fresh'
  BY DEF NextPacket, Fresh
<1> QED
  BY <1>1, FreshIInv, PTL

\* What a place holds is a matter of the data alone.
LEMMA SameData ==
  ASSUME data' = data
  PROVE  \A p, w, e : Get(p, w, e)' = Get(p, w, e)
BY DEF Get, get48_e, get64_e, Ordered, Little, Big

LEMMA ParseStep ==
  ASSUME IInv, NEW w, NEW e, <<w, e>> \in Fields, Parse(w, e)
  PROVE  IInv'
<1>1. w \in Nat \ {0}
  BY CodecAssumption DEF Field
<1>2. /\ IsSequence(parsed) /\ Len(parsed) \in Nat /\ curPos \in Nat
      /\ written = 0
      /\ \A i \in 1..Len(parsed) : <<parsed[i].width, parsed[i].e>> \in Fields
  BY SequenceProperties DEF IInv, TypeOK, Parse
<1> DEFINE f == [width |-> w, e |-> e, value |-> Get(curPos, w, e)]
           n == Len(parsed)
<1>3. /\ parsed' = Append(parsed, f) /\ curPos' = curPos + w
      /\ data' = data /\ buffer' = buffer /\ written' = written
      /\ curPos + w - 1 \in DOMAIN data
  BY DEF Parse, Fits
<1>4. /\ IsSequence(parsed') /\ Len(parsed') = n + 1
      /\ parsed'[n + 1] = f /\ \A i \in 1..n : parsed'[i] = parsed[i]
  BY <1>2, <1>3, SequenceAppend
<1>5. \A i \in 1..n + 1 : i \in 1..n \/ i = n + 1
  BY <1>2
<1>6. f.width = w /\ f.e = e /\ f.value = Get(curPos, w, e)
  OBVIOUS
<1> HIDE DEF f
<1>7. TypeOK'
  <2>1. \A i \in 1..n + 1 : <<parsed'[i].width, parsed'[i].e>> \in Fields
    BY <1>2, <1>4, <1>5, <1>6
  <2>2. /\ data' \in Packets /\ curPos' - 1 \in DOMAIN data'
        /\ curPos' \in Nat /\ IsSequence(buffer') /\ written' \in 0..Len(parsed')
    BY <1>1, <1>2, <1>3, <1>4 DEF IInv, TypeOK
  <2> QED
    BY <1>4, <2>1, <2>2 DEF TypeOK
<1>8. RoundTrip'
  BY <1>3 DEF IInv, RoundTrip
<1>9. \E off \in [1..Len(parsed') + 1 -> Nat] : LaidOut(off)'
  <2>1. PICK off \in [1..n + 1 -> Nat] : LaidOut(off)
    BY DEF IInv
  <2>2. PICK off2 \in [1..n + 2 -> Nat] :
          off2[n + 2] = curPos + w /\ \A i \in 1..n + 1 : off2[i] = off[i]
    <3> DEFINE further == [i \in 1..n + 2 |-> IF i = n + 2 THEN curPos + w ELSE off[i]]
    <3>1. further \in [1..n + 2 -> Nat]
      <4>1. \A i \in 1..n + 2 : i # n + 2 => i \in 1..n + 1
        BY <1>2
      <4>2. curPos + w \in Nat
        BY <1>1, <1>2
      <4> QED
        BY <4>1, <4>2
    <3>2. further[n + 2] = curPos + w /\ \A i \in 1..n + 1 : further[i] = off[i]
      BY <1>2
    <3> QED
      BY <3>1, <3>2
  <2>3. off2 \in [1..Len(parsed') + 1 -> Nat]
    BY <1>2, <1>4
  <2>4. off[1] = 0 /\ curPos = off[n + 1] /\ Len(buffer) = off[written + 1]
    BY <2>1 DEF LaidOut
  <2>5. \A i \in 1..n + 1 :
          /\ off2[i + 1] = off2[i] + parsed'[i].width
          /\ parsed'[i].value = Get(off2[i], parsed'[i].width, parsed'[i].e)
    <3> SUFFICES ASSUME NEW i \in 1..n + 1
                 PROVE  /\ off2[i + 1] = off2[i] + parsed'[i].width
                        /\ parsed'[i].value = Get(off2[i], parsed'[i].width, parsed'[i].e)
      OBVIOUS
    <3>1. CASE i \in 1..n
      <4>1. off2[i] = off[i] /\ off2[i + 1] = off[i + 1] /\ parsed'[i] = parsed[i]
        BY <1>2, <1>4, <2>2, <3>1
      <4>2. /\ off[i + 1] = off[i] + parsed[i].width
            /\ parsed[i].value = Get(off[i], parsed[i].width, parsed[i].e)
        BY <2>1, <3>1 DEF LaidOut
      <4> QED
        BY <4>1, <4>2
    <3>2. CASE i = n + 1
      <4>1. off2[i] = curPos /\ off2[i + 1] = curPos + w /\ parsed'[i] = f
        BY <1>2, <1>4, <2>2, <2>4, <3>2
      <4> QED
        BY <1>6, <4>1
    <3> QED
      BY <1>5, <3>1, <3>2
  <2>6. \A p, q, r : Get(p, q, r)' = Get(p, q, r)
    BY <1>3, SameData
  <2>7. LaidOut(off2)'
    <3>1. off2[1] = 0 /\ curPos' = off2[n + 2] /\ Len(buffer') = off2[written' + 1]
      BY <1>2, <1>3, <2>2, <2>4
    <3>2. \A i \in 1..n + 2 : off2[i] <= curPos'
      <4> SUFFICES ASSUME NEW i \in 1..n + 2 PROVE off2[i] <= curPos'
        OBVIOUS
      <4>1. CASE i \in 1..n + 1
        <5>1. off2[i] = off[i] /\ off[i] <= curPos /\ off[i] \in Nat
          BY <1>2, <2>1, <2>2, <4>1 DEF LaidOut
        <5> QED
          BY <1>1, <1>2, <1>3, <5>1
      <4>2. CASE i = n + 2
        BY <1>1, <1>2, <1>3, <2>2, <4>2
      <4> QED
        BY <1>2, <4>1, <4>2
    <3> QED
      BY <1>2, <1>4, <2>5, <2>6, <3>1, <3>2 DEF LaidOut
  <2> QED
    BY <2>3, <2>7
<1> QED
  BY <1>7, <1>8, <1>9 DEF IInv

LEMMA SerializeStep ==
  ASSUME Supported, IInv, Serialize
  PROVE  IInv'
<1> DEFINE f == parsed[written + 1]
           n == Len(parsed)
           more == Bytes(writebufferInt(f.value, f.width, f.e), f.width)
<1>1. /\ n \in Nat /\ written \in 0..n /\ written < n /\ written + 1 \in 1..n
      /\ <<f.width, f.e>> \in Fields
      /\ IsSequence(buffer) /\ Len(buffer) \in Nat
  <2>1. /\ IsSequence(parsed) /\ IsSequence(buffer) /\ written \in 0..n
        /\ \A i \in 1..n : <<parsed[i].width, parsed[i].e>> \in Fields
    BY DEF IInv, TypeOK
  <2>2. n \in Nat /\ Len(buffer) \in Nat
    BY <2>1, SequenceProperties
  <2>3. written < n
    BY DEF Serialize
  <2> QED
    BY <2>1, <2>2, <2>3
<1>2. /\ buffer' = buffer \o more /\ written' = written + 1
      /\ data' = data /\ curPos' = curPos /\ parsed' = parsed
  BY DEF Serialize
<1>3. PICK off \in [1..n + 1 -> Nat] : LaidOut(off)
  BY DEF IInv
<1>4. /\ f.value = Get(off[written + 1], f.width, f.e)
      /\ off[written + 2] = off[written + 1] + f.width
      /\ Len(buffer) = off[written + 1]
      /\ written + 1 \in 1..n + 1
  BY <1>1, <1>3 DEF LaidOut
<1>5. f.width \in Nat
  BY <1>1, CodecAssumption DEF Field
<1> DEFINE l == Len(buffer)
<1>6. more = [k \in 1..f.width |-> data[l + k - 1]]
  <2> HIDE DEF f
  <2>1. more = Bytes(writebufferInt(Get(l, f.width, f.e), f.width, f.e), f.width)
    BY <1>4
  <2> HIDE DEF more
  <2> QED
    BY <1>1, <2>1, WriteUndoesGet
<1>7. IsSequence(more) /\ Len(more) = f.width
  BY <1>5, <1>6, FunctionIsSequence
<1> HIDE DEF f, more
<1>8. /\ IsSequence(buffer') /\ Len(buffer') = l + f.width
      /\ buffer' = [k \in 1..l + f.width |-> data[k - 1]]
  <2> DEFINE T == {buffer[i] : i \in DOMAIN buffer} \cup {more[i] : i \in DOMAIN more}
  <2>1. buffer \in Seq(T) /\ more \in Seq(T)
    BY <1>1, <1>7 DEF IsSequence
  <2>2. /\ buffer \o more \in Seq(T) /\ Len(buffer \o more) = l + f.width
        /\ \A i \in 1..l + f.width :
             (buffer \o more)[i] = IF i <= l THEN buffer[i] ELSE more[i - l]
    BY <1>7, <2>1, ConcatProperties
  <2>3. \A i \in 1..l + f.width : (buffer \o more)[i] = data[i - 1]
    <3> SUFFICES ASSUME NEW i \in 1..l + f.width
                 PROVE  (buffer \o more)[i] = data[i - 1]
      OBVIOUS
    <3>1. CASE i <= l
      <4>1. i \in 1..l
        BY <1>1, <1>5, <3>1
      <4>2. buffer[i] = data[i - 1]
        BY <4>1 DEF IInv, RoundTrip
      <4> QED
        BY <2>2, <3>1, <4>2
    <3>2. CASE ~(i <= l)
      <4>1. i - l \in 1..f.width /\ l + (i - l) - 1 = i - 1
        BY <1>1, <1>5, <3>2
      <4>2. more[i - l] = data[i - 1]
        BY <1>6, <4>1
      <4> QED
        BY <2>2, <3>2, <4>2
    <3> QED
      BY <3>1, <3>2
  <2>4. buffer \o more = [i \in 1..l + f.width |-> (buffer \o more)[i]]
    BY <2>2, LenProperties
  <2>5. IsSequence(buffer \o more)
    <3> HIDE DEF T
    <3> QED
      BY <2>2, SequenceOf
  <2> QED
    BY <1>2, <2>2, <2>3, <2>4, <2>5
<1>9. TypeOK'
  BY <1>1, <1>2, <1>8 DEF IInv, TypeOK
<1>10. RoundTrip'
  BY <1>2, <1>8 DEF RoundTrip
<1>11. LaidOut(off)'
  <2>1. \A p, w, e : Get(p, w, e)' = Get(p, w, e)
    BY <1>2, SameData
  <2>2. Len(buffer') = off[written' + 1]
    BY <1>1, <1>2, <1>4, <1>8
  <2> QED
    BY <1>2, <1>3, <2>1, <2>2 DEF LaidOut
<1> QED
  BY <1>2, <1>3, <1>9, <1>10, <1>11 DEF IInv

LEMMA StutterStep == IInv /\ UNCHANGED vars => IInv'
<1> SUFFICES ASSUME IInv, UNCHANGED vars PROVE IInv'
  OBVIOUS
<1>1. TypeOK' /\ RoundTrip'
  BY DEF IInv, TypeOK, RoundTrip, vars
<1>2. \A p, w, e : Get(p, w, e)' = Get(p, w, e)
  BY SameData DEF vars
<1> QED
  BY <1>1, <1>2 DEF IInv, LaidOut, vars

\* Where the fields lie, and what has been written, holds of every packet.
THEOREM CodecInvariance == ASSUME Supported PROVE Spec => []IInv
<1>1. Init => IInv
  BY FreshIInv DEF Init, Fresh
<1>2. IInv /\ [Next]_vars => IInv'
  <2>1. \A g \in Fields : g = <<g[1], g[2]>>
    BY CodecAssumption DEF Field
  <2> QED
    BY <2>1, ParseStep, SerializeStep, NextPacketStep, StutterStep DEF Next
<1> QED
  BY <1>1, <1>2, PTL DEF Spec

\* What is written back is what was read, whatever the packet and its fields.
THEOREM CodecRoundTrips == ASSUME Supported PROVE Spec => []RoundTrip
<1>1. IInv => RoundTrip
  BY DEF IInv
<1> QED
  BY <1>1, CodecInvariance, PTL

-----------------------------------------------------------------------------
(* No byte is left out *)

\* A packet has bytes from its first place to its last.
PacketsAreBytes ==
  \A q \in Packets : \A k \in DOMAIN q : q[k] \in Byte /\ 0..k \subseteq DOMAIN q

\* But for the one field, every byte of the buffer is written: the field
\* whose fifth byte is assigned twice is alone in leaving one as malloc left
\* it.
THEOREM EveryByteIsWritten ==
  ASSUME Supported, PacketsAreBytes
  PROVE  Spec => []WritesEveryByte
<1>1. IInv => WritesEveryByte
  <2> SUFFICES ASSUME IInv, NEW k \in DOMAIN buffer PROVE buffer[k] # Uninit
    BY DEF WritesEveryByte
  <2>1. /\ Len(buffer) \in Nat /\ k \in 1..Len(buffer) /\ Len(parsed) \in Nat
        /\ written + 1 \in 1..Len(parsed) + 1
    BY SequenceProperties DEF IInv, TypeOK
  <2>2. Len(buffer) <= curPos /\ curPos \in Nat
    <3>1. PICK off \in [1..Len(parsed) + 1 -> Nat] : LaidOut(off)
      BY DEF IInv
    <3> QED
      BY <2>1, <3>1 DEF LaidOut, IInv, TypeOK
  <2>3. k - 1 \in 0..(curPos - 1) /\ curPos - 1 \in DOMAIN data /\ data \in Packets
    BY <2>1, <2>2 DEF IInv, TypeOK
  <2>4. data[k - 1] \in Byte
    BY <2>3 DEF PacketsAreBytes
  <2>5. buffer[k] = data[k - 1]
    BY <2>1 DEF IInv, RoundTrip
  <2> QED
    BY <2>4, <2>5, CodecAssumption
<1> QED
  BY <1>1, CodecInvariance, PTL
=============================================================================
