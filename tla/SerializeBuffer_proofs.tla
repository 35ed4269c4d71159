----------------------- MODULE SerializeBuffer_proofs -----------------------
(***************************************************************************)
(* The serialization buffer keeps its promises for every node size, every  *)
(* set of byte values and every sequence of writes.  The argument gives    *)
(* each node its offset in the bytes written so far (start): the nodes tile *)
(* the written bytes, so the total is the end of the last node and the     *)
(* position combineBuffers has reached is the offset of the node it is at. *)
(***************************************************************************)
EXTENDS SerializeBuffer, SequenceTheorems, TLAPS

Room(list, here) == list[here].bufferLen - list[here].curPos

\* Node i of the list: linked in order of allocation to the first node and to
\* the next, within its buffer, and holding bytes of w from its offset on.
NodeTiles(list, here, offset, w, i) ==
  /\ list[i].first = 1
  /\ list[i].next = IF i = here THEN NULL ELSE i + 1
  /\ list[i].curPos = Len(list[i].buffer)
  /\ list[i].curPos <= list[i].bufferLen
  /\ offset[i] + list[i].curPos <= Len(w)
  /\ offset[i] + list[i].curPos = IF i = here THEN Len(w) ELSE offset[i + 1]
  /\ \A k \in 1..list[i].curPos : list[i].buffer[k] = w[offset[i] + k]

\* The nodes of the list, of which here is the last, tile the bytes w.
Tiles(list, here, offset, w) ==
  /\ list \in Seq(NodeType) /\ offset \in Seq(Nat) /\ w \in Seq(Byte)
  /\ here = Len(list) /\ Len(offset) = Len(list)
  /\ here = NULL => w = <<>>
  /\ here # NULL => offset[1] = 0 /\ list[1].totalLen = Len(w)
  /\ \A i \in 1..Len(list) : NodeTiles(list, here, offset, w, i)

AllLive(list) == \A i \in 1..Len(list) : list[i].live = TRUE

\* What is reserved and not yet written has room.
Reserved ==
  /\ credit \in Nat
  /\ node = NULL => credit = 0
  /\ node # NULL => credit <= Room(nodes, node)

Writing == pc = "write" => rover = NULL /\ copyPos = 0 /\ result = <<>> /\ length = 0
                           /\ AllLive(nodes)

\* What lies before the rover is copied.
Combining ==
  pc = "combine" =>
    /\ node # NULL /\ credit = 0 /\ length = 0
    /\ rover \in 0..Len(nodes)
    /\ result \in Seq(Byte \cup {Uninit}) /\ Len(result) = Len(written)
    /\ copyPos = IF rover = NULL THEN Len(written) ELSE start[rover]
    /\ \A k \in 1..copyPos : result[k] = written[k]
    /\ AllLive(nodes)

\* The nodes before node r, or all of them when r is NULL, are freed.
FreedBefore(list, r) ==
  \A i \in 1..Len(list) :
    /\ r # NULL /\ r <= i => list[i].live = TRUE
    /\ r = NULL \/ i < r => list[i].live = FALSE

Freeing ==
  pc = "free" =>
    /\ node # NULL /\ credit = 0
    /\ rover \in 0..Len(nodes) /\ copyPos \in Nat
    /\ result = written /\ length = Len(written)
    /\ FreedBefore(nodes, rover)

IInv ==
  /\ Tiles(nodes, node, start, written)
  /\ Reserved
  /\ pc \in {"write", "combine", "free"}
  /\ Writing /\ Combining /\ Freeing

-----------------------------------------------------------------------------
\* A node is never smaller than the run it is made for.
LEMMA NodeSizeFits ==
  ASSUME NEW size \in Nat
  PROVE  NodeSize(size) \in Nat /\ size <= NodeSize(size)
  BY SizesAssumption DEF NodeSize

\* A fresh node is well typed, empty and has room for its run.
LEMMA FreshNode ==
  ASSUME NEW size \in Nat, NEW total \in Nat, NEW first \in Nat
  PROVE  LET n == NewNode(size, total, first)
         IN  /\ n \in NodeType
             /\ n.buffer = <<>> /\ n.curPos = 0 /\ n.totalLen = total
             /\ n.next = NULL /\ n.first = first /\ n.live = TRUE
             /\ size <= n.bufferLen
<1>1. NodeSize(size) \in Nat /\ size <= NodeSize(size)
  BY NodeSizeFits
<1>2. <<>> \in Seq(Byte)
  OBVIOUS
<1> QED BY <1>1, <1>2 DEF NewNode, NodeType, NULL

LEMMA NodeFields ==
  ASSUME NEW r \in NodeType
  PROVE  /\ r.buffer \in Seq(Byte) /\ r.bufferLen \in Nat /\ r.totalLen \in Nat
         /\ r.curPos \in Nat /\ r.next \in Nat /\ r.first \in Nat
         /\ r.live \in BOOLEAN
  BY DEF NodeType

\* What a write does to the node it goes to.
LEMMA WroteNode ==
  ASSUME NEW r \in NodeType, NEW bytes \in Seq(Byte),
         r.curPos = Len(r.buffer)
  PROVE  LET n == Wrote(r, bytes)
         IN  /\ n \in NodeType
             /\ n.buffer = r.buffer \o bytes
             /\ n.curPos = r.curPos + Len(bytes)
             /\ n.bufferLen = r.bufferLen /\ n.totalLen = r.totalLen
             /\ n.next = r.next /\ n.first = r.first /\ n.live = r.live
<1> DEFINE b == SubSeq(r.buffer, 1, r.curPos) \o bytes
           c == r.curPos + Len(bytes)
<1>1. r.buffer \in Seq(Byte) /\ r.curPos \in Nat
  BY NodeFields
<1>2. b = r.buffer \o bytes
  BY <1>1, SubSeqFull
<1>3. b \in Seq(Byte) /\ c \in Nat
  BY <1>1, <1>2, ConcatProperties, LenProperties
<1>4. Wrote(r, bytes) = [r EXCEPT !.buffer = b, !.curPos = c]
  BY DEF Wrote
<1> HIDE DEF b, c
<1>5. LET n == [r EXCEPT !.buffer = b, !.curPos = c]
      IN  /\ n \in NodeType
          /\ n.buffer = b /\ n.curPos = c
          /\ n.bufferLen = r.bufferLen /\ n.totalLen = r.totalLen
          /\ n.next = r.next /\ n.first = r.first /\ n.live = r.live
  BY <1>3 DEF NodeType
<1> QED BY <1>2, <1>4, <1>5 DEF c

\* What it does to the node that counts it.
LEMMA CountedNode ==
  ASSUME NEW r \in NodeType, NEW bytes \in Seq(Byte)
  PROVE  LET n == Counted(r, bytes)
         IN  /\ n \in NodeType
             /\ n.totalLen = r.totalLen + Len(bytes)
             /\ n.bufferLen = r.bufferLen /\ n.buffer = r.buffer
             /\ n.curPos = r.curPos
             /\ n.next = r.next /\ n.first = r.first /\ n.live = r.live
<1> DEFINE t == r.totalLen + Len(bytes)
<1>1. t \in Nat
  BY NodeFields, LenProperties
<1>2. Counted(r, bytes) = [r EXCEPT !.totalLen = t]
  BY DEF Counted
<1> HIDE DEF t
<1>3. LET n == [r EXCEPT !.totalLen = t]
      IN  /\ n \in NodeType
          /\ n.totalLen = t
          /\ n.bufferLen = r.bufferLen /\ n.buffer = r.buffer
          /\ n.curPos = r.curPos
          /\ n.next = r.next /\ n.first = r.first /\ n.live = r.live
  BY <1>1 DEF NodeType
<1> QED BY <1>2, <1>3 DEF t

\* What a store does to each field of each node of the list.
LEMMA StoredFields ==
  ASSUME NEW list \in Seq(NodeType), NEW here \in 1..Len(list),
         NEW bytes \in Seq(Byte),
         list[here].first \in 1..Len(list),
         list[here].curPos = Len(list[here].buffer)
  PROVE  LET s == Stored(list, here, bytes)
         IN  /\ s \in Seq(NodeType) /\ Len(s) = Len(list)
             /\ \A i \in 1..Len(list) :
                  /\ s[i].bufferLen = list[i].bufferLen
                  /\ s[i].next = list[i].next
                  /\ s[i].first = list[i].first
                  /\ s[i].live = list[i].live
                  /\ s[i].totalLen = list[i].totalLen +
                       (IF i = list[here].first THEN Len(bytes) ELSE 0)
                  /\ s[i].curPos = list[i].curPos +
                       (IF i = here THEN Len(bytes) ELSE 0)
                  /\ s[i].buffer = IF i = here THEN list[i].buffer \o bytes
                                   ELSE list[i].buffer
<1> DEFINE f == list[here].first
           n == Wrote(list[here], bytes)
           moved == [list EXCEPT ![here] = n]
           m == Counted(moved[f], bytes)
           s == Stored(list, here, bytes)
<1>1. list[here] \in NodeType
  BY ElementOfSeq
<1>2. /\ n \in NodeType
      /\ n.buffer = list[here].buffer \o bytes
      /\ n.curPos = list[here].curPos + Len(bytes)
      /\ n.bufferLen = list[here].bufferLen /\ n.totalLen = list[here].totalLen
      /\ n.next = list[here].next /\ n.first = list[here].first
      /\ n.live = list[here].live
  BY <1>1, WroteNode
<1>3. s = [moved EXCEPT ![f] = m]
  BY DEF Stored
<1> HIDE DEF n
<1>4. /\ moved \in Seq(NodeType) /\ Len(moved) = Len(list)
      /\ \A i \in 1..Len(list) : moved[i] = IF i = here THEN n ELSE list[i]
  BY <1>2, ExceptSeq
<1> HIDE DEF moved
<1>5. moved[f] \in NodeType
  BY <1>4, ElementOfSeq
<1>6. /\ m \in NodeType
      /\ m.totalLen = moved[f].totalLen + Len(bytes)
      /\ m.bufferLen = moved[f].bufferLen /\ m.buffer = moved[f].buffer
      /\ m.curPos = moved[f].curPos
      /\ m.next = moved[f].next /\ m.first = moved[f].first
      /\ m.live = moved[f].live
  BY <1>5, CountedNode
<1> HIDE DEF m
<1>7. /\ s \in Seq(NodeType) /\ Len(s) = Len(list)
      /\ \A i \in 1..Len(list) : s[i] = IF i = f THEN m ELSE moved[i]
  BY <1>3, <1>4, <1>6, ExceptSeq
<1> HIDE DEF s
<1>8. ASSUME NEW i \in 1..Len(list)
      PROVE  /\ s[i].bufferLen = list[i].bufferLen
             /\ s[i].next = list[i].next
             /\ s[i].first = list[i].first
             /\ s[i].live = list[i].live
             /\ s[i].totalLen = list[i].totalLen + (IF i = f THEN Len(bytes) ELSE 0)
             /\ s[i].curPos = list[i].curPos + (IF i = here THEN Len(bytes) ELSE 0)
             /\ s[i].buffer = IF i = here THEN list[i].buffer \o bytes
                              ELSE list[i].buffer
  <2>1. /\ list[i].totalLen \in Nat /\ list[i].curPos \in Nat
        /\ Len(bytes) \in Nat
    <3>1. list[i] \in NodeType
      BY ElementOfSeq
    <3> QED BY <3>1, NodeFields, LenProperties
  <2>2. moved[i] = IF i = here THEN n ELSE list[i]
    BY <1>4
  <2>3. s[i] = IF i = f THEN m ELSE moved[i]
    BY <1>7
  <2>4. moved[i].totalLen = list[i].totalLen
        /\ moved[i].curPos = list[i].curPos + (IF i = here THEN Len(bytes) ELSE 0)
        /\ moved[i].bufferLen = list[i].bufferLen
        /\ moved[i].next = list[i].next
        /\ moved[i].first = list[i].first
        /\ moved[i].live = list[i].live
        /\ moved[i].buffer = IF i = here THEN list[i].buffer \o bytes
                             ELSE list[i].buffer
    <3>1. CASE i = here
      BY <1>2, <2>1, <2>2, <3>1
    <3>2. CASE i # here
      BY <2>1, <2>2, <3>2
    <3> QED BY <3>1, <3>2
  <2>5. CASE i = f
    BY <1>6, <2>1, <2>3, <2>4, <2>5
  <2>6. CASE i # f
    BY <2>1, <2>3, <2>4, <2>6
  <2> QED BY <2>5, <2>6
<1> QED BY <1>7, <1>8 DEF s

\* A store appends its bytes to what the nodes tile and uses up room.
LEMMA StoredTiles ==
  ASSUME NEW list, NEW here \in 1..Len(list), NEW offset, NEW w,
         Tiles(list, here, offset, w), AllLive(list),
         NEW bytes \in Seq(Byte),
         Len(bytes) <= Room(list, here)
  PROVE  LET s == Stored(list, here, bytes)
         IN  /\ Tiles(s, here, offset, w \o bytes)
             /\ AllLive(s)
             /\ Room(s, here) = Room(list, here) - Len(bytes)
<1> DEFINE s == Stored(list, here, bytes)
           u == w \o bytes
<1>1. /\ list \in Seq(NodeType) /\ offset \in Seq(Nat) /\ w \in Seq(Byte)
      /\ here = Len(list) /\ Len(offset) = Len(list)
      /\ offset[1] = 0 /\ list[1].totalLen = Len(w)
      /\ \A i \in 1..Len(list) : NodeTiles(list, here, offset, w, i)
  BY DEF Tiles, NULL
<1>2. Len(list) \in Nat /\ Len(w) \in Nat /\ Len(bytes) \in Nat
  BY <1>1, LenProperties
<1>3. list[here].first = 1 /\ list[here].curPos = Len(list[here].buffer)
  BY <1>1 DEF NodeTiles
<1>4. /\ s \in Seq(NodeType) /\ Len(s) = Len(list)
      /\ \A i \in 1..Len(list) :
           /\ s[i].bufferLen = list[i].bufferLen
           /\ s[i].next = list[i].next
           /\ s[i].first = list[i].first
           /\ s[i].live = list[i].live
           /\ s[i].totalLen = list[i].totalLen + (IF i = 1 THEN Len(bytes) ELSE 0)
           /\ s[i].curPos = list[i].curPos + (IF i = here THEN Len(bytes) ELSE 0)
           /\ s[i].buffer = IF i = here THEN list[i].buffer \o bytes
                            ELSE list[i].buffer
  <2>1. list[here].first \in 1..Len(list)
    BY <1>2, <1>3
  <2>2. /\ s \in Seq(NodeType) /\ Len(s) = Len(list)
        /\ \A i \in 1..Len(list) :
             /\ s[i].bufferLen = list[i].bufferLen
             /\ s[i].next = list[i].next
             /\ s[i].first = list[i].first
             /\ s[i].live = list[i].live
             /\ s[i].totalLen = list[i].totalLen +
                  (IF i = list[here].first THEN Len(bytes) ELSE 0)
             /\ s[i].curPos = list[i].curPos + (IF i = here THEN Len(bytes) ELSE 0)
             /\ s[i].buffer = IF i = here THEN list[i].buffer \o bytes
                              ELSE list[i].buffer
    <3>1. list \in Seq(NodeType)
      BY <1>1
    <3> HIDE DEF s
    <3> QED BY <1>3, <2>1, <3>1, StoredFields DEF s
  <2> HIDE DEF s
  <2> QED BY <1>3, <2>2
<1> HIDE DEF s
<1>5. /\ u \in Seq(Byte) /\ Len(u) = Len(w) + Len(bytes)
      /\ \A k \in 1..Len(w) + Len(bytes) :
           u[k] = IF k <= Len(w) THEN w[k] ELSE bytes[k - Len(w)]
  BY <1>1, ConcatProperties
<1> HIDE DEF u
<1>6. ASSUME NEW i \in 1..Len(list)
      PROVE  NodeTiles(s, here, offset, u, i)
  <2>1. /\ list[i].curPos \in Nat /\ list[i].bufferLen \in Nat
        /\ list[i].buffer \in Seq(Byte) /\ offset[i] \in Nat
    <3>1. list[i] \in NodeType
      BY <1>1, ElementOfSeq
    <3>2. offset[i] \in Nat
      BY <1>1, ElementOfSeq
    <3> QED BY <3>1, <3>2, NodeFields
  <2>2. NodeTiles(list, here, offset, w, i)
    BY <1>1
  <2>3. s[i].first = 1 /\ s[i].next = IF i = here THEN NULL ELSE i + 1
    BY <1>4, <2>2 DEF NodeTiles
  <2>4. CASE i = here
    <3>1. s[i].curPos = list[i].curPos + Len(bytes)
          /\ s[i].buffer = list[i].buffer \o bytes
          /\ s[i].bufferLen = list[i].bufferLen
      BY <1>4, <2>4
    <3>2. /\ Len(s[i].buffer) = Len(list[i].buffer) + Len(bytes)
          /\ \A k \in 1..Len(list[i].buffer) + Len(bytes) :
               s[i].buffer[k] = IF k <= Len(list[i].buffer) THEN list[i].buffer[k]
                                ELSE bytes[k - Len(list[i].buffer)]
      BY <2>1, <3>1, ConcatProperties
    <3>3. list[i].curPos = Len(list[i].buffer)
          /\ offset[i] + list[i].curPos = Len(w)
      BY <2>2, <2>4 DEF NodeTiles
    <3>4. s[i].curPos <= s[i].bufferLen
      BY <1>2, <2>1, <2>4, <3>1 DEF Room
    <3>5. offset[i] + s[i].curPos = Len(u)
      <4>1. Len(u) = Len(w) + Len(bytes)
        BY <1>5
      <4>2. s[i].curPos = list[i].curPos + Len(bytes)
        BY <3>1
      <4>3. offset[i] + list[i].curPos = Len(w)
        BY <3>3
      <4>4. offset[i] + (list[i].curPos + Len(bytes)) =
              (offset[i] + list[i].curPos) + Len(bytes)
        BY <1>2, <2>1
      <4> QED BY <4>1, <4>2, <4>3, <4>4
    <3>6. ASSUME NEW k \in 1..s[i].curPos
          PROVE  s[i].buffer[k] = u[offset[i] + k]
      <4>1. offset[i] + k \in 1..Len(w) + Len(bytes)
            /\ k \in 1..Len(list[i].buffer) + Len(bytes)
        <5>1. \A o, c, l, n \in Nat : \A x \in 1..c + n :
                o + c = l => o + x \in 1..l + n
          OBVIOUS
        <5>2. k \in 1..list[i].curPos + Len(bytes)
          BY <3>1
        <5>3. Len(w) \in Nat /\ Len(bytes) \in Nat /\ list[i].curPos \in Nat
          BY <1>2, <2>1
        <5> QED BY <2>1, <3>3, <5>1, <5>2, <5>3
      <4>2. CASE k <= Len(list[i].buffer)
        <5>1. s[i].buffer[k] = list[i].buffer[k]
          BY <3>2, <4>1, <4>2
        <5>2. u[offset[i] + k] = w[offset[i] + k]
          <6>1. Len(list[i].buffer) \in Nat /\ offset[i] + Len(list[i].buffer) = Len(w)
            BY <2>1, <3>3
          <6>2. offset[i] + k <= Len(w)
            BY <2>1, <4>1, <4>2, <6>1
          <6> QED BY <1>5, <4>1, <6>2
        <5>3. k \in 1..list[i].curPos
          BY <3>3, <4>1, <4>2
        <5> QED BY <2>2, <5>1, <5>2, <5>3 DEF NodeTiles
      <4>3. CASE k > Len(list[i].buffer)
        <5>1. s[i].buffer[k] = bytes[k - Len(list[i].buffer)]
          BY <2>1, <3>2, <3>3, <4>1, <4>3
        <5>2. u[offset[i] + k] = bytes[(offset[i] + k) - Len(w)]
          <6>1. Len(list[i].buffer) \in Nat /\ offset[i] + Len(list[i].buffer) = Len(w)
            BY <2>1, <3>3
          <6>2. ~(offset[i] + k <= Len(w))
            BY <1>2, <2>1, <4>1, <4>3, <6>1
          <6>3. u[offset[i] + k] = IF offset[i] + k <= Len(w) THEN w[offset[i] + k]
                                   ELSE bytes[(offset[i] + k) - Len(w)]
            BY <1>5, <4>1
          <6> QED BY <6>2, <6>3
        <5>3. (offset[i] + k) - Len(w) = k - Len(list[i].buffer)
          <6>1. Len(list[i].buffer) \in Nat /\ offset[i] + Len(list[i].buffer) = Len(w)
            BY <2>1, <3>3
          <6>2. k \in Nat
            BY <4>1, <6>1
          <6>3. \A o, l, x \in Nat : (o + x) - (o + l) = x - l
            OBVIOUS
          <6> QED BY <2>1, <6>1, <6>2, <6>3
        <5> QED BY <5>1, <5>2, <5>3
      <4> QED BY <2>1, <3>3, <4>1, <4>2, <4>3
    <3>7. s[i].curPos = Len(s[i].buffer) /\ offset[i] + s[i].curPos <= Len(u)
      BY <1>2, <1>5, <3>1, <3>2, <3>3, <3>5
    <3> QED BY <2>3, <2>4, <3>4, <3>5, <3>6, <3>7 DEF NodeTiles
  <2>5. CASE i # here
    <3>1. s[i].curPos = list[i].curPos /\ s[i].buffer = list[i].buffer
          /\ s[i].bufferLen = list[i].bufferLen
      BY <1>4, <2>1, <2>5
    <3>2. ASSUME NEW k \in 1..s[i].curPos
          PROVE  s[i].buffer[k] = u[offset[i] + k]
      <4>1. s[i].buffer[k] = w[offset[i] + k]
        BY <2>2, <3>1 DEF NodeTiles
      <4>2. offset[i] + list[i].curPos <= Len(w)
        BY <2>2 DEF NodeTiles
      <4>3. /\ offset[i] \in Nat /\ Len(w) \in Nat /\ Len(bytes) \in Nat
            /\ k \in 1..list[i].curPos /\ list[i].curPos \in Nat
        BY <1>2, <2>1, <3>1
      <4>4. offset[i] + k \in 1..Len(w) + Len(bytes) /\ offset[i] + k <= Len(w)
        BY <4>2, <4>3
      <4> QED BY <1>5, <4>1, <4>4
    <3> QED BY <1>2, <1>5, <2>1, <2>2, <2>3, <2>5, <3>1, <3>2 DEF NodeTiles
  <2> QED BY <2>4, <2>5
<1>7. s[1].totalLen = Len(u)
  <2>1. 1 \in 1..Len(list)
    BY <1>2
  <2> QED BY <1>1, <1>4, <1>5, <2>1
<1>8. AllLive(s)
  BY <1>4 DEF AllLive
<1>9. Room(s, here) = Room(list, here) - Len(bytes)
  <2>1. list[here].curPos \in Nat /\ list[here].bufferLen \in Nat
    BY <1>1, ElementOfSeq, NodeFields
  <2> QED BY <1>2, <1>4, <2>1 DEF Room
<1>10. here # NULL
  BY <1>1, <1>2 DEF NULL
<1>11. Tiles(s, here, offset, u)
  BY <1>1, <1>4, <1>5, <1>6, <1>7, <1>10 DEF Tiles
<1> QED BY <1>8, <1>9, <1>11 DEF s, u

\* Relinking a node changes its next and nothing else.
LEMMA RelinkedNode ==
  ASSUME NEW list \in Seq(NodeType), NEW here \in 1..Len(list), NEW x \in Nat
  PROVE  LET s == [list EXCEPT ![here].next = x]
         IN  /\ s \in Seq(NodeType) /\ Len(s) = Len(list)
             /\ \A i \in 1..Len(list) :
                  /\ s[i].next = IF i = here THEN x ELSE list[i].next
                  /\ s[i].first = list[i].first
                  /\ s[i].live = list[i].live
                  /\ s[i].totalLen = list[i].totalLen
                  /\ s[i].bufferLen = list[i].bufferLen
                  /\ s[i].curPos = list[i].curPos
                  /\ s[i].buffer = list[i].buffer
<1> DEFINE n == [list[here] EXCEPT !.next = x]
           s == [list EXCEPT ![here] = n]
<1>1. list[here] \in NodeType
  BY ElementOfSeq
<1>2. /\ n \in NodeType
      /\ n.next = x /\ n.first = list[here].first /\ n.live = list[here].live
      /\ n.totalLen = list[here].totalLen /\ n.bufferLen = list[here].bufferLen
      /\ n.curPos = list[here].curPos /\ n.buffer = list[here].buffer
  BY <1>1 DEF NodeType
<1>3. [list EXCEPT ![here].next = x] = s
  OBVIOUS
<1> HIDE DEF n
<1>4. /\ s \in Seq(NodeType) /\ Len(s) = Len(list)
      /\ \A i \in 1..Len(list) : s[i] = IF i = here THEN n ELSE list[i]
  BY <1>2, ExceptSeq
<1> HIDE DEF s
<1>5. ASSUME NEW i \in 1..Len(list)
      PROVE  /\ s[i].next = IF i = here THEN x ELSE list[i].next
             /\ s[i].first = list[i].first
             /\ s[i].live = list[i].live
             /\ s[i].totalLen = list[i].totalLen
             /\ s[i].bufferLen = list[i].bufferLen
             /\ s[i].curPos = list[i].curPos
             /\ s[i].buffer = list[i].buffer
  <2>1. CASE i = here
    BY <1>2, <1>4, <2>1
  <2>2. CASE i # here
    BY <1>4, <2>2
  <2> QED BY <2>1, <2>2
<1> QED BY <1>3, <1>4, <1>5

Offsets(here) == IF here = node THEN start ELSE Append(start, Len(written))

\* Reserving keeps the tiling and gives the node it returns the room asked for.
LEMMA AllocatedTiles ==
  ASSUME Tiles(nodes, node, start, written), AllLive(nodes),
         NEW size \in Nat, NEW junk \in Junk
  PROVE  LET a == Allocated(size, junk)
         IN  /\ Tiles(a.list, a.here, Offsets(a.here), written)
             /\ AllLive(a.list)
             /\ a.here \in 1..Len(a.list)
             /\ size <= Room(a.list, a.here)
<1> DEFINE a == Allocated(size, junk)
<1>1. /\ nodes \in Seq(NodeType) /\ start \in Seq(Nat) /\ written \in Seq(Byte)
      /\ node = Len(nodes) /\ Len(start) = Len(nodes)
      /\ node = NULL => written = <<>>
      /\ node # NULL => start[1] = 0 /\ nodes[1].totalLen = Len(written)
      /\ \A i \in 1..Len(nodes) : NodeTiles(nodes, node, start, written, i)
  BY DEF Tiles
<1>2. Len(nodes) \in Nat /\ Len(written) \in Nat
  BY <1>1, LenProperties
<1>3. CASE node = NULL
  <2> DEFINE n == NewNode(size, 0, 1)
  <2>1. a.list = <<n>> /\ a.here = 1
    BY <1>3 DEF Allocated
  <2>2. /\ n \in NodeType
        /\ n.buffer = <<>> /\ n.curPos = 0 /\ n.totalLen = 0
        /\ n.next = NULL /\ n.first = 1 /\ n.live = TRUE
        /\ size <= n.bufferLen /\ n.bufferLen \in Nat
    <3>1. /\ n \in NodeType
          /\ n.buffer = <<>> /\ n.curPos = 0 /\ n.totalLen = 0
          /\ n.next = NULL /\ n.first = 1 /\ n.live = TRUE
          /\ size <= n.bufferLen
      BY FreshNode
    <3> HIDE DEF n
    <3> QED BY <3>1, NodeFields
  <2> HIDE DEF n, a
  <2>3. start = <<>>
    BY <1>1, <1>3, EmptySeq DEF NULL
  <2>4. Offsets(a.here) = <<0>>
    <3>1. written = <<>> /\ a.here # node
      BY <1>1, <1>3, <2>1 DEF NULL
    <3> QED BY <2>3, <3>1 DEF Offsets
  <2>5. written = <<>> /\ Len(written) = 0 /\ <<n>>[1] = n /\ <<0>>[1] = 0
    BY <1>1, <1>3
  <2>6. NodeTiles(<<n>>, 1, <<0>>, written, 1)
    BY <2>2, <2>5 DEF NodeTiles
  <2>7. <<n>> \in Seq(NodeType) /\ Len(<<n>>) = 1 /\ <<0>> \in Seq(Nat) /\ Len(<<0>>) = 1
    BY <2>2
  <2>8. Tiles(<<n>>, 1, <<0>>, written)
    <3>1. \A i \in 1..1 : NodeTiles(<<n>>, 1, <<0>>, written, i)
      BY <2>6
    <3> QED BY <1>1, <2>2, <2>5, <2>7, <3>1 DEF Tiles, NULL
  <2>9. AllLive(<<n>>)
    BY <2>2, <2>7 DEF AllLive
  <2>10. size <= Room(<<n>>, 1)
    BY <2>2 DEF Room
  <2> QED BY <2>1, <2>4, <2>7, <2>8, <2>9, <2>10 DEF a
<1>4. CASE node # NULL /\ SpaceLeft > size
  <2>1. a.list = nodes /\ a.here = node
    BY <1>4 DEF Allocated
  <2>2. nodes[node].bufferLen \in Nat /\ nodes[node].curPos \in Nat
    BY <1>1, <1>2, <1>4, ElementOfSeq, NodeFields DEF NULL
  <2>3. size <= Room(nodes, node)
    BY <1>4, <2>2 DEF Room, SpaceLeft
  <2> QED BY <1>1, <1>2, <1>4, <2>1, <2>3 DEF Offsets, NULL
<1>5. CASE node # NULL /\ ~(SpaceLeft > size)
  <2> DEFINE m == Len(nodes) + 1
             r == [nodes EXCEPT ![node].next = m]
             n == NewNode(size, junk, nodes[node].first)
             off == Append(start, Len(written))
             s == Append(r, n)
  <2>1. a.list = s /\ a.here = m
    BY <1>5 DEF Allocated
  <2>2. node \in 1..Len(nodes) /\ nodes[node].first = 1
    BY <1>1, <1>2, <1>5 DEF NULL, NodeTiles
  <2>3. /\ r \in Seq(NodeType) /\ Len(r) = Len(nodes)
        /\ \A i \in 1..Len(nodes) :
             /\ r[i].next = IF i = node THEN m ELSE nodes[i].next
             /\ r[i].first = nodes[i].first
             /\ r[i].live = nodes[i].live
             /\ r[i].totalLen = nodes[i].totalLen
             /\ r[i].bufferLen = nodes[i].bufferLen
             /\ r[i].curPos = nodes[i].curPos
             /\ r[i].buffer = nodes[i].buffer
    <3>1. nodes \in Seq(NodeType) /\ m \in Nat
      BY <1>1, <1>2
    <3> HIDE DEF m
    <3> QED BY <2>2, <3>1, RelinkedNode
  <2>4. /\ n \in NodeType
        /\ n.buffer = <<>> /\ n.curPos = 0
        /\ n.next = NULL /\ n.first = 1 /\ n.live = TRUE
        /\ size <= n.bufferLen /\ n.bufferLen \in Nat
    <3>1. junk \in Nat
      BY SizesAssumption
    <3>2. /\ n \in NodeType
          /\ n.buffer = <<>> /\ n.curPos = 0
          /\ n.next = NULL /\ n.first = 1 /\ n.live = TRUE
          /\ size <= n.bufferLen
      <4>1. n = NewNode(size, junk, 1)
        BY <2>2
      <4>2. LET k == NewNode(size, junk, 1)
            IN  /\ k \in NodeType
                /\ k.buffer = <<>> /\ k.curPos = 0 /\ k.totalLen = junk
                /\ k.next = NULL /\ k.first = 1 /\ k.live = TRUE
                /\ size <= k.bufferLen
        BY <3>1, FreshNode
      <4> HIDE DEF n
      <4> QED BY <4>1, <4>2
    <3> HIDE DEF n
    <3> QED BY <3>2, NodeFields
  <2> HIDE DEF r, n, a
  <2>5. /\ s \in Seq(NodeType) /\ Len(s) = m /\ s[m] = n
        /\ \A i \in 1..Len(nodes) : s[i] = r[i]
    BY <2>3, <2>4, AppendProperties
  <2>6. /\ off \in Seq(Nat) /\ Len(off) = m /\ off[m] = Len(written)
        /\ \A i \in 1..Len(nodes) : off[i] = start[i]
    BY <1>1, <1>2, AppendProperties
  <2> HIDE DEF s, off
  <2>7. NodeTiles(s, m, off, written, m)
    <3>1. Len(<<>>) = 0
      OBVIOUS
    <3> QED BY <1>2, <2>4, <2>5, <2>6, <3>1 DEF NodeTiles
  <2>8. ASSUME NEW i \in 1..Len(nodes)
        PROVE  NodeTiles(s, m, off, written, i)
    <3>1. NodeTiles(nodes, node, start, written, i) /\ i # m /\ s[i] = r[i]
      BY <1>1, <1>2, <2>5
    <3>2. off[i] = start[i] /\ (i # node => off[i + 1] = start[i + 1])
          /\ (i = node => off[i + 1] = Len(written))
      <4>1. i # node => i + 1 \in 1..Len(nodes)
        BY <1>1, <1>2
      <4>2. i = node => i + 1 = m
        BY <1>1
      <4> QED BY <2>6, <4>1, <4>2
    <3>3. s[i].next = i + 1
      <4>1. CASE i = node
        BY <1>1, <2>3, <3>1, <4>1
      <4>2. CASE i # node
        BY <2>3, <3>1, <4>2 DEF NodeTiles
      <4> QED BY <4>1, <4>2
    <3>4. /\ s[i].first = nodes[i].first /\ s[i].bufferLen = nodes[i].bufferLen
          /\ s[i].curPos = nodes[i].curPos /\ s[i].buffer = nodes[i].buffer
      BY <2>3, <3>1
    <3>5. off[i] + s[i].curPos = off[i + 1]
      <4>1. CASE i = node
        BY <3>1, <3>2, <3>4, <4>1 DEF NodeTiles
      <4>2. CASE i # node
        BY <3>1, <3>2, <3>4, <4>2 DEF NodeTiles
      <4> QED BY <4>1, <4>2
    <3> QED BY <3>1, <3>2, <3>3, <3>4, <3>5 DEF NodeTiles
  <2>9. Tiles(s, m, off, written)
    <3>1. \A i \in 1..m : NodeTiles(s, m, off, written, i)
      BY <1>2, <2>7, <2>8
    <3>2. 1 \in 1..Len(nodes) /\ m # NULL
      BY <1>1, <1>2, <2>2 DEF NULL
    <3>3. off[1] = 0 /\ s[1].totalLen = Len(written)
      BY <1>1, <1>5, <2>3, <2>5, <2>6, <3>2
    <3> QED BY <1>1, <2>5, <2>6, <3>1, <3>2, <3>3 DEF Tiles
  <2>10. AllLive(s)
    <3>1. \A i \in 1..Len(nodes) : s[i].live = TRUE
      BY <2>3, <2>5 DEF AllLive
    <3> QED BY <1>2, <2>4, <2>5, <3>1 DEF AllLive
  <2>11. m \in 1..Len(s) /\ size <= Room(s, m)
    BY <1>2, <2>4, <2>5 DEF Room
  <2>12. Offsets(m) = off
    BY <1>1, <1>2 DEF Offsets, off
  <2> QED BY <2>1, <2>9, <2>10, <2>11, <2>12 DEF a
<1> QED BY <1>3, <1>4, <1>5

-----------------------------------------------------------------------------
\* The invariant holds of the empty buffer.
LEMMA InitInv == Init => IInv
<1> SUFFICES ASSUME Init PROVE IInv
  OBVIOUS
<1> USE DEF Init, NULL
<1>1. Tiles(nodes, node, start, written)
  BY DEF Tiles
<1>2. Reserved /\ Writing
  BY DEF Reserved, Writing, AllLive
<1> QED BY <1>1, <1>2 DEF IInv, Combining, Freeing

LEMMA NullsAreBytes ==
  ASSUME NEW len \in Nat
  PROVE  Nulls(len) \in Seq(Byte) /\ Len(Nulls(len)) = len
  BY ByteAssumption DEF Nulls

\* Reserving room preserves the invariant.
LEMMA ReserveStep ==
  ASSUME IInv, NEW size \in Nat, SerializeBufferAllocate(size)
  PROVE  IInv'
<1>1. PICK junk \in Junk :
        /\ nodes' = Allocated(size, junk).list
        /\ node' = Allocated(size, junk).here
        /\ NoteStart(Allocated(size, junk).here)
  BY DEF SerializeBufferAllocate
<1>2. /\ pc = "write" /\ pc' = "write" /\ credit' = size
      /\ UNCHANGED <<rover, copyPos, result, length, written>>
  BY DEF SerializeBufferAllocate, walk
<1>3. Tiles(nodes, node, start, written) /\ AllLive(nodes)
      /\ rover = NULL /\ copyPos = 0 /\ result = <<>> /\ length = 0
  BY <1>2 DEF IInv, Writing
<1>4. start' = Offsets(node')
  BY <1>1 DEF NoteStart, Offsets
<1>5. /\ Tiles(nodes', node', start', written') /\ AllLive(nodes')
      /\ node' \in 1..Len(nodes') /\ size <= Room(nodes', node')
  BY <1>1, <1>2, <1>3, <1>4, AllocatedTiles
<1>6. Reserved'
  BY <1>2, <1>5 DEF Reserved, NULL
<1> QED BY <1>2, <1>3, <1>5, <1>6 DEF IInv, Writing, Combining, Freeing

\* Writing preserves it.
LEMMA WriteStep ==
  ASSUME IInv, NEW bytes \in Seq(Byte), Write(bytes)
  PROVE  IInv'
<1>1. /\ pc = "write" /\ node # NULL /\ Len(bytes) <= credit
      /\ nodes' = Stored(nodes, node, bytes)
      /\ credit' = credit - Len(bytes)
      /\ written' = written \o bytes
      /\ UNCHANGED <<node, pc, start, rover, copyPos, result, length>>
  BY DEF Write, walk
<1>2. Tiles(nodes, node, start, written) /\ AllLive(nodes)
      /\ rover = NULL /\ copyPos = 0 /\ result = <<>> /\ length = 0
      /\ credit \in Nat /\ credit <= Room(nodes, node)
  BY <1>1 DEF IInv, Writing, Reserved
<1>3. node \in 1..Len(nodes) /\ Len(bytes) \in Nat /\ Room(nodes, node) \in Int
  <2>1. nodes \in Seq(NodeType) /\ node = Len(nodes)
    BY <1>2 DEF Tiles
  <2>2. node \in 1..Len(nodes)
    BY <1>1, <2>1, LenProperties DEF NULL
  <2> QED BY <2>1, <2>2, ElementOfSeq, NodeFields, LenProperties DEF Room
<1>4. Len(bytes) <= Room(nodes, node)
  BY <1>1, <1>2, <1>3
<1>5. /\ Tiles(nodes', node', start', written')
      /\ AllLive(nodes')
      /\ Room(nodes', node') = Room(nodes, node) - Len(bytes)
  BY <1>1, <1>2, <1>3, <1>4, StoredTiles
<1>6. Reserved'
  BY <1>1, <1>2, <1>3, <1>5 DEF Reserved
<1> QED BY <1>1, <1>2, <1>5, <1>6 DEF IInv, Writing, Combining, Freeing

\* writeNulls reserves and writes.
LEMMA NullsStep ==
  ASSUME IInv, NEW len \in Nat, writeNulls(len)
  PROVE  IInv'
<1> DEFINE bytes == Nulls(len)
<1>1. PICK junk \in Junk :
        LET a == Allocated(len, junk)
        IN  nodes' = Stored(a.list, a.here, bytes) /\ node' = a.here
            /\ NoteStart(a.here)
  BY DEF writeNulls
<1> DEFINE a == Allocated(len, junk)
<1>2. /\ pc = "write" /\ pc' = "write" /\ credit = 0 /\ credit' = 0
      /\ written' = written \o bytes
      /\ UNCHANGED <<rover, copyPos, result, length>>
  BY DEF writeNulls, walk
<1>3. Tiles(nodes, node, start, written) /\ AllLive(nodes)
      /\ rover = NULL /\ copyPos = 0 /\ result = <<>> /\ length = 0
  BY <1>2 DEF IInv, Writing
<1>4. start' = Offsets(a.here)
  BY <1>1 DEF NoteStart, Offsets
<1>5. /\ Tiles(a.list, a.here, start', written) /\ AllLive(a.list)
      /\ a.here \in 1..Len(a.list) /\ len <= Room(a.list, a.here)
  BY <1>3, <1>4, AllocatedTiles
<1>6. bytes \in Seq(Byte) /\ Len(bytes) = len
  BY NullsAreBytes
<1> HIDE DEF a, bytes
<1>7. /\ Tiles(Stored(a.list, a.here, bytes), a.here, start', written \o bytes)
      /\ AllLive(Stored(a.list, a.here, bytes))
      /\ Room(Stored(a.list, a.here, bytes), a.here) =
           Room(a.list, a.here) - Len(bytes)
  BY <1>5, <1>6, StoredTiles
<1>8. nodes' = Stored(a.list, a.here, bytes) /\ node' = a.here
  BY <1>1 DEF a
<1>9. Tiles(nodes', node', start', written') /\ AllLive(nodes')
  BY <1>2, <1>7, <1>8
<1>10. Reserved'
  <2>1. Room(a.list, a.here) \in Int
    <3>1. a.list \in Seq(NodeType)
      BY <1>5 DEF Tiles
    <3> QED BY <1>5, <3>1, ElementOfSeq, NodeFields DEF Room
  <2>2. Room(nodes', node') >= 0
    BY <1>5, <1>6, <1>7, <1>8, <2>1
  <2>3. node' # NULL
    <3>1. Len(a.list) \in Nat
      BY <1>5 DEF Tiles
    <3> QED BY <1>5, <1>8, <3>1 DEF NULL
  <2> QED BY <1>2, <2>2, <2>3 DEF Reserved
<1> QED BY <1>2, <1>3, <1>9, <1>10 DEF IInv, Writing, Combining, Freeing

\* Facts about a list with at least one node.
LEMMA ListFacts ==
  ASSUME Tiles(nodes, node, start, written), node # NULL
  PROVE  /\ node \in 1..Len(nodes) /\ Len(nodes) \in Nat /\ 1 \in 1..Len(nodes)
         /\ node = Len(nodes) /\ First = 1
         /\ Len(written) \in Nat /\ written \in Seq(Byte)
         /\ start[1] = 0 /\ nodes[1].totalLen = Len(written)
         /\ \A i \in 1..Len(nodes) :
              /\ nodes[i] \in NodeType /\ start[i] \in Nat
              /\ nodes[i].curPos \in Nat
<1>1. nodes \in Seq(NodeType) /\ start \in Seq(Nat) /\ written \in Seq(Byte)
      /\ node = Len(nodes) /\ Len(start) = Len(nodes)
      /\ start[1] = 0 /\ nodes[1].totalLen = Len(written)
  BY DEF Tiles
<1>2. Len(nodes) \in Nat /\ Len(written) \in Nat
  BY <1>1, LenProperties
<1>3. node \in 1..Len(nodes) /\ 1 \in 1..Len(nodes)
  BY <1>1, <1>2 DEF NULL
<1>4. First = 1
  BY <1>3 DEF First, Tiles, NodeTiles
<1>5. \A i \in 1..Len(nodes) : nodes[i] \in NodeType /\ start[i] \in Nat
  BY <1>1, ElementOfSeq
<1> QED BY <1>1, <1>2, <1>3, <1>4, <1>5, NodeFields

\* combineBuffers starts at offset 0 of a buffer as long as what was written.
LEMMA CombineBeginStep ==
  ASSUME IInv, CombineBegin
  PROVE  IInv'
<1>1. /\ pc = "write" /\ node # NULL /\ credit = 0 /\ pc' = "combine"
      /\ result' = [k \in 1..nodes[First].totalLen |-> Uninit]
      /\ rover' = First /\ copyPos' = 0
      /\ UNCHANGED <<nodes, node, credit, length, written, start>>
  BY DEF CombineBegin, ghosts
<1>2. Tiles(nodes, node, start, written) /\ AllLive(nodes) /\ length = 0 /\ Reserved
  BY <1>1 DEF IInv, Writing
<1>3. First = 1 /\ nodes[1].totalLen = Len(written) /\ Len(written) \in Nat
      /\ 1 \in 1..Len(nodes) /\ start[1] = 0
  BY <1>1, <1>2, ListFacts
<1>4. result' \in Seq(Byte \cup {Uninit}) /\ Len(result') = Len(written)
  <2>1. result' = [k \in 1..Len(written) |-> Uninit]
    BY <1>1, <1>3
  <2> QED BY <1>3, <2>1
<1>5. rover' \in 0..Len(nodes) /\ rover' # NULL /\ start[rover'] = 0
  BY <1>1, <1>3 DEF NULL
<1>6. Combining'
  <2>1. \A k \in 1..copyPos' : result'[k] = written'[k]
    BY <1>1
  <2>2. copyPos' = start'[rover']
    BY <1>1, <1>5
  <2> QED BY <1>1, <1>2, <1>4, <1>5, <2>1, <2>2 DEF Combining
<1>7. Reserved'
  BY <1>1, <1>2 DEF Reserved
<1> QED BY <1>1, <1>2, <1>6, <1>7 DEF IInv, Writing, Freeing

\* Copying a node moves to the offset of the next one.
LEMMA CombineCopyStep ==
  ASSUME IInv, CombineCopy
  PROVE  IInv'
<1>1. /\ pc = "combine" /\ rover # NULL
      /\ result' = Copied
      /\ copyPos' = copyPos + nodes[rover].curPos
      /\ rover' = nodes[rover].next
      /\ UNCHANGED <<nodes, node, credit, pc, length, written, start>>
  BY DEF CombineCopy, ghosts
<1>2. /\ Tiles(nodes, node, start, written) /\ Reserved
      /\ node # NULL /\ credit = 0 /\ length = 0
      /\ rover \in 0..Len(nodes)
      /\ result \in Seq(Byte \cup {Uninit}) /\ Len(result) = Len(written)
      /\ copyPos = start[rover]
      /\ \A k \in 1..copyPos : result[k] = written[k]
      /\ AllLive(nodes)
  BY <1>1 DEF IInv, Combining
<1>3. /\ rover \in 1..Len(nodes) /\ node = Len(nodes) /\ Len(nodes) \in Nat
      /\ Len(written) \in Nat /\ written \in Seq(Byte)
      /\ nodes[rover] \in NodeType /\ start[rover] \in Nat
      /\ nodes[rover].curPos \in Nat
  <2>1. rover \in 1..Len(nodes)
    BY <1>1, <1>2, ListFacts DEF NULL
  <2> QED BY <1>2, <2>1, ListFacts
<1>4. NodeTiles(nodes, node, start, written, rover)
  BY <1>2, <1>3 DEF Tiles
<1>5. /\ rover' \in 0..Len(nodes)
      /\ copyPos' = IF rover' = NULL THEN Len(written) ELSE start[rover']
  <2>1. CASE rover = node
    <3>1. rover' = NULL /\ start[rover] + nodes[rover].curPos = Len(written)
      BY <1>1, <1>4, <2>1 DEF NodeTiles
    <3> QED BY <1>1, <1>2, <1>3, <3>1 DEF NULL
  <2>2. CASE rover # node
    <3>1. rover' = rover + 1
          /\ start[rover] + nodes[rover].curPos = start[rover + 1]
      BY <1>1, <1>4, <2>2 DEF NodeTiles
    <3>2. rover + 1 \in 0..Len(nodes) /\ rover + 1 # NULL
      BY <1>3, <2>2 DEF NULL
    <3> QED BY <1>1, <1>2, <3>1, <3>2
  <2> QED BY <2>1, <2>2
<1>6. DOMAIN result = 1..Len(written)
  BY <1>2, LenProperties
<1>7. nodes[rover].buffer \in Seq(Byte) /\ nodes[rover].curPos = Len(nodes[rover].buffer)
  BY <1>3, <1>4, NodeFields DEF NodeTiles
<1>8. ASSUME NEW k \in 1..Len(written)
      PROVE  Copied[k] \in Byte \cup {Uninit}
  <2>1. CASE k > copyPos /\ k - copyPos <= nodes[rover].curPos
    <3>1. Copied[k] = nodes[rover].buffer[k - copyPos]
      BY <1>6, <2>1 DEF Copied
    <3>2. k - copyPos \in 1..Len(nodes[rover].buffer)
      BY <1>2, <1>3, <1>7, <2>1
    <3> QED BY <1>7, <3>1, <3>2, ElementOfSeq
  <2>2. CASE ~(k > copyPos /\ k - copyPos <= nodes[rover].curPos)
    <3>1. Copied[k] = result[k]
      BY <1>6, <2>2 DEF Copied
    <3> QED BY <1>2, <3>1, ElementOfSeq
  <2> QED BY <2>1, <2>2
<1>9. result' \in Seq(Byte \cup {Uninit}) /\ Len(result') = Len(written)
  <2>1. result' \in [1..Len(written) -> Byte \cup {Uninit}]
    BY <1>1, <1>6, <1>8 DEF Copied
  <2> QED BY <1>3, <2>1
<1>10. ASSUME NEW k \in 1..copyPos'
       PROVE  result'[k] = written[k]
  <2>1. k \in Nat /\ k <= start[rover] + nodes[rover].curPos /\ k \in 1..Len(written)
    <3>1. start[rover] + nodes[rover].curPos <= Len(written)
      BY <1>4 DEF NodeTiles
    <3> QED BY <1>1, <1>2, <1>3, <3>1
  <2>2. CASE k > copyPos
    <3>1. k - copyPos \in 1..nodes[rover].curPos
      BY <1>2, <1>3, <2>1, <2>2
    <3>2. result'[k] = nodes[rover].buffer[k - copyPos]
      BY <1>1, <1>6, <2>1, <2>2, <3>1 DEF Copied
    <3>3. nodes[rover].buffer[k - copyPos] = written[start[rover] + (k - copyPos)]
      BY <1>4, <3>1 DEF NodeTiles
    <3>4. start[rover] + (k - copyPos) = k
      BY <1>2, <1>3, <2>1
    <3> QED BY <3>2, <3>3, <3>4
  <2>3. CASE ~(k > copyPos)
    <3>1. result'[k] = result[k]
      BY <1>1, <1>6, <2>1, <2>3 DEF Copied
    <3>2. k \in 1..copyPos
      BY <1>2, <1>3, <2>1, <2>3
    <3> QED BY <1>2, <3>1, <3>2
  <2> QED BY <2>2, <2>3
<1>11. Combining'
  BY <1>1, <1>2, <1>5, <1>9, <1>10 DEF Combining
<1>12. Reserved'
  BY <1>1, <1>2 DEF Reserved
<1> QED BY <1>1, <1>2, <1>11, <1>12 DEF IInv, Writing, Freeing

\* After the last node everything is copied.
LEMMA CombineReturnStep ==
  ASSUME IInv, CombineReturn
  PROVE  IInv'
<1>1. /\ pc = "combine" /\ rover = NULL /\ pc' = "free"
      /\ length' = nodes[First].totalLen /\ rover' = First
      /\ UNCHANGED <<nodes, node, credit, copyPos, result, written, start>>
  BY DEF CombineReturn, ghosts
<1>2. /\ Tiles(nodes, node, start, written) /\ Reserved
      /\ node # NULL /\ credit = 0
      /\ result \in Seq(Byte \cup {Uninit}) /\ Len(result) = Len(written)
      /\ copyPos = Len(written)
      /\ \A k \in 1..copyPos : result[k] = written[k]
      /\ AllLive(nodes)
  BY <1>1 DEF IInv, Combining
<1>3. /\ First = 1 /\ 1 \in 1..Len(nodes) /\ Len(nodes) \in Nat
      /\ nodes[1].totalLen = Len(written)
      /\ Len(written) \in Nat /\ written \in Seq(Byte)
  BY <1>2, ListFacts
<1>4. result = written
  <2>1. written \in Seq(Byte \cup {Uninit})
    BY <1>3, SeqMonotonic
  <2> QED BY <1>2, <2>1, SeqEqual
<1>5. rover' = 1 /\ rover' \in 0..Len(nodes) /\ rover' # NULL
  BY <1>1, <1>3 DEF NULL
<1>6. FreedBefore(nodes, rover')
  BY <1>2, <1>3, <1>5 DEF AllLive, FreedBefore
<1>7. Freeing'
  BY <1>1, <1>2, <1>3, <1>4, <1>5, <1>6 DEF Freeing
<1>8. Reserved'
  BY <1>1, <1>2 DEF Reserved
<1> QED BY <1>1, <1>2, <1>7, <1>8 DEF IInv, Writing, Combining

\* Freeing a node leaves what the list holds alone.
LEMMA FreeNodeStep ==
  ASSUME IInv, FreeNode
  PROVE  IInv'
<1> DEFINE n == [nodes[rover] EXCEPT !.live = FALSE]
<1>1. /\ pc = "free" /\ rover # NULL
      /\ rover' = nodes[rover].next
      /\ nodes' = [nodes EXCEPT ![rover] = n]
      /\ UNCHANGED <<node, credit, pc, copyPos, result, length, written, start>>
  BY DEF FreeNode, ghosts
<1>2. /\ Tiles(nodes, node, start, written) /\ Reserved
      /\ node # NULL /\ credit = 0
      /\ rover \in 0..Len(nodes) /\ copyPos \in Nat
      /\ result = written /\ length = Len(written)
      /\ FreedBefore(nodes, rover)
  BY <1>1 DEF IInv, Freeing
<1>3. /\ rover \in 1..Len(nodes) /\ node = Len(nodes) /\ Len(nodes) \in Nat
      /\ nodes[rover] \in NodeType /\ 1 \in 1..Len(nodes)
      /\ nodes \in Seq(NodeType)
  <2>1. rover \in 1..Len(nodes)
    BY <1>1, <1>2, ListFacts DEF NULL
  <2>2. nodes \in Seq(NodeType)
    BY <1>2 DEF Tiles
  <2> QED BY <1>2, <2>1, <2>2, ListFacts
<1>4. /\ n \in NodeType /\ n.live = FALSE
      /\ n.next = nodes[rover].next /\ n.first = nodes[rover].first
      /\ n.totalLen = nodes[rover].totalLen
      /\ n.bufferLen = nodes[rover].bufferLen
      /\ n.curPos = nodes[rover].curPos /\ n.buffer = nodes[rover].buffer
  BY <1>3 DEF NodeType
<1> HIDE DEF n
<1>5. /\ nodes' \in Seq(NodeType) /\ Len(nodes') = Len(nodes)
      /\ \A i \in 1..Len(nodes) : nodes'[i] = IF i = rover THEN n ELSE nodes[i]
  BY <1>1, <1>3, <1>4, ExceptSeq
<1>6. ASSUME NEW i \in 1..Len(nodes)
      PROVE  /\ nodes'[i].next = nodes[i].next /\ nodes'[i].first = nodes[i].first
             /\ nodes'[i].totalLen = nodes[i].totalLen
             /\ nodes'[i].bufferLen = nodes[i].bufferLen
             /\ nodes'[i].curPos = nodes[i].curPos
             /\ nodes'[i].buffer = nodes[i].buffer
             /\ i = rover => nodes'[i].live = FALSE
             /\ i # rover => nodes'[i].live = nodes[i].live
  <2>1. CASE i = rover
    BY <1>4, <1>5, <2>1
  <2>2. CASE i # rover
    BY <1>5, <2>2
  <2> QED BY <2>1, <2>2
<1>7. Tiles(nodes', node', start', written')
  <2>1. ASSUME NEW i \in 1..Len(nodes)
        PROVE  NodeTiles(nodes', node', start', written', i)
    <3>1. NodeTiles(nodes, node, start, written, i)
      BY <1>2 DEF Tiles
    <3> QED BY <1>1, <1>6, <3>1 DEF NodeTiles
  <2>2. nodes'[1].totalLen = nodes[1].totalLen
    BY <1>3, <1>6
  <2> QED BY <1>1, <1>2, <1>5, <2>1, <2>2 DEF Tiles
<1>8. NodeTiles(nodes, node, start, written, rover)
  BY <1>2, <1>3 DEF Tiles
<1>9. rover' = IF rover = node THEN 0 ELSE rover + 1
  BY <1>1, <1>8 DEF NodeTiles, NULL
<1>10. rover' \in 0..Len(nodes)
  BY <1>3, <1>9
<1>11. FreedBefore(nodes', rover')
  <2>1. ASSUME NEW i \in 1..Len(nodes)
        PROVE  /\ rover' # NULL /\ rover' <= i => nodes'[i].live = TRUE
               /\ rover' = NULL \/ i < rover' => nodes'[i].live = FALSE
    <3>1. CASE i = rover
      <4>1. nodes'[i].live = FALSE
        BY <1>6, <3>1
      <4>2. ~(rover' # NULL /\ rover' <= i)
        BY <1>3, <1>9, <3>1 DEF NULL
      <4> QED BY <4>1, <4>2
    <3>2. CASE i < rover
      <4>1. nodes'[i].live = FALSE
        BY <1>2, <1>3, <1>6, <3>2 DEF FreedBefore
      <4> QED BY <1>3, <1>9, <3>2, <4>1 DEF NULL
    <3>3. CASE rover < i
      <4>1. nodes'[i].live = TRUE
        BY <1>1, <1>2, <1>3, <1>6, <3>3 DEF FreedBefore
      <4>2. rover' = rover + 1
        BY <1>3, <1>9, <3>3
      <4> QED BY <1>3, <3>3, <4>1, <4>2 DEF NULL
    <3>4. i = rover \/ i < rover \/ rover < i
      BY <1>3
    <3> QED BY <3>1, <3>2, <3>3, <3>4
  <2> QED BY <1>5, <2>1 DEF FreedBefore
<1>12. Freeing'
  BY <1>1, <1>2, <1>5, <1>10, <1>11 DEF Freeing
<1>13. Reserved'
  <2>1. node \in 1..Len(nodes)
    BY <1>2, ListFacts
  <2>2. Room(nodes', node') = Room(nodes, node)
    BY <1>1, <1>6, <2>1 DEF Room
  <2> QED BY <1>1, <1>2, <2>2 DEF Reserved
<1> QED BY <1>1, <1>2, <1>7, <1>12, <1>13 DEF IInv, Writing, Combining

\* The next unit starts from the empty buffer.
LEMMA NextUnitStep ==
  ASSUME IInv, NextUnit
  PROVE  IInv'
<1>1. /\ pc = "free" /\ rover = NULL /\ pc' = "write"
      /\ nodes' = <<>> /\ node' = NULL /\ start' = <<>> /\ written' = <<>>
      /\ copyPos' = 0 /\ result' = <<>> /\ length' = 0
      /\ credit' = credit /\ rover' = rover
  BY DEF NextUnit
<1>2. credit = 0
  BY <1>1 DEF IInv, Freeing
<1>3. Tiles(<<>>, NULL, <<>>, <<>>)
  BY DEF Tiles, NULL
<1>4. Writing' /\ Reserved'
  BY <1>1, <1>2 DEF Writing, Reserved, AllLive
<1> QED BY <1>1, <1>3, <1>4 DEF IInv, Combining, Freeing

\* Every step preserves the invariant.
LEMMA NextInv == IInv /\ [Next]_vars => IInv'
<1> SUFFICES ASSUME IInv, [Next]_vars PROVE IInv'
  OBVIOUS
<1>1. CASE \E size \in 0..MaxRun : SerializeBufferAllocate(size)
  BY <1>1, ReserveStep
<1>2. ASSUME NEW width \in Widths, writebufferInt(width)
      PROVE  IInv'
  <2>1. width \in Nat
    BY SizesAssumption
  <2>2. PICK bytes \in [1..width -> Byte] : Write(bytes)
    BY <1>2 DEF writebufferInt
  <2> QED BY <2>1, <2>2, WriteStep
<1>3. ASSUME NEW len \in 0..MaxRun, writebufferOctetStr(len)
      PROVE  IInv'
  <2>1. PICK bytes \in [1..len -> Byte] : Write(bytes)
    BY <1>3 DEF writebufferOctetStr
  <2> QED BY <2>1, WriteStep
<1>4. CASE \E len \in 0..MaxRun : writeNulls(len)
  BY <1>4, NullsStep
<1>5. CASE CombineBegin
  BY <1>5, CombineBeginStep
<1>6. CASE Loop
  BY <1>6, CombineCopyStep, CombineReturnStep, FreeNodeStep, NextUnitStep DEF Loop
<1>7. CASE UNCHANGED vars
  BY <1>7 DEF vars, ghosts, walk, IInv, Reserved, Writing, Combining, Freeing
<1> QED BY <1>1, <1>2, <1>3, <1>4, <1>5, <1>6, <1>7 DEF Next

\* The strengthened invariant holds of every execution.
THEOREM Invariance == Spec => []IInv
  BY InitInv, NextInv, PTL DEF Spec

LEMMA InvImpliesProperties ==
  IInv => /\ TypeOK /\ WritesFit /\ TotalIsWritten /\ CopiesFit
          /\ CombinedIsWritten /\ FreesEachOnce
<1> SUFFICES ASSUME IInv
             PROVE  /\ TypeOK /\ WritesFit /\ TotalIsWritten /\ CopiesFit
                    /\ CombinedIsWritten /\ FreesEachOnce
  OBVIOUS
<1>1. /\ Tiles(nodes, node, start, written) /\ Reserved
      /\ pc \in {"write", "combine", "free"}
      /\ Writing /\ Combining /\ Freeing
  BY DEF IInv
<1>2. /\ nodes \in Seq(NodeType) /\ start \in Seq(Nat) /\ written \in Seq(Byte)
      /\ node = Len(nodes) /\ Len(nodes) \in Nat /\ Len(written) \in Nat
      /\ credit \in Nat
  BY <1>1, LenProperties DEF Tiles, Reserved
<1>3. written \in Seq(Byte \cup {Uninit})
  BY <1>2, SeqMonotonic
<1>4. \A i \in 1..Len(nodes) : NodeTiles(nodes, node, start, written, i)
  BY <1>1 DEF Tiles
<1>5. TypeOK
  <2>1. CASE pc = "write"
    <3>1. rover = 0 /\ copyPos = 0 /\ result = <<>> /\ length = 0
      BY <1>1, <2>1 DEF Writing, NULL
    <3> QED BY <1>1, <1>2, <3>1 DEF TypeOK
  <2>2. CASE pc = "combine"
    <3>1. /\ rover \in 0..Len(nodes) /\ length = 0
          /\ result \in Seq(Byte \cup {Uninit})
          /\ copyPos = IF rover = NULL THEN Len(written) ELSE start[rover]
          /\ node # NULL
      BY <1>1, <2>2 DEF Combining
    <3>2. copyPos \in Nat
      <4>1. CASE rover = NULL
        BY <1>2, <3>1, <4>1
      <4>2. CASE rover # NULL
        <5>1. rover \in 1..Len(nodes)
          BY <1>2, <3>1, <4>2 DEF NULL
        <5> QED BY <1>1, <3>1, <4>2, <5>1, ListFacts
      <4> QED BY <4>1, <4>2
    <3> QED BY <1>1, <1>2, <3>1, <3>2 DEF TypeOK
  <2>3. CASE pc = "free"
    BY <1>1, <1>2, <1>3, <2>3 DEF Freeing, TypeOK
  <2> QED BY <1>1, <2>1, <2>2, <2>3
<1>6. WritesFit
  <2>1. \A i \in 1..Len(nodes) : nodes[i].curPos <= nodes[i].bufferLen
    BY <1>4 DEF NodeTiles
  <2> QED BY <1>1, <2>1 DEF WritesFit, Reserved, Room, SpaceLeft
<1>7. TotalIsWritten
  BY <1>1, ListFacts DEF TotalIsWritten
<1>8. CopiesFit
  <2>1. SUFFICES ASSUME pc = "combine", rover # NULL
                 PROVE  copyPos + nodes[rover].curPos <= Len(result)
    BY DEF CopiesFit
  <2>2. /\ rover \in 1..Len(nodes) /\ copyPos = start[rover]
        /\ Len(result) = Len(written)
    BY <1>1, <1>2, <2>1 DEF Combining, NULL
  <2> QED BY <1>4, <2>2 DEF NodeTiles
<1>9. CombinedIsWritten
  BY <1>1 DEF CombinedIsWritten, Freeing
<1>10. FreesEachOnce
  <2>1. SUFFICES ASSUME pc = "free"
                 PROVE  /\ rover # NULL => nodes[rover].live
                        /\ rover = NULL => \A i \in 1..Len(nodes) : ~nodes[i].live
    BY DEF FreesEachOnce
  <2>2. rover \in 0..Len(nodes) /\ FreedBefore(nodes, rover)
    BY <1>1, <2>1 DEF Freeing
  <2>3. ASSUME rover # NULL PROVE nodes[rover].live
    <3>1. rover \in 1..Len(nodes) /\ rover <= rover
      BY <1>2, <2>2, <2>3 DEF NULL
    <3> QED BY <2>2, <2>3, <3>1 DEF FreedBefore
  <2>4. ASSUME rover = NULL PROVE \A i \in 1..Len(nodes) : ~nodes[i].live
    BY <2>2, <2>4 DEF FreedBefore
  <2> QED BY <2>3, <2>4
<1> QED BY <1>5, <1>6, <1>7, <1>8, <1>9, <1>10

\* Every state is well typed.
THEOREM TypeCorrect == Spec => []TypeOK
  BY Invariance, InvImpliesProperties, PTL

\* No write of sutilities.c, none of which checks for room, runs past its node.
THEOREM WritesStayInside == Spec => []WritesFit
  BY Invariance, InvImpliesProperties, PTL

\* totalLen of the first node is the number of bytes written to the whole list.
THEOREM TotalIsExact == Spec => []TotalIsWritten
  BY Invariance, InvImpliesProperties, PTL

\* No memcpy of combineBuffers runs past totalBuffer.
THEOREM CopiesStayInside == Spec => []CopiesFit
  BY Invariance, InvImpliesProperties, PTL

\* combineBuffers returns the bytes written, in order, none missing or added.
THEOREM CombineReturnsWritten == Spec => []CombinedIsWritten
  BY Invariance, InvImpliesProperties, PTL

\* freeBuffers frees every node of the list exactly once.
THEOREM FreeReleasesAll == Spec => []FreesEachOnce
  BY Invariance, InvImpliesProperties, PTL

-----------------------------------------------------------------------------
(* The buffer implements the log of its callers. *)

\* Appending keeps what is there as a prefix.
LEMMA PrefixKept ==
  ASSUME NEW s \in Seq(Byte), NEW t \in Seq(Byte)
  PROVE  SubSeq(s \o t, 1, Len(s)) = s
<1> DEFINE u == s \o t
           p == SubSeq(u, 1, Len(s))
<1>1. /\ u \in Seq(Byte) /\ Len(u) = Len(s) + Len(t)
      /\ \A i \in 1..Len(s) + Len(t) : u[i] = IF i <= Len(s) THEN s[i] ELSE t[i - Len(s)]
      /\ Len(s) \in Nat /\ Len(t) \in Nat
  BY ConcatProperties, LenProperties
<1>2. \A i \in 1..Len(s) : u[i] = s[i] /\ u[i] \in Byte
  <2>1. \A i \in 1..Len(s) : i \in 1..Len(s) + Len(t) /\ i <= Len(s)
    BY <1>1
  <2>2. \A i \in 1..Len(s) : u[i] = s[i]
    BY <1>1, <2>1
  <2> QED BY <2>2, ElementOfSeq
<1> HIDE DEF u
<1>3. /\ p \in Seq(Byte)
      /\ Len(p) = IF 1 <= Len(s) THEN (Len(s) - 1) + 1 ELSE 0
      /\ \A i \in 1..(Len(s) - 1) + 1 : p[i] = u[(1 + i) - 1]
  BY <1>1, <1>2, SubSeqProperties
<1>4. Len(p) = Len(s)
  BY <1>1, <1>3
<1>5. \A i \in 1..Len(s) : p[i] = s[i]
  <2>1. ASSUME NEW i \in 1..Len(s) PROVE p[i] = s[i]
    <3>1. i \in 1..(Len(s) - 1) + 1 /\ (1 + i) - 1 = i
      BY <1>1
    <3> QED BY <1>2, <1>3, <3>1
  <2> QED BY <2>1
<1> HIDE DEF p
<1>6. p = s
  BY <1>3, <1>4, <1>5, SeqEqual
<1> QED BY <1>6 DEF p, u

LEMMA InitLog == Init => Log!Init
  BY DEF Init, Log!Init

\* Adding bytes to written extends the log.
LEMMA WrittenExtends ==
  ASSUME pc # "free", pc' = pc, written \in Seq(Byte),
         NEW bytes \in Seq(Byte), written' = written \o bytes
  PROVE  Log!Extend
<1>1. /\ written' \in Seq(Byte) /\ Len(written') >= Len(written)
      /\ SubSeq(written', 1, Len(written)) = written
  <2>1. /\ written' \in Seq(Byte) /\ Len(written') = Len(written) + Len(bytes)
        /\ Len(written) \in Nat /\ Len(bytes) \in Nat
    BY ConcatProperties, LenProperties
  <2>2. SubSeq(written', 1, Len(written)) = written
    BY PrefixKept
  <2> QED BY <2>1, <2>2
<1> QED BY <1>1 DEF Log!Extend

\* Every step is a step of the log or leaves it unchanged.
LEMMA StepLog ==
  ASSUME IInv, [Next]_vars
  PROVE  [Log!Next]_(Log!logvars)
<1>1. written \in Seq(Byte)
  BY DEF IInv, Tiles
<1>2. ASSUME NEW size \in 0..MaxRun, SerializeBufferAllocate(size)
      PROVE  UNCHANGED Log!logvars
  BY <1>2 DEF SerializeBufferAllocate, walk, Log!logvars
<1>3. ASSUME NEW bytes \in Seq(Byte), Write(bytes) PROVE Log!Extend
  <2>1. pc # "free" /\ pc' = pc /\ written' = written \o bytes
    BY <1>3 DEF Write
  <2> QED BY <1>1, <2>1, WrittenExtends
<1>4. ASSUME NEW width \in Widths, writebufferInt(width) PROVE Log!Extend
  <2>1. width \in Nat
    BY SizesAssumption
  <2>2. PICK bytes \in [1..width -> Byte] : Write(bytes)
    BY <1>4 DEF writebufferInt
  <2> QED BY <1>3, <2>1, <2>2
<1>5. ASSUME NEW len \in 0..MaxRun, writebufferOctetStr(len) PROVE Log!Extend
  <2>1. PICK bytes \in [1..len -> Byte] : Write(bytes)
    BY <1>5 DEF writebufferOctetStr
  <2> QED BY <1>3, <2>1
<1>6. ASSUME NEW len \in 0..MaxRun, writeNulls(len) PROVE Log!Extend
  <2>1. pc # "free" /\ pc' = pc /\ written' = written \o Nulls(len)
    BY <1>6 DEF writeNulls
  <2>2. Nulls(len) \in Seq(Byte)
    BY NullsAreBytes
  <2> QED BY <1>1, <2>1, <2>2, WrittenExtends
<1>7. CASE CombineBegin
  BY <1>7 DEF CombineBegin, ghosts, Log!logvars
<1>8. CASE CombineCopy
  BY <1>8 DEF CombineCopy, ghosts, Log!logvars
<1>9. CASE CombineReturn
  <2>1. IInv'
    BY <1>9, CombineReturnStep
  <2>2. pc = "combine" /\ pc' = "free" /\ written' = written /\ result' = result
    BY <1>9 DEF CombineReturn, ghosts
  <2>3. result' = written
    BY <2>1, <2>2 DEF IInv, Freeing
  <2>4. Log!Deliver
    BY <2>2, <2>3 DEF Log!Deliver
  <2> QED BY <2>4 DEF Log!Next
<1>10. CASE FreeNode
  BY <1>10 DEF FreeNode, ghosts, Log!logvars
<1>11. CASE NextUnit
  <2>1. Log!Release
    BY <1>11 DEF NextUnit, Log!Release
  <2> QED BY <2>1 DEF Log!Next
<1>12. CASE UNCHANGED vars
  BY <1>12 DEF vars, ghosts, walk, Log!logvars
<1> QED BY <1>2, <1>4, <1>5, <1>6, <1>7, <1>8, <1>9, <1>10, <1>11, <1>12
        DEF Next, Loop, Log!Next

\* Callers see an append-only log whose contents are delivered whole.
THEOREM BufferImplementsLog == Spec => ImplementsLog
<1>1. Spec => [][Log!Next]_(Log!logvars)
  BY Invariance, StepLog, PTL DEF Spec
<1> QED BY <1>1, InitLog, PTL DEF Spec, ImplementsLog, Log!Spec
=============================================================================
