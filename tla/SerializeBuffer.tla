-------------------------- MODULE SerializeBuffer --------------------------
(***************************************************************************)
(* The growable output buffer of the SCL parsers (sutilities.c): a linked  *)
(* list of nodes.  Generated serializers call SerializeBufferAllocate for  *)
(* each run of fields, then write the run with the writebuffer functions,  *)
(* none of which checks for room.  The driver (pmain.c) then combines the  *)
(* nodes into one buffer and frees the list, for one packet after another. *)
(*                                                                         *)
(* A pointer is an index into nodes, the order in which malloc returned    *)
(* them; NULL is 0.  A write of any width stores the bytes of its argument *)
(* at curPos; the byte order inside one value is the subject of ByteCodec. *)
(***************************************************************************)
EXTENDS Integers, Sequences

CONSTANTS Byte,      \* values of a byte
          MINSIZE,   \* least size of a node's buffer
          Widths,    \* sizes of the fixed-width writes
          Uninit,    \* what malloc leaves in a byte buffer
          Junk,      \* what malloc may leave in a field that is not set
          MaxRun,    \* bound: longest run or octet string
          MaxLen     \* bound: bytes written for one unit

ASSUME SizesAssumption == /\ MINSIZE \in Nat
                          /\ Widths \subseteq Nat
                          /\ Junk \subseteq Nat
                          /\ MaxRun \in Nat
                          /\ MaxLen \in Nat
ASSUME ByteAssumption == 0 \in Byte /\ Uninit \notin Byte

NULL == 0

VARIABLES nodes,     \* the nodes allocated for this unit
          node,      \* the node the serializer holds
          credit,    \* bytes of the last reservation not yet written
          pc,        \* "write", "combine" or "free"
          rover,     \* list pointer of combineBuffers and freeBuffers
          copyPos,   \* curPos of combineBuffers
          result,    \* totalBuffer of combineBuffers
          length,    \* *length of combineBuffers
          written,   \* history: the bytes written for this unit
          start      \* history: offset in written at which a node begins

vars == <<nodes, node, credit, pc, rover, copyPos, result, length, written, start>>
ghosts == <<written, start>>
walk == <<rover, copyPos, result, length>>

\* buffer holds the bytes written so far; bufferLen is the room malloc gave.
NodeType == [buffer : Seq(Byte), bufferLen : Nat, totalLen : Nat, curPos : Nat,
             next : Nat, first : Nat, live : BOOLEAN]

-----------------------------------------------------------------------------
\* Mutant: every node gets the usual size.
NodeSizeFixed(size) == MINSIZE

NodeSize(size) == IF size > MINSIZE THEN size ELSE MINSIZE

\* unsigned long minus int, stored in an int: small values are exact.
SpaceLeft == nodes[node].bufferLen - nodes[node].curPos

\* Mutant: next is not set.
NewNodeUnlinked(size, total, first) ==
  [buffer |-> <<>>, bufferLen |-> NodeSize(size), totalLen |-> total, curPos |-> 0,
   next |-> total, first |-> first, live |-> TRUE]

\* Mutant: next is set like first.
NewNodeCyclic(size, total, first) ==
  [buffer |-> <<>>, bufferLen |-> NodeSize(size), totalLen |-> total, curPos |-> 0,
   next |-> first, first |-> first, live |-> TRUE]

NewNode(size, total, first) ==
  [buffer |-> <<>>, bufferLen |-> NodeSize(size), totalLen |-> total, curPos |-> 0,
   next |-> NULL, first |-> first, live |-> TRUE]

\* SerializeBufferAllocate: the node list with room for size bytes in node
\* here.  totalLen of a further node is not set: only the first node's is used.
Allocated(size, junk) ==
  IF node = NULL
  THEN [list |-> <<NewNode(size, 0, 1)>>, here |-> 1]
  ELSE IF SpaceLeft > size
  THEN [list |-> nodes, here |-> node]
  ELSE [list |-> Append([nodes EXCEPT ![node].next = Len(nodes) + 1],
                        NewNode(size, junk, nodes[node].first)),
        here |-> Len(nodes) + 1]

\* A write puts its bytes at curPos of its node n and moves curPos behind them,
Wrote(n, bytes) ==
  [n EXCEPT !.buffer = SubSeq(@, 1, n.curPos) \o bytes,
            !.curPos = @ + Len(bytes)]

\* and counts them in the first node.
Counted(n, bytes) == [n EXCEPT !.totalLen = @ + Len(bytes)]

\* Mutant: the total is kept in the node that is written.
StoredTotalHere(list, here, bytes) ==
  [list EXCEPT ![here] = Counted(Wrote(@, bytes), bytes)]

\* What every writebuffer function does to the node list it is handed.
Stored(list, here, bytes) ==
  LET moved == [list EXCEPT ![here] = Wrote(@, bytes)]
  IN  [moved EXCEPT ![list[here].first] = Counted(@, bytes)]

NoteStart(here) ==
  start' = IF here = node THEN start ELSE Append(start, Len(written))

\* Generated code reserves a run when it has written the one before.
SerializeBufferAllocate(size) ==
  /\ pc = "write" /\ credit = 0
  /\ Len(written) + size <= MaxLen
  /\ \E junk \in Junk :
       LET a == Allocated(size, junk)
       IN  nodes' = a.list /\ node' = a.here /\ NoteStart(a.here)
  /\ credit' = size
  /\ UNCHANGED <<pc, walk, written>>

\* Generated code writes no more than it reserved.
Write(bytes) ==
  /\ pc = "write" /\ node # NULL
  /\ Len(bytes) <= credit
  /\ nodes' = Stored(nodes, node, bytes)
  /\ credit' = credit - Len(bytes)
  /\ written' = written \o bytes
  /\ UNCHANGED <<node, pc, walk, start>>

writebufferInt(width) == \E bytes \in [1..width -> Byte] : Write(bytes)

writebufferOctetStr(len) == \E bytes \in [1..len -> Byte] : Write(bytes)

Nulls(len) == [k \in 1..len |-> 0]

\* Reserves for itself, on whatever node the caller holds.
writeNulls(len) ==
  /\ pc = "write" /\ credit = 0
  /\ Len(written) + len <= MaxLen
  /\ \E junk \in Junk :
       LET a == Allocated(len, junk)
       IN  /\ nodes' = Stored(a.list, a.here, Nulls(len))
           /\ node' = a.here
           /\ NoteStart(a.here)
  /\ written' = written \o Nulls(len)
  /\ UNCHANGED <<credit, pc, walk>>

-----------------------------------------------------------------------------
\* combineBuffers, one action per turn of its loop.  The early return for a
\* NULL node, when a serializer has reserved nothing at all, is left out.
First == nodes[node].first

\* Mutant: the buffer is sized by the node the caller holds.
CombineBeginHere ==
  /\ pc = "write" /\ node # NULL /\ credit = 0
  /\ result' = [k \in 1..nodes[node].totalLen |-> Uninit]
  /\ rover' = First
  /\ copyPos' = 0
  /\ pc' = "combine"
  /\ UNCHANGED <<nodes, node, credit, length, ghosts>>

CombineBegin ==
  /\ pc = "write" /\ node # NULL /\ credit = 0
  /\ result' = [k \in 1..nodes[First].totalLen |-> Uninit]
  /\ rover' = First
  /\ copyPos' = 0
  /\ pc' = "combine"
  /\ UNCHANGED <<nodes, node, credit, length, ghosts>>

\* Mutant: the last byte of each node is left out.
CopiedShort == [k \in DOMAIN result |->
                  IF k > copyPos /\ k - copyPos < nodes[rover].curPos
                  THEN nodes[rover].buffer[k - copyPos]
                  ELSE result[k]]

\* memcpy(totalBuffer + curPos, pointer->buffer, pointer->curPos)
Copied == [k \in DOMAIN result |->
             IF k > copyPos /\ k - copyPos <= nodes[rover].curPos
             THEN nodes[rover].buffer[k - copyPos]
             ELSE result[k]]

\* Mutant: the position in the result restarts at every node.
CombineCopyRestart ==
  /\ pc = "combine" /\ rover # NULL
  /\ result' = Copied
  /\ copyPos' = nodes[rover].curPos
  /\ rover' = nodes[rover].next
  /\ UNCHANGED <<nodes, node, credit, pc, length, ghosts>>

CombineCopy ==
  /\ pc = "combine" /\ rover # NULL
  /\ result' = Copied
  /\ copyPos' = copyPos + nodes[rover].curPos
  /\ rover' = nodes[rover].next
  /\ UNCHANGED <<nodes, node, credit, pc, length, ghosts>>

\* The caller compares the result with its input, then calls freeBuffers.
CombineReturn ==
  /\ pc = "combine" /\ rover = NULL
  /\ length' = nodes[First].totalLen
  /\ rover' = First
  /\ pc' = "free"
  /\ UNCHANGED <<nodes, node, credit, copyPos, result, ghosts>>

\* Mutant: only the node the caller holds is freed.
FreeNodeHere ==
  /\ pc = "free" /\ rover # NULL
  /\ rover' = NULL
  /\ nodes' = [nodes EXCEPT ![node].live = FALSE]
  /\ UNCHANGED <<node, credit, pc, copyPos, result, length, ghosts>>

\* freeBuffers: the successor is read before the node is freed.
FreeNode ==
  /\ pc = "free" /\ rover # NULL
  /\ rover' = nodes[rover].next
  /\ nodes' = [nodes EXCEPT ![rover].live = FALSE]
  /\ UNCHANGED <<node, credit, pc, copyPos, result, length, ghosts>>

\* The next packet's serializer starts from a NULL list.
NextUnit ==
  /\ pc = "free" /\ rover = NULL
  /\ nodes' = <<>> /\ node' = NULL
  /\ copyPos' = 0 /\ result' = <<>> /\ length' = 0
  /\ written' = <<>> /\ start' = <<>>
  /\ pc' = "write"
  /\ UNCHANGED <<credit, rover>>

-----------------------------------------------------------------------------
Init ==
  /\ nodes = <<>> /\ node = NULL /\ credit = 0
  /\ pc = "write"
  /\ rover = NULL /\ copyPos = 0 /\ result = <<>> /\ length = 0
  /\ written = <<>> /\ start = <<>>

Loop == CombineCopy \/ CombineReturn \/ FreeNode \/ NextUnit

Next ==
  \/ \E size \in 0..MaxRun : SerializeBufferAllocate(size)
  \/ \E width \in Widths : writebufferInt(width)
  \/ \E len \in 0..MaxRun : writebufferOctetStr(len)
  \/ \E len \in 0..MaxRun : writeNulls(len)
  \/ CombineBegin
  \/ Loop

Spec == Init /\ [][Next]_vars

\* The program is sequential and its loops keep running.
FairSpec == Spec /\ WF_vars(Loop)

-----------------------------------------------------------------------------
(* Properties *)

TypeOK ==
  /\ nodes \in Seq(NodeType)
  /\ node \in 0..Len(nodes)
  /\ credit \in Nat
  /\ pc \in {"write", "combine", "free"}
  /\ rover \in 0..Len(nodes)
  /\ copyPos \in Nat /\ length \in Nat
  /\ result \in Seq(Byte \cup {Uninit})
  /\ written \in Seq(Byte)
  /\ start \in Seq(Nat)

\* No write runs past the buffer of its node: what is written fits, and what
\* is reserved and not yet written still does (sutilities.c writes unchecked).
WritesFit ==
  /\ \A i \in 1..Len(nodes) : nodes[i].curPos <= nodes[i].bufferLen
  /\ node # NULL => credit <= SpaceLeft

\* totalLen of the first node counts the bytes of the whole list although
\* every write goes through some other node's first pointer.
TotalIsWritten == node # NULL => nodes[First].totalLen = Len(written)

\* combineBuffers copies into totalBuffer only inside what it allocated.
CopiesFit ==
  pc = "combine" /\ rover # NULL =>
    copyPos + nodes[rover].curPos <= Len(result)

\* What the caller gets is what was written, whole and in order.
CombinedIsWritten == pc = "free" => result = written /\ length = Len(written)

\* freeBuffers frees every node of the list, and none that is free already.
FreesEachOnce ==
  /\ pc = "free" /\ rover # NULL => nodes[rover].live
  /\ pc = "free" /\ rover = NULL => \A i \in 1..Len(nodes) : ~nodes[i].live

\* Combining and freeing reach the end of the list.
LoopsEnd == pc # "write" ~> pc = "write"

\* The buffer implements the append-only log of its callers.
Log == INSTANCE ByteLog WITH
         log <- IF pc = "free" THEN <<>> ELSE written,
         delivered <- IF pc = "free" THEN result ELSE <<>>

ImplementsLog == Log!Spec
=============================================================================
