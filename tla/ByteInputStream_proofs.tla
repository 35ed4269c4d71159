----------------------- MODULE ByteInputStream_proofs -----------------------
(***************************************************************************)
(* The stream hands out the bytes of the packet for every packet, every    *)
(* width of size_t and every use that a lexer makes of it.  The argument:  *)
(* the stream holds what memory holds after the header, position by        *)
(* position, and a seek is bound for no place outside it.                  *)
(***************************************************************************)
EXTENDS ByteInputStream, SequenceTheorems, TLAPS

States == {"new", "parsing", "thrown", "aborted", "deleted"}

\* The positions are inside the data, in their order.
Placed ==
  /\ p \in 0..size
  /\ start \in 0..p
  /\ target \in {-1} \cup p..size

\* The data are memory, byte by byte, and so are the tokens.
Holds ==
  /\ _data \in Seq(Byte)
  /\ \A k \in 1..size : _data[k] = Memory(k)
  /\ tokens \in Seq(Byte)
  /\ Len(tokens) = start
  /\ \A k \in 1..start : tokens[k] = Memory(k)

IInv ==
  /\ packet \in Packets
  /\ state \in States
  /\ state = "new" => p = 0 /\ start = 0 /\ target = -1
  /\ Placed
  /\ Holds

-----------------------------------------------------------------------------
LEMMA MinOfTwo ==
  ASSUME NEW a \in Int, NEW b \in Int
  PROVE  Min({a, b}) = IF a <= b THEN a ELSE b
<1> DEFINE m == IF a <= b THEN a ELSE b
<1>1. m \in {a, b} /\ \A y \in {a, b} : m <= y
  OBVIOUS
<1>2. \A x \in {a, b} : (\A y \in {a, b} : x <= y) => x = m
  OBVIOUS
<1> QED
  BY <1>1, <1>2 DEF Min

LEMMA MemoryIsByte ==
  ASSUME packet \in Packets, NEW k \in Nat \ {0}
  PROVE  Memory(k) \in Byte
<1>1. packet.bytes \in Seq(Byte) /\ Beyond \in Byte
  BY StreamAssumption
<1> QED
  BY <1>1, ElementOfSeq DEF Memory

\* The text of a token is the stretch of memory it was read from.
LEMMA TextIsMemory ==
  ASSUME IInv, NEW index \in start + 1..p
  PROVE  /\ getText(start, index - 1) \in Seq(Byte)
         /\ Len(getText(start, index - 1)) = index - start
         /\ \A k \in 1..index - start :
              getText(start, index - 1)[k] = Memory(start + k)
<1> DEFINE n == index - start
           text == [k \in 1..n |-> Narrow(_data[start + k])]
<1>1. size \in Nat /\ start \in Nat /\ p \in Nat /\ index <= size /\ n \in Nat
  BY LenProperties DEF IInv, Placed, Holds, size
<1>2. Min({index - 1, size - 1}) = index - 1
  BY <1>1, MinOfTwo
<1>3. getText(start, index - 1) = text
  <2> DEFINE last == Min({index - 1, size - 1}) - start + 1
  <2>1. ~(start < 0 \/ index - 1 < 0 \/ start >= size)
    BY <1>1
  <2>2. getText(start, index - 1) = [k \in 1..last |-> Narrow(_data[start + k])]
    BY <2>1, Zenon DEF getText
  <2>3. last = n
    BY <1>1, <1>2
  <2> HIDE DEF last, n
  <2> QED
    BY <2>2, <2>3
<1>4. \A k \in 1..n : _data[start + k] = Memory(start + k) /\ Memory(start + k) \in Byte
  BY <1>1, MemoryIsByte DEF IInv, Holds
<1>5. \A k \in 1..n : text[k] = Memory(start + k) /\ text[k] \in Byte
  <2>1. \A byte \in Byte : Narrow(byte) = byte
    BY DEF Narrow, Byte
  <2> QED
    BY <1>4, <2>1
<1>6. text \in Seq(Byte) /\ Len(text) = n
  BY <1>1, <1>5
<1> QED
  BY <1>3, <1>5, <1>6

-----------------------------------------------------------------------------
LEMMA InitIInv == Init => IInv
<1> SUFFICES ASSUME Init PROVE IInv
  OBVIOUS
<1>1. size = 0 /\ _data \in Seq(Byte) /\ tokens \in Seq(Byte)
  BY EmptySeq DEF Init, size
<1> QED
  BY <1>1 DEF Init, IInv, States, Placed, Holds

LEMMA LoadIInv == IInv /\ load => IInv'
<1> SUFFICES ASSUME IInv, load PROVE IInv'
  OBVIOUS
<1> DEFINE bytes == [k \in 1..data_len |-> Wide(Memory(k))]
<1>1. data_len \in Nat
  <2>1. packet.uh_ulen \in Nat /\ SizeT \in Nat \ {0}
    BY StreamAssumption DEF IInv
  <2> QED
    BY <2>1 DEF data_len
<1>2. \A k \in 1..data_len : bytes[k] = Memory(k) /\ Memory(k) \in Byte
  BY <1>1, MemoryIsByte DEF IInv, Wide
<1>3. bytes \in Seq(Byte) /\ Len(bytes) = data_len
  BY <1>1, <1>2
<1>4. /\ _data' = bytes /\ p' = 0 /\ start' = 0 /\ target' = -1 /\ start = 0
      /\ packet' = packet /\ tokens' = tokens /\ state' = "parsing"
  BY DEF load, IInv
<1>5. \A k : Memory(k)' = Memory(k)
  BY <1>4 DEF Memory
<1>6. size' = data_len
  BY <1>3, <1>4 DEF size
<1>7. Placed'
  BY <1>1, <1>4, <1>6 DEF Placed
<1>8. Holds'
  <2>1. _data' \in Seq(Byte) /\ \A k \in 1..size' : _data'[k] = Memory(k)'
    BY <1>2, <1>3, <1>4, <1>5, <1>6
  <2>2. tokens' \in Seq(Byte) /\ Len(tokens') = start'
    BY <1>4 DEF Holds, IInv
  <2>3. \A k \in 1..start' : tokens'[k] = Memory(k)'
    BY <1>4
  <2> QED
    BY <2>1, <2>2, <2>3 DEF Holds
<1> QED
  BY <1>4, <1>7, <1>8 DEF IInv, States

LEMMA AcceptIInv == IInv /\ Accept => IInv'
<1> SUFFICES ASSUME IInv, Accept PROVE IInv'
  OBVIOUS
<1>1. PICK index \in start + 1..p :
        /\ p' = index
        /\ tokens' = tokens \o getText(start, index - 1)
        /\ start' = index
  BY DEF Accept
<1> DEFINE text == getText(start, index - 1)
<1>2. /\ packet' = packet /\ state' = state /\ _data' = _data
      /\ target' = target /\ target = -1 /\ state = "parsing"
  BY DEF Accept, Parsing
<1>3. \A k : Memory(k)' = Memory(k)
  BY <1>2 DEF Memory
<1>4. size' = size /\ size \in Nat /\ start \in Nat /\ index \in Nat /\ index <= size
  BY <1>1, <1>2, LenProperties DEF size, IInv, Placed, Holds
<1>5. /\ text \in Seq(Byte) /\ Len(text) = index - start
      /\ \A k \in 1..index - start : text[k] = Memory(start + k)
  BY TextIsMemory
<1>6. tokens \in Seq(Byte) /\ Len(tokens) = start
  BY DEF IInv, Holds
<1> HIDE DEF text
<1>7. tokens' \in Seq(Byte) /\ Len(tokens') = index
  <2>1. tokens \o text \in Seq(Byte) /\ Len(tokens \o text) = Len(tokens) + Len(text)
    BY <1>5, <1>6, ConcatProperties
  <2>2. tokens' = tokens \o text
    BY <1>1 DEF text
  <2> QED
    BY <1>4, <1>5, <1>6, <2>1, <2>2
<1>8. \A k \in 1..index : tokens'[k] = Memory(k)
  <2> SUFFICES ASSUME NEW k \in 1..index PROVE tokens'[k] = Memory(k)
    OBVIOUS
  <2>1. tokens'[k] = IF k <= start THEN tokens[k] ELSE text[k - start]
    <3>1. tokens' = tokens \o text /\ k \in 1..Len(tokens) + Len(text)
      BY <1>1, <1>4, <1>5, <1>6 DEF text
    <3> QED
      BY <1>5, <1>6, <3>1, ConcatProperties
  <2>2. CASE k <= start
    BY <2>1, <2>2, <1>4 DEF IInv, Holds
  <2>3. CASE k > start
    <3>1. k - start \in 1..index - start /\ start + (k - start) = k
      BY <1>4, <2>3
    <3> QED
      BY <2>1, <2>3, <3>1, <1>4, <1>5
  <2> QED
    BY <2>2, <2>3, <1>4
<1>9. Placed'
  BY <1>1, <1>2, <1>4 DEF Placed
<1>10. Holds'
  BY <1>1, <1>2, <1>3, <1>4, <1>7, <1>8 DEF Holds, IInv
<1> QED
  BY <1>2, <1>9, <1>10 DEF IInv

\* What moves the position and no more.
LEMMA MoveIInv ==
  ASSUME IInv,
         UNCHANGED <<packet, _data, start, tokens>>,
         state' \in States \ {"new"} \/ UNCHANGED <<state, p, target>>,
         p' \in start..size,
         target' \in {-1} \cup p'..size
  PROVE  IInv'
<1>1. \A k : Memory(k)' = Memory(k)
  BY DEF Memory
<1>2. size' = size /\ size \in Nat /\ start \in Nat
  BY LenProperties DEF size, IInv, Placed, Holds
<1>3. Placed'
  BY <1>2 DEF Placed
<1>4. Holds'
  BY <1>1, <1>2 DEF Holds, IInv
<1> QED
  BY <1>3, <1>4 DEF IInv

LEMMA NextIInv == IInv /\ [Next]_vars => IInv'
<1> SUFFICES ASSUME IInv, [Next]_vars PROVE IInv'
  OBVIOUS
<1> USE DEF States
<1>0. /\ size \in Nat /\ p \in 0..size /\ start \in 0..p
      /\ target \in {-1} \cup p..size /\ state \in States
  BY LenProperties DEF size, IInv, Placed, Holds
<1>1. CASE MallocFails
  BY <1>0, <1>1, MoveIInv DEF MallocFails
<1>2. CASE load
  BY <1>2, LoadIInv
<1>3. CASE consume
  BY <1>0, <1>3, MoveIInv DEF consume, Parsing
<1>4. CASE SeekBack
  BY <1>0, <1>4, MoveIInv DEF SeekBack, Parsing
<1>5. CASE SeekForward
  <2>1. PICK index \in p + 1..size + 1 : target' = Min({index, size})
    BY <1>5 DEF SeekForward
  <2>2. target' \in p..size
    BY <1>0, <2>1, MinOfTwo
  <2> QED
    BY <1>0, <1>5, <2>2, MoveIInv DEF SeekForward, Parsing
<1>6. CASE SeekConsumes
  BY <1>0, <1>6, MoveIInv DEF SeekConsumes
<1>7. CASE Accept
  BY <1>7, AcceptIInv
<1>8. CASE reset
  <2>1. /\ p' = 0 /\ start' = 0 /\ tokens' = <<>> /\ target' = -1
        /\ UNCHANGED <<packet, state, _data>> /\ state = "parsing"
    BY <1>8 DEF reset, Parsing
  <2>2. size' = size /\ \A k : Memory(k)' = Memory(k)
    BY <2>1 DEF size, Memory
  <2>3. tokens' \in Seq(Byte) /\ Len(tokens') = 0
    BY <2>1, EmptySeq
  <2>4. Placed' /\ Holds'
    BY <1>0, <2>1, <2>2, <2>3 DEF Placed, Holds, IInv
  <2> QED
    BY <2>1, <2>4 DEF IInv
<1>9. CASE Delete
  BY <1>0, <1>9, MoveIInv DEF Delete, Parsing
<1>10. CASE UNCHANGED vars
  BY <1>0, <1>10, MoveIInv DEF vars
<1> QED
  BY <1>1, <1>2, <1>3, <1>4, <1>5, <1>6, <1>7, <1>8, <1>9, <1>10
     DEF Next, Stopped

\* The stream always holds the memory behind the header, and its positions
\* are inside it.
THEOREM StreamInvariance == Spec => []IInv
<1> QED
  BY InitIInv, NextIInv, PTL DEF Spec

\* The type invariant, for every packet and every size_t.
THEOREM StreamTypeCorrect == Spec => []TypeOK
<1>1. IInv => TypeOK
  <2> SUFFICES ASSUME IInv PROVE TypeOK
    OBVIOUS
  <2>1. size \in Nat /\ p \in 0..size
    BY LenProperties DEF size, IInv, Placed, Holds
  <2>2. \A k \in 1..Len(tokens) : tokens[k] \in Byte
    BY ElementOfSeq DEF IInv, Holds
  <2> QED
    BY <2>1, <2>2 DEF TypeOK, IInv, Placed, States
<1> QED
  BY <1>1, StreamInvariance, PTL

\* Whatever the lexer looks at, wherever it is, is the byte of the packet at
\* that distance, or the end outside the packet (LA).
THEOREM LookaheadIsPacket == Spec => []LooksAtPacket
<1>1. IInv => LooksAtPacket
  <2> SUFFICES ASSUME IInv, NEW i \in (-size - 1..size + 1) \ {0}
               PROVE  LET position == IF i > 0 THEN p + i ELSE p + i + 1
                      IN LA(i) = IF position \in 1..size THEN Memory(position)
                                 ELSE EOF
    BY DEF LooksAtPacket
  <2>1. size \in Nat /\ p \in 0..size
    BY LenProperties DEF size, IInv, Placed, Holds
  <2>2. \A k \in 1..size : _data[k] = Memory(k)
    BY DEF IInv, Holds
  <2>3. CASE i > 0
    BY <2>1, <2>2, <2>3 DEF LA
  <2>4. CASE i < 0
    BY <2>1, <2>2, <2>4 DEF LA
  <2> QED
    BY <2>1, <2>3, <2>4
<1> QED
  BY <1>1, StreamInvariance, PTL

\* The tokens are the packet up to where the next one begins, however the
\* lexer looks ahead, jumps and goes back (consume, seek, getText).
THEOREM TokensTilePacket == Spec => []TokensArePacket
<1>1. IInv => TokensArePacket
  <2> SUFFICES ASSUME IInv PROVE TokensArePacket
    OBVIOUS
  <2>1. /\ tokens \in Seq(Byte) /\ Len(tokens) = start
        /\ \A k \in 1..start : tokens[k] = Memory(k)
    BY DEF IInv, Holds
  <2>2. tokens = [k \in 1..start |-> tokens[k]]
    BY <2>1, LenProperties
  <2> QED
    BY <2>1, <2>2 DEF TokensArePacket
<1> QED
  BY <1>1, StreamInvariance, PTL

-----------------------------------------------------------------------------
(***************************************************************************)
(* Short packets.                                                          *)
(***************************************************************************)
LEMMA Wraps ==
  ASSUME NEW n \in Nat \ {0}, NEW r \in 0..n - 1
  PROVE  r % n = r /\ (r - n) % n = r /\ (3 * n + r) % n = r
OBVIOUS

\* The length of a short packet wraps to within 32 bytes of size_t when load
\* multiplies it by four, which is more than there is to give.
LEMMA ShortIsRefused ==
  ASSUME packet \in Packets, packet.uh_ulen < 8
  PROVE  (4 * data_len) % SizeT > Heap
<1> DEFINE short == 8 - packet.uh_ulen
<1>1. /\ SizeT \in Nat \ {0} /\ packet.uh_ulen \in Nat /\ Heap \in Nat
      /\ Heap < SizeT - 32
  BY StreamAssumption, HeapAssumption
<1>2. short \in 1..8
  BY <1>1
<1>3. data_len = SizeT - short
  <2>1. data_len = (packet.uh_ulen - 8) % SizeT
    BY DEF data_len
  <2>2. SizeT - short \in 0..SizeT - 1 /\ (SizeT - short) - SizeT = packet.uh_ulen - 8
    BY <1>1, <1>2
  <2>3. ((SizeT - short) - SizeT) % SizeT = SizeT - short
    BY <1>1, <2>2, Wraps
  <2> QED
    BY <2>1, <2>2, <2>3
<1> HIDE DEF short
<1>4. SizeT - 4 * short \in 0..SizeT - 1 /\ SizeT - 4 * short > Heap
  BY <1>1, <1>2
<1>5. 4 * data_len = 3 * SizeT + (SizeT - 4 * short)
  BY <1>1, <1>2, <1>3
<1>6. (3 * SizeT + (SizeT - 4 * short)) % SizeT = SizeT - 4 * short
  BY <1>1, <1>4, Wraps
<1> QED
  BY <1>4, <1>5, <1>6

LEMMA LoadNeverShort ==
  ASSUME IInv, load
  PROVE  ShortNeverParsed'
<1>1. packet \in Packets /\ packet' = packet
  BY DEF IInv, load
<1>2. packet.uh_ulen \in Nat /\ SizeT \in Nat \ {0} /\ packet.uh_ulen < SizeT
  BY <1>1, StreamAssumption, HeapAssumption
<1>3. packet.uh_ulen >= 8
  <2> SUFFICES ASSUME packet.uh_ulen < 8 PROVE FALSE
    BY <1>2
  <2>1. (4 * data_len) % SizeT > Heap
    BY <1>1, ShortIsRefused
  <2>2. (4 * data_len) % SizeT <= Heap /\ Heap \in Nat
    BY StreamAssumption DEF load
  <2>3. 4 * data_len \in Int
    BY <1>2 DEF data_len
  <2> QED
    BY <1>2, <2>1, <2>2, <2>3
<1>4. data_len = packet.uh_ulen - 8
  <2>1. packet.uh_ulen - 8 \in 0..SizeT - 1
    BY <1>2, <1>3
  <2> QED
    BY <1>2, <2>1, Wraps DEF data_len
<1>5. size' = data_len
  <2>1. _data' = [k \in 1..data_len |-> Wide(Memory(k))] /\ data_len \in Nat
    BY <1>2, <1>3, <1>4 DEF load
  <2> QED
    BY <2>1 DEF size
<1> QED
  BY <1>1, <1>3, <1>4, <1>5 DEF ShortNeverParsed

\* Whatever is parsed has the length that its header announces; a header that
\* announces less than itself never reaches the parser (pmain.cpp, load).
THEOREM ShortIsNeverParsed == Spec => []ShortNeverParsed
<1>1. Init => ShortNeverParsed
  BY DEF Init, ShortNeverParsed
<1>2. IInv /\ ShortNeverParsed /\ [Next]_vars => ShortNeverParsed'
  <2> SUFFICES ASSUME IInv, ShortNeverParsed, [Next]_vars PROVE ShortNeverParsed'
    OBVIOUS
  <2>1. CASE load
    BY <2>1, LoadNeverShort
  <2>2. CASE ~load
    <3>1. packet' = packet /\ _data' = _data
      BY <2>2 DEF Next, vars, MallocFails, consume, SeekBack, SeekForward,
                  SeekConsumes, Accept, reset, Delete, Stopped
    <3>2. state' = "parsing" => state = "parsing"
      BY <2>2 DEF Next, vars, MallocFails, consume, SeekBack, SeekForward,
                  SeekConsumes, Accept, reset, Delete, Stopped, Parsing
    <3> QED
      BY <3>1, <3>2 DEF ShortNeverParsed, size
  <2> QED
    BY <2>1, <2>2
<1> QED
  BY <1>1, <1>2, StreamInvariance, PTL DEF Spec
=============================================================================
