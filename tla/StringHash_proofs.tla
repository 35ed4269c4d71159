-------------------------- MODULE StringHash_proofs --------------------------
(***************************************************************************)
(* The table interns strings for every set of strings, size of the table   *)
(* and hash function.  The argument is that of open addressing: an entry   *)
(* stands behind an unbroken chain of other entries, which starts one      *)
(* behind the slot that its string hashes to, so probing for a string that *)
(* is in the table finds it before a free slot.                            *)
(*                                                                         *)
(* At the end stands the reader of packet files, the other part that is    *)
(* linked with the SCL parser and called by nothing in the repository.     *)
(***************************************************************************)
EXTENDS StringHash, TLAPS

\* How many slots are looked at until slot i, when probing starts behind h;
\* h itself would be the last one.
Distance(h, i) == IF i > h THEN i - h ELSE i - h + hashTableSize

\* The slots looked at before i.
Before(h, i) == {j \in Slot : Distance(h, j) < Distance(h, i)}

TypeOK ==
  /\ hash \in [Str -> Slot]
  /\ hashTable \in [Slot -> Str \cup {NULL}]
  /\ pc \in {"idle", "probe", "exit"}
  /\ pc # "idle" => str \in Str
  /\ startpos \in Slot /\ pos \in Slot
  /\ returned \subseteq Str \X Slot

\* No chain has a gap or its own string in it.
Chained ==
  \A i \in Slot : hashTable[i] # NULL =>
    \A j \in Before(hash[hashTable[i]], i) : hashTable[j] \notin {NULL, hashTable[i]}

\* The indices given out are the entries.
AllReturned ==
  \A s \in Str, i \in Slot : <<s, i>> \in returned <=> hashTable[i] = s

\* The slots looked at hold other strings.
Probed ==
  pc # "idle" =>
    /\ startpos = hash[str]
    /\ \A j \in Before(startpos, pos) : hashTable[j] \notin {NULL, str}

Ended == pc = "exit" => pos = startpos

IInv == TypeOK /\ Chained /\ AllReturned /\ Probed /\ Ended

-----------------------------------------------------------------------------
(* Slots and the order in which they are looked at *)

LEMMA NextSlot ==
  ASSUME NEW i \in Slot
  PROVE  (i + 1) % hashTableSize = IF i + 1 = hashTableSize THEN 0 ELSE i + 1
<1>1. hashTableSize \in Nat \ {0, 1}
  BY StringHashAssumption
<1>2. CASE i + 1 = hashTableSize
  BY <1>1, <1>2, SMT DEF Slot
<1>3. CASE i + 1 # hashTableSize
  BY <1>1, <1>3, SMT DEF Slot
<1> QED
  BY <1>2, <1>3

LEMMA ProbeStart ==
  ASSUME NEW h \in Slot
  PROVE  /\ (h + 1) % hashTableSize \in Slot
         /\ Before(h, (h + 1) % hashTableSize) = {}
  BY StringHashAssumption, NextSlot DEF Slot, Before, Distance

LEMMA ProbeStep ==
  ASSUME NEW h \in Slot, NEW i \in Slot, i # h
  PROVE  /\ (i + 1) % hashTableSize \in Slot
         /\ Before(h, (i + 1) % hashTableSize) = Before(h, i) \cup {i}
<1>1. /\ (i + 1) % hashTableSize \in Slot
      /\ Distance(h, (i + 1) % hashTableSize) = Distance(h, i) + 1
  BY StringHashAssumption, NextSlot DEF Slot, Distance
<1>2. \A j \in Slot : Distance(h, j) \in Int
  BY StringHashAssumption DEF Slot, Distance
<1>3. \A j \in Slot : Distance(h, j) = Distance(h, i) => j = i
  BY StringHashAssumption DEF Slot, Distance
<1> QED
  BY <1>1, <1>2, <1>3 DEF Before

\* Of two slots one is looked at before the other.
LEMMA OneIsBefore ==
  ASSUME NEW h \in Slot, NEW i \in Slot, NEW j \in Slot, i # j
  PROVE  i \in Before(h, j) \/ j \in Before(h, i)
  BY StringHashAssumption DEF Slot, Before, Distance

\* Probing has come around when it is back where it started.
LEMMA RoundTable ==
  ASSUME NEW h \in Slot
  PROVE  Before(h, h) = Slot \ {h}
  BY StringHashAssumption DEF Slot, Before, Distance

-----------------------------------------------------------------------------
(* The inductive invariant *)

\* While its string is looked for and a free slot was reached, an entry of
\* that string is nowhere.
LEMMA AbsentIfFree ==
  ASSUME IInv, pc = "probe", hashTable[pos] = NULL
  PROVE  \A j \in Slot : hashTable[j] # str
<1> SUFFICES ASSUME NEW j \in Slot, hashTable[j] = str
             PROVE  FALSE
  OBVIOUS
<1>1. str \in Str /\ str # NULL /\ pos \in Slot /\ startpos \in Slot
      /\ startpos = hash[str] /\ j # pos
  BY StringHashAssumption DEF IInv, TypeOK, Probed
<1>2. CASE j \in Before(startpos, pos)
  BY <1>2 DEF IInv, Probed
<1>3. CASE pos \in Before(startpos, j)
  BY <1>1, <1>3 DEF IInv, Chained
<1> QED
  BY <1>1, <1>2, <1>3, OneIsBefore

LEMMA InitIInv == Init => IInv
<1> SUFFICES ASSUME Init PROVE IInv
  OBVIOUS
<1> USE DEF Init
<1>1. TypeOK
  BY StringHashAssumption DEF TypeOK, Slot
<1>2. Chained /\ AllReturned
  BY StringHashAssumption DEF Chained, AllReturned
<1> QED
  BY <1>1, <1>2 DEF IInv, Probed, Ended

LEMMA ClearStep ==
  ASSUME IInv, initStringHash
  PROVE  IInv'
<1> USE DEF initStringHash, call
<1>1. TypeOK'
  BY DEF IInv, TypeOK
<1>2. Chained' /\ AllReturned'
  BY StringHashAssumption DEF IInv, TypeOK, Chained, AllReturned
<1> QED
  BY <1>1, <1>2 DEF IInv, Probed, Ended

LEMMA CallStep ==
  ASSUME IInv, NEW s \in Str, Call(s)
  PROVE  IInv'
<1>1. /\ hash[s] \in Slot /\ startpos' = hash[s] /\ str' = s
      /\ pos' = (hash[s] + 1) % hashTableSize
      /\ UNCHANGED <<hash, hashTable, returned>> /\ pc' = "probe"
  BY DEF Call, IInv, TypeOK
<1>2. pos' \in Slot /\ Before(startpos', pos') = {}
  BY <1>1, ProbeStart
<1>3. TypeOK'
  BY <1>1, <1>2 DEF IInv, TypeOK
<1>4. Chained' /\ AllReturned'
  BY <1>1 DEF IInv, Chained, AllReturned, Before
<1>5. Probed'
  BY <1>1, <1>2 DEF Probed, Before
<1> QED
  BY <1>1, <1>3, <1>4, <1>5 DEF IInv, Ended

LEMMA FullStep ==
  ASSUME IInv, Full
  PROVE  IInv'
<1> USE DEF Full, call
<1>1. TypeOK'
  BY DEF IInv, TypeOK
<1>2. Chained' /\ AllReturned' /\ Probed' /\ Ended'
  BY DEF IInv, Chained, AllReturned, Probed, Ended, Before
<1> QED
  BY <1>1, <1>2 DEF IInv

LEMMA InsertStep ==
  ASSUME IInv, Insert
  PROVE  IInv'
<1>1. /\ pc = "probe" /\ pc' = "idle" /\ pos # startpos /\ hashTable[pos] = NULL
      /\ hashTable' = [hashTable EXCEPT ![pos] = str]
      /\ returned' = returned \cup {<<str, pos>>}
      /\ UNCHANGED <<hash, str, startpos, pos>>
  BY DEF Insert, ReturnPos, call
<1>2. /\ str \in Str /\ str # NULL /\ pos \in Slot
      /\ hashTable \in [Slot -> Str \cup {NULL}]
      /\ hash \in [Str -> Slot] /\ startpos = hash[str]
  BY <1>1, StringHashAssumption DEF IInv, TypeOK, Probed
<1>3. \A j \in Slot : hashTable'[j] = IF j = pos THEN str ELSE hashTable[j]
  BY <1>1, <1>2
<1>4. TypeOK'
  BY <1>1, <1>2 DEF IInv, TypeOK
<1>5. \A j \in Slot : hashTable[j] # str
  BY <1>1, AbsentIfFree
<1>6. Chained'
  <2> SUFFICES ASSUME NEW i \in Slot, hashTable'[i] # NULL,
                      NEW j \in Before(hash[hashTable'[i]], i)
               PROVE  hashTable'[j] \notin {NULL, hashTable'[i]}
    BY <1>1 DEF Chained, Before
  <2>1. j \in Slot
    BY DEF Before
  <2>2. CASE i = pos
    <3>1. hashTable'[i] = str /\ j \in Before(startpos, pos)
      BY <1>2, <1>3, <2>2
    <3>2. j # pos
      BY <1>2, <2>1, <2>2, <3>1, StringHashAssumption DEF Before, Distance, Slot
    <3> QED
      BY <1>1, <1>3, <2>1, <3>1, <3>2 DEF IInv, Probed
  <2>3. CASE i # pos
    <3>1. hashTable'[i] = hashTable[i] /\ hashTable[j] \notin {NULL, hashTable[i]}
      BY <1>3, <2>3 DEF IInv, Chained
    <3> QED
      BY <1>2, <1>3, <1>5, <2>1, <3>1
  <2> QED
    BY <2>2, <2>3
<1>7. AllReturned'
  <2>1. \A s \in Str, i \in Slot : <<s, i>> \in returned <=> hashTable[i] = s
    BY DEF IInv, AllReturned
  <2>2. \A s \in Str : s # NULL
    BY StringHashAssumption
  <2> QED
    BY <1>1, <1>2, <1>3, <1>5, <2>1, <2>2 DEF AllReturned
<1> QED
  BY <1>1, <1>4, <1>6, <1>7 DEF IInv, Probed, Ended

LEMMA FoundStep ==
  ASSUME IInv, Found
  PROVE  IInv' /\ returned' = returned
<1>1. returned' = returned
  BY DEF Found, ReturnPos, IInv, TypeOK, AllReturned
<1>2. TypeOK'
  BY <1>1 DEF Found, ReturnPos, call, IInv, TypeOK
<1>3. Chained' /\ AllReturned' /\ Probed' /\ Ended'
  BY <1>1 DEF Found, ReturnPos, call, IInv, Chained, AllReturned, Probed, Ended, Before
<1> QED
  BY <1>1, <1>2, <1>3 DEF IInv

LEMMA CollideStep ==
  ASSUME IInv, Collide
  PROVE  IInv'
<1>1. /\ pc = "probe" /\ pos # startpos /\ hashTable[pos] \notin {NULL, str}
      /\ pos' = (pos + 1) % hashTableSize
      /\ UNCHANGED <<hash, hashTable, pc, str, startpos, returned>>
  BY DEF Collide
<1>2. startpos \in Slot /\ pos \in Slot
  BY DEF IInv, TypeOK
<1>3. pos' \in Slot /\ Before(startpos, pos') = Before(startpos, pos) \cup {pos}
  BY <1>1, <1>2, ProbeStep
<1>4. TypeOK'
  BY <1>1, <1>3 DEF IInv, TypeOK
<1>5. Chained' /\ AllReturned'
  BY <1>1 DEF IInv, Chained, AllReturned, Before
<1>6. Probed'
  BY <1>1, <1>3 DEF IInv, Probed, Before
<1> QED
  BY <1>1, <1>4, <1>5, <1>6 DEF IInv, Ended

\* The invariant holds initially and through every call of the table.
THEOREM TableInvariance == Spec => []IInv
<1>1. IInv /\ [Next]_vars => IInv'
  <2> SUFFICES ASSUME IInv, [Next]_vars
               PROVE  IInv'
    OBVIOUS
  <2>1. CASE pc = "exit" /\ UNCHANGED vars
    BY <2>1 DEF vars, call, IInv, TypeOK, Chained, AllReturned, Probed, Ended, Before
  <2>2. CASE UNCHANGED vars
    BY <2>2 DEF vars, call, IInv, TypeOK, Chained, AllReturned, Probed, Ended, Before
  <2> QED
    BY <2>1, <2>2, ClearStep, CallStep, FullStep, InsertStep, FoundStep, CollideStep
       DEF Next, hashForString, Done
<1> QED
  BY <1>1, InitIInv, PTL DEF Spec

-----------------------------------------------------------------------------
(* What follows from it *)

\* An index given out leads back to its string (stringForHash) until the next
\* initialisation, whatever was inserted since.
THEOREM IndicesLeadBack == Spec => []IndexLeadsBack
<1>1. IInv => IndexLeadsBack
  BY DEF IInv, TypeOK, AllReturned, IndexLeadsBack
<1> QED
  BY <1>1, TableInvariance, PTL

\* "Hash table full" is said only when every slot but one holds another
\* string.
THEOREM FullMeansFull == Spec => []FullButOne
<1>1. IInv => FullButOne
  <2> SUFFICES ASSUME IInv, pc = "exit"
               PROVE  \A i \in Slot \ {startpos} : hashTable[i] \notin {NULL, str}
    BY DEF FullButOne
  <2>1. startpos \in Slot /\ pos = startpos
    BY DEF IInv, TypeOK, Ended
  <2> QED
    BY <2>1, RoundTable DEF IInv, Probed
<1> QED
  BY <1>1, TableInvariance, PTL

-----------------------------------------------------------------------------
(* The refinement of InternTable *)

\* No string with two indices.
Functional(pairs) ==
  /\ pairs \subseteq Str \X Slot
  /\ \A s \in Str, i, j \in Slot : <<s, i>> \in pairs /\ <<s, j>> \in pairs => i = j

\* Then the mapping has nothing to choose.
LEMMA IndexIsPairs ==
  ASSUME NEW pairs, Functional(pairs)
  PROVE  /\ DOMAIN IndexOf(pairs) = {s \in Str : \E i \in Slot : <<s, i>> \in pairs}
         /\ IndexOf(pairs) \in [DOMAIN IndexOf(pairs) -> Slot]
         /\ \A s \in Str, i \in Slot : <<s, i>> \in pairs => IndexOf(pairs)[s] = i
<1>1. DOMAIN IndexOf(pairs) = {r[1] : r \in pairs}
  BY DEF IndexOf
<1>2. ASSUME NEW s \in Str, NEW i \in Slot, <<s, i>> \in pairs
      PROVE  s \in {r[1] : r \in pairs} /\ IndexOf(pairs)[s] = i
  <2>1. s \in {r[1] : r \in pairs}
    <3>1. <<s, i>>[1] = s
      OBVIOUS
    <3> QED
      BY <1>2, <3>1
  <2>2. IndexOf(pairs)[s] = CHOOSE k \in Slot : <<s, k>> \in pairs
    BY <2>1 DEF IndexOf
  <2> QED
    BY <1>2, <2>1, <2>2 DEF Functional
<1>3. ASSUME NEW r \in pairs
      PROVE  r[1] \in Str /\ \E i \in Slot : <<r[1], i>> \in pairs
  BY DEF Functional
<1>4. DOMAIN IndexOf(pairs) = {s \in Str : \E i \in Slot : <<s, i>> \in pairs}
  <2> DEFINE D == {r[1] : r \in pairs}
             E == {s \in Str : \E i \in Slot : <<s, i>> \in pairs}
  <2>1. \A s \in D : s \in E
    BY <1>3
  <2>2. \A s \in E : s \in D
    BY <1>2
  <2> HIDE DEF D, E
  <2>3. D = E
    BY <2>1, <2>2
  <2> QED
    BY <1>1, <2>3 DEF D, E
<1>5. IndexOf(pairs) \in [DOMAIN IndexOf(pairs) -> Slot]
  <2> DEFINE e(s) == CHOOSE i \in Slot : <<s, i>> \in pairs
             D == {r[1] : r \in pairs}
  <2>1. \A s \in D : e(s) \in Slot
    BY <1>3
  <2>2. IndexOf(pairs) = [s \in D |-> e(s)]
    BY DEF IndexOf
  <2> HIDE DEF e, D
  <2>3. IndexOf(pairs) \in [D -> Slot]
    BY <2>1, <2>2
  <2> QED
    BY <1>1, <2>3 DEF D
<1> QED
  BY <1>2, <1>4, <1>5

\* A string has one entry.
LEMMA ReturnedFunctional ==
  ASSUME IInv
  PROVE  Functional(returned)
<1> SUFFICES ASSUME NEW s \in Str, NEW i \in Slot, NEW j \in Slot,
                    <<s, i>> \in returned, <<s, j>> \in returned, i # j
             PROVE  FALSE
  BY DEF Functional, IInv, TypeOK
<1>1. hashTable[i] = s /\ hashTable[j] = s /\ s # NULL /\ hash[s] \in Slot
  BY StringHashAssumption DEF IInv, TypeOK, AllReturned
<1>2. i \in Before(hash[s], j) \/ j \in Before(hash[s], i)
  BY <1>1, OneIsBefore
<1> QED
  BY <1>1, <1>2 DEF IInv, Chained

LEMMA InsertInterns ==
  ASSUME IInv, Insert
  PROVE  Table!Intern
<1> DEFINE old == IndexOf(returned)
           new == IndexOf(returned')
<1>1. /\ pc = "probe" /\ hashTable[pos] = NULL
      /\ returned' = returned \cup {<<str, pos>>}
  BY DEF Insert, ReturnPos
<1>2. str \in Str /\ pos \in Slot
  BY <1>1 DEF IInv, TypeOK
<1>3. Functional(returned)
  BY ReturnedFunctional
<1>4. \A i \in Slot : <<str, i>> \notin returned
  BY <1>1, <1>2, AbsentIfFree DEF IInv, AllReturned
<1>5. \A s \in Str : <<s, pos>> \notin returned
  BY <1>1, <1>2, StringHashAssumption DEF IInv, AllReturned
<1>6. Functional(returned')
  BY <1>1, <1>2, <1>3, <1>4 DEF Functional
<1>7. /\ old \in [DOMAIN old -> Slot]
      /\ DOMAIN old = {s \in Str : \E i \in Slot : <<s, i>> \in returned}
      /\ \A s \in Str, i \in Slot : <<s, i>> \in returned => old[s] = i
  BY <1>3, IndexIsPairs
<1>8. /\ new \in [DOMAIN new -> Slot]
      /\ DOMAIN new = {s \in Str : \E i \in Slot : <<s, i>> \in returned'}
      /\ \A s \in Str, i \in Slot : <<s, i>> \in returned' => new[s] = i
  BY <1>6, IndexIsPairs
<1> HIDE DEF old, new
<1>9. DOMAIN new = DOMAIN old \cup {str}
  BY <1>1, <1>2, <1>7, <1>8
<1>10. new[str] = pos /\ \A s \in DOMAIN old : new[s] = old[s]
  BY <1>1, <1>2, <1>7, <1>8
<1>11. str \notin DOMAIN old /\ pos \notin Table!Range(old)
  BY <1>4, <1>5, <1>7 DEF Table!Range
<1>12. new = [t \in DOMAIN old \cup {str} |-> IF t = str THEN pos ELSE old[t]]
  BY <1>8, <1>9, <1>10, <1>11
<1> QED
  BY <1>2, <1>11, <1>12 DEF Table!Intern, old, new

LEMMA NoIndex == IndexOf({}) = [s \in {} |-> 0]
  BY DEF IndexOf

\* Every step of the table interns one string, forgets them all, or changes
\* no index.
LEMMA StepTable ==
  ASSUME IInv, [Next]_vars
  PROVE  [Table!Intern \/ Table!Clear]_(IndexOf(returned))
<1>1. CASE initStringHash
  BY <1>1, NoIndex DEF initStringHash, Table!Clear
<1>2. CASE Insert
  BY <1>2, InsertInterns
<1>3. CASE UNCHANGED returned
  BY <1>3
<1>4. (\E s \in Str : Call(s)) \/ Full \/ Collide \/ Found \/ Done \/ UNCHANGED vars
        => UNCHANGED returned
  BY FoundStep DEF Call, Full, Collide, Done, vars
<1> QED
  BY <1>1, <1>2, <1>3, <1>4 DEF Next, hashForString

\* Callers see a table that interns strings: one index per string, no index
\* shared and none taken back before everything is dropped.
THEOREM TableInterns == Spec => ImplementsInterning
<1>1. Init => Table!Init
  BY NoIndex DEF Init, Table!Init
<1>2. Spec => [][Table!Intern \/ Table!Clear]_(IndexOf(returned))
  BY TableInvariance, StepTable, PTL DEF Spec
<1> QED
  BY <1>1, <1>2, PTL DEF Spec, ImplementsInterning, Table!Spec

-----------------------------------------------------------------------------
(* The packet file reader *)

CONSTANTS Sizes, UIntRange, Uninit
VARIABLES fileSize, failing, taken, reading, len, data, bytesRead, bytesToRead

Reader == INSTANCE PacketReader WITH pc <- reading

\* What is still to be read fits behind the place it will be written to.
ReaderIInv ==
  /\ fileSize \in Nat /\ taken \in Nat /\ len \in Nat
  /\ bytesRead \in Nat /\ bytesToRead \in Nat
  /\ Reader!ReadsFit

LEMMA RemainderIsLess ==
  ASSUME NEW n \in Nat, NEW m \in Nat \ {0}
  PROVE  n % m \in Nat /\ n % m <= n
<1>1. n % m \in 0..(m - 1)
  OBVIOUS
<1>2. CASE n < m
  BY <1>2, SMT
<1>3. CASE ~(n < m)
  BY <1>1, <1>3
<1> QED
  BY <1>1, <1>2, <1>3

LEMMA FreadFits ==
  ASSUME ReaderIInv, Reader!Fread
  PROVE  ReaderIInv'
<1>1. /\ reading = "read" /\ reading' = "read" /\ len' = len /\ fileSize' = fileSize
      /\ fileSize \in Nat /\ taken \in Nat /\ len \in Nat /\ bytesRead \in Nat /\ bytesToRead \in Nat
      /\ DOMAIN data = 0..(len - 1) /\ bytesRead + bytesToRead <= len
  BY DEF ReaderIInv, Reader!ReadsFit, Reader!Fread
<1>2. PICK n \in 1..bytesToRead : Reader!Transfer(n) /\ bytesToRead' = bytesToRead - n
  BY DEF Reader!Fread
<1>3. /\ bytesRead' = n /\ bytesRead' + bytesToRead' <= len
      /\ taken' \in Nat /\ bytesToRead' \in Nat
  BY <1>1, <1>2 DEF Reader!Transfer
<1>4. bytesRead..(bytesRead + n - 1) \subseteq 0..(len - 1)
  BY <1>1, <1>2
<1>5. DOMAIN data' = DOMAIN data \cup bytesRead..(bytesRead + n - 1)
  BY <1>2 DEF Reader!Transfer
<1>6. DOMAIN data' = 0..(len' - 1)
  BY <1>1, <1>4, <1>5
<1> QED
  BY <1>1, <1>2, <1>3, <1>6 DEF ReaderIInv, Reader!ReadsFit

LEMMA ReaderStep ==
  ASSUME UIntRange \in Nat \ {0}, ReaderIInv, [Reader!Next]_(Reader!vars)
  PROVE  ReaderIInv'
<1> USE DEF ReaderIInv, Reader!ReadsFit
<1>1. CASE Reader!Stat
  BY <1>1 DEF Reader!Stat, Reader!ExitFailure
<1>2. CASE Reader!Fopen
  BY <1>2 DEF Reader!Fopen, Reader!ExitFailure
<1>3. CASE Reader!Malloc
  <2>1. CASE Reader!ExitFailure
    BY <2>1 DEF Reader!ExitFailure
  <2>2. CASE ~Reader!ExitFailure
    <3>1. /\ DOMAIN data' = 0..(len - 1) /\ bytesRead' = 0 /\ len' = len
          /\ fileSize' = fileSize /\ taken' = taken /\ bytesToRead' = len % UIntRange
      BY <1>3, <2>2 DEF Reader!Malloc
    <3>2. bytesToRead' \in Nat /\ bytesToRead' <= len
      BY <3>1, RemainderIsLess
    <3> QED
      BY <3>1, <3>2
  <2> QED
    BY <2>1, <2>2
<1>4. CASE Reader!Fread
  BY <1>4, FreadFits
<1>5. CASE Reader!FreadNothing
  BY <1>5 DEF Reader!FreadNothing
<1>6. CASE Reader!Fclose
  BY <1>6 DEF Reader!Fclose
<1>7. CASE Reader!Truncate
  <2>1. fileSize' \in Nat
    BY <1>7 DEF Reader!Truncate
  <2> QED
    BY <1>7, <2>1 DEF Reader!Truncate
<1>8. CASE Reader!ReadError
  BY <1>8 DEF Reader!ReadError
<1>9. CASE Reader!Done \/ UNCHANGED Reader!vars
  BY <1>9 DEF Reader!Done, Reader!vars
<1> QED
  BY <1>1, <1>2, <1>3, <1>4, <1>5, <1>6, <1>7, <1>8, <1>9
  DEF Reader!Next, Reader!readPDU

\* bytesRead is the last transfer and not the sum: what is written lands on
\* what was read before, but in no file and for no sequence of short reads does
\* it land behind the buffer, and the requests do not ask for more than fits.
THEOREM ReaderStaysInside ==
  ASSUME Sizes \subseteq Nat, UIntRange \in Nat \ {0}
  PROVE  Reader!Spec => []Reader!ReadsFit
<1>1. Reader!Init => ReaderIInv
  BY DEF Reader!Init, ReaderIInv, Reader!ReadsFit
<1>2. ReaderIInv /\ [Reader!Next]_(Reader!vars) => ReaderIInv'
  BY ReaderStep
<1>3. ReaderIInv => Reader!ReadsFit
  BY DEF ReaderIInv
<1> QED
  BY <1>1, <1>2, <1>3, PTL DEF Reader!Spec
=============================================================================
