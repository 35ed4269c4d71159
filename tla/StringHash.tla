----------------------------- MODULE StringHash -----------------------------
(***************************************************************************)
(* The table of interned strings (StringHash.c): open addressing with      *)
(* linear probing, entries never removed.  Which hash djb2 gives a string  *)
(* is left open: hash is any function of the string.                       *)
(***************************************************************************)
EXTENDS Integers, FiniteSets

CONSTANTS Str,             \* the strings
          hashTableSize,   \* 2047 in the code
          NULL

ASSUME StringHashAssumption ==
  /\ hashTableSize \in Nat \ {0, 1}
  /\ NULL \notin Str

Slot == 0..(hashTableSize - 1)

VARIABLES hash,        \* hash % hashTableSize for every string
          hashTable,
          pc,          \* "idle", in the "probe" loop, or "exit"
          str,         \* the argument of hashForString
          startpos, pos,
          returned     \* history: <<string, index>> since the last init

vars == <<hash, hashTable, pc, str, startpos, pos, returned>>
call == <<str, startpos, pos>>

-----------------------------------------------------------------------------
\* The entries are dropped, not freed, and indices given out are void.
initStringHash ==
  /\ pc = "idle"
  /\ hashTable' = [i \in Slot |-> NULL]
  /\ returned' = {}
  /\ UNCHANGED <<hash, pc, call>>

\* Probing begins one behind the slot the string hashes to.
Call(s) ==
  /\ pc = "idle"
  /\ str' = s
  /\ startpos' = hash[s]
  /\ pos' = (startpos' + 1) % hashTableSize
  /\ pc' = "probe"
  /\ UNCHANGED <<hash, hashTable, returned>>

ReturnPos ==
  /\ returned' = returned \cup {<<str, pos>>}
  /\ pc' = "idle"
  /\ UNCHANGED <<hash, call>>

\* Mutant: the last slot before startpos is not looked at.
FullEarly ==
  /\ pc = "probe" /\ (pos + 1) % hashTableSize = startpos
  /\ pc' = "exit"
  /\ UNCHANGED <<hash, hashTable, call, returned>>

\* Every slot but startpos was looked at.
Full ==
  /\ pc = "probe" /\ pos = startpos
  /\ pc' = "exit"
  /\ UNCHANGED <<hash, hashTable, call, returned>>

Insert ==
  /\ pc = "probe" /\ pos # startpos
  /\ hashTable[pos] = NULL
  /\ hashTable' = [hashTable EXCEPT ![pos] = str]
  /\ ReturnPos

\* Mutant: any entry is taken for the string looked for.
FoundAny ==
  /\ pc = "probe" /\ pos # startpos
  /\ hashTable[pos] # NULL
  /\ ReturnPos /\ UNCHANGED hashTable

Found ==
  /\ pc = "probe" /\ pos # startpos
  /\ hashTable[pos] = str
  /\ ReturnPos /\ UNCHANGED hashTable

\* Mutant: probing stays where it is.
CollideStuck ==
  /\ pc = "probe" /\ pos # startpos
  /\ hashTable[pos] \notin {NULL, str}
  /\ UNCHANGED vars

Collide ==
  /\ pc = "probe" /\ pos # startpos
  /\ hashTable[pos] \notin {NULL, str}
  /\ pos' = (pos + 1) % hashTableSize
  /\ UNCHANGED <<hash, hashTable, pc, str, startpos, returned>>

hashForString == Full \/ Insert \/ Found \/ Collide

-----------------------------------------------------------------------------
\* The table is static, and empty before initStringHash is called.
Init ==
  /\ hash \in [Str -> Slot]
  /\ hashTable = [i \in Slot |-> NULL]
  /\ pc = "idle"
  /\ str = NULL /\ startpos = 0 /\ pos = 0
  /\ returned = {}

Done == pc = "exit" /\ UNCHANGED vars

Next == initStringHash \/ (\E s \in Str : Call(s)) \/ hashForString \/ Done

Spec == Init /\ [][Next]_vars

\* The loop of hashForString runs when the program does.
FairSpec == Spec /\ WF_vars(hashForString)

-----------------------------------------------------------------------------
(* Properties *)

\* An index that was given out still leads back to its string: stringForHash.
IndexLeadsBack == \A r \in returned : hashTable[r[2]] = r[1]

\* The loop ends, after at most one turn around the table.
ProbingEnds == pc = "probe" ~> pc # "probe"

\* The program gives up with "Hash table full" only when neither the string
\* nor a free slot is anywhere, the slot the string hashes to apart: that one
\* is never looked at and may be free.
FullButOne ==
  pc = "exit" => \A i \in Slot \ {startpos} : hashTable[i] \notin {NULL, str}

\* The index of each string, from the pairs returned.
IndexOf(pairs) ==
  [s \in {r[1] : r \in pairs} |-> CHOOSE i \in Slot : <<s, i>> \in pairs]

\* The table implements the interning its header promises.
Table == INSTANCE InternTable WITH Index <- Slot, index <- IndexOf(returned)
ImplementsInterning == Table!Spec
=============================================================================
