---------------------------- MODULE PacketReader ----------------------------
(***************************************************************************)
(* readPDU (packet.c): one packet is read from a file of its own, in a     *)
(* loop, because fread may return less than it is asked for.  Byte k of    *)
(* the file is the number k: only where a byte ends up matters.  stat,     *)
(* fopen, malloc and fread are modelled from their use.  After its size    *)
(* was asked for, the file may be cut shorter by others, and reading it    *)
(* may fail, for a while or (a directory, a bad disk) for ever.            *)
(***************************************************************************)
EXTENDS Integers

CONSTANTS Sizes,      \* sizes of the file
          UIntRange,  \* values of unsigned int: bytesToRead wraps around
          Uninit      \* what malloc leaves in the buffer

ASSUME PacketReaderAssumption ==
  /\ Sizes \subseteq Nat
  /\ UIntRange \in Nat \ {0}
  /\ Uninit \notin Nat

VARIABLES fileSize,      \* bytes in the file
          failing,       \* reading it is an error at present
          taken,         \* bytes fread has returned
          pc,            \* "stat", "fopen", "malloc", "read", "done", "exit"
          len,           \* thePDU->len, a long
          data,          \* thePDU->data
          bytesRead,     \* the last result of fread
          bytesToRead

vars == <<fileSize, failing, taken, pc, len, data, bytesRead, bytesToRead>>

ExitFailure ==
  /\ pc' = "exit"
  /\ UNCHANGED <<fileSize, failing, taken, len, data, bytesRead, bytesToRead>>

Stat ==
  /\ pc = "stat"
  /\ \/ /\ len' = fileSize
        /\ pc' = "fopen"
        /\ UNCHANGED <<fileSize, failing, taken, data, bytesRead, bytesToRead>>
     \/ ExitFailure

Fopen ==
  /\ pc = "fopen"
  /\ \/ /\ pc' = "malloc"
        /\ UNCHANGED <<fileSize, failing, taken, len, data, bytesRead, bytesToRead>>
     \/ ExitFailure

Malloc ==
  /\ pc = "malloc"
  /\ \/ /\ data' = [k \in 0..(len - 1) |-> Uninit]
        /\ bytesRead' = 0
        /\ bytesToRead' = len % UIntRange
        /\ pc' = "read"
        /\ UNCHANGED <<fileSize, failing, taken, len>>
     \/ ExitFailure

\* The file loses its end while it is being read.
Truncate ==
  /\ pc \in {"fopen", "malloc", "read"}
  /\ fileSize' \in taken..(fileSize - 1)
  /\ UNCHANGED <<failing, taken, pc, len, data, bytesRead, bytesToRead>>

\* Reading the file begins to fail, or works again.
ReadError ==
  /\ pc \in {"fopen", "malloc", "read"}
  /\ failing' = ~failing
  /\ UNCHANGED <<fileSize, taken, pc, len, data, bytesRead, bytesToRead>>

\* fread puts n bytes at data + bytesRead; bytesRead is then n, not the sum.
Transfer(n) ==
  /\ data' = [k \in DOMAIN data \cup bytesRead..(bytesRead + n - 1) |->
                IF k \in bytesRead..(bytesRead + n - 1)
                THEN taken + (k - bytesRead) ELSE data[k]]
  /\ taken' = taken + n
  /\ bytesRead' = n

\* Mutant: what is still to be read is not reduced.
FreadAgain ==
  /\ pc = "read" /\ bytesToRead > 0 /\ ~failing
  /\ \E n \in 1..bytesToRead : n <= fileSize - taken /\ Transfer(n)
  /\ UNCHANGED <<fileSize, failing, pc, len, bytesToRead>>

\* Some of the bytes asked for are there.
Fread ==
  /\ pc = "read" /\ bytesToRead > 0 /\ ~failing
  /\ \E n \in 1..bytesToRead :
       /\ n <= fileSize - taken
       /\ Transfer(n)
       /\ bytesToRead' = bytesToRead - n
  /\ UNCHANGED <<fileSize, failing, pc, len>>

\* At the end of the file and on an error fread returns 0: nobody asks feof or
\* ferror, and the loop asks again.
FreadNothing ==
  /\ pc = "read" /\ bytesToRead > 0
  /\ failing \/ fileSize = taken
  /\ bytesRead' = 0
  /\ UNCHANGED <<fileSize, failing, taken, pc, len, data, bytesToRead>>

Fclose ==
  /\ pc = "read" /\ bytesToRead = 0
  /\ pc' = "done"
  /\ UNCHANGED <<fileSize, failing, taken, len, data, bytesRead, bytesToRead>>

Init ==
  /\ fileSize \in Sizes /\ failing = FALSE /\ taken = 0
  /\ pc = "stat" /\ len = 0 /\ data = [k \in {} |-> Uninit]
  /\ bytesRead = 0 /\ bytesToRead = 0

readPDU == Stat \/ Fopen \/ Malloc \/ Fread \/ FreadNothing \/ Fclose

Done == pc \in {"done", "exit"} /\ UNCHANGED vars

Next == readPDU \/ Truncate \/ ReadError \/ Done

Spec == Init /\ [][Next]_vars
FairSpec == Spec /\ WF_vars(readPDU)

-----------------------------------------------------------------------------
(* Properties *)

\* fread never writes behind the buffer, although the place it writes to is
\* the length of the last transfer and not of all of them.
ReadsFit == pc = "read" => /\ DOMAIN data = 0..(len - 1)
                           /\ bytesRead + bytesToRead <= len

\* The loop ends if errors pass and the file keeps the bytes it waits for: a
\* zero from fread is forgotten when the next call brings something.
ReadingEnds == <>[]~failing => <>(pc \in {"done", "exit"} \/ fileSize < len)

\* "system may be unwilling to read the entire packet in a single fread.
\* Standard read loop.": when the loop is done the packet is in the buffer.
ReadComplete ==
  pc = "done" /\ len < UIntRange => \A k \in 0..(len - 1) : data[k] = k
=============================================================================
