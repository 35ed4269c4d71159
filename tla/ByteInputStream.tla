-------------------------- MODULE ByteInputStream --------------------------
(***************************************************************************)
(* The stream that the ANTLR parser reads a packet through                 *)
(* (ByteInputStream.cpp), from the length in the UDP header, which         *)
(* pmain.cpp hands to load as it is, to the deletion of the stream.        *)
(*                                                                         *)
(* Its client is the lexer of the ANTLR runtime, known from its use of the *)
(* stream: it looks ahead, consumes, may jump and go back to where it      *)
(* accepts, and takes the text between the two positions for a token.  An  *)
(* index counts from 0; byte k of the stream is _data[k + 1].              *)
(***************************************************************************)
EXTENDS Integers, Sequences, FiniteSetsExt

CONSTANTS
  Packets,     \* records: uh_ulen of the header, the bytes after it
  Beyond,      \* the byte found in memory after the packet
  SizeT,       \* size_t counts modulo this
  Heap         \* the most that malloc gives

Byte == 0..255

\* The value of size_t that the runtime uses for the end of the input.
EOF == SizeT - 1

ASSUME StreamAssumption ==
  /\ SizeT \in Nat \ {0} /\ Heap \in Nat
  /\ Beyond \in Byte
  /\ \A packet \in Packets :
       packet.uh_ulen \in Nat /\ packet.bytes \in Seq(Byte)

\* The length in a header is smaller than size_t, and malloc is far from
\* giving the whole of memory.
ASSUME HeapAssumption ==
  /\ Heap < SizeT - 32
  /\ \A packet \in Packets : packet.uh_ulen < SizeT

VARIABLES
  packet,
  state,      \* "new", "parsing", "thrown", "aborted" or "deleted"
  _data, p,   \* the stream
  target,     \* where a seek that goes forward is bound for, -1 without one
  start,      \* where the token that is being read begins
  tokens      \* the text of the tokens so far, put together

vars == <<packet, state, _data, p, target, start, tokens>>

size == Len(_data)

\* int data_len, which becomes a size_t: below 8 bytes it is negative.
data_len == (packet.uh_ulen - 8) % SizeT

\* What is in memory where the payload begins.
Memory(k) == IF k <= Len(packet.bytes) THEN packet.bytes[k] ELSE Beyond

\* Mutant: a byte of 128 and more is sign-extended.
WideSigned(byte) == IF byte >= 128 THEN byte + SizeT - 256 ELSE byte

\* (unsigned char) keeps a byte a byte.
Wide(byte) == byte

Narrow(wide) == wide % 256

\* Mutant: a negative index is not translated.
LAUntranslated(i) ==
  LET position == p + i - 1
  IN IF i = 0 THEN 0
     ELSE IF position \in 0..size - 1 THEN _data[position + 1]
     ELSE EOF

LA(i) ==
  LET position == IF i < 0 THEN p + i ELSE p + i - 1
  IN IF i = 0 THEN 0
     ELSE IF position \in 0..size - 1 THEN _data[position + 1]
     ELSE EOF

\* Mutant: the last byte of the interval is left out.
getTextToStop(a, b) ==
  IF a < 0 \/ b < 0 \/ a >= size THEN <<>>
  ELSE [k \in 1..Min({b, size - 1}) - a |-> Narrow(_data[a + k])]

\* The bytes from a to b, cut off at the end of the data.
getText(a, b) ==
  IF a < 0 \/ b < 0 \/ a >= size THEN <<>>
  ELSE [k \in 1..Min({b, size - 1}) - a + 1 |-> Narrow(_data[a + k])]

-----------------------------------------------------------------------------
Init ==
  /\ packet \in Packets
  /\ state = "new"
  /\ _data = <<>>
  /\ p = 0
  /\ target = -1
  /\ start = 0
  /\ tokens = <<>>

\* Mutant: the result of malloc is not looked at.
MallocUnchecked ==
  /\ state = "new"
  /\ state' = "parsing"
  /\ UNCHANGED <<packet, _data, p, target, start, tokens>>

\* load is outside the try: what it throws ends the program.
MallocFails ==
  /\ state = "new"
  /\ state' = "aborted"
  /\ UNCHANGED <<packet, _data, p, target, start, tokens>>

load ==
  /\ state = "new"
  /\ (4 * data_len) % SizeT <= Heap
  /\ _data' = [k \in 1..data_len |-> Wide(Memory(k))]
  /\ p' = 0
  /\ state' = "parsing"
  /\ UNCHANGED <<packet, target, start, tokens>>

Parsing == state = "parsing" /\ target = -1

\* Mutant: the end is not looked at.
ConsumeOn ==
  /\ Parsing
  /\ p' = p + 1
  /\ UNCHANGED <<packet, state, _data, target, start, tokens>>

consume ==
  /\ Parsing
  /\ \/ /\ p < size
        /\ p' = p + 1
        /\ UNCHANGED state
     \/ /\ p >= size
        /\ state' = "thrown"
        /\ UNCHANGED p
  /\ UNCHANGED <<packet, _data, target, start, tokens>>

\* A jump back, no further than where the token begins.
SeekBack ==
  /\ Parsing
  /\ p' \in start..p
  /\ UNCHANGED <<packet, state, _data, target, start, tokens>>

\* Mutant: the target may lie behind the end.
SeekForwardUnclamped ==
  /\ Parsing
  /\ target' \in p + 1..size + 1
  /\ UNCHANGED <<packet, state, _data, p, start, tokens>>

SeekForward ==
  /\ Parsing
  /\ \E index \in p + 1..size + 1 : target' = Min({index, size})
  /\ UNCHANGED <<packet, state, _data, p, start, tokens>>

\* One turn of the loop of seek, which calls consume, or its end.
SeekConsumes ==
  /\ state = "parsing"
  /\ target # -1
  /\ \/ /\ p < target
        /\ p < size
        /\ p' = p + 1
        /\ UNCHANGED <<state, target>>
     \/ /\ p < target
        /\ p >= size
        /\ state' = "thrown"
        /\ UNCHANGED <<p, target>>
     \/ /\ p >= target
        /\ target' = -1
        /\ UNCHANGED <<state, p>>
  /\ UNCHANGED <<packet, _data, start, tokens>>

\* Mutant: the stream stays where the lexer looked last.
AcceptInPlace ==
  /\ Parsing
  /\ \E index \in start + 1..p :
       /\ tokens' = tokens \o getText(start, index - 1)
       /\ start' = p
  /\ UNCHANGED <<packet, state, _data, p, target>>

\* The lexer goes back to the end of what it accepts, and makes a token.
Accept ==
  /\ Parsing
  /\ \E index \in start + 1..p :
       /\ p' = index
       /\ tokens' = tokens \o getText(start, index - 1)
       /\ start' = index
  /\ UNCHANGED <<packet, state, _data, target>>

reset ==
  /\ Parsing
  /\ p' = 0
  /\ start' = 0
  /\ tokens' = <<>>
  /\ UNCHANGED <<packet, state, _data, target>>

\* The stream is deleted after the parse and after an exception.
Delete ==
  /\ Parsing \/ state = "thrown"
  /\ state' = "deleted"
  /\ UNCHANGED <<packet, _data, p, target, start, tokens>>

Stopped == state \in {"aborted", "deleted"} /\ UNCHANGED vars

Next ==
  \/ MallocFails
  \/ load
  \/ consume
  \/ SeekBack
  \/ SeekForward
  \/ SeekConsumes
  \/ Accept
  \/ reset
  \/ Delete
  \/ Stopped

Spec == Init /\ [][Next]_vars

\* The loop of seek runs to its end; clients need not do anything.
FairSpec == Spec /\ WF_vars(SeekConsumes)

-----------------------------------------------------------------------------
TypeOK ==
  /\ state \in {"new", "parsing", "thrown", "aborted", "deleted"}
  /\ p \in 0..size
  /\ target \in {-1} \cup 0..size
  /\ start \in 0..p
  /\ \A k \in 1..Len(tokens) : tokens[k] \in Byte

\* A packet whose header announces less than the header itself becomes a
\* length close to the largest size_t; times four it wraps, and yet malloc
\* refuses it: no such packet is parsed.  What is parsed has the length
\* announced, whatever was captured.
ShortNeverParsed ==
  state = "parsing" => packet.uh_ulen >= 8 /\ size = packet.uh_ulen - 8

\* The lexer sees the bytes of the packet, those of 128 and more too, in both
\* directions from where it is, and the end of the input nowhere but outside.
LooksAtPacket ==
  state = "parsing" =>
    \A i \in -size - 1..size + 1 \ {0} :
      LET position == IF i > 0 THEN p + i ELSE p + i + 1
      IN LA(i) = IF position \in 1..size THEN Memory(position) ELSE EOF

\* However far the lexer looks and jumps before it goes back to accept, its
\* tokens are the packet up to where the next one begins: no byte is lost,
\* doubled or changed on the way through wide characters.
TokensArePacket == tokens = [k \in 1..start |-> Memory(k)]

\* A seek goes where it was told, or to the end, and throws at neither.
SeekLands ==
  \A index \in 0..Heap :
    target = index ~> target = -1 /\ p = index
=============================================================================
