# BinaryPaperComparison: specifications, model checking and proofs

The repository compares parser frameworks on one task: read a capture file, run
a DNS parser over its packets and count what it accepts. This directory holds
TLA+ specifications of the programs that do this, the TLC runs that check them
on small instances, and machine-checked proofs, about every program that has a
model of its own, of what the runs check for a few values. Each definition is
commented where it stands; `PROJECT.json` names, for every definition, the lines
of `src/` it stands for.

## 1. Inventory

| Component | Source | State it keeps | Operations | What is hard |
|---|---|---|---|---|
| Serialization buffer | `scl/BUILD/sutilities.c` | linked list of nodes, position in each, total in the first | reserve, 11 writes, combine, free | unchecked writes, links and totals kept through several nodes |
| Byte order codec | `putilities.c`, `sutilities.c` | position in the packet, position in the buffer | get, look ahead, write in 6 widths, 2 orders | one hand-written body for each width |
| Capture driver (SCL) | `scl/BUILD/pmain.c` | two passes over a capture, four counters, a trace file, the blocks of a packet | main, `findTotal`, `closeFiles`, handlers of SIGINT and SIGUSR1 | signals between any two steps, many exits, five copies of one loop body |
| Capture driver (ANTLR) | `antlr/binary/pmain.cpp` | the same, four objects per packet | the same | exceptions; a copy that drifted from its original |
| Command line options | `handle_options` of both drivers | argv as `getopt_long` permutes it, `optind`, the names | one turn of the option loop, the check of the operands | an option taken back while the library moves argv |
| Byte input stream | `antlr/binary/ByteInputStream.cpp` | the packet as wide characters, a position | load, consume, LA, seek, reset, getText | both ends of the input, signed bytes, lengths that wrap, jumps and going back |
| Python drivers | `*/parsePcap.py` (4) | three counters, `./tmp` | take a payload, run a parser | exceptions in and outside the try, a file shared by all packets |
| Packet file reader | `scl/BUILD/packet.c` | buffer, count of the last read | `readPDU` | short reads, a file that shrinks |
| String hash | `scl/BUILD/StringHash.c` | open addressing table | `initStringHash`, `hashForString`, `stringForHash` | probing around the end, a full table |
| DNS grammars | `DNS.scl5`, `DNS.g4`, `dns.py`, `DNS.ksy`, `dns.spicy`, `dns.bt` | of a parser made from one: position, bytes that remain, counts, alternative | read a word, a type, a length, a field; open a substream; put the cursor back | eight hand-written grammars that should agree and do not quite; position and remainder kept apart |
| UDP, RTPS, IGMP, NTP, ARP grammars | `scl/SCL5/*.scl5` | the same cursor | ordered choice of protocols | restoring the cursor; a loose constraint behind a strict one |
| Constraint callbacks | `scl/BUILD/callback.c` | none | trace output for parsed messages | not linked (`Makefile:13`) |
| Parser globals and UDP glue | `globals.h`, `pglobals.h` | declarations | none of their own | |
| Generated code, build scripts, captures | archives, `compile.sh`, `dns_pcaps` | none at run time | | |

How they interact. A driver opens the capture twice (C, C++) or reads it whole
(Python), takes the payload out of each packet and calls a parser: the ANTLR
driver through a byte input stream that it loads with the UDP payload, the
others on the bytes. What a driver is told to do comes from its options. In the
SCL driver a parsed packet is then serialized: generated code reserves room in
the serialization buffer and writes fields through the byte order codec,
`combineBuffers` makes one array of the nodes, the driver compares it with the
packet and frees the list. The signal handlers share the global `pcapHandle`
and the trace file with `main`. The Python scripts and FormatFuzzer's parser
share `./tmp`. `readPDU` and the string hash are linked with the SCL parser and
called by no code in the repository.

What makes each correct: the buffer returns the bytes written and stays inside
its allocations; the codec gives back the bytes it read; a driver visits every
packet once, labels it with its number, counts it as what it was, holds nothing
of it afterwards and leaves a complete trace however it ends; one packet's
failure is not another's; a reader returns the file; a string keeps its index;
a command line means what the usage text says, where the code agrees with that
text; a stream shows its lexer the
packet, each byte once; a parser's cursor is exact and its verdict is the one of
its grammar, and the grammars agree on what they have in common.

## 2. Modules

| Module | Models | Kind |
|---|---|---|
| `ByteLog` | what the serialization buffer promises | abstract specification |
| `SerializeBuffer` | `sutilities.c`: reserve, write, combine, free | implements `ByteLog` |
| `SerializeBuffer_proofs` | theorems about it | proofs |
| `PacketScan` | what every driver promises about a capture | abstract specification |
| `PcapDriver` | `pmain.c` and, by its constants, `pmain.cpp` | implements `PacketScan` |
| `AntlrDriver` | `pmain.cpp` | instance of `PcapDriver` |
| `PcapDriver_proofs` | theorems about both | proofs |
| `PyDriver` | the four `parsePcap.py` | implements `PacketScan` |
| `PyDriver_proofs` | theorems about them | proofs |
| `ByteCodec` | get, look-ahead and writebuffer functions | round trip |
| `ByteCodec_proofs` | theorems about them | proofs |
| `Options` | `handle_options` of both drivers, `getopt_long` as an external part | machine and reference meaning of a line |
| `Options_proofs` | theorems about it | proofs |
| `ByteInputStream` | `ByteInputStream.cpp`, with the lexer as its client | machine |
| `ByteInputStream_proofs` | theorems about it | proofs |
| `DnsGrammar` | the DNS grammars as data, and the language of each | reference definition |
| `DnsParser` | a parser made from one of them, and the choice of `UDP.scl5` | machine that decides the language |
| `DnsParser_proofs` | theorems about it | proofs |
| `PacketReader` | `readPDU` | loop over short reads |
| `InternTable` | what the string hash promises | abstract specification |
| `StringHash` | `StringHash.c` | implements `InternTable` |
| `StringHash_proofs` | theorems about it and, through an instance, about `PacketReader` | proofs |
| `MC...` | captures, packets and fields for TLC | instances |

### SerializeBuffer

A pointer is an index into `nodes`, in the order malloc returned them, and NULL
is 0. The fields of a node have the names of the struct. `SerializeBufferAllocate`,
`writebufferInt`, `writebufferOctetStr` and `writeNulls` are one action each;
the loops of `combineBuffers` and `freeBuffers` take one step per node, so that
what holds between two nodes can be stated. `credit` is the protocol of the
generated code, which the driver calls and which is not in the repository: it
writes no more than it reserved, and reserves when it has written the run.
`written` and `start` are history. What malloc leaves in a field or a byte is
any of `Junk`, or `Uninit`.

### PcapDriver and AntlrDriver

`pc` is the place in `main`; `sig` is the place in `mainIntrHandler`. A signal
may be delivered between any two actions. The steps are those between which
something a handler looks at changes; a call such as the parse of one packet is
one step. So a signal in the middle of `pcap_close`, of a stdio call or of a parse
is not covered: what the libraries would then do is not in the repository, though
the handlers close the same handle and the same stream. `pcapHandle` and
`trace` are `"closed"`, not `"NULL"`, after their files are closed, as in the
code; using one then sets `undefined`, and the process either aborts or goes on.
Signals before the handlers are installed end the process by default and are
left out. `outcome` is history: what became of each packet.

The constants are what tells the two programs apart: the ether types and
protocols for which there is a parser, the blocks or objects allocated for a
packet, what a parse never frees (the combined buffer; the wide copy), and how
a failed allocation ends the program (`exit(1)`; an exception nobody catches).
`TotalsExact` and `ObjectsDeleted` of `AntlrDriver` are the totals and the blocks of
`PcapDriver` counted from what was passed to the parser; TLC checks the general
form in `pcap_driver`, and both are proved. `ArpAndUdpPassed` is what the README of
that driver says of it, and is violated.

### PyDriver

`tool` says which script runs. `Element` is what the scripts can tell about a
packet: whether `eth.data.data` is an object with `data`, plain bytes, or not
there; whether the payload is empty; what the parser says. `Take` is the call
outside the try. For FormatFuzzer the parser reads `tmp`, which holds the number
of the packet last written there, or a part of one. Inside the try a packet may
fail without any verdict of a parser: `./tmp` cannot be written, or
`subprocess.run` itself raises. `unheard` is the history of these, and
`OutcomeIsOwn` speaks of it: an accepted payload may count as failed, but only
for its own file or process, and never in the two scripts that call a library.

### ByteCodec

A value is a function from byte significance to byte, so that shifting and
swapping are re-indexing. The operators are the bodies of the C functions:
`Ordered` for 8 to 32 bits, `get48_e`, `get64_e` from two halves, `Native` for
memcpy and exchange, `writebufferInt48` with its two halves.

### PacketReader, StringHash

One action per call, or per turn of the loop. In `PacketReader` byte k of the
file is the number k. The file may lose its end meanwhile (`Truncate`), and reading
it may fail for a while or for ever (`ReadError`; a directory opens and cannot be
read): `fread` then returns 0, as at the end of the file. In `StringHash` the hash is an arbitrary function chosen
initially; the model needs nothing of djb2 but that it is a function.

### Options

An element of the command line is an operand, a short or long option, perhaps
with a value attached, or `--`. `getopt` is what the C library keeps: argv as a
sequence of positions in the line, so that its permutation can be followed,
`optind`, and the stretch of operands it has skipped. It is external code,
modelled from its documented behaviour as far as the loop uses it. Each turn of
the loop in `handle_options` is one action, with the test of a value that
begins with a dash and the `optind--` that takes it back. One letter of the
option string (`p`) has no case in the switch, and `E` takes a value there and
none in `long_options`; the model keeps this as it is.

The reference of `SynopsisHolds` is read from `print_usage` and not from the
tables of the code: `shown` has the letters of the text and whether it shows a
value, `spelled` the long names that it gives them. It reads the line from left
to right and knows neither permutation nor taking back. `Disputed` are the
options on which text and code differ (`-p`, `--pcap`, `--envDir`, `--RDF` and the
two spellings of `-g`); they are elements of the lines and take part in the other
properties, but `SynopsisHolds` is about lines without them.

### ByteInputStream

`load` starts from the length in the UDP header as the driver computes it, with
the wrap of size_t. The lexer of the ANTLR runtime is not in the repository; it
may look ahead, consume, seek back and forth, and accept a stretch of the
input, at any time, so whatever the real one does is a behaviour of this one.
`seek` forward takes one step per call of `consume`. `_data` counts from 1.

### DnsGrammar and DnsParser

The eight tools are the six directories and two variants (`dns_switch.py`, the
look-ahead version for Spicy). `Dialect` holds what tells the grammars apart:
the longest label, what an unknown type is, whether NSEC3 has a salt, whether
bytes may be left over, whether text must be UTF-8. `DnsGrammar` defines the
language of each as sets of positions, with no state. `DnsParser` reads a
message field by field with `pdu.curPos` and `pdu.remaining`, checks
`lengthRemaining` before each read, tries alternatives in the grammar's order
where the tool does (SCL and Construct), puts back the cursor that it saved,
opens and closes the substream of a signature, and in SCL goes on to NTP. The
generated code is not in the repository, so these actions are the schema that
the grammars prescribe, with the primitives that `putilities.c` and the grammar
files name. One part of it no line of the repository shows: that `remaining` is
counted down with every read. `lengthRemaining` compares with it, `get8_e` moves
`curPos` alone, and a decrement in `putilities.c:7` is commented out; `Advance`
assumes that the generated code does it, so `CursorExact` speaks of that schema.
Text is UTF-8 byte by byte (`Followers`, `Seconds`, `Decodes`). `VerdictExact` says that this machine decides the language; it is
checked and proved.

## 3. Runs

| Run | Question | Bounds | Result |
|---|---|---|---|
| `serialize_buffer` | does the buffer return what was written, inside its allocations, and free everything once? | nodes of 3 bytes, runs to 4, 6 bytes per packet, 2 byte values | holds |
| `pcap_driver` | are counters, totals, blocks, trace and closing right under signals and failures? | captures of 0 to 2 packets of 12 kinds | holds |
| `py_driver` | is no packet's failure another's, with `./tmp` or a process failing? | captures of 0 to 2 of 18 kinds, 4 scripts | holds |
| `byte_codec` | is every mixture of fields written back as read? | up to 3 fields of 11 kinds, one packet | holds |
| `packet_reader` | do the reads stay inside the buffer, and end when errors pass? | files to 8 bytes, unsigned int below 7 | holds |
| `string_hash` | one index per string, whatever the hash? | 4 strings, 4 slots, 256 hash functions | holds |
| `options` | does a line mean what the usage text says, disputed options apart, with options taken back and operands moved? | up to 3 of 24 kinds of element, up to 5 of the 6 that are exchanged | holds |
| `byte_input_stream` | does the lexer get the packet, each byte once, and never a short one? | lengths 0 to 14, payloads to 4 bytes, size_t below 1024, heap 32 | holds |
| `dns_parser` | is the cursor exact, the verdict the grammar's, and do the tools agree? | 1213 messages at the boundaries of the grammars, 8 tools | holds |
| `packet_read_loop` | "Standard read loop" (`packet.c:67`) | files to 8 bytes | violated |
| `byte_codec_48` | "back into their binary form" (`sutilities.c:4`) | one field | violated |
| `antlr_arp` | "finds arp and udp packets and passes them" (`antlr/binary/README.txt:2`) | captures of 0 to 2 packets of 9 kinds | violated |

Why the bounds are enough. Buffer: with nodes of 3 bytes, six bytes fill two
nodes and begin a third, runs of four are longer than a node, so every branch
of the reservation (first node, room, exact fit, no room, larger than MINSIZE)
meets every position; the proofs remove the bounds. Drivers: a packet's steps
depend on earlier packets only through the counters and the blocks left, so two
packets show one kind behind each other kind. Codec: the functions do not look
at the bytes they move; one packet of different bytes shows every permutation,
and three fields every alignment of one width behind two others. Reader: eight
bytes give up to eight short reads, and sizes on both sides of the wrap of the
unsigned int. Options: a value, an option and an operand are three elements, and
every pair of an option and what follows it occurs with one more before or
behind; five elements of few kinds exchange blocks of two operands with two
options. Stream: four bytes are enough for a token of two, a look-ahead behind
it and both ends; the lengths lie on both sides of 8 and of what was captured.
DNS: every type of record with lengths that are right, one off and zero, labels
of 63, 64 and 65 letters, names cut short at each place, counts one off, bytes
left over; a message has up to six items, so each list follows each other one.
Hash: with four strings in four slots every chain, wrap-around
and the full table occur.

No run constrains the states it visits: the bounds are on the inputs, and in the
guards of the codec and of the buffer on the number of fields (`MaxFields`) and
of bytes (`MaxRun`, `MaxLen`).

### Where code and documentation disagree

Three disagreements have a run, listed under findings in `PROJECT.json`:

- The read loop of `packet.c` puts a packet of three reads together wrongly
  (`packet_read_loop`).
- A little-endian field of six bytes loses one (`byte_codec_48`).
- `antlr/binary/README.txt:2` says that ARP packets are passed to the parser;
  `pmain.cpp:158` lets only IP and 802.1Q packets through, and counts the others
  as parsed (`antlr_arp`).

Others were met while modelling and are in the models as the code has them. Four
are about options, which `Disputed` of `Options` therefore keeps out of the
reference:

- `--envDir` is shown with a value (`pmain.c:569`) and declared without (line 578):
  `--envDir DIR` crashes in `strlen(NULL)` (line 612), `--envDir=DIR` is refused.
- `--RDF` (line 572), `--pcap` (563) and `--appTtraceFileCons` (567) are in the usage
  text and in no table: a line with one is refused.
- `--appTraceFileCons` (line 582) is in the table and not in the text.
- `-p` (line 563) is in the option string and in no case of the switch: its file is
  dropped, and the program runs on its operand.

The others:

- "Packets Parsed" (`pmain.c:550`) counts packets that no parser was tried on;
  `TotalsExact` states by how many.
- The handler that is to "handle Ctrl - C sanely" (`pmain.c:724`) may close a
  file twice; `UndefinedOnlyInWindows` names the windows.
- `antlr/binary/README.txt:10` says that `getText` returns decimal numbers; it
  returns the bytes.
- NSEC3 of `DNS.scl5` has a salt length and no salt. `dns_pcaps/readme.txt:12`
  says that no capture has one.
- `construct/readme.txt:15` calls `dns_switch.py` a version that uses `Switch`
  instead of `Select`; it also takes records of unknown types, which `dns.py`
  rejects.

## 4. Fairness

All programs modelled are sequential, and their loops run when the process is
scheduled: weak fairness of the actions of `main`, of the handler once it was
entered, of the loops of the buffer, the hash table and the reader, and of
nothing else. Signals, failing calls, read errors and a file that shrinks are
never fair. A signal handler returns to `main` or ends the process, and SIGINT is blocked while
its handler runs. `ReadingEnds` supposes that read errors stop for good
(`<>[]~failing`) and leaves out the file that lost bytes, because in either case the
loop runs for ever; this is listed as a hazard. A DNS parser is one loop,
hence weak fairness of its whole next-state relation for `Decides`; of the byte
input stream only the loop inside `seek` is fair, since what a lexer does next
is its own affair. The option loop needs none: `EachTurnAdvances` says that
`optind` grows with every turn on a line without clusters of short options, and it
is bounded by the line.

## 5. Proofs

Each theorem holds for every value of the constants that the named assumptions
of the module allow: any capture, command line, packet, table size. Few of the
properties are inductive; each module of proofs defines an invariant `IInv` that
is, shows that `Init` implies it and every action keeps it, one step per action,
and derives the properties. What each `IInv` adds, and why it is needed:

| Proofs | Properties proved | What the invariant adds |
|---|---|---|
| `SerializeBuffer_proofs` | `TypeOK`, `WritesFit`, `TotalIsWritten`, `CopiesFit`, `CombinedIsWritten`, `FreesEachOnce`, `ImplementsLog` | the shape of the list, which stretch of the history each node holds, the room reserved, how far the loops are |
| `PcapDriver_proofs` | `CountIsPosition`, `TotalsExact`, `OnlyCopiesStay`, `TraceComplete`, `UndefinedOnlyInWindows`, `ImplementsScan`; of `AntlrDriver` `TotalsExact`, `ObjectsDeleted` | place, position and outcomes determine counters, heap, report, trace and handle |
| `PyDriver_proofs` | `OutcomeIsOwn`, `TotalsNeedPayloads`, `ImplementsScan` | `./tmp` holds the payload in hand when the parser is run; counters are outcomes |
| `ByteCodec_proofs` | `RoundTrip`, and where `WritesEveryByte` holds | the places of the fields in packet and buffer |
| `StringHash_proofs` | `IndexLeadsBack`, `FullButOne`, `ImplementsInterning`; of `PacketReader` `ReadsFit` | no gap between where probing for a string starts and where it is |
| `Options_proofs` | `NoOptionSwallowed`, `EachTurnAdvances`, `SynopsisHolds` | argv is permuted only before `optind`; which operand waits; before the first operand, what is kept is what the options up to `optind` say |
| `ByteInputStream_proofs` | `TypeOK`, `LooksAtPacket`, `TokensArePacket`, `ShortNeverParsed` | position k of the data is byte k of memory; `start`, `p` and the target of a seek are in order |
| `DnsParser_proofs` | `TypeOK`, `CursorExact`, `ItemsTile`, `VerdictExact`, `CommonAccepted` | at most one substream is left to open, and none inside another; while an item is read, the last entry of `items` is where it began; what is left of it may end where the grammar lets the item end |

### The serialization buffer

`SerializeBuffer_proofs` proves, for every node size, set of widths, byte set
and bound, that the buffer keeps all its safety properties and implements
`ByteLog`. That a write fits follows only if earlier reservations were given by
the same node, that the total is right only if every first pointer leads to node
1, that combining returns the bytes only if the list is in allocation order:

- the shape of the list: node k+1 follows node k, the last has no successor,
  every first pointer is 1, the serializer holds the last node;
- the history: `start` gives, for each node, the offset of its first byte in
  what was written, each node holds that stretch of it, and the stretches join;
- the room: positions are within the room, and what is reserved fits;
- the loops: `rover` and `copyPos` correspond, and the part of the result before
  `copyPos` is what was written; nodes before `rover` are freed, later ones not.

`BufferImplementsLog` maps each step to a step of `ByteLog` or to a stutter.

### The drivers

`Placed` and `Counted` are the core: at each place in the loop the number of
outcomes is the position or one less, `pduCount` follows, and each counter is the
number of outcomes of its kind. A signal is harmless to them because no
step of a handler touches what `main` counts (`SignalKeepsMain`);
what a handler does touch, the handle and the trace, is in `Opened` and
`Traced`, from which `UndefinedOnlyInWindows` and `TraceComplete` follow. For
`ImplementsScan` a step is a visit, a report or a stutter. The theorems hold for
every choice of ether types, protocols and blocks; the last two are
about those of `pmain.cpp` (`IsAntlr` says that the constants are the ones
`AntlrDriver` gives).

The scripts have the same refinement. `OutcomeIsOwn` needs that FormatFuzzer's
parser is run only behind the write of the same packet (`Ready`): the file still
holds the last packet when a new one is taken. The elements in `unheard` were gone
through, failed, and belong to a script that starts a process.

### The codec

`LaidOut` gives every field its offset, an existential witness that
each parsed field extends. `WriteUndoesGet` shows, for each width and order, that
writing is inverse to reading; the 48-bit and 64-bit bodies are cases of
their own. Both theorems assume `Supported`: there is no little-endian field of
six bytes, which `get48_e` excludes by its comment ("ASSUMING ONLY BIGENDIAN"). So
`EveryByteIsWritten` says that the disagreement which `byte_codec_48` shows is
the only one.

### The tables and the reader

`Chained` is the invariant of open addressing: the slots from one behind the
hash of a string up to the string are full and do not hold it. A
probe that is under way has passed only such slots (`Probed`), so a string is
never entered twice. The reader's invariant is `ReadsFit` with the ranges of the
counters; it is inductive because `bytesRead` is the last transfer only, so what
is left always fits behind it.

### The options

`exchange` is shown to permute what lies before `optind` and to leave the rest
where it was typed (`ExchangeArranges`, by the lengths of four pieces of a
sequence). `OptionMoves` has the argument of the loop: the value of an option is
not looked at only if `optind` moved by something other than two, which means that
operands were skipped; then the first of them is before `optind` and not at
the end of the line (`Holding`), it stays first through every exchange
(`SkippedArranges`), and it is what the loop is left with (`LastHandsOver`). So
the program that runs on the last element of the line has swallowed no option. The
same lemma shows that `optind` grows with each turn, an option taken back
included.

`SynopsisHolds` is about lines whose operands come last and that hold none of the
disputed options. The reference has tables of its own, those of the usage text;
`TablesAgree` shows that on every other option they say what `optstring` and
`long_options` say. `Begins`, the places
where an option or an operand begins, is recursive over the line; `BeginsAre`
shows that the recursion has a solution, the least set that holds 1 and with a
place the one behind its option and value, so the other proofs need only that.
The invariant is `Following`: as long as the loop runs, argv is as typed,
`optind` is a place of `Begins` or the end, the options before it let the loop go
on, `numOptErrs` is positive exactly when one of them is wrong, and every name
and the level are those of the last option of their letter before it.
`OptionTaken` compares one call of `getopt_long`, with the value that is taken
back, with `Width` and `ValueOf`; `OperandsLeft` is the call that meets the first
operand, and `RestIsSaid` and `EndIsSaid` are the two ways in which the loop ends.

### Stream and cursor

`TextIsMemory`, on which the step `Accept` rests, is true because `start`, `p`
and the target of a seek are in order. `ShortIsNeverParsed` needs arithmetic: of
a length below eight, four times its size_t modulo size_t is within 32 of
size_t, and `HeapAssumption` says that malloc has not that much.

`CursorExact` is not inductive: opening a substream overwrites `outer`, which
must have been 0. `IInv` adds that the fields left to read open at most one
substream and none while one is open; `BodyOpens` shows that no body of any
dialect has two, and `TailOpens` and `ConcatOpens` carry the fact through the
lists of fields.

`ItemsTile` is the end of a longer story, which `Tiling` tells for every step: the
cursor is at 0 until the header is read, then `items` begins with 12, rises, and
holds one place for every item of the sections before and for `at.index` of the
present one (`Tiled`), which is within what the header announces (`InSection`);
and inside an item the cursor has left the place where the item began, or is about
to read a name there, whose first word moves it (`Moved`). Every alternative of
every grammar begins with a name, so the places rise strictly even where the
cursor is put back and alternatives are tried again.

`VerdictExact` compares two descriptions of a message that share little: sets of
places where a name, a body or a list may end, and a parser that moves a cursor.
Its proof has three parts.

- The language. `NameEnds` is recursive from the end of the message to its
  beginning; `NameEndsWord` shows that the recursion has a solution, hence that
  a name ends where the names behind its first word do, and `ListUnrolls` the
  same of a list. A message of a narrower grammar is one of a wider grammar
  (`LanguageMono`).
- The fields. A list of fields, as the parser holds it, ends in a set of places
  (`EndsFrom`) that is computed field by field (`FieldByField`). Every body of
  every type has a lemma, put together in `BodyEnds`: its fields end where
  `DataEnds` says, with a salt and without, with a substream and without.
- The parser. `Decoding` is its invariant. The items read so far end in one
  place, the one where the present item began (`Reached`); what is left of that
  item may end where the grammar lets the whole item end; and if the
  alternative for the type of the record was given up, the grammar has no such
  record there (`Tried`). A check that fails means that the grammar has no such message,
  so a rejected message is not in the language; an accepted one is.

`CommonAccepted` then follows: the grammar that the tools have in common is
narrower than the dialect of each.

### What only TLC checks

- Liveness (`LoopsEnd`, `Terminates`, `ProbingEnds`, `ReadingEnds`, `SeekLands`,
  `Decides`): the prover has neither fairness of actions nor ENABLED.
- The three disagreements of section 3 that have a run, each shown by a
  counterexample.

Every other property of a run is proved: all invariants, the action property of
the option loop and the safety part of the refinements. Definitions that are recursive over the line
or the message are within reach although the induction theorems of the library
are not (they take an operator as a parameter): each recursion is a function, and
that it has a solution, or that two agree, is shown with a set of the numbers up
to which it is so, whose complement would have a least element (`Induction`,
`LeastNatural`).

## 6. Not modelled

- The parsers, serializers and printers that TXL, ANTLR, Kaitai, Spicy and
  FormatFuzzer generate are not in the repository: a parse is a verdict for the
  drivers and a schema in `DnsParser`; a serializer is a sequence of
  reservations and writes.
- The fields of RTPS, IGMP and ARP: `DnsParser` has the choice of `UDP.scl5`
  with DNS and NTP, and no payload considered begins with the magic number of
  RTPS. IGMP and ARP messages reach their parsers by ether type and protocol,
  which `PcapDriver` has.
- `callback.c` only writes to the trace and is not linked with the driver. `globals.h` and the headers
  declare what other files use.
- A UDP length below eight in the SCL driver: the check of the remaining bytes
  then passes for every read, and what is read is outside the program.
  `ByteInputStream` covers the same length in the other driver.
- Clusters of short options and abbreviated long ones, which `getopt_long`
  accepts: inside a cluster `optind` stands still, so `EachTurnAdvances` is not
  about lines that have one; lengths of 128 and more in the signed characters of `dns.bt`.
- A failing malloc inside the serializer: the code uses the NULL at once. The early
  return of `combineBuffers` for a NULL node (`sutilities.c:259-262`), which is
  reached only if a serializer reserved nothing at all.
- A signal inside a call of libpcap or stdio, or inside a parse (section 2).
- Printing, progress and the failure rate.

## 7. Plan

Done, in this order: the serialization buffer with its proofs, the drivers and
their common promise, the codec, the packet reader, the string hash; the DNS
grammars and parsers, the byte input stream and the options; then the proofs of
all safety properties. Next:

1. `Comparison`: two drivers over one capture, and which totals may differ.
2. RTPS submessages as further items of `DnsParser`'s cursor.
