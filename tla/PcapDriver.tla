----------------------------- MODULE PcapDriver -----------------------------
(***************************************************************************)
(* The program around the generated parsers (pmain.c, and its stripped     *)
(* copy pmain.cpp, which AntlrDriver makes of this module by the choice of *)
(* its constants).  It goes through the capture file once to count the     *)
(* packets, opens it again, tries each packet it knows the protocol of,    *)
(* and prints totals.  SIGINT closes the files and ends the program;       *)
(* SIGUSR1 flushes the trace file.  Each may be delivered between any two  *)
(* steps of main, and SIGUSR1 also between two steps of the other handler. *)
(*                                                                         *)
(* libpcap and stdio are modelled from their use: pcap_next returns the    *)
(* packets in file order, fclose and exit write out what a stream holds,   *)
(* and closing or flushing what is closed already is undefined: the        *)
(* program aborts or goes on.  A call of theirs, or the parse of a packet, *)
(* is one step: a signal in the middle of it is not covered.               *)
(***************************************************************************)
EXTENDS Integers, FiniteSets, Sequences

CONSTANTS Captures,       \* the capture files
          EtherTypes,     \* ether types the driver parses packets of
          IPv4Protocols,  \* protocols over IPv4 it has a parser for
          Blocks,         \* by ether type: what it allocates for a packet
          LeftBehind,     \* by success: allocations of a parse never freed
          OutOfMemory     \* how it ends when an allocation fails

Packet == [ether : {"ARP", "IP", "IPv6", "8021Q", "other"},
           proto : {"IGMP", "UDP", "TCP"},
           ok    : BOOLEAN]     \* what the parser of its protocol returns

Outcome == {"parsed", "failed", "skipped", "unknown", "untouched"}

ASSUME CapturesAssumption == Captures \subseteq Seq(Packet)
ASSUME DriverAssumption ==
  /\ EtherTypes \subseteq {"ARP", "IP", "IPv6"}
  /\ IPv4Protocols \subseteq {"IGMP", "UDP"}
  /\ DOMAIN Blocks = EtherTypes
  /\ LeftBehind \in [BOOLEAN -> Nat]
  /\ OutOfMemory \in {"failure", "abort"}

VARIABLES capture,     \* the packets in pcapFileName
          pc,          \* where main is
          sig,         \* where mainIntrHandler is, "none" outside it
          pcapHandle,  \* "NULL", "open" or "closed": nothing resets it
          position,    \* packets pcap_next has returned
          pduCount, pduSkipped, pduFailed, pduTotal,
          trace,       \* traceFileParser: "NULL", "open" or "closed"
          flushed,     \* trace lines surely written to the file
          heap,        \* blocks the driver holds for a packet
          leaked,      \* blocks it lost
          outcome,     \* history: one entry per packet gone through
          report,      \* <<totals>> once printed
          status,      \* how the process ended
          undefined    \* history: something closed was used

counts == <<pduCount, pduSkipped, pduFailed, pduTotal>>
memory == <<heap, leaked>>
output == <<trace, flushed, report>>
vars == <<capture, pc, sig, pcapHandle, position, counts, memory, output,
          outcome, status, undefined>>

packet == capture[position]

-----------------------------------------------------------------------------
(* Ends of the process *)

\* Mutant: the streams are not flushed.
ExitUnflushed(how) ==
  /\ pc' = "exit" /\ status' = how
  /\ UNCHANGED flushed

\* exit: what the open trace file holds is written out.
Exit(how) ==
  /\ pc' = "exit" /\ status' = how
  /\ flushed' = IF trace = "open" /\ how # "abort" THEN Len(outcome) ELSE flushed

\* Use of something closed: an abort, or nothing happens and then resumes.
UndefinedOr(resume) ==
  /\ undefined' = TRUE
  /\ \/ pc' = "exit" /\ status' = "abort" /\ UNCHANGED sig
     \/ resume /\ UNCHANGED status

-----------------------------------------------------------------------------
(* main: opening, and the pass that counts *)

At(label) == pc = label /\ sig = "none"

OpenTrace ==
  /\ At("start")
  /\ \/ \E t \in {"NULL", "open"} : trace' = t    \* without or with -t
        /\ pc' = "open" /\ UNCHANGED <<status, flushed>>
     \/ Exit("failure") /\ UNCHANGED trace
  /\ UNCHANGED <<capture, sig, pcapHandle, position, counts, memory, outcome,
                 report, undefined>>

\* pcap_open_offline: a handle at the first packet, or NULL and exit(1).
OpenPcap(from, to) ==
  /\ At(from)
  /\ \/ /\ pcapHandle' = "open" /\ position' = 0
        /\ pc' = to /\ UNCHANGED <<status, flushed>>
     \/ /\ pcapHandle' = "NULL"
        /\ Exit("failure") /\ UNCHANGED position
  /\ UNCHANGED <<capture, sig, counts, memory, trace, outcome, report, undefined>>

Open == OpenPcap("open", "count")

findTotal ==
  /\ At("count")
  /\ IF position < Len(capture)
     THEN /\ position' = position + 1 /\ pduTotal' = pduTotal + 1
          /\ UNCHANGED pc
     ELSE pc' = "close" /\ UNCHANGED <<position, pduTotal>>
  /\ UNCHANGED <<capture, sig, pcapHandle, pduCount, pduSkipped, pduFailed,
                 memory, output, outcome, status, undefined>>

\* pcap_close leaves pcapHandle as it was.
ClosePcap(from, to) ==
  /\ At(from)
  /\ pcapHandle' = "closed" /\ pc' = to
  /\ UNCHANGED <<capture, sig, position, counts, memory, output, outcome,
                 status, undefined>>

CloseCounted == ClosePcap("close", "reopen")

\* Mutant: the new handle is not stored.
ReopenUnstored ==
  /\ At("reopen")
  /\ position' = 0 /\ pc' = "read"
  /\ UNCHANGED <<capture, sig, pcapHandle, counts, memory, output, outcome,
                 status, undefined>>

Reopen == OpenPcap("reopen", "read")

-----------------------------------------------------------------------------
(* main: the pass that parses, one packet per turn *)

ReadPacket ==
  /\ At("read") /\ position < Len(capture)
  /\ position' = position + 1
  /\ pc' = "packet"
  /\ UNCHANGED <<capture, sig, pcapHandle, counts, memory, output, outcome,
                 status, undefined>>

\* Mutant: the packet is not counted.
UnknownEtherTypeUncounted ==
  /\ At("packet") /\ packet.ether \notin EtherTypes \cup {"8021Q"}
  /\ outcome' = Append(outcome, "unknown")
  /\ pc' = "read"
  /\ UNCHANGED <<capture, sig, pcapHandle, position, counts, memory, output,
                 status, undefined>>

\* Counted and left with continue, but not as skipped.
UnknownEtherType ==
  /\ At("packet") /\ packet.ether \notin EtherTypes \cup {"8021Q"}
  /\ outcome' = Append(outcome, "unknown")
  /\ pduCount' = pduCount + 1
  /\ pc' = "read"
  /\ UNCHANGED <<capture, sig, pcapHandle, position, pduSkipped, pduFailed,
                 pduTotal, memory, output, status, undefined>>

\* A VLAN tag passes the test of the ether type and no branch takes it.
Untouched ==
  /\ At("packet") /\ packet.ether = "8021Q"
  /\ outcome' = Append(outcome, "untouched")
  /\ pc' = "tally"
  /\ UNCHANGED <<capture, sig, pcapHandle, position, counts, memory, output,
                 status, undefined>>

HasParser(q) ==
  /\ q.ether \in EtherTypes
  /\ \/ q.ether = "ARP"
     \/ q.ether = "IP" /\ q.proto \in IPv4Protocols
     \/ q.ether = "IPv6" /\ q.proto = "UDP"

\* Mutant: a packet without a parser counts as failed.
SkipAsFailed ==
  /\ At("packet") /\ packet.ether \in EtherTypes /\ ~HasParser(packet)
  /\ outcome' = Append(outcome, "skipped")
  /\ pduFailed' = pduFailed + 1
  /\ pc' = "tally"
  /\ UNCHANGED <<capture, sig, pcapHandle, position, pduCount, pduSkipped,
                 pduTotal, memory, output, status, undefined>>

Skip ==
  /\ At("packet") /\ packet.ether \in EtherTypes /\ ~HasParser(packet)
  /\ outcome' = Append(outcome, "skipped")
  /\ pduSkipped' = pduSkipped + 1
  /\ pc' = "tally"
  /\ UNCHANGED <<capture, sig, pcapHandle, position, pduCount, pduFailed,
                 pduTotal, memory, output, status, undefined>>

\* thePDU and header; when memory is short the process ends.
Allocate ==
  /\ At("packet") /\ HasParser(packet)
  /\ \/ /\ heap' = heap \cup Blocks[packet.ether]
        /\ pc' = "parse" /\ UNCHANGED <<status, flushed>>
     \/ Exit(OutOfMemory) /\ UNCHANGED heap
  /\ UNCHANGED <<capture, sig, pcapHandle, position, counts, leaked, trace,
                 report, outcome, undefined>>

\* Parse and, in pmain.c, serialize, combine, compare and free the buffer.
ParseSucceeds ==
  /\ At("parse") /\ packet.ok
  /\ outcome' = Append(outcome, "parsed")
  /\ leaked' = leaked + LeftBehind[TRUE]
  /\ pc' = "release"
  /\ UNCHANGED <<capture, sig, pcapHandle, position, counts, heap, output,
                 status, undefined>>

\* Mutant: the failure is counted and the packet left at once.
ParseFailsContinue ==
  /\ At("parse") /\ ~packet.ok
  /\ outcome' = Append(outcome, "failed")
  /\ pduFailed' = pduFailed + 1
  /\ leaked' = leaked + LeftBehind[FALSE]
  /\ pc' = "tally"
  /\ UNCHANGED <<capture, sig, pcapHandle, position, pduCount, pduSkipped,
                 pduTotal, heap, output, status, undefined>>

ParseFails ==
  /\ At("parse") /\ ~packet.ok
  /\ outcome' = Append(outcome, "failed")
  /\ pduFailed' = pduFailed + 1
  /\ leaked' = leaked + LeftBehind[FALSE]
  /\ pc' = "release"
  /\ UNCHANGED <<capture, sig, pcapHandle, position, pduCount, pduSkipped,
                 pduTotal, heap, output, status, undefined>>

Release ==
  /\ At("release")
  /\ heap' = heap \ Blocks[packet.ether]
  /\ pc' = "tally"
  /\ UNCHANGED <<capture, sig, pcapHandle, position, counts, leaked, output,
                 outcome, status, undefined>>

Tally ==
  /\ At("tally")
  /\ pduCount' = pduCount + 1
  /\ pc' = "read"
  /\ UNCHANGED <<capture, sig, pcapHandle, position, pduSkipped, pduFailed,
                 pduTotal, memory, output, outcome, status, undefined>>

-----------------------------------------------------------------------------
(* main: the end of the capture *)

CloseParsed ==
  /\ position = Len(capture)
  /\ ClosePcap("read", "report")

\* Mutant: pduCount, which started at 1, is printed as it is.
ReportOneMore ==
  /\ At("report")
  /\ report' = <<[total |-> pduCount, failed |-> pduFailed,
                  parsed |-> pduCount - pduSkipped - pduFailed]>>
  /\ pc' = "files"
  /\ UNCHANGED <<capture, sig, pcapHandle, position, counts, memory, trace,
                 flushed, outcome, status, undefined>>

Report ==
  /\ At("report")
  /\ pduCount' = pduCount - 1
  /\ report' = <<[total |-> pduCount', failed |-> pduFailed,
                  parsed |-> pduCount' - pduSkipped - pduFailed]>>
  /\ pc' = "files"
  /\ UNCHANGED <<capture, sig, pcapHandle, position, pduSkipped, pduFailed,
                 pduTotal, memory, trace, flushed, outcome, status, undefined>>

\* closeFiles: nothing sets traceFileParser back to NULL.
closeFiles ==
  /\ trace' = IF trace = "open" THEN "closed" ELSE trace
  /\ flushed' = IF trace = "open" THEN Len(outcome) ELSE flushed

MainClosesFiles ==
  /\ At("files")
  /\ closeFiles /\ pc' = "return"
  /\ UNCHANGED <<capture, sig, pcapHandle, position, counts, memory, report,
                 outcome, status, undefined>>

Return ==
  /\ At("return")
  /\ Exit("success")
  /\ UNCHANGED <<capture, sig, pcapHandle, position, counts, memory, trace,
                 report, outcome, undefined>>

-----------------------------------------------------------------------------
(* Signals *)

Running == pc \notin {"start", "exit"}

\* SIGINT is blocked while its handler runs.
Interrupt ==
  /\ Running /\ sig = "none"
  /\ sig' = "pcap"
  /\ UNCHANGED <<capture, pc, pcapHandle, position, counts, memory, output,
                 outcome, status, undefined>>

HandlerClosesPcap ==
  /\ Running /\ sig = "pcap"
  /\ \/ /\ pcapHandle = "NULL" /\ sig' = "files"
        /\ UNCHANGED <<pc, status, undefined, pcapHandle>>
     \/ /\ pcapHandle = "open"
        /\ pcapHandle' = "closed" /\ sig' = "files"
        /\ UNCHANGED <<pc, status, undefined>>
     \/ /\ pcapHandle = "closed"
        /\ UndefinedOr(sig' = "files" /\ UNCHANGED pc)
        /\ UNCHANGED pcapHandle
  /\ UNCHANGED <<capture, position, counts, memory, output, outcome>>

HandlerClosesFiles ==
  /\ Running /\ sig = "files"
  /\ \/ trace # "closed" /\ sig' = "exit" /\ UNCHANGED <<pc, status, undefined>>
     \/ trace = "closed" /\ UndefinedOr(sig' = "exit" /\ UNCHANGED pc)
  /\ closeFiles
  /\ UNCHANGED <<capture, pcapHandle, position, counts, memory, report, outcome>>

\* Mutant: the handler returns and main resumes.
HandlerReturns ==
  /\ Running /\ sig = "exit"
  /\ sig' = "none"
  /\ UNCHANGED <<capture, pc, pcapHandle, position, counts, memory, output,
                 outcome, status, undefined>>

HandlerExits ==
  /\ Running /\ sig = "exit"
  /\ Exit("success")
  /\ UNCHANGED <<capture, sig, pcapHandle, position, counts, memory, trace,
                 report, outcome, undefined>>

\* SIGUSR1, also while the handler of SIGINT runs.
userReport ==
  /\ Running
  /\ \/ trace = "open" /\ flushed' = Len(outcome)
        /\ UNCHANGED <<pc, sig, status, undefined>>
     \/ trace = "closed" /\ UndefinedOr(UNCHANGED <<pc, sig>>)
        /\ UNCHANGED flushed
  /\ UNCHANGED <<capture, pcapHandle, position, counts, memory, trace, report,
                 outcome>>

-----------------------------------------------------------------------------
Init ==
  /\ capture \in Captures
  /\ pc = "start" /\ sig = "none"
  /\ pcapHandle = "NULL" /\ position = 0
  /\ pduCount = 1 /\ pduSkipped = 0 /\ pduFailed = 0 /\ pduTotal = 0
  /\ trace = "NULL" /\ flushed = 0
  /\ heap = {} /\ leaked = 0
  /\ outcome = <<>> /\ report = <<>>
  /\ status = "running" /\ undefined = FALSE

Main ==
  \/ OpenTrace \/ Open \/ findTotal \/ CloseCounted \/ Reopen
  \/ ReadPacket \/ UnknownEtherType \/ Untouched \/ Skip
  \/ Allocate \/ ParseSucceeds \/ ParseFails \/ Release \/ Tally
  \/ CloseParsed \/ Report \/ MainClosesFiles \/ Return

mainIntrHandler == HandlerClosesPcap \/ HandlerClosesFiles \/ HandlerExits

Done == pc = "exit" /\ UNCHANGED vars

Next == Main \/ Interrupt \/ mainIntrHandler \/ userReport \/ Done

Spec == Init /\ [][Next]_vars

\* The process is scheduled, in main and in its handler.
FairSpec == Spec /\ WF_vars(Main) /\ WF_vars(mainIntrHandler)
-----------------------------------------------------------------------------
(* Properties *)

\* The number under which a packet appears in the trace and in its header
\* (pktCount) is its position in the capture, although the counter is advanced
\* in two places, one of them before a continue.
CountIsPosition ==
  /\ pc = "read" => pduCount = position + 1
  /\ pc \in {"packet", "parse", "release", "tally"} => pduCount = position

Failures(n) == {k \in 1..n : HasParser(capture[k]) /\ ~capture[k].ok}
Successes(n) == {k \in 1..n : HasParser(capture[k]) /\ capture[k].ok}

Untried(n) == {k \in 1..n : capture[k].ether \notin EtherTypes}

\* The totals printed are those of the capture: both passes saw the same
\* number of packets, exactly the packets that have a parser and do not parse
\* are reported as failed, and "Packets Parsed" are those that parse and those
\* of an ether type without a parser, which are in no counter but the first.
TotalsExact ==
  report # <<>> =>
    /\ report[1].total = Len(capture) /\ pduTotal = Len(capture)
    /\ report[1].failed = Cardinality(Failures(Len(capture)))
    /\ report[1].parsed = Cardinality(Successes(Len(capture)))
                            + Cardinality(Untried(Len(capture)))

\* Between two packets nothing of a packet is held, whichever way its parse
\* went; what stays behind is one serialized copy (or one wide copy) each.
OnlyCopiesStay ==
  pc = "read" =>
    /\ heap = {}
    /\ leaked = LeftBehind[TRUE] * Cardinality(Successes(position))
                 + LeftBehind[FALSE] * Cardinality(Failures(position))

\* An interrupt is safe while packets are counted or parsed: a file is used
\* after it was closed only when a signal arrives between the two openings,
\* after the capture is closed for good, or when SIGUSR1 arrives after
\* mainIntrHandler closed the trace.
Windows == pc \in {"reopen", "report", "files", "return"} \/ sig = "exit"
UndefinedOnlyInWindows == [][undefined' # undefined => Windows]_vars

\* However the program ends, an abort apart, the trace file is complete:
\* closed by main or by the handler, or written out by exit.
TraceComplete ==
  pc = "exit" /\ status # "abort" /\ trace # "NULL" => flushed = Len(outcome)

\* The program ends, interrupted or not.
Terminates == <>(pc = "exit")

\* The driver goes through the capture as PacketScan says.
Scan == INSTANCE PacketScan
ImplementsScan == Scan!Spec
=============================================================================
