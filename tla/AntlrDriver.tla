---------------------------- MODULE AntlrDriver ----------------------------
(***************************************************************************)
(* The driver of the ANTLR parser (pmain.cpp): PcapDriver with the ether   *)
(* types, protocols and objects of that program.  Its parser is made to    *)
(* throw at the first error (BailErrorStrategy), a catch counts the        *)
(* failure, and the four objects are deleted on both paths.  The bytes are *)
(* loaded before the try, so a failing allocation is not caught and the    *)
(* program aborts; load never frees its wide copy of the packet.           *)
(***************************************************************************)
EXTENDS Integers, FiniteSets, Sequences

CONSTANT Captures

VARIABLES capture, pc, sig, pcapHandle, position, pduCount, pduSkipped,
          pduFailed, pduTotal, trace, flushed, heap, leaked, outcome, report,
          status, undefined

EtherTypes == {"IP", "IPv6"}

IPv4Protocols == {"UDP"}

Objects == [e \in EtherTypes |->
              {"bytesFromPacket", "dnsLexer", "dnsTokens", "dnsParser"}]

\* load: one array of wide characters for each packet that is tried.
WideCopies == [ok \in BOOLEAN |-> 1]

Uncaught == "abort"

Driver == INSTANCE PcapDriver
            WITH Blocks <- Objects, LeftBehind <- WideCopies,
                 OutOfMemory <- Uncaught

FairSpec == Driver!FairSpec

-----------------------------------------------------------------------------
\* The packets whose payload the driver gives to its parser.
Passed == {k \in DOMAIN capture : Driver!HasParser(capture[k])}

\* What is printed, counted from the capture: failed are the packets that were
\* passed to the parser and made it throw, and the packets over IP and IPv6
\* that were not passed to it are neither parsed nor failed.  Of "Packets
\* Parsed" only those that were passed were parsed: every packet of another
\* ether type, ARP among them, is printed there although none was tried.
TotalsExact ==
  report # <<>> =>
    LET thrown == {k \in Passed : ~capture[k].ok}
        foreign == {k \in DOMAIN capture : capture[k].ether \notin EtherTypes}
    IN /\ report[1].total = Len(capture) /\ pduTotal = Len(capture)
       /\ report[1].failed = Cardinality(thrown)
       /\ report[1].parsed = Cardinality(Passed \ thrown) + Cardinality(foreign)

\* README.txt:2 of the driver: it "finds arp and udp packets and passes them to
\* the generated antler parser", so each one it has gone through has a verdict.
ArpAndUdpPassed ==
  \A k \in DOMAIN outcome :
    LET udp == capture[k].ether \in {"IP", "IPv6"} /\ capture[k].proto = "UDP"
    IN capture[k].ether = "ARP" \/ udp => outcome[k] \in {"parsed", "failed"}

\* The four objects are deleted whether the parser throws or not, and every
\* packet tried costs the one copy that load made.
ObjectsDeleted ==
  pc = "read" =>
    heap = {} /\ leaked = Cardinality({k \in 1..position :
                                         Driver!HasParser(capture[k])})
=============================================================================
