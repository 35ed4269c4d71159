---------------------------- MODULE MCPcapDriver ----------------------------
(***************************************************************************)
(* The SCL driver (pmain.c) over every capture of at most MaxPackets       *)
(* packets.  Only the packets a driver tells apart are kept: the protocol  *)
(* does not matter under ARP, a VLAN tag or an unknown ether type, nor     *)
(* does what a parser would say of a packet that none is tried on.         *)
(***************************************************************************)
EXTENDS PcapDriver

CONSTANT MaxPackets

Pkt(ether, proto, ok) == [ether |-> ether, proto |-> proto, ok |-> ok]

Packets ==
  {Pkt("ARP", "TCP", ok) : ok \in BOOLEAN}
  \cup {Pkt("IP", proto, ok) : proto \in {"IGMP", "UDP"}, ok \in BOOLEAN}
  \cup {Pkt("IPv6", "UDP", ok) : ok \in BOOLEAN}
  \cup {Pkt(ether, "TCP", TRUE) : ether \in {"IP", "IPv6", "8021Q", "other"}}

MCCaptures == UNION {[1..n -> Packets] : n \in 0..MaxPackets}

MCEtherTypes == {"ARP", "IP", "IPv6"}
MCBlocks == [e \in MCEtherTypes |->
               IF e = "ARP" THEN {"thePDU"} ELSE {"thePDU", "header"}]
\* The buffer that combineBuffers returns is not freed.
MCLeftBehind == [ok \in BOOLEAN |-> IF ok THEN 1 ELSE 0]
=============================================================================
