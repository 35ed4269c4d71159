--------------------------- MODULE MCAntlrDriver ---------------------------
(***************************************************************************)
(* The ANTLR driver over every capture of at most MaxPackets packets.      *)
(***************************************************************************)
EXTENDS AntlrDriver

CONSTANT MaxPackets

Pkt(ether, proto, ok) == [ether |-> ether, proto |-> proto, ok |-> ok]

Packets ==
  {Pkt(ether, "UDP", ok) : ether \in {"IP", "IPv6"}, ok \in BOOLEAN}
  \cup {Pkt("IP", "TCP", TRUE), Pkt("IPv6", "TCP", TRUE)}
  \cup {Pkt(ether, "TCP", TRUE) : ether \in {"ARP", "8021Q", "other"}}

MCCaptures == UNION {[1..n -> Packets] : n \in 0..MaxPackets}
=============================================================================
