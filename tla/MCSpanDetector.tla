--------------------------- MODULE MCSpanDetector ---------------------------
(* The detectors on a small instance for TLC. *)
EXTENDS SpanDetector

CONSTANTS p1, p2, p3, m1, m2, ip1, ip2

MCAbove == [burst |-> 2, icmp |-> 1]

Port(k, ip, p) == [ip |-> ip, kind |-> k, port |-> p]
Arp(ip, m) == [ip |-> ip, kind |-> "arp", mac |-> m]
Ping == [ip |-> ip1, kind |-> "icmp"]

(* Scans; floods; two addresses; ARP. *)
MCMixes ==
    {{Port("udp", ip1, p) : p \in {p1, p2, p3}},
     {Port("tcp", ip1, p1), Port("udp", ip1, p2), Ping},
     {Port("tcp", ip1, p1), Port("tcp", ip1, p2), Port("udp", ip2, p2)},
     {Arp(ip1, m1), Arp(ip1, m2), Arp(ip2, m1)}}
=============================================================================
