---------------------------- MODULE SpanDetector ----------------------------
(***************************************************************************)
(* The detectors of events/span_analyzer.py: one thread takes the packets  *)
(* mirrored by a switch one by one and reports bursts, floods of pings,    *)
(* scans of UDP ports and ARP replies that contradict an earlier one.      *)
(* Counts are per calendar second, ports per sliding window, and after an  *)
(* alert of a kind about an address the next is held back for a while.     *)
(*                                                                         *)
(* Of a TCP packet only the burst count takes notice.  What the source     *)
(* goes on to do with it, counting SYNs and ports and reading HTTP and TLS *)
(* names, is never reached: line 333 unpacks the 20 bytes of its header by *)
(* a format of 14, struct.error is raised for every one of them, and line  *)
(* 420 swallows it.                                                        *)
(*                                                                         *)
(* Time is in ticks, Sec of them to a second.  What a packet says beyond   *)
(* its source, its kind and its port (or the address an ARP reply gives)   *)
(* is left out, and so are the DNS reports.                                *)
(***************************************************************************)
EXTENDS Integers, Sequences, FiniteSets

CONSTANTS
    Ips, Ports, Macs,
    Sec,            \* ticks of a second
    Above,          \* the count that each of burst and icmp must exceed
    ScanPorts,      \* distinct ports that make a scan
    ScanWindow,     \* ... in how many ticks
    Cooldown,       \* ticks
    Mixes,          \* bounds: the packets a behaviour may have, one of these sets
    MaxPackets, MaxTime, MaxRestarts    \* bounds

Counted == {"burst", "icmp"}
Kinds == Counted \cup {"scan", "spoof"}
Packets ==
    [ip : Ips, kind : {"tcp", "udp"}, port : Ports]
      \cup [ip : Ips, kind : {"icmp"}] \cup [ip : Ips, kind : {"arp"}, mac : Macs]

ASSUME NumbersAssumption ==
    /\ Sec \in Nat \ {0} /\ ScanPorts \in Nat \ {0}
    /\ Above \in [Counted -> Nat]
    /\ {ScanWindow, Cooldown, MaxPackets, MaxTime, MaxRestarts} \subseteq Nat
    /\ \A mix \in Mixes : mix \subseteq Packets

VARIABLES
    clock,      \* in ticks
    count,      \* traffic_rate_tracker and icmp_flood_tracker
    ports,      \* port_scan_tracker: when each port was last seen
    arp,        \* arp_ip_mac_table, a set of macs with at most one
    last,       \* last_anomaly_alert
    mix, restarts,  \* what the bounds count
    seen,       \* history: the packets of this thread
    alerts      \* history: the alerts it published

trackers == <<count, ports, arp, last>>
spanHistory == <<seen, alerts>>
spanVars == <<clock, trackers, mix, restarts, spanHistory>>

Second(t) == t \div Sec
Never == -Cooldown - 1      \* 0 of the epoch is long ago

NoCount == [ip \in Ips |-> [k \in Counted |-> [n |-> 0, sec |-> 0]]]
NoAlert == [ip \in Ips |-> [k \in Kinds |-> Never]]
Nothing == [ip \in Ips |-> {}]

SpanInit ==
    /\ clock = 0 /\ restarts = 0 /\ mix \in Mixes
    /\ count = NoCount /\ ports = Nothing /\ arp = Nothing /\ last = NoAlert
    /\ seen = <<>> /\ alerts = {}
-----------------------------------------------------------------------------
(* Mutant: the count of the last second is kept. *)
BumpOn(c) == [n |-> c.n + 1, sec |-> Second(clock)]

(* A counter of this second, or a new one. *)
Bump(c) == [n |-> IF c.sec = Second(clock) THEN c.n + 1 ELSE 1, sec |-> Second(clock)]

Counts(p) == CASE p.kind = "arp" -> {}
               [] p.kind = "icmp" -> {"burst", "icmp"}
               [] OTHER -> {"burst"}

NextCount(p) == [k \in Counted |-> IF k \in Counts(p) THEN Bump(count[p.ip][k])
                                   ELSE count[p.ip][k]]

(* Mutant: a list of sightings, where the source keeps the last one of a port. *)
NextPortsTwice(p) ==
    {r \in ports[p.ip] : clock - r.at <= ScanWindow} \cup {[port |-> p.port, at |-> clock]}

(* The ports of the window, this packet's included. *)
NextPorts(p) ==
    {r \in ports[p.ip] : r.port # p.port /\ clock - r.at <= ScanWindow}
      \cup {[port |-> p.port, at |-> clock]}

(* The detectors this packet sets off. *)
Fired(p) ==
    IF p.kind = "arp" THEN {k \in {"spoof"} : arp[p.ip] \notin {{}, {p.mac}}}
    ELSE {k \in Counts(p) : NextCount(p)[k].n > Above[k]}
           \cup {k \in {"scan"} : p.kind = "udp" /\ Cardinality(NextPorts(p)) >= ScanPorts}

(* Mutant: the cool-down is renewed by what it holds back. *)
PublishSliding(p) ==
    LET due == {k \in Fired(p) : clock - last[p.ip][k] > Cooldown}
    IN  /\ last' = [last EXCEPT ![p.ip] = [k \in Kinds |->
                                 IF k \in Fired(p) THEN clock ELSE last[p.ip][k]]]
        /\ alerts' = alerts \cup {[ip |-> p.ip, kind |-> k, at |-> clock] : k \in due}

(* Those of them whose last alert is more than the cool-down ago are published. *)
Publish(p) ==
    LET due == {k \in Fired(p) : clock - last[p.ip][k] > Cooldown}
    IN  /\ last' = [last EXCEPT ![p.ip] = [k \in Kinds |->
                                 IF k \in due THEN clock ELSE last[p.ip][k]]]
        /\ alerts' = alerts \cup {[ip |-> p.ip, kind |-> k, at |-> clock] : k \in due}

(* One turn of the loop of analyze_span_packets: a TCP packet leaves it by the
   error of line 333, when it has been counted. *)
Handle(p) ==
    /\ Len(seen) < MaxPackets
    /\ Publish(p)
    /\ count' = [count EXCEPT ![p.ip] = NextCount(p)]
    /\ ports' = IF p.kind = "udp" THEN [ports EXCEPT ![p.ip] = NextPorts(p)] ELSE ports
    /\ arp' = IF p.kind = "arp" /\ arp[p.ip] = {}
              THEN [arp EXCEPT ![p.ip] = {p.mac}] ELSE arp
    /\ seen' = Append(seen, [packet |-> p, at |-> clock])
    /\ UNCHANGED <<clock, mix, restarts>>

ClockTick ==
    /\ clock < MaxTime
    /\ clock' = clock + 1
    /\ UNCHANGED <<trackers, mix, restarts, spanHistory>>

(* The analyzer is stopped and started: its tables were locals of the thread. *)
RestartAnalyzer ==
    /\ restarts < MaxRestarts /\ restarts' = restarts + 1
    /\ count' = NoCount /\ ports' = Nothing /\ arp' = Nothing /\ last' = NoAlert
    /\ seen' = <<>> /\ alerts' = {}
    /\ UNCHANGED <<clock, mix>>

SpanNext == ClockTick \/ RestartAnalyzer \/ \E p \in mix : Handle(p)

SpanSpec == SpanInit /\ [][SpanNext]_spanVars
-----------------------------------------------------------------------------
(* Every variable has its type; a port has one entry. *)
SpanTypeOK ==
    /\ clock \in Nat /\ restarts \in Nat /\ mix \in Mixes
    /\ count \in [Ips -> [Counted -> [n : Nat, sec : Nat]]]
    /\ ports \in [Ips -> SUBSET [port : Ports, at : 0..clock]]
    /\ \A ip \in Ips : \A r, q \in ports[ip] : r.port = q.port => r = q
    /\ arp \in [Ips -> SUBSET Macs] /\ \A ip \in Ips : \A m, o \in arp[ip] : m = o
    /\ last \in [Ips -> [Kinds -> Int]]
    /\ alerts \subseteq [ip : Ips, kind : Kinds, at : 0..clock]

(* What the alerts are about, over the packets themselves: those of an address
   that count for k, from one time to another, ... *)
Of(ip, k, from, to) ==
    {i \in DOMAIN seen : /\ seen[i].packet.ip = ip /\ k \in Counts(seen[i].packet)
                         /\ from <= seen[i].at /\ seen[i].at <= to}

(* ... and the ports it tried over UDP. *)
Tried(ip, from, to) ==
    {seen[i].packet.port : i \in
        {j \in DOMAIN seen : /\ seen[j].packet.ip = ip /\ seen[j].packet.kind = "udp"
                             /\ from <= seen[j].at /\ seen[j].at <= to}}

Replies(ip) ==
    {i \in DOMAIN seen : seen[i].packet.ip = ip /\ seen[i].packet.kind = "arp"}

(* No false alarm, and no storm of alarms: an alert about an address has the
   packets that justify it within its second, or its window, or two ARP replies
   that disagree; and alerts of a kind about an address are a cool-down apart. *)
AlertsSound ==
    /\ \A a \in alerts :
          /\ a.kind \in Counted =>
                Cardinality(Of(a.ip, a.kind, Second(a.at) * Sec, a.at)) > Above[a.kind]
          /\ a.kind = "scan" =>
                Cardinality(Tried(a.ip, a.at - ScanWindow, a.at)) >= ScanPorts
          /\ a.kind = "spoof" =>
                \E i, j \in Replies(a.ip) : seen[i].packet.mac # seen[j].packet.mac
    /\ \A a, b \in alerts : a.ip = b.ip /\ a.kind = b.kind /\ a.at < b.at
                                => b.at - a.at > Cooldown

Alerted(ip, k, from, to) ==
    \E a \in alerts : a.ip = ip /\ a.kind = k /\ from - Cooldown <= a.at /\ a.at <= to

(* No burst of packets, flood of pings or scan over UDP goes unreported: counts
   restart with the calendar second, so a flood may straddle two, but none of more
   than twice the threshold within a second, wherever it begins, passes without an
   alert during it or a cool-down before.  Scans of UDP ports are found wherever
   they begin, and so is a second address claimed for an IP, whether or not the
   first one answers again. *)
FloodsAlerted == \A ip \in Ips :
    /\ \A i \in DOMAIN seen :
          LET from == seen[i].at  to == from + Sec - 1
          IN  /\ \A k \in Counted : Cardinality(Of(ip, k, from, to)) > 2 * Above[k]
                                        => Alerted(ip, k, from, to)
              /\ Cardinality(Tried(ip, from, from + ScanWindow)) >= ScanPorts
                     => Alerted(ip, "scan", from, from + ScanWindow)
    /\ \A i, j \in Replies(ip) :
          i < j /\ seen[i].packet.mac # seen[j].packet.mac
              => \E a \in alerts : a.ip = ip /\ a.kind = "spoof"

(* What README.md:62 and oshotspot-fuc.md:84 promise, and the code does not keep:
   a scan of TCP ports is reported too. *)
TcpScansAlerted == \A ip \in Ips : \A i \in DOMAIN seen :
    LET to == seen[i].at + ScanWindow
        tried == {seen[j].packet.port : j \in
                    {j \in DOMAIN seen : /\ seen[j].packet.ip = ip /\ seen[j].packet.kind = "tcp"
                                         /\ seen[i].at <= seen[j].at /\ seen[j].at <= to}}
    IN  Cardinality(tried) >= ScanPorts => Alerted(ip, "scan", seen[i].at, to)
=============================================================================
