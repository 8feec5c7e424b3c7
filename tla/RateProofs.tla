----------------------------- MODULE RateProofs -----------------------------
(***************************************************************************)
(* What TLAPS proves of the two components that keep count of what an      *)
(* address does: the detectors of the SPAN analyzer, which count its       *)
(* packets, and the throttles of the logins, which count its wrong         *)
(* guesses.  They share no state, and are together here for the facts      *)
(* about numbers, clocks and sets of numbers that both need.               *)
(***************************************************************************)
EXTENDS LoginThrottle, SpanDetector, FiniteSetTheorems, WellFoundedInduction, TLAPS
-----------------------------------------------------------------------------
(* Facts about numbers and sets of them. *)

(* A set of naturals has a least element. *)
LEMMA LeastExists ==
    ASSUME NEW S, S \subseteq Nat, S # {}
    PROVE  \E i \in S : \A j \in S : i <= j
<1> DEFINE R == OpToRel(<, Nat)
<1>1. PICK i \in S : \A j \in S : <<j, i>> \notin R
  BY NatLessThanWellFounded, WFMin
<1>2. \A a, b \in Nat : a < b => <<a, b>> \in R
  BY DEF OpToRel
<1> HIDE DEF R
<1>3. \A j \in S : ~(j < i)
  BY <1>1, <1>2, Zenon
<1>4. QED
  BY <1>3

(* A bounded one has a greatest. *)
LEMMA GreatestExists ==
    ASSUME NEW S, S \subseteq Nat, S # {}, NEW n \in Nat, \A i \in S : i <= n
    PROVE  \E i \in S : \A j \in S : j <= i
<1> DEFINE T == {n - i : i \in S}
<1>1. T \subseteq Nat /\ T # {}
  <2>1. \A i \in S : n - i \in Nat
    OBVIOUS
  <2>2. QED BY <2>1
<1>2. PICK k \in T : \A j \in T : k <= j
  <2> HIDE DEF T
  <2> QED BY <1>1, LeastExists
<1>3. PICK i \in S : k = n - i
  BY <1>2
<1>4. \A j \in S : n - i <= n - j
  BY <1>2, <1>3
<1>5. QED
  BY <1>4

LEMMA DivMod ==
    ASSUME NEW g \in Nat \ {0}, NEW n \in Nat
    PROVE  n \div g \in Nat /\ n % g \in 0..(g - 1) /\ n % g = n - g * (n \div g)
<1>1. n \div g \in Nat
  OBVIOUS
<1>2. n % g \in 0..(g - 1)
  OBVIOUS
<1>3. n % g = n - g * (n \div g)
  OBVIOUS
<1>4. QED
  BY <1>1, <1>2, <1>3

LEMMA TimesStep ==
    ASSUME NEW g \in Nat, NEW a \in Int, NEW b \in Int, a + 1 <= b
    PROVE  g * a + g <= g * b
OBVIOUS

(* A remainder that does not start again grows with the dividend. *)
LEMMA ModStep ==
    ASSUME NEW g \in Nat \ {0}, NEW n \in Nat, (n + 1) % g # 0
    PROVE  (n % g) + 1 <= (n + 1) % g
<1> SUFFICES ASSUME NEW m \in Nat, m = n + 1, m % g # 0 PROVE (n % g) + 1 <= m % g
  OBVIOUS
<1>1. n \div g \in Nat /\ n % g \in 0..(g - 1) /\ n % g = n - g * (n \div g)
  BY DivMod, Zenon
<1>2. m \div g \in Nat /\ m % g \in 0..(g - 1) /\ m % g = m - g * (m \div g)
  BY DivMod, Zenon
<1> DEFINE q == n \div g
           p == m \div g
           r == n % g
           s == m % g
<1>3. q \in Nat /\ r \in 0..(g - 1) /\ r = n - g * q
  BY <1>1
<1>4. p \in Nat /\ s \in 1..(g - 1) /\ s = m - g * p
  BY <1>2
<1> HIDE DEF p, q, r, s
<1>5. g * q \in Int /\ g * p \in Int
  BY <1>3, <1>4
<1>6. p <= q
  <2>1. SUFFICES ASSUME q + 1 <= p PROVE FALSE
    BY <1>3, <1>4
  <2>2. g * q + g <= g * p
    BY <1>3, <1>4, <2>1, TimesStep
  <2>3. QED
    BY <1>3, <1>4, <1>5, <2>2
<1>7. g * p <= g * q
  <2>1. CASE p = q
    BY <1>5, <2>1
  <2>2. CASE p + 1 <= q
    <3>1. g * p + g <= g * q
      BY <1>3, <1>4, <2>2, TimesStep
    <3>2. QED BY <3>1, <1>5
  <2>3. QED BY <1>3, <1>4, <1>6, <2>1, <2>2
<1>8. r + 1 <= s
  BY <1>3, <1>4, <1>5, <1>7
<1>9. QED
  BY <1>8 DEF r, s

(* Sets of numbered things. *)

LEMMA ThreadsCounted ==
    ASSUME NEW n \in Nat, NEW S \in SUBSET (1..n)
    PROVE  /\ IsFiniteSet(S) /\ Cardinality(S) \in 0..n
           /\ \A t \in 1..n : t \notin S => Cardinality(S) <= n - 1
<1>1. IsFiniteSet(1..n) /\ Cardinality(1..n) = n
  <2>1. IsFiniteSet(1..n) /\ Cardinality(1..n) = IF 1 > n THEN 0 ELSE n - 1 + 1
    BY FS_Interval
  <2>2. QED BY <2>1
<1>2. IsFiniteSet(S) /\ Cardinality(S) \in Nat /\ Cardinality(S) <= n
  BY <1>1, FS_Subset, FS_CardinalityType
<1>3. ASSUME NEW t \in 1..n, t \notin S PROVE Cardinality(S) <= n - 1
  <2>1. IsFiniteSet(S \cup {t}) /\ Cardinality(S \cup {t}) = Cardinality(S) + 1
    BY <1>2, <1>3, FS_AddElement
  <2>2. S \cup {t} \subseteq 1..n
    BY <1>3
  <2>3. Cardinality(S \cup {t}) <= n
    BY <1>1, <2>2, FS_Subset
  <2>4. QED BY <1>2, <2>1, <2>3
<1>4. QED
  BY <1>2, <1>3

LEMMA CardinalityMonotone ==
    ASSUME NEW n \in Nat, NEW T \in SUBSET (1..n), NEW S \in SUBSET T
    PROVE  Cardinality(S) <= Cardinality(T)
BY ThreadsCounted, FS_Subset

LEMMA CardinalityAdded ==
    ASSUME NEW n \in Nat, NEW T \in SUBSET (1..n), NEW t \in T, NEW S \in SUBSET (1..n),
           S = T \ {t}
    PROVE  Cardinality(S) = Cardinality(T) - 1
BY ThreadsCounted, FS_RemoveElement

(* The quotient grows with the dividend. *)
LEMMA DivMonotone ==
    ASSUME NEW g \in Nat \ {0}, NEW s \in Nat, NEW t \in Nat, s <= t
    PROVE  s \div g <= t \div g
<1>1. s \div g \in Nat /\ s % g \in 0..(g - 1) /\ s % g = s - g * (s \div g)
  BY DivMod, Zenon
<1>2. t \div g \in Nat /\ t % g \in 0..(g - 1) /\ t % g = t - g * (t \div g)
  BY DivMod, Zenon
<1> DEFINE a == s \div g
           b == t \div g
<1>3. a \in Nat /\ g * a <= s /\ b \in Nat /\ t < g * b + g
  BY <1>1, <1>2
<1> HIDE DEF a, b
<1>4. SUFFICES ASSUME b + 1 <= a PROVE FALSE
  BY <1>3 DEF a, b
<1>5. g * b + g <= g * a
  BY <1>3, <1>4, TimesStep
<1>6. g * a \in Int /\ g * b \in Int
  BY <1>3
<1>7. QED
  BY <1>3, <1>5, <1>6

-----------------------------------------------------------------------------
(***************************************************************************)
(* The SPAN detectors.  The invariant says what the tables know of the     *)
(* packets, and which packets must have set off an alert: the one that     *)
(* takes a count of its second over the threshold, and the one that makes  *)
(* a window hold a scan.                                                   *)
(***************************************************************************)

(* The packets of the thread, in the order of the clock. *)
Recorded ==
    /\ seen \in Seq([packet : Packets, at : Nat])
    /\ \A i \in DOMAIN seen : seen[i].at <= clock
    /\ \A i, j \in DOMAIN seen : i < j => seen[i].at <= seen[j].at

Counting(i, ip, k) == seen[i].packet.ip = ip /\ k \in Counts(seen[i].packet)

Probing(i, ip) == seen[i].packet.ip = ip /\ seen[i].packet.kind = "udp"

(* A counter is the number of packets of its second, the last one with any. *)
InSecond(ip, k, s) ==
    {i \in DOMAIN seen : Counting(i, ip, k) /\ Second(seen[i].at) = s}

CountsKnown == \A ip \in Ips : \A k \in Counted :
    /\ count[ip][k].sec <= Second(clock)
    /\ count[ip][k].n = Cardinality(InSecond(ip, k, count[ip][k].sec))
    /\ \A i \in DOMAIN seen :
          Counting(i, ip, k) => Second(seen[i].at) <= count[ip][k].sec

(* The sightings of ports are true, and those of the window are there. *)
PortsKnown == \A ip \in Ips :
    /\ IsFiniteSet(ports[ip])
    /\ \A r \in ports[ip] : \E i \in DOMAIN seen :
          Probing(i, ip) /\ seen[i].packet.port = r.port /\ seen[i].at = r.at
    /\ \A i \in DOMAIN seen : Probing(i, ip) /\ clock - seen[i].at <= ScanWindow
          => \E r \in ports[ip] : r.port = seen[i].packet.port /\ seen[i].at <= r.at

SpoofAlerted(ip) == \E a \in alerts : a.ip = ip /\ a.kind = "spoof"

(* The first address claimed for an IP is kept; any other set off an alert. *)
ArpKnown == \A ip \in Ips :
    /\ \A m \in arp[ip] : \E i \in Replies(ip) : seen[i].packet.mac = m
    /\ \A i \in Replies(ip) : seen[i].packet.mac \in arp[ip] \/ SpoofAlerted(ip)

(* The last alert is the last one, if there was any. *)
LastKnown == \A ip \in Ips : \A k \in Kinds :
    /\ \A a \in alerts : a.ip = ip /\ a.kind = k => a.at <= last[ip][k]
    /\ \/ last[ip][k] = Never
       \/ \E a \in alerts : a.ip = ip /\ a.kind = k /\ a.at = last[ip][k]

(* An alert at t or a cool-down before. *)
AlertBy(ip, k, t) == Alerted(ip, k, t, t)

(* The packets of j's second up to j, and the ports of its window up to j. *)
CountedBy(j, ip, k) ==
    {i \in DOMAIN seen : /\ i <= j /\ Counting(i, ip, k)
                         /\ Second(seen[i].at) = Second(seen[j].at)}

ProbesBy(j, ip) ==
    {i \in DOMAIN seen : i <= j /\ Probing(i, ip) /\ seen[j].at - ScanWindow <= seen[i].at}

PortsBy(j, ip) == {seen[i].packet.port : i \in ProbesBy(j, ip)}

BurstsAlerted == \A ip \in Ips : \A k \in Counted : \A j \in DOMAIN seen :
    Counting(j, ip, k) /\ Cardinality(CountedBy(j, ip, k)) > Above[k]
        => AlertBy(ip, k, seen[j].at)

ScansAlerted == \A ip \in Ips : \A j \in DOMAIN seen :
    Probing(j, ip) /\ Cardinality(PortsBy(j, ip)) >= ScanPorts
        => AlertBy(ip, "scan", seen[j].at)

SpanInv ==
    /\ SpanTypeOK /\ Recorded /\ CountsKnown /\ PortsKnown /\ ArpKnown /\ LastKnown
    /\ BurstsAlerted /\ ScansAlerted /\ AlertsSound
-----------------------------------------------------------------------------
(* Facts about the clock and its seconds. *)

LEMMA SpanNumbers ==
    /\ Sec \in Nat \ {0} /\ ScanPorts \in Nat \ {0}
    /\ ScanWindow \in Nat /\ Cooldown \in Nat
    /\ \A k \in Counted : Above[k] \in Nat
    /\ \A m \in Mixes : m \subseteq Packets
    /\ Counted \subseteq Kinds
BY NumbersAssumption DEF Kinds

LEMMA SecondOf ==
    ASSUME NEW t \in Nat
    PROVE  /\ Second(t) \in Nat
           /\ Sec * Second(t) <= t /\ t < Sec * Second(t) + Sec
<1>1. Sec \in Nat \ {0}
  BY SpanNumbers
<1>2. t \div Sec \in Nat /\ t % Sec \in 0..(Sec - 1) /\ t % Sec = t - Sec * (t \div Sec)
  BY <1>1, DivMod, Zenon
<1> DEFINE q == t \div Sec
<1>3. q \in Nat /\ Sec * q \in Nat
  BY <1>1, <1>2
<1>4. Sec * q <= t /\ t < Sec * q + Sec
  <2>1. t % Sec = t - Sec * q /\ t % Sec \in 0..(Sec - 1)
    BY <1>2
  <2> HIDE DEF q
  <2>2. QED BY <1>1, <1>3, <2>1
<1>5. QED
  BY <1>3, <1>4 DEF Second

LEMMA SecondMonotone ==
    ASSUME NEW s \in Nat, NEW t \in Nat, s <= t
    PROVE  Second(s) <= Second(t)
BY SpanNumbers, DivMonotone DEF Second

(* The second of t, as an interval that ends at t. *)
LEMMA SecondInterval ==
    ASSUME NEW s \in Nat, NEW t \in Nat, s <= t
    PROVE  Second(t) * Sec <= s <=> Second(s) = Second(t)
<1> DEFINE a == Second(s)
           b == Second(t)
<1>1. /\ a \in Nat /\ Sec * a <= s /\ s < Sec * a + Sec
      /\ b \in Nat /\ Sec * b <= t /\ t < Sec * b + Sec
  BY SecondOf
<1>2. a <= b
  BY SecondMonotone
<1> HIDE DEF a, b
<1>3. Sec \in Nat \ {0} /\ Sec * a \in Nat /\ Sec * b \in Nat /\ b * Sec = Sec * b
  BY <1>1, SpanNumbers
<1>4. CASE a = b
  BY <1>1, <1>3, <1>4 DEF a, b
<1>5. CASE a + 1 <= b
  <2>1. Sec * a + Sec <= Sec * b
    BY <1>1, <1>3, <1>5, TimesStep
  <2>2. ~(b * Sec <= s)
    BY <1>1, <1>3, <2>1
  <2>3. a # b
    BY <1>1, <1>5
  <2>4. QED BY <2>2, <2>3 DEF a, b
<1>6. QED
  BY <1>1, <1>2, <1>4, <1>5

(* A second's worth of ticks lies in two seconds of the clock. *)
LEMMA TwoSeconds ==
    ASSUME NEW s \in Nat, NEW t \in Nat, s <= t, t <= s + Sec - 1
    PROVE  Second(t) \in {Second(s), Second(s) + 1}
<1> DEFINE a == Second(s)
           b == Second(t)
<1>1. /\ a \in Nat /\ Sec * a <= s /\ s < Sec * a + Sec
      /\ b \in Nat /\ Sec * b <= t /\ t < Sec * b + Sec
  BY SecondOf
<1>2. a <= b
  BY SecondMonotone
<1> HIDE DEF a, b
<1>3. Sec \in Nat \ {0} /\ Sec * a \in Nat /\ Sec * b \in Nat /\ Sec * (a + 1) \in Nat
  BY <1>1, SpanNumbers
<1>4. ~(a + 2 <= b)
  <2>1. SUFFICES ASSUME a + 2 <= b PROVE FALSE
    OBVIOUS
  <2>2. Sec * a + Sec <= Sec * (a + 1)
    BY <1>1, <1>3, TimesStep
  <2>3. a + 1 \in Int /\ (a + 1) + 1 <= b
    BY <1>1, <2>1
  <2>4. Sec * (a + 1) + Sec <= Sec * b
    BY <1>1, <1>3, <2>3, TimesStep
  <2>5. QED BY <1>1, <1>3, <2>2, <2>4
<1>5. b = a \/ b = a + 1
  BY <1>1, <1>2, <1>4
<1>6. QED
  BY <1>5 DEF a, b
-----------------------------------------------------------------------------
(* One turn of the loop: what it adds to the history. *)

LEMMA PacketType ==
    ASSUME SpanTypeOK, NEW p \in mix
    PROVE  /\ p \in Packets /\ p.ip \in Ips
           /\ p.kind \in {"tcp", "udp", "icmp", "arp"}
           /\ p.kind = "arp" => p.mac \in Macs
           /\ p.kind = "udp" => p.port \in Ports
           /\ Counts(p) \subseteq Counted
<1>1. p \in Packets
  BY SpanNumbers DEF SpanTypeOK
<1>2. QED
  BY <1>1 DEF Packets, Counts, Counted

LEMMA SeenAppended ==
    ASSUME Recorded, NEW e \in [packet : Packets, at : Nat], seen' = Append(seen, e)
    PROVE  /\ Len(seen) + 1 \notin DOMAIN seen
           /\ DOMAIN seen' = DOMAIN seen \cup {Len(seen) + 1}
           /\ seen'[Len(seen) + 1] = e
           /\ \A i \in DOMAIN seen : seen'[i] = seen[i] /\ i < Len(seen) + 1
           /\ DOMAIN seen \in SUBSET Nat /\ Len(seen) + 1 \in Nat
           /\ seen' \in Seq([packet : Packets, at : Nat])
BY DEF Recorded

LEMMA SeenFacts ==
    ASSUME Recorded
    PROVE  /\ \A i \in DOMAIN seen : seen[i].at \in Nat /\ seen[i].packet \in Packets
           /\ DOMAIN seen = 1..Len(seen) /\ Len(seen) \in Nat
<1>1. DOMAIN seen = 1..Len(seen) /\ Len(seen) \in Nat
  BY DEF Recorded
<1>2. \A i \in DOMAIN seen : seen[i] \in [packet : Packets, at : Nat]
  <2>1. ASSUME NEW S, seen \in Seq(S) PROVE \A i \in 1..Len(seen) : seen[i] \in S
    BY <2>1
  <2>2. seen \in Seq([packet : Packets, at : Nat])
    BY DEF Recorded
  <2>3. QED BY <1>1, <2>1, <2>2
<1>3. QED
  BY <1>1, <1>2

LEMMA SpanHandled ==
    ASSUME SpanTypeOK, Recorded, NEW p \in mix, Handle(p),
           NEW n, n = Len(seen) + 1
    PROVE  /\ n \notin DOMAIN seen /\ n \in Nat /\ DOMAIN seen \in SUBSET Nat
           /\ DOMAIN seen' = DOMAIN seen \cup {n}
           /\ seen'[n].packet = p /\ seen'[n].at = clock
           /\ \A i \in DOMAIN seen : /\ seen'[i] = seen[i] /\ i < n
                                     /\ seen[i].at <= clock /\ seen[i].at \in Nat
           /\ clock' = clock /\ clock \in Nat
<1> DEFINE e == [packet |-> p, at |-> clock]
<1>1. /\ clock \in Nat /\ e \in [packet : Packets, at : Nat]
  BY PacketType DEF SpanTypeOK
<1>2. seen' = Append(seen, e) /\ clock' = clock
  BY DEF Handle
<1>3. e.packet = p /\ e.at = clock
  OBVIOUS
<1> HIDE DEF e
<1>4. QED
  BY <1>1, <1>2, <1>3, SeenAppended, SeenFacts DEF Recorded

LEMMA RecordedStep ==
    ASSUME SpanTypeOK, Recorded, NEW p \in mix, Handle(p)
    PROVE  Recorded'
<1> SUFFICES ASSUME NEW n, n = Len(seen) + 1 PROVE Recorded'
  OBVIOUS
<1>1. /\ DOMAIN seen' = DOMAIN seen \cup {n} /\ n \in Nat /\ DOMAIN seen \in SUBSET Nat
      /\ seen'[n].at = clock /\ clock' = clock /\ clock \in Nat
      /\ \A i \in DOMAIN seen : seen'[i] = seen[i] /\ i < n /\ seen[i].at <= clock
  BY SpanHandled
<1>2. seen' \in Seq([packet : Packets, at : Nat])
  <2>1. [packet |-> p, at |-> clock] \in [packet : Packets, at : Nat]
    BY <1>1, PacketType
  <2>2. seen' = Append(seen, [packet |-> p, at |-> clock])
    BY DEF Handle
  <2>3. QED BY <2>1, <2>2, SeenAppended
<1>3. \A i \in DOMAIN seen' : seen'[i].at <= clock'
  BY <1>1
<1>4. ASSUME NEW i \in DOMAIN seen', NEW j \in DOMAIN seen', i < j
      PROVE  seen'[i].at <= seen'[j].at
  <2>1. i \in DOMAIN seen
    BY <1>1, <1>4
  <2>2. CASE j = n
    BY <1>1, <2>1, <2>2
  <2>3. CASE j \in DOMAIN seen
    BY <1>1, <1>4, <2>1, <2>3 DEF Recorded
  <2>4. QED BY <1>1, <2>2, <2>3
<1>5. QED
  BY <1>2, <1>3, <1>4 DEF Recorded

(* What the cool-down lets through, and what it leaves. *)
LEMMA AlertFacts ==
    ASSUME SpanTypeOK, LastKnown, NEW p \in mix, Handle(p)
    PROVE  /\ alerts \subseteq alerts'
           /\ \A a \in alerts' :
                 \/ a \in alerts
                 \/ /\ a.ip = p.ip /\ a.at = clock /\ a.kind \in Fired(p)
                    /\ a.kind \in Kinds /\ clock - last[p.ip][a.kind] > Cooldown
           /\ \A k \in Fired(p) : AlertBy(p.ip, k, clock)'
           /\ \A ip \in Ips : \A k \in Kinds :
                 \/ /\ last'[ip][k] = last[ip][k]
                    /\ ~(ip = p.ip /\ k \in Fired(p) /\ clock - last[p.ip][k] > Cooldown)
                 \/ /\ ip = p.ip /\ last'[ip][k] = clock
                    /\ \E a \in alerts' : a.ip = ip /\ a.kind = k /\ a.at = clock
           /\ last' \in [Ips -> [Kinds -> Int]]
<1> DEFINE due == {k \in Fired(p) : clock - last[p.ip][k] > Cooldown}
<1>1. /\ last' = [last EXCEPT ![p.ip] = [k \in Kinds |->
                                 IF k \in due THEN clock ELSE last[p.ip][k]]]
      /\ alerts' = alerts \cup {[ip |-> p.ip, kind |-> k, at |-> clock] : k \in due}
  BY DEF Handle, Publish
<1>2. /\ p.ip \in Ips /\ clock \in Nat /\ Cooldown \in Nat
      /\ last \in [Ips -> [Kinds -> Int]]
  BY PacketType, SpanNumbers DEF SpanTypeOK
<1>3. Fired(p) \subseteq Kinds
  BY PacketType DEF Fired, Kinds
<1>4. due \subseteq Fired(p) /\ \A k \in due : clock - last[p.ip][k] > Cooldown
  OBVIOUS
<1>5. \A k \in Fired(p) : k \notin due => ~(clock - last[p.ip][k] > Cooldown)
  OBVIOUS
<1> HIDE DEF due
<1>6. \A k \in due : \E a \in alerts' : a.ip = p.ip /\ a.kind = k /\ a.at = clock
  <2>1. ASSUME NEW k \in due
        PROVE  \E a \in alerts' : a.ip = p.ip /\ a.kind = k /\ a.at = clock
    <3>1. [ip |-> p.ip, kind |-> k, at |-> clock] \in alerts'
      BY <1>1
    <3>2. QED BY <3>1
  <2>2. QED BY <2>1
<1>7. ASSUME NEW a \in alerts', a \notin alerts
      PROVE  /\ a.ip = p.ip /\ a.at = clock /\ a.kind \in Fired(p)
             /\ a.kind \in Kinds /\ clock - last[p.ip][a.kind] > Cooldown
  <2>1. PICK k \in due : a = [ip |-> p.ip, kind |-> k, at |-> clock]
    BY <1>1, <1>7
  <2>2. QED BY <1>3, <1>4, <2>1
<1>8. ASSUME NEW k \in Fired(p)
      PROVE  AlertBy(p.ip, k, clock)'
  <2>1. \E a \in alerts' : a.ip = p.ip /\ a.kind = k /\ clock - Cooldown <= a.at /\ a.at <= clock
    <3>1. CASE k \in due
      BY <1>2, <1>6, <3>1
    <3>2. CASE k \notin due
      <4>1. ~(clock - last[p.ip][k] > Cooldown) /\ k \in Kinds
        BY <1>3, <1>5, <3>2
      <4>2. last[p.ip][k] \in Int
        BY <1>2, <4>1
      <4>3. last[p.ip][k] # Never
        BY <1>2, <4>1 DEF Never
      <4>4. PICK a \in alerts : a.ip = p.ip /\ a.kind = k /\ a.at = last[p.ip][k]
        BY <1>2, <4>1, <4>3 DEF LastKnown
      <4>5. a.at \in 0..clock
        BY DEF SpanTypeOK
      <4>6. QED BY <1>1, <1>2, <4>1, <4>2, <4>4, <4>5
    <3>3. QED BY <3>1, <3>2
  <2>2. clock' = clock
    BY DEF Handle
  <2>3. QED BY <2>1, <2>2 DEF AlertBy, Alerted
<1>9. ASSUME NEW ip \in Ips, NEW k \in Kinds
      PROVE  last'[ip][k] = IF ip = p.ip /\ k \in due THEN clock ELSE last[ip][k]
  BY <1>1, <1>2
<1>10. last' \in [Ips -> [Kinds -> Int]]
  <2>1. [k \in Kinds |-> IF k \in due THEN clock ELSE last[p.ip][k]]
            \in [Kinds -> Int]
    BY <1>2
  <2>2. QED BY <1>1, <1>2, <2>1
<1>11. \A ip \in Ips : \A k \in Kinds :
          \/ /\ last'[ip][k] = last[ip][k]
             /\ ~(ip = p.ip /\ k \in Fired(p) /\ clock - last[p.ip][k] > Cooldown)
          \/ /\ ip = p.ip /\ last'[ip][k] = clock
             /\ \E a \in alerts' : a.ip = ip /\ a.kind = k /\ a.at = clock
  BY <1>4, <1>5, <1>6, <1>9
<1>12. QED
  BY <1>1, <1>7, <1>8, <1>10, <1>11
-----------------------------------------------------------------------------
(* How one turn of the loop keeps each part of the invariant. *)

(* What was said of a packet stays true of it. *)
LEMMA OldPackets ==
    ASSUME SpanTypeOK, Recorded, NEW p \in mix, Handle(p),
           NEW n, n = Len(seen) + 1
    PROVE  /\ \A i \in DOMAIN seen : \A ip, k :
                 /\ Counting(i, ip, k)' <=> Counting(i, ip, k)
                 /\ Probing(i, ip)' <=> Probing(i, ip)
           /\ \A ip, k : Counting(n, ip, k)' <=> ip = p.ip /\ k \in Counts(p)
           /\ \A ip : Probing(n, ip)' <=> ip = p.ip /\ p.kind = "udp"
<1>1. seen'[n].packet = p /\ \A i \in DOMAIN seen : seen'[i] = seen[i]
  BY SpanHandled
<1>2. QED
  BY <1>1 DEF Counting, Probing

LEMMA CountsStep ==
    ASSUME SpanTypeOK, Recorded, CountsKnown, NEW p \in mix,
           Handle(p), NEW n, n = Len(seen) + 1, NEW s, s = Second(clock)
    PROVE  /\ CountsKnown'
           /\ count' \in [Ips -> [Counted -> [n : Nat, sec : Nat]]]
           /\ \A k \in Counts(p) :
                 /\ NextCount(p)[k].n = Cardinality(InSecond(p.ip, k, s)')
                 /\ InSecond(p.ip, k, s)' = CountedBy(n, p.ip, k)'
<1>1. /\ n \notin DOMAIN seen /\ n \in Nat /\ DOMAIN seen \in SUBSET Nat
      /\ DOMAIN seen' = DOMAIN seen \cup {n}
      /\ seen'[n].packet = p /\ seen'[n].at = clock
      /\ \A i \in DOMAIN seen : /\ seen'[i] = seen[i] /\ i < n
                                /\ seen[i].at <= clock /\ seen[i].at \in Nat
      /\ clock' = clock /\ clock \in Nat
  BY SpanHandled
<1>2. /\ \A i \in DOMAIN seen : \A ip, k : Counting(i, ip, k)' <=> Counting(i, ip, k)
      /\ \A ip, k : Counting(n, ip, k)' <=> ip = p.ip /\ k \in Counts(p)
  BY OldPackets
<1>3. s \in Nat /\ \A i \in DOMAIN seen : Second(seen[i].at) <= s
                                          /\ Second(seen[i].at) \in Nat
  BY <1>1, SecondOf, SecondMonotone
<1>4. /\ p.ip \in Ips /\ Counts(p) \subseteq Counted
      /\ count \in [Ips -> [Counted -> [n : Nat, sec : Nat]]]
  BY PacketType DEF SpanTypeOK
<1>5. IsFiniteSet(DOMAIN seen)
  <2>1. DOMAIN seen = 1..Len(seen) /\ Len(seen) \in Nat
    BY SeenFacts
  <2>2. IsFiniteSet(1..Len(seen))
    BY <2>1, FS_Interval
  <2>3. QED BY <2>1, <2>2
<1>6. ASSUME NEW ip \in Ips, NEW k \in Counted, NEW q,
             ~(ip = p.ip /\ k \in Counts(p) /\ q = s)
      PROVE  InSecond(ip, k, q)' = InSecond(ip, k, q)
  BY <1>1, <1>6 DEF InSecond, Counting
<1>7. ASSUME NEW k \in Counts(p)
      PROVE  /\ InSecond(p.ip, k, s)' = InSecond(p.ip, k, s) \cup {n}
             /\ Cardinality(InSecond(p.ip, k, s)') = Cardinality(InSecond(p.ip, k, s)) + 1
             /\ InSecond(p.ip, k, s)' = CountedBy(n, p.ip, k)'
             /\ n \in InSecond(p.ip, k, s)'
  <2>1. InSecond(p.ip, k, s)' = InSecond(p.ip, k, s) \cup {n}
    BY <1>1, <1>7 DEF InSecond, Counting
  <2>2. IsFiniteSet(InSecond(p.ip, k, s)) /\ n \notin InSecond(p.ip, k, s)
    BY <1>1, <1>5, FS_Subset DEF InSecond
  <2>3. Cardinality(InSecond(p.ip, k, s)') = Cardinality(InSecond(p.ip, k, s)) + 1
    BY <2>1, <2>2, FS_AddElement
  <2>4. InSecond(p.ip, k, s)' = CountedBy(n, p.ip, k)'
    <3>1. Second(seen'[n].at) = s /\ \A i \in DOMAIN seen' : i <= n
      BY <1>1
    <3>2. QED BY <3>1 DEF InSecond, CountedBy, Counting, Second
  <2>5. QED BY <2>1, <2>3, <2>4
<1>8. ASSUME NEW k \in Counts(p)
      PROVE  NextCount(p)[k] =
                 [n |-> Cardinality(InSecond(p.ip, k, s)) + 1, sec |-> s]
  <2> DEFINE c == count[p.ip][k]
  <2>1. c.n = Cardinality(InSecond(p.ip, k, c.sec)) /\ k \in Counted
    BY <1>4 DEF CountsKnown
  <2>2. \A i \in DOMAIN seen : Counting(i, p.ip, k) => Second(seen[i].at) <= c.sec
    BY <1>4 DEF CountsKnown
  <2>3. c.sec \in Nat /\ c.n \in Nat
    BY <1>4
  <2>4. NextCount(p)[k] = Bump(c)
    BY <1>4 DEF NextCount
  <2>5. Bump(c) = [n |-> IF c.sec = s THEN c.n + 1 ELSE 1, sec |-> s]
    BY DEF Bump
  <2> HIDE DEF c
  <2>6. CASE c.sec = s
    BY <2>1, <2>4, <2>5, <2>6
  <2>7. CASE c.sec # s
    <3>1. InSecond(p.ip, k, s) = {}
      <4>1. SUFFICES ASSUME NEW i \in InSecond(p.ip, k, s) PROVE FALSE
        OBVIOUS
      <4>2. i \in DOMAIN seen /\ Counting(i, p.ip, k) /\ Second(seen[i].at) = s
        BY <4>1 DEF InSecond
      <4>3. s <= c.sec
        BY <2>2, <4>2
      <4>4. c.sec <= s
        BY <1>4 DEF CountsKnown, c
      <4>5. QED BY <1>3, <2>3, <2>7, <4>3, <4>4
    <3>2. Cardinality(InSecond(p.ip, k, s)) = 0
      BY <3>1, FS_EmptySet
    <3>3. QED BY <2>4, <2>5, <2>7, <3>2
  <2>8. QED BY <2>6, <2>7
<1>9. count' = [count EXCEPT ![p.ip] = NextCount(p)]
  BY DEF Handle
<1>10. /\ NextCount(p) \in [Counted -> [n : Nat, sec : Nat]]
       /\ \A k \in Counted : k \notin Counts(p) =>
             NextCount(p)[k] = count[p.ip][k]
  <2>1. \A k \in Counted : Bump(count[p.ip][k]) \in [n : Nat, sec : Nat]
    BY <1>3, <1>4 DEF Bump
  <2>2. QED BY <1>4, <2>1 DEF NextCount
<1>11. count' \in [Ips -> [Counted -> [n : Nat, sec : Nat]]]
  BY <1>4, <1>9, <1>10
<1>12. ASSUME NEW ip \in Ips, NEW k \in Counted
       PROVE  /\ count'[ip][k].sec <= Second(clock')
              /\ count'[ip][k].n = Cardinality(InSecond(ip, k, count[ip][k].sec)')
              /\ \A i \in DOMAIN seen' : Counting(i, ip, k)' =>
                    Second(seen'[i].at) <= count'[ip][k].sec
  <2>1. CASE ip = p.ip /\ k \in Counts(p)
    <3>1. count'[ip][k] = [n |-> Cardinality(InSecond(ip, k, s)) + 1, sec |-> s]
      BY <1>4, <1>8, <1>9, <2>1
    <3>2. \A i \in DOMAIN seen' : Second(seen'[i].at) <= s
      BY <1>1, <1>3
    <3>3. Cardinality(InSecond(ip, k, s)') = Cardinality(InSecond(ip, k, s)) + 1
      BY <1>7, <2>1
    <3>4. InSecond(ip, k, count[ip][k].sec)' = InSecond(ip, k, s)'
      BY <3>1 DEF InSecond
    <3>5. s <= Second(clock')
      BY <1>1, <1>3
    <3>6. QED BY <3>1, <3>2, <3>3, <3>4, <3>5
  <2>2. CASE ~(ip = p.ip /\ k \in Counts(p))
    <3>1. count'[ip][k] = count[ip][k]
      BY <1>4, <1>9, <1>10, <2>2
    <3>2. SUFFICES ASSUME NEW q, q = count[ip][k].sec
                   PROVE  /\ q <= Second(clock)
                          /\ count[ip][k].n = Cardinality(InSecond(ip, k, q)')
                          /\ \A i \in DOMAIN seen' : Counting(i, ip, k)' =>
                                Second(seen'[i].at) <= q
      <4>1. PICK q : q = count[ip][k].sec
        OBVIOUS
      <4>2. InSecond(ip, k, count[ip][k].sec)' = InSecond(ip, k, q)'
        BY <3>1, <4>1 DEF InSecond
      <4>3. QED BY <1>1, <3>1, <4>1, <4>2
    <3>3. /\ q <= Second(clock)
          /\ count[ip][k].n = Cardinality(InSecond(ip, k, q))
          /\ \A i \in DOMAIN seen : Counting(i, ip, k) => Second(seen[i].at) <= q
      BY <3>2 DEF CountsKnown
    <3>4. InSecond(ip, k, q)' = InSecond(ip, k, q)
      BY <1>6, <2>2
    <3>5. ASSUME NEW i \in DOMAIN seen', Counting(i, ip, k)'
          PROVE  Second(seen'[i].at) <= q
      <4>1. i \in DOMAIN seen
        BY <1>1, <1>2, <2>2, <3>5
      <4>2. Counting(i, ip, k) /\ seen'[i] = seen[i]
        BY <1>1, <1>2, <3>5, <4>1
      <4>3. QED BY <3>3, <4>1, <4>2
    <3>6. QED BY <3>3, <3>4, <3>5
  <2>3. QED BY <2>1, <2>2
<1>13. CountsKnown'
  BY <1>12 DEF CountsKnown
<1>14. ASSUME NEW k \in Counts(p)
       PROVE  /\ NextCount(p)[k].n = Cardinality(InSecond(p.ip, k, s)')
              /\ InSecond(p.ip, k, s)' = CountedBy(n, p.ip, k)'
  <2>1. NextCount(p)[k] =
            [n |-> Cardinality(InSecond(p.ip, k, s)) + 1, sec |-> s]
    BY <1>8
  <2>2. QED BY <1>7, <2>1
<1>15. QED
  BY <1>11, <1>13, <1>14

(* The ports: those of the window are known, and a scan is one of theirs. *)
LEMMA NextPortsFacts ==
    ASSUME SpanTypeOK, Recorded, PortsKnown, NEW p \in mix,
           Handle(p), p.kind = "udp", NEW n, n = Len(seen) + 1
    PROVE  LET next == NextPorts(p) IN
           /\ IsFiniteSet(next)
           /\ \A r \in next : /\ r.port \in Ports /\ r.at \in 0..clock
                              /\ clock - r.at <= ScanWindow
                              /\ \E i \in DOMAIN seen' : /\ Probing(i, p.ip)'
                                                         /\ seen'[i].packet.port = r.port
                                                         /\ seen'[i].at = r.at
           /\ \A r, q \in next : r.port = q.port => r = q
           /\ \A i \in DOMAIN seen' : Probing(i, p.ip)' /\ clock - seen'[i].at <= ScanWindow
                 => \E r \in next : r.port = seen'[i].packet.port /\ seen'[i].at <= r.at
<1> DEFINE next == NextPorts(p)
           new == [port |-> p.port, at |-> clock]
           kept == {r \in ports[p.ip] : r.port # p.port /\ clock - r.at <= ScanWindow}
<1>1. /\ n \notin DOMAIN seen /\ DOMAIN seen' = DOMAIN seen \cup {n}
      /\ seen'[n].packet = p /\ seen'[n].at = clock
      /\ \A i \in DOMAIN seen : /\ seen'[i] = seen[i] /\ seen[i].at <= clock
                                /\ seen[i].at \in Nat
      /\ clock' = clock /\ clock \in Nat
  BY SpanHandled
<1>2. /\ \A i \in DOMAIN seen : Probing(i, p.ip)' <=> Probing(i, p.ip)
      /\ Probing(n, p.ip)'
  BY OldPackets
<1>3. /\ p.ip \in Ips /\ p.port \in Ports /\ ScanWindow \in Nat
      /\ IsFiniteSet(ports[p.ip])
      /\ \A r \in ports[p.ip] : r.port \in Ports /\ r.at \in 0..clock
      /\ \A r, q \in ports[p.ip] : r.port = q.port => r = q
  BY PacketType, SpanNumbers DEF SpanTypeOK, PortsKnown
<1>4. next = kept \cup {new}
  BY DEF NextPorts
<1>5. new.port = p.port /\ new.at = clock
  OBVIOUS
<1>6. /\ kept \subseteq ports[p.ip]
      /\ \A r \in kept : r.port # p.port /\ clock - r.at <= ScanWindow
      /\ \A r \in ports[p.ip] : r.port # p.port /\ clock - r.at <= ScanWindow => r \in kept
  OBVIOUS
<1> HIDE DEF next, new, kept
<1>7. IsFiniteSet(next)
  BY <1>3, <1>4, <1>6, FS_Subset, FS_AddElement
<1>8. ASSUME NEW r \in next
      PROVE  /\ r.port \in Ports /\ r.at \in 0..clock /\ clock - r.at <= ScanWindow
             /\ \E i \in DOMAIN seen' : /\ Probing(i, p.ip)' /\ seen'[i].at = r.at
                                        /\ seen'[i].packet.port = r.port
  <2>1. CASE r = new
    BY <1>1, <1>2, <1>3, <1>5, <2>1
  <2>2. CASE r \in kept
    <3>1. PICK i \in DOMAIN seen :
              Probing(i, p.ip) /\ seen[i].packet.port = r.port /\ seen[i].at = r.at
      BY <1>3, <1>6, <2>2 DEF PortsKnown
    <3>2. QED BY <1>1, <1>2, <1>3, <1>6, <2>2, <3>1
  <2>3. QED BY <1>4, <2>1, <2>2
<1>9. \A r, q \in next : r.port = q.port => r = q
  BY <1>3, <1>4, <1>5, <1>6
<1>10. ASSUME NEW i \in DOMAIN seen', Probing(i, p.ip)', clock - seen'[i].at <= ScanWindow
       PROVE  \E r \in next : r.port = seen'[i].packet.port /\ seen'[i].at <= r.at
  <2>1. CASE seen'[i].packet.port = p.port
    <3>1. seen'[i].at <= clock
      BY <1>1
    <3>2. QED BY <1>4, <1>5, <2>1, <3>1
  <2>2. CASE seen'[i].packet.port # p.port
    <3>1. i \in DOMAIN seen /\ seen'[i] = seen[i] /\ Probing(i, p.ip)
      BY <1>1, <1>2, <1>10, <2>2
    <3>2. PICK r \in ports[p.ip] : r.port = seen[i].packet.port /\ seen[i].at <= r.at
      BY <1>3, <1>10, <3>1 DEF PortsKnown
    <3>3. seen[i].at \in Nat /\ r.at \in Nat
      BY <1>1, <1>3, <3>1
    <3>4. clock - r.at <= ScanWindow
      BY <1>1, <1>3, <1>10, <3>1, <3>2, <3>3
    <3>5. r \in next
      BY <1>4, <1>6, <2>2, <3>1, <3>2, <3>4
    <3>6. QED BY <3>1, <3>2, <3>5
  <2>3. QED BY <2>1, <2>2
<1>11. QED
  BY <1>7, <1>8, <1>9, <1>10 DEF next

LEMMA PortsStep ==
    ASSUME SpanTypeOK, Recorded, PortsKnown, NEW p \in mix,
           Handle(p)
    PROVE  /\ PortsKnown'
           /\ ports' \in [Ips -> SUBSET [port : Ports, at : 0..clock']]
           /\ \A ip \in Ips : \A r, q \in ports'[ip] : r.port = q.port => r = q
<1>0. ports' \in [Ips -> SUBSET [port : Ports, at : 0..clock']]
  <2>1. clock' = clock /\ p.ip \in Ips
    BY SpanHandled, PacketType
  <2>2. p.kind = "udp" =>
            NextPorts(p) \in SUBSET [port : Ports, at : 0..clock]
    <3>1. SUFFICES ASSUME p.kind = "udp"
                   PROVE  NextPorts(p) \in SUBSET [port : Ports, at : 0..clock]
      OBVIOUS
    <3>2. p.port \in Ports /\ clock \in 0..clock
      BY <3>1, PacketType DEF SpanTypeOK
    <3>3. QED BY <2>1, <3>2 DEF NextPorts, SpanTypeOK
  <2>3. QED BY <2>1, <2>2 DEF Handle, SpanTypeOK
<1> SUFFICES ASSUME NEW n, n = Len(seen) + 1, NEW ip \in Ips
             PROVE  /\ IsFiniteSet(ports'[ip])
                    /\ \A r, q \in ports'[ip] : r.port = q.port => r = q
                    /\ \A r \in ports'[ip] : \E i \in DOMAIN seen' :
                          /\ Probing(i, ip)' /\ seen'[i].at = r.at
                          /\ seen'[i].packet.port = r.port
                    /\ \A i \in DOMAIN seen' :
                          Probing(i, ip)' /\ clock' - seen'[i].at <= ScanWindow
                          => \E r \in ports'[ip] : /\ r.port = seen'[i].packet.port
                                                   /\ seen'[i].at <= r.at
  BY <1>0 DEF PortsKnown
<1>1. /\ n \notin DOMAIN seen /\ DOMAIN seen' = DOMAIN seen \cup {n} /\ clock' = clock
      /\ \A i \in DOMAIN seen : seen'[i] = seen[i]
  BY SpanHandled
<1>2. /\ \A i \in DOMAIN seen : Probing(i, ip)' <=> Probing(i, ip)
      /\ Probing(n, ip)' <=> ip = p.ip /\ p.kind = "udp"
  BY OldPackets
<1>3. ports' = IF p.kind = "udp"
               THEN [ports EXCEPT ![p.ip] = NextPorts(p)] ELSE ports
  BY DEF Handle
<1>4. CASE ip = p.ip /\ p.kind = "udp"
  <2>1. ports'[ip] = NextPorts(p)
    BY <1>3, <1>4 DEF SpanTypeOK
  <2>2. QED BY <1>1, <1>4, <2>1, NextPortsFacts
<1>5. CASE ~(ip = p.ip /\ p.kind = "udp")
  <2>1. ports'[ip] = ports[ip]
    BY <1>3, <1>5 DEF SpanTypeOK
  <2>2. \A i \in DOMAIN seen' : Probing(i, ip)' =>
            i \in DOMAIN seen /\ Probing(i, ip) /\ seen'[i] = seen[i]
    BY <1>1, <1>2, <1>5
  <2>3. ASSUME NEW r \in ports[ip]
        PROVE  \E i \in DOMAIN seen' : /\ Probing(i, ip)' /\ seen'[i].at = r.at
                                        /\ seen'[i].packet.port = r.port
    <3>1. PICK i \in DOMAIN seen :
              Probing(i, ip) /\ seen[i].packet.port = r.port /\ seen[i].at = r.at
      BY DEF PortsKnown
    <3>2. QED BY <1>1, <1>2, <3>1
  <2>4. ASSUME NEW i \in DOMAIN seen', Probing(i, ip)', clock' - seen'[i].at <= ScanWindow
        PROVE  \E r \in ports[ip] : r.port = seen'[i].packet.port /\ seen'[i].at <= r.at
    BY <1>1, <2>2, <2>4 DEF PortsKnown
  <2>5. IsFiniteSet(ports[ip]) /\ \A r, q \in ports[ip] : r.port = q.port => r = q
    BY DEF SpanTypeOK, PortsKnown
  <2>6. QED BY <2>1, <2>3, <2>4, <2>5
<1>6. QED
  BY <1>4, <1>5

(* ARP, and the alert about a second address of an IP. *)
LEMMA ArpStep ==
    ASSUME SpanTypeOK, Recorded, ArpKnown, LastKnown,
           NEW p \in mix, Handle(p)
    PROVE  /\ ArpKnown'
           /\ arp' \in [Ips -> SUBSET Macs]
           /\ \A ip \in Ips : \A m, o \in arp'[ip] : m = o
<1> SUFFICES ASSUME NEW n, n = Len(seen) + 1
             PROVE  /\ ArpKnown'
                    /\ arp' \in [Ips -> SUBSET Macs]
                    /\ \A ip \in Ips : \A m, o \in arp'[ip] : m = o
  OBVIOUS
<1>1. /\ n \notin DOMAIN seen /\ DOMAIN seen' = DOMAIN seen \cup {n}
      /\ seen'[n].packet = p
      /\ \A i \in DOMAIN seen : seen'[i] = seen[i]
  BY SpanHandled
<1>2. /\ p.ip \in Ips
      /\ p.kind = "arp" => p.mac \in Macs
      /\ arp \in [Ips -> SUBSET Macs]
      /\ \A ip \in Ips : \A m, o \in arp[ip] : m = o
  <2>1. p.ip \in Ips /\ (p.kind = "arp" => p.mac \in Macs)
    BY PacketType
  <2>2. arp \in [Ips -> SUBSET Macs] /\ \A ip \in Ips : \A m, o \in arp[ip] : m = o
    BY DEF SpanTypeOK
  <2>3. QED BY <2>1, <2>2
<1>3. arp' = IF p.kind = "arp" /\ arp[p.ip] = {}
             THEN [arp EXCEPT ![p.ip] = {p.mac}] ELSE arp
  BY DEF Handle
<1>4. \A ip \in Ips : arp'[ip] = IF ip = p.ip /\ p.kind = "arp" /\ arp[ip] = {}
                                 THEN {p.mac} ELSE arp[ip]
  BY <1>2, <1>3
<1>5. /\ \A ip \in Ips : Replies(ip) \subseteq Replies(ip)'
      /\ \A ip \in Ips : \A i \in Replies(ip)' :
            i \in Replies(ip) \/ (i = n /\ ip = p.ip /\ p.kind = "arp")
      /\ p.kind = "arp" => n \in Replies(p.ip)'
      /\ \A ip \in Ips : Replies(ip) \subseteq DOMAIN seen
  BY <1>1 DEF Replies
<1>6. /\ alerts \subseteq alerts'
      /\ \A k \in Fired(p) : AlertBy(p.ip, k, clock)'
  BY AlertFacts
<1>7. ASSUME NEW ip \in Ips
      PROVE  SpoofAlerted(ip) => SpoofAlerted(ip)'
  BY <1>6 DEF SpoofAlerted
<1>8. ASSUME NEW ip \in Ips, NEW m \in arp'[ip]
      PROVE  \E i \in Replies(ip)' : seen'[i].packet.mac = m
  <2>1. CASE m \in arp[ip]
    <3>1. PICK i \in Replies(ip) : seen[i].packet.mac = m
      BY <2>1 DEF ArpKnown
    <3>2. QED BY <1>1, <1>5, <3>1
  <2>2. CASE ip = p.ip /\ p.kind = "arp" /\ m = p.mac
    BY <1>1, <1>5, <2>2
  <2>3. QED BY <1>4, <1>8, <2>1, <2>2
<1>9. ASSUME NEW ip \in Ips, NEW i \in Replies(ip)'
      PROVE  seen'[i].packet.mac \in arp'[ip] \/ SpoofAlerted(ip)'
  <2>1. CASE i \in Replies(ip)
    <3>1. seen'[i] = seen[i]
      BY <1>1, <1>5, <2>1
    <3>2. seen[i].packet.mac \in arp[ip] \/ SpoofAlerted(ip)
      BY <2>1 DEF ArpKnown
    <3>3. arp[ip] \subseteq arp'[ip]
      BY <1>4
    <3>4. QED BY <1>7, <3>1, <3>2, <3>3
  <2>2. CASE i = n /\ ip = p.ip /\ p.kind = "arp"
    <3>1. seen'[i].packet.mac = p.mac
      BY <1>1, <2>2
    <3>2. CASE arp[ip] \in {{}, {p.mac}}
      BY <1>4, <2>2, <3>1, <3>2
    <3>3. CASE arp[ip] \notin {{}, {p.mac}}
      <4>1. "spoof" \in Fired(p)
        BY <2>2, <3>3 DEF Fired
      <4>2. AlertBy(p.ip, "spoof", clock)'
        BY <1>6, <4>1
      <4>3. QED BY <2>2, <4>2 DEF AlertBy, Alerted, SpoofAlerted
    <3>4. QED BY <3>2, <3>3
  <2>3. QED BY <1>5, <2>1, <2>2
<1>10. \A ip \in Ips : \A m, o \in arp'[ip] : m = o
  BY <1>2, <1>4
<1>11. arp' \in [Ips -> SUBSET Macs]
  BY <1>2, <1>3
<1>12. QED
  BY <1>8, <1>9, <1>10, <1>11 DEF ArpKnown

LEMMA LastStep ==
    ASSUME SpanTypeOK, LastKnown, NEW p \in mix, Handle(p)
    PROVE  /\ LastKnown' /\ last' \in [Ips -> [Kinds -> Int]]
           /\ alerts' \subseteq [ip : Ips, kind : Kinds, at : 0..clock']
<1>1. /\ alerts \subseteq alerts'
      /\ \A a \in alerts' :
            \/ a \in alerts
            \/ /\ a.ip = p.ip /\ a.at = clock /\ a.kind \in Fired(p)
               /\ a.kind \in Kinds /\ clock - last[p.ip][a.kind] > Cooldown
      /\ \A ip \in Ips : \A k \in Kinds :
            \/ /\ last'[ip][k] = last[ip][k]
               /\ ~(ip = p.ip /\ k \in Fired(p) /\ clock - last[p.ip][k] > Cooldown)
            \/ /\ ip = p.ip /\ last'[ip][k] = clock
               /\ \E a \in alerts' : a.ip = ip /\ a.kind = k /\ a.at = clock
      /\ last' \in [Ips -> [Kinds -> Int]]
  BY AlertFacts
<1>2. /\ clock' = clock /\ clock \in Nat /\ p.ip \in Ips
      /\ \A a \in alerts : a.ip \in Ips /\ a.kind \in Kinds /\ a.at \in 0..clock
  BY PacketType DEF SpanTypeOK, Handle
<1>3. alerts' \subseteq [ip : Ips, kind : Kinds, at : 0..clock']
  <2>1. ASSUME NEW k \in Fired(p)
        PROVE  k \in Kinds
    BY PacketType DEF Fired, Kinds
  <2>2. alerts \subseteq [ip : Ips, kind : Kinds, at : 0..clock]
    BY DEF SpanTypeOK
  <2>3. alerts' = alerts \cup {[ip |-> p.ip, kind |-> k, at |-> clock] : k \in
                      {k \in Fired(p) : clock - last[p.ip][k] > Cooldown}}
    BY DEF Handle, Publish
  <2>4. clock \in 0..clock
    BY <1>2
  <2>5. QED BY <1>2, <2>1, <2>2, <2>3, <2>4
<1>4. ASSUME NEW ip \in Ips, NEW k \in Kinds
      PROVE  /\ \A a \in alerts' : a.ip = ip /\ a.kind = k => a.at <= last'[ip][k]
             /\ \/ last'[ip][k] = Never
                \/ \E a \in alerts' : a.ip = ip /\ a.kind = k /\ a.at = last'[ip][k]
  <2>1. CASE /\ ip = p.ip /\ last'[ip][k] = clock
             /\ \E a \in alerts' : a.ip = ip /\ a.kind = k /\ a.at = clock
    <3>1. \A a \in alerts' : a.at <= clock
      BY <1>1, <1>2
    <3>2. QED BY <2>1, <3>1
  <2>2. CASE /\ last'[ip][k] = last[ip][k]
             /\ ~(ip = p.ip /\ k \in Fired(p) /\ clock - last[p.ip][k] > Cooldown)
    <3>1. \A a \in alerts' : a.ip = ip /\ a.kind = k => a \in alerts
      BY <1>1, <2>2
    <3>2. QED BY <1>1, <2>2, <3>1 DEF LastKnown
  <2>3. QED BY <1>1, <2>1, <2>2
<1>5. LastKnown'
  BY <1>4 DEF LastKnown, Never
<1>6. QED
  BY <1>1, <1>3, <1>5

(* The bursts: the packet that goes over the threshold sets off an alert. *)
LEMMA BurstsStep ==
    ASSUME SpanTypeOK, Recorded, CountsKnown, LastKnown,
           BurstsAlerted, NEW p \in mix, Handle(p)
    PROVE  BurstsAlerted'
<1> SUFFICES ASSUME NEW n, n = Len(seen) + 1, NEW s, s = Second(clock),
                    NEW ip \in Ips, NEW k \in Counted, NEW j \in DOMAIN seen',
                    Counting(j, ip, k)', Cardinality(CountedBy(j, ip, k)') > Above[k],
                    NEW t, t = seen'[j].at
             PROVE  AlertBy(ip, k, t)'
  <2>1. ASSUME NEW ip \in Ips, NEW k \in Counted, NEW j \in DOMAIN seen',
               Counting(j, ip, k)', Cardinality(CountedBy(j, ip, k)') > Above[k]
        PROVE  \E a \in alerts' : /\ a.ip = ip /\ a.kind = k /\ a.at <= seen'[j].at
                                   /\ seen'[j].at - Cooldown <= a.at
    <3>1. PICK n, s, t : n = Len(seen) + 1 /\ s = Second(clock) /\ t = seen'[j].at
      OBVIOUS
    <3>2. AlertBy(ip, k, t)'
      BY <2>1, <3>1
    <3>3. QED BY <3>1, <3>2 DEF AlertBy, Alerted
  <2>2. QED BY <2>1 DEF BurstsAlerted, AlertBy, Alerted
<1>1. /\ n \notin DOMAIN seen /\ n \in Nat /\ DOMAIN seen \in SUBSET Nat
      /\ DOMAIN seen' = DOMAIN seen \cup {n}
      /\ seen'[n].packet = p /\ seen'[n].at = clock
      /\ \A i \in DOMAIN seen : /\ seen'[i] = seen[i] /\ i < n
                                /\ seen[i].at <= clock /\ seen[i].at \in Nat
      /\ clock' = clock /\ clock \in Nat
  BY SpanHandled
<1>2. /\ \A i \in DOMAIN seen : \A q, c : Counting(i, q, c)' <=> Counting(i, q, c)
      /\ \A q, c : Counting(n, q, c)' <=> q = p.ip /\ c \in Counts(p)
  BY OldPackets
<1>3. /\ alerts \subseteq alerts'
      /\ \A c \in Fired(p) : AlertBy(p.ip, c, clock)'
  BY AlertFacts
<1>4. CASE j \in DOMAIN seen
  <2>0. j < n /\ j \in Nat /\ \A i \in DOMAIN seen : i \in Nat
    BY <1>1, <1>4
  <2>1. CountedBy(j, ip, k)' = CountedBy(j, ip, k)
    <3>1. ~(n <= j)
      BY <1>1, <2>0
    <3>2. QED BY <1>1, <1>4, <3>1 DEF CountedBy, Counting, Second
  <2>2. Counting(j, ip, k)
    BY <1>2, <1>4
  <2>3. AlertBy(ip, k, seen[j].at)
    BY <1>4, <2>1, <2>2 DEF BurstsAlerted
  <2>4. seen'[j].at = seen[j].at
    BY <1>1, <1>4
  <2>5. QED BY <1>3, <2>3, <2>4 DEF AlertBy, Alerted
<1>5. CASE j = n
  <2>1. ip = p.ip /\ k \in Counts(p)
    BY <1>2, <1>5
  <2>2. NextCount(p)[k].n = Cardinality(CountedBy(j, ip, k)')
    BY <1>5, <2>1, CountsStep
  <2>3. k \in Fired(p)
    <3>1. p.kind # "arp"
      BY <2>1 DEF Counts
    <3>2. NextCount(p)[k].n > Above[k]
      BY <2>2
    <3>3. QED BY <2>1, <3>1, <3>2 DEF Fired
  <2>4. seen'[j].at = clock
    BY <1>1, <1>5
  <2>5. AlertBy(ip, k, clock)'
    BY <1>3, <2>1, <2>3
  <2>6. QED BY <1>1, <2>4, <2>5 DEF AlertBy, Alerted
<1>6. QED
  BY <1>1, <1>4, <1>5

(* A set of packets, or what is said of each, is finite. *)
LEMMA PacketsFinite ==
    ASSUME Recorded
    PROVE  /\ IsFiniteSet(DOMAIN seen)
           /\ \A S \in SUBSET (DOMAIN seen) : IsFiniteSet(S)
<1>1. DOMAIN seen = 1..Len(seen) /\ Len(seen) \in Nat
  BY SeenFacts
<1>2. IsFiniteSet(1..Len(seen))
  BY <1>1, FS_Interval
<1>3. IsFiniteSet(DOMAIN seen)
  BY <1>1, <1>2
<1>4. QED
  BY <1>3, FS_Subset

LEMMA PortsOf ==
    ASSUME NEW S, IsFiniteSet(S)
    PROVE  LET tried == {r.port : r \in S} IN
           IsFiniteSet(tried) /\ Cardinality(tried) <= Cardinality(S)
<1> DEFINE f == [r \in S |-> r.port]
           tried == {r.port : r \in S}
<1>1. f \in Surjection(S, tried)
  BY DEF Surjection
<1> HIDE DEF f, tried
<1>2. IsFiniteSet(tried) /\ Cardinality(tried) <= Cardinality(S)
  BY <1>1, FS_Surjection
<1>3. QED
  BY <1>2 DEF tried

(* The scans: the packet that fills a window sets off an alert. *)
LEMMA ScansStep ==
    ASSUME SpanTypeOK, Recorded, PortsKnown, LastKnown,
           ScansAlerted, NEW p \in mix, Handle(p)
    PROVE  ScansAlerted'
<1> SUFFICES ASSUME NEW n, n = Len(seen) + 1, NEW ip \in Ips, NEW j \in DOMAIN seen',
                    Probing(j, ip)', Cardinality(PortsBy(j, ip)') >= ScanPorts,
                    NEW t, t = seen'[j].at
             PROVE  AlertBy(ip, "scan", t)'
  <2>1. ASSUME NEW ip \in Ips, NEW j \in DOMAIN seen',
               Probing(j, ip)', Cardinality(PortsBy(j, ip)') >= ScanPorts
        PROVE  \E a \in alerts' : /\ a.ip = ip /\ a.kind = "scan" /\ a.at <= seen'[j].at
                                   /\ seen'[j].at - Cooldown <= a.at
    <3>1. PICK n, t : n = Len(seen) + 1 /\ t = seen'[j].at
      OBVIOUS
    <3>2. AlertBy(ip, "scan", t)'
      BY <2>1, <3>1
    <3>3. QED BY <3>1, <3>2 DEF AlertBy, Alerted
  <2>2. QED BY <2>1 DEF ScansAlerted, AlertBy, Alerted
<1>1. /\ n \notin DOMAIN seen /\ n \in Nat /\ DOMAIN seen \in SUBSET Nat
      /\ DOMAIN seen' = DOMAIN seen \cup {n}
      /\ seen'[n].packet = p /\ seen'[n].at = clock
      /\ \A i \in DOMAIN seen : /\ seen'[i] = seen[i] /\ i < n
                                /\ seen[i].at <= clock /\ seen[i].at \in Nat
      /\ clock' = clock /\ clock \in Nat
  BY SpanHandled
<1>2. /\ \A i \in DOMAIN seen : \A q : Probing(i, q)' <=> Probing(i, q)
      /\ \A q : Probing(n, q)' <=> q = p.ip /\ p.kind = "udp"
  BY OldPackets
<1>3. /\ alerts \subseteq alerts'
      /\ \A c \in Fired(p) : AlertBy(p.ip, c, clock)'
  BY AlertFacts
<1>4. CASE j \in DOMAIN seen
  <2>1. ProbesBy(j, ip)' = ProbesBy(j, ip)
    BY <1>1, <1>4 DEF ProbesBy, Probing
  <2>2. PortsBy(j, ip)' = PortsBy(j, ip)
    <3>1. \A i \in ProbesBy(j, ip) : seen'[i] = seen[i]
      BY <1>1 DEF ProbesBy
    <3>2. QED BY <2>1, <3>1 DEF PortsBy
  <2>3. Probing(j, ip)
    BY <1>2, <1>4
  <2>4. AlertBy(ip, "scan", seen[j].at)
    BY <1>4, <2>2, <2>3 DEF ScansAlerted
  <2>5. seen'[j].at = seen[j].at
    BY <1>1, <1>4
  <2>6. QED BY <1>3, <2>4, <2>5 DEF AlertBy, Alerted
<1>5. CASE j = n
  <2>1. ip = p.ip /\ p.kind = "udp"
    BY <1>2, <1>5
  <2> DEFINE next == NextPorts(p)
             tried == {r.port : r \in next}
  <2>2. /\ IsFiniteSet(next)
        /\ \A i \in DOMAIN seen' : Probing(i, ip)' /\ clock - seen'[i].at <= ScanWindow
              => \E r \in next : r.port = seen'[i].packet.port
    BY <2>1, NextPortsFacts
  <2>3. PortsBy(j, ip)' \subseteq tried
    <3>1. ASSUME NEW i \in ProbesBy(j, ip)' PROVE seen'[i].packet.port \in tried
      <4>1. /\ i \in DOMAIN seen' /\ Probing(i, ip)'
            /\ clock - ScanWindow <= seen'[i].at
        BY <1>1, <1>5, <3>1 DEF ProbesBy
      <4>2. seen'[i].at \in Nat /\ ScanWindow \in Nat
        BY <1>1, <4>1, SpanNumbers
      <4>3. clock - seen'[i].at <= ScanWindow
        BY <1>1, <4>1, <4>2
      <4>4. QED BY <2>2, <4>1, <4>3
    <3>2. QED BY <3>1 DEF PortsBy
  <2> HIDE DEF next
  <2>4. IsFiniteSet(tried) /\ Cardinality(tried) <= Cardinality(next)
    BY <2>2, PortsOf
  <2>5. /\ Cardinality(PortsBy(j, ip)') <= Cardinality(tried)
        /\ Cardinality(PortsBy(j, ip)') \in Nat
    <3> HIDE DEF tried
    <3>1. QED BY <2>3, <2>4, FS_Subset, FS_CardinalityType
  <2>6. Cardinality(tried) \in Nat /\ Cardinality(next) \in Nat
    <3> HIDE DEF tried
    <3>1. QED BY <2>2, <2>4, FS_CardinalityType
  <2>7. Cardinality(next) >= ScanPorts /\ ScanPorts \in Nat
    BY <2>4, <2>5, <2>6, SpanNumbers
  <2>8. "scan" \in Fired(p)
    BY <2>1, <2>7 DEF Fired, next
  <2>9. seen'[j].at = clock
    BY <1>1, <1>5
  <2>10. AlertBy(ip, "scan", clock)'
    BY <1>3, <2>1, <2>8
  <2>11. QED BY <1>1, <2>9, <2>10 DEF AlertBy, Alerted
<1>6. QED
  BY <1>1, <1>4, <1>5

(* The alerts: each has the packets that justify it, and keeps them. *)

LEMMA ValuesOf ==
    ASSUME NEW f, IsFiniteSet(DOMAIN f)
    PROVE  /\ IsFiniteSet({f[x] : x \in DOMAIN f})
           /\ Cardinality({f[x] : x \in DOMAIN f}) <= Cardinality(DOMAIN f)
<1> DEFINE g == [x \in DOMAIN f |-> f[x]]
           T == {f[x] : x \in DOMAIN f}
<1>1. g \in Surjection(DOMAIN f, T)
  BY DEF Surjection
<1> HIDE DEF g, T
<1>2. IsFiniteSet(T) /\ Cardinality(T) <= Cardinality(DOMAIN f)
  BY <1>1, FS_Surjection
<1>3. QED
  BY <1>2 DEF T

LEMMA HistoryGrows ==
    ASSUME SpanTypeOK, Recorded, NEW p \in mix, Handle(p)
    PROVE  /\ \A S \in SUBSET (DOMAIN seen') : IsFiniteSet(S)
           /\ \A ip, k, from, to :
                 /\ Of(ip, k, from, to) \subseteq Of(ip, k, from, to)'
                 /\ IsFiniteSet(Of(ip, k, from, to)')
                 /\ Cardinality(Of(ip, k, from, to))
                       <= Cardinality(Of(ip, k, from, to)')
                 /\ {Cardinality(Of(ip, k, from, to)),
                     Cardinality(Of(ip, k, from, to)')} \subseteq Nat
           /\ \A ip, from, to :
                 /\ IsFiniteSet(Tried(ip, from, to)')
                 /\ Cardinality(Tried(ip, from, to))
                       <= Cardinality(Tried(ip, from, to)')
                 /\ {Cardinality(Tried(ip, from, to)),
                     Cardinality(Tried(ip, from, to)')} \subseteq Nat
           /\ \A ip : Replies(ip) \subseteq Replies(ip)'
           /\ \A ip : Replies(ip) \subseteq DOMAIN seen
<1> SUFFICES ASSUME NEW n, n = Len(seen) + 1
             PROVE  /\ \A S \in SUBSET (DOMAIN seen') : IsFiniteSet(S)
                    /\ \A ip, k, from, to :
                          /\ Of(ip, k, from, to) \subseteq Of(ip, k, from, to)'
                          /\ Of(ip, k, from, to)' \subseteq DOMAIN seen'
                    /\ \A ip, from, to :
                          /\ Tried(ip, from, to) \subseteq Tried(ip, from, to)'
                          /\ IsFiniteSet(Tried(ip, from, to)')
                    /\ \A ip : Replies(ip) \subseteq Replies(ip)'
                    /\ \A ip : Replies(ip) \subseteq DOMAIN seen
  <2>1. PICK n : n = Len(seen) + 1
    OBVIOUS
  <2>2. QED BY <2>1, FS_Subset, FS_CardinalityType
<1>1. /\ DOMAIN seen' = DOMAIN seen \cup {n}
      /\ \A i \in DOMAIN seen : seen'[i] = seen[i]
  BY SpanHandled
<1>2. IsFiniteSet(DOMAIN seen')
  BY <1>1, PacketsFinite, FS_AddElement
<1>3. \A S \in SUBSET (DOMAIN seen') : IsFiniteSet(S)
  BY <1>2, FS_Subset
<1>4. ASSUME NEW ip, NEW k, NEW from, NEW to
      PROVE  /\ Of(ip, k, from, to) \subseteq Of(ip, k, from, to)'
             /\ Of(ip, k, from, to)' \subseteq DOMAIN seen'
  BY <1>1 DEF Of, Counts
<1>5. ASSUME NEW ip, NEW from, NEW to
      PROVE  /\ Tried(ip, from, to) \subseteq Tried(ip, from, to)'
             /\ IsFiniteSet(Tried(ip, from, to)')
  <2> DEFINE those == {j \in DOMAIN seen : /\ seen[j].packet.ip = ip
                                           /\ seen[j].packet.kind = "udp"
                                           /\ from <= seen[j].at /\ seen[j].at <= to}
             these == {j \in DOMAIN seen' : /\ seen'[j].packet.ip = ip
                                            /\ seen'[j].packet.kind = "udp"
                                            /\ from <= seen'[j].at /\ seen'[j].at <= to}
             f == [i \in these |-> seen'[i].packet.port]
  <2>1. those \subseteq these /\ \A i \in those : seen'[i] = seen[i]
    BY <1>1
  <2>2. IsFiniteSet(these)
    BY <1>3
  <2>3. /\ Tried(ip, from, to) = {seen[i].packet.port : i \in those}
        /\ Tried(ip, from, to)' = {seen'[i].packet.port : i \in these}
    BY DEF Tried
  <2> HIDE DEF those, these
  <2>4. DOMAIN f = these /\ {f[x] : x \in DOMAIN f} = {seen'[i].packet.port : i \in these}
    OBVIOUS
  <2> HIDE DEF f
  <2>5. IsFiniteSet({f[x] : x \in DOMAIN f})
    BY <2>2, <2>4, ValuesOf
  <2>6. QED BY <2>1, <2>3, <2>4, <2>5
<1>6. ASSUME NEW ip
      PROVE  /\ Replies(ip) \subseteq Replies(ip)'
             /\ Replies(ip) \subseteq DOMAIN seen
  BY <1>1 DEF Replies
<1>7. QED
  BY <1>3, <1>4, <1>5, <1>6

(* A new alert about a count, a scan, a second address. *)
LEMMA NewCounted ==
    ASSUME SpanTypeOK, Recorded, CountsKnown, NEW p \in mix,
           Handle(p), NEW k \in Fired(p) \cap Counted,
           NEW s, s = Second(clock)
    PROVE  Cardinality(Of(p.ip, k, s * Sec, clock)') > Above[k]
<1> SUFFICES ASSUME NEW n, n = Len(seen) + 1
             PROVE  Cardinality(Of(p.ip, k, s * Sec, clock)') > Above[k]
  OBVIOUS
<1>1. k \in Counts(p) /\ NextCount(p)[k].n > Above[k]
  BY DEF Fired, Counted
<1>2. NextCount(p)[k].n = Cardinality(InSecond(p.ip, k, s)')
  BY <1>1, CountsStep
<1>3. /\ DOMAIN seen' = DOMAIN seen \cup {n} /\ seen'[n].at = clock /\ clock' = clock /\ clock \in Nat
      /\ \A i \in DOMAIN seen : /\ seen'[i] = seen[i] /\ seen[i].at <= clock
                                /\ seen[i].at \in Nat
  BY SpanHandled
<1>4. \A i \in DOMAIN seen' : seen'[i].at \in Nat /\ seen'[i].at <= clock
  BY <1>3
<1>5. \A i \in DOMAIN seen' : s * Sec <= seen'[i].at <=> Second(seen'[i].at) = s
  BY <1>3, <1>4, SecondInterval
<1>6. Of(p.ip, k, s * Sec, clock)' = InSecond(p.ip, k, s)'
  <2>1. SUFFICES ASSUME NEW i \in DOMAIN seen'
                 PROVE  (s * Sec)' <= seen'[i].at /\ seen'[i].at <= clock'
                           <=> Second(seen'[i].at) = s
    BY DEF Of, InSecond, Counting, Counts, Second
  <2>2. QED BY <1>3, <1>4, <1>5
<1>7. QED
  BY <1>1, <1>2, <1>6

LEMMA NewScan ==
    ASSUME SpanTypeOK, Recorded, PortsKnown, NEW p \in mix,
           Handle(p), "scan" \in Fired(p)
    PROVE  Cardinality(Tried(p.ip, clock - ScanWindow, clock)') >= ScanPorts
<1> SUFFICES ASSUME NEW n, n = Len(seen) + 1
             PROVE  Cardinality(Tried(p.ip, clock - ScanWindow, clock)') >= ScanPorts
  OBVIOUS
<1>1. p.kind = "udp" /\ Cardinality(NextPorts(p)) >= ScanPorts
  BY PacketType DEF Fired, Counted
<1> DEFINE next == NextPorts(p)
           tried == Tried(p.ip, clock - ScanWindow, clock)'
           f == [r \in next |-> r.port]
<1>2. /\ IsFiniteSet(next)
      /\ \A r \in next : /\ r.at \in 0..clock /\ clock - r.at <= ScanWindow
                         /\ \E i \in DOMAIN seen' : /\ Probing(i, p.ip)'
                                                    /\ seen'[i].packet.port = r.port
                                                    /\ seen'[i].at = r.at
      /\ \A r, q \in next : r.port = q.port => r = q
  BY <1>1, NextPortsFacts
<1>3. clock' = clock /\ clock \in Nat /\ ScanWindow \in Nat /\ ScanPorts \in Nat
  BY SpanHandled, SpanNumbers
<1>4. ASSUME NEW r \in next PROVE r.port \in tried
  <2>1. PICK i \in DOMAIN seen' : /\ Probing(i, p.ip)' /\ seen'[i].at = r.at
                                  /\ seen'[i].packet.port = r.port
    BY <1>2
  <2>2. clock' - ScanWindow <= seen'[i].at /\ seen'[i].at <= clock'
    BY <1>2, <1>3, <2>1
  <2>3. QED BY <2>1, <2>2 DEF Tried, Probing
<1>5. IsFiniteSet(tried) /\ Cardinality(tried) \in Nat
  BY HistoryGrows
<1> HIDE DEF next, tried
<1>6. f \in Injection(next, tried)
  <2>1. f \in [next -> tried] /\ \A r \in next : f[r] = r.port
    BY <1>4
  <2>2. \A r, q \in next : f[r] = f[q] => r = q
    BY <1>2, <2>1
  <2> HIDE DEF f
  <2>3. QED BY <2>1, <2>2 DEF Injection, IsInjective
<1>7. Cardinality(next) <= Cardinality(tried) /\ Cardinality(next) \in Nat
  BY <1>2, <1>5, <1>6, FS_Injection, FS_CardinalityType
<1>8. Cardinality(tried) >= ScanPorts
  BY <1>1, <1>3, <1>5, <1>7 DEF next
<1>9. QED
  BY <1>8 DEF tried

LEMMA NewSpoof ==
    ASSUME SpanTypeOK, Recorded, ArpKnown, NEW p \in mix,
           Handle(p), "spoof" \in Fired(p)
    PROVE  \E i, j \in Replies(p.ip)' : seen'[i].packet.mac # seen'[j].packet.mac
<1> SUFFICES ASSUME NEW n, n = Len(seen) + 1
             PROVE  \E i, j \in Replies(p.ip)' :
                       seen'[i].packet.mac # seen'[j].packet.mac
  OBVIOUS
<1>1. p.kind = "arp" /\ arp[p.ip] \notin {{}, {p.mac}}
  BY PacketType DEF Fired, Counted
<1>2. PICK m \in arp[p.ip] : m # p.mac
  BY <1>1
<1>3. PICK i \in Replies(p.ip) : seen[i].packet.mac = m
  BY <1>2, PacketType DEF ArpKnown
<1>4. /\ n \in DOMAIN seen' /\ seen'[n].packet = p
      /\ \A q \in DOMAIN seen : seen'[q] = seen[q]
  BY SpanHandled
<1>5. n \in Replies(p.ip)'
  BY <1>1, <1>4 DEF Replies
<1>6. i \in Replies(p.ip)' /\ i \in DOMAIN seen
  BY HistoryGrows, <1>3
<1>7. QED
  BY <1>2, <1>3, <1>4, <1>5, <1>6

LEMMA AlertsStep ==
    ASSUME SpanTypeOK, Recorded, CountsKnown, PortsKnown, ArpKnown,
           LastKnown, AlertsSound, NEW p \in mix, Handle(p)
    PROVE  AlertsSound'
<1>1. /\ \A a \in alerts' :
            \/ a \in alerts
            \/ /\ a.ip = p.ip /\ a.at = clock /\ a.kind \in Fired(p)
               /\ a.kind \in Kinds /\ clock - last[p.ip][a.kind] > Cooldown
  BY AlertFacts
<1>2. /\ clock' = clock /\ clock \in Nat /\ p.ip \in Ips /\ Cooldown \in Nat /\ ScanPorts \in Nat
      /\ \A k \in Counted : Above[k] \in Nat
      /\ last \in [Ips -> [Kinds -> Int]]
      /\ \A a \in alerts : a.ip \in Ips /\ a.kind \in Kinds /\ a.at \in 0..clock
  BY PacketType, SpanNumbers DEF SpanTypeOK, Handle
<1>3. ASSUME NEW a \in alerts', a.kind \in Counted
      PROVE  Cardinality(Of(a.ip, a.kind, Second(a.at) * Sec, a.at)')
                 > Above[a.kind]
  <2> SUFFICES ASSUME NEW ip, NEW k, NEW t, NEW s,
                      ip = a.ip, k = a.kind, t = a.at, s = Second(t)
               PROVE  Cardinality(Of(ip, k, s * Sec, t)') > Above[k]
    OBVIOUS
  <2>1. CASE a \in alerts
    <3>1. Cardinality(Of(ip, k, s * Sec, t)) > Above[k]
      BY <1>3, <2>1 DEF AlertsSound
    <3>2. /\ Cardinality(Of(ip, k, s * Sec, t))
                <= Cardinality(Of(ip, k, s * Sec, t)')
          /\ {Cardinality(Of(ip, k, s * Sec, t)),
              Cardinality(Of(ip, k, s * Sec, t)')} \subseteq Nat
      BY HistoryGrows
    <3>3. Above[k] \in Nat
      BY <1>2, <1>3
    <3>4. QED BY <3>1, <3>2, <3>3
  <2>2. CASE ip = p.ip /\ t = clock /\ k \in Fired(p)
    <3>1. k \in Fired(p) \cap Counted
      BY <1>3, <2>2
    <3>2. Cardinality(Of(p.ip, k, s * Sec, clock)') > Above[k]
      BY <2>2, <3>1, NewCounted
    <3>3. QED BY <1>2, <2>2, <3>2
  <2>3. QED BY <1>1, <2>1, <2>2
<1>4. ASSUME NEW a \in alerts', a.kind = "scan"
      PROVE  Cardinality(Tried(a.ip, a.at - ScanWindow, a.at)') >= ScanPorts
  <2> SUFFICES ASSUME NEW ip, NEW t, NEW from, ip = a.ip, t = a.at, from = t - ScanWindow
               PROVE  Cardinality(Tried(ip, from, t)') >= ScanPorts
    OBVIOUS
  <2>1. CASE a \in alerts
    <3>1. Cardinality(Tried(ip, from, t)) >= ScanPorts
      BY <1>4, <2>1 DEF AlertsSound
    <3>2. /\ Cardinality(Tried(ip, from, t)) <= Cardinality(Tried(ip, from, t)')
          /\ {Cardinality(Tried(ip, from, t)),
              Cardinality(Tried(ip, from, t)')} \subseteq Nat
      BY HistoryGrows
    <3>3. QED BY <1>2, <3>1, <3>2
  <2>2. CASE ip = p.ip /\ t = clock /\ "scan" \in Fired(p)
    <3>1. Cardinality(Tried(p.ip, clock - ScanWindow, clock)') >= ScanPorts
      BY <2>2, NewScan
    <3>2. QED BY <1>2, <2>2, <3>1
  <2>3. QED BY <1>1, <1>4, <2>1, <2>2
<1>5. ASSUME NEW a \in alerts', a.kind = "spoof"
      PROVE  \E i, j \in Replies(a.ip)' : seen'[i].packet.mac # seen'[j].packet.mac
  <2> SUFFICES ASSUME NEW ip, ip = a.ip
               PROVE  \E i, j \in Replies(ip)' :
                          seen'[i].packet.mac # seen'[j].packet.mac
    OBVIOUS
  <2>1. CASE a \in alerts
    <3>1. PICK i, j \in Replies(ip) : seen[i].packet.mac # seen[j].packet.mac
      BY <1>5, <2>1 DEF AlertsSound
    <3>2. /\ i \in Replies(ip)' /\ j \in Replies(ip)'
          /\ i \in DOMAIN seen /\ j \in DOMAIN seen
      BY HistoryGrows
    <3>3. PICK n : n = Len(seen) + 1
      OBVIOUS
    <3>4. seen'[i] = seen[i] /\ seen'[j] = seen[j]
      BY <3>2, <3>3, SpanHandled
    <3>5. QED BY <3>1, <3>2, <3>4
  <2>2. CASE ip = p.ip /\ "spoof" \in Fired(p)
    BY <2>2, NewSpoof
  <2>3. QED BY <1>1, <1>5, <2>1, <2>2
<1>6. ASSUME NEW a \in alerts', NEW b \in alerts', a.ip = b.ip, a.kind = b.kind, a.at < b.at
      PROVE  b.at - a.at > Cooldown
  <2>1. a \in alerts
    <3>1. b.at <= clock /\ b.at \in Nat
      BY <1>1, <1>2
    <3>2. a.at # clock
      BY <1>2, <1>6, <3>1
    <3>3. QED BY <1>1, <3>2
  <2>2. CASE b \in alerts
    BY <1>6, <2>1, <2>2 DEF AlertsSound
  <2>3. CASE b \notin alerts
    <3>1. /\ b.ip = p.ip /\ b.at = clock /\ b.kind \in Kinds
          /\ clock - last[p.ip][b.kind] > Cooldown
      BY <1>1, <2>3
    <3>2. a.at <= last[p.ip][b.kind]
      BY <1>2, <1>6, <2>1, <3>1 DEF LastKnown
    <3>3. last[p.ip][b.kind] \in Int /\ a.at \in Int
      BY <1>2, <2>1, <3>1
    <3>4. QED BY <1>2, <3>1, <3>2, <3>3
  <2>4. QED BY <2>2, <2>3
<1>7. ASSUME NEW a \in alerts'
      PROVE  /\ a.kind \in Counted =>
                    Cardinality(Of(a.ip, a.kind, Second(a.at) * Sec, a.at)')
                        > Above[a.kind]
             /\ a.kind = "scan" =>
                    Cardinality(Tried(a.ip, a.at - ScanWindow, a.at)')
                        >= ScanPorts
             /\ a.kind = "spoof" =>
                    \E i, j \in Replies(a.ip)' :
                        seen'[i].packet.mac # seen'[j].packet.mac
  BY <1>3, <1>4, <1>5
<1>8. QED
  BY <1>6, <1>7 DEF AlertsSound
-----------------------------------------------------------------------------
(* The steps, and what follows from the invariant. *)

LEMMA HandleStep ==
    ASSUME SpanInv, NEW p \in mix, Handle(p)
    PROVE  SpanInv'
<1> USE DEF SpanInv
<1>1. /\ clock' = clock /\ restarts' = restarts /\ mix' = mix
      /\ clock \in Nat /\ restarts \in Nat /\ mix \in Mixes
  BY DEF Handle, SpanTypeOK
<1>2. /\ CountsKnown'
      /\ count' \in [Ips -> [Counted -> [n : Nat, sec : Nat]]]
  <2>1. PICK n, s : n = Len(seen) + 1 /\ s = Second(clock)
    OBVIOUS
  <2>2. QED BY <2>1, CountsStep
<1>3. /\ PortsKnown'
      /\ ports' \in [Ips -> SUBSET [port : Ports, at : 0..clock']]
      /\ \A ip \in Ips : \A r, q \in ports'[ip] : r.port = q.port => r = q
  BY PortsStep
<1>4. /\ ArpKnown'
      /\ arp' \in [Ips -> SUBSET Macs]
      /\ \A ip \in Ips : \A m, o \in arp'[ip] : m = o
  BY ArpStep
<1>5. /\ LastKnown' /\ last' \in [Ips -> [Kinds -> Int]]
      /\ alerts' \subseteq [ip : Ips, kind : Kinds, at : 0..clock']
  BY LastStep
<1>6. SpanTypeOK'
  BY <1>1, <1>2, <1>3, <1>4, <1>5 DEF SpanTypeOK
<1>7. Recorded' /\ BurstsAlerted' /\ ScansAlerted' /\ AlertsSound'
  BY RecordedStep, BurstsStep, ScansStep, AlertsStep
<1>8. QED
  BY <1>2, <1>3, <1>4, <1>5, <1>6, <1>7

(* Of the steps that take no packet, only the clock's tells a table anything. *)
LEMMA SpanQuiet ==
    ASSUME SpanInv, clock' \in Nat, clock <= clock', restarts' \in Nat,
           UNCHANGED <<count, ports, arp, last, mix, seen, alerts>>
    PROVE  SpanInv'
<1> USE DEF SpanInv
<1>1. clock \in Nat /\ ScanWindow \in Nat
  BY SpanNumbers DEF SpanTypeOK
<1>2. SpanTypeOK'
  <2>1. 0..clock \subseteq 0..clock'
    BY <1>1
  <2>2. ports' \in [Ips -> SUBSET [port : Ports, at : 0..clock']]
    BY <2>1 DEF SpanTypeOK
  <2>3. alerts' \subseteq [ip : Ips, kind : Kinds, at : 0..clock']
    BY <2>1 DEF SpanTypeOK
  <2>4. QED BY <2>2, <2>3 DEF SpanTypeOK
<1>3. Recorded'
  <2>1. \A i \in DOMAIN seen : seen[i].at \in Nat /\ seen[i].at <= clock
    BY SeenFacts DEF Recorded
  <2>2. QED BY <1>1, <2>1 DEF Recorded
<1>4. CountsKnown'
  <2>1. \A ip \in Ips : \A k \in Counted : count[ip][k].sec <= Second(clock')
    <3>1. Second(clock) <= Second(clock')
      BY <1>1, SecondMonotone
    <3>2. Second(clock) \in Nat /\ Second(clock') \in Nat
      BY <1>1, SecondOf
    <3>3. \A ip \in Ips : \A k \in Counted : count[ip][k].sec \in Nat
      BY DEF SpanTypeOK
    <3>4. QED BY <3>1, <3>2, <3>3 DEF CountsKnown
  <2>2. \A ip, k, q : InSecond(ip, k, q)' = InSecond(ip, k, q)
    BY DEF InSecond, Counting
  <2>3. \A ip, k : InSecond(ip, k, count[ip][k].sec)' = InSecond(ip, k, count[ip][k].sec)
    BY DEF InSecond, Counting
  <2>4. QED BY <2>1, <2>3 DEF CountsKnown, Counting
<1>5. PortsKnown'
  <2>1. \A i \in DOMAIN seen : seen[i].at \in Nat
    BY SeenFacts
  <2>2. \A i \in DOMAIN seen : clock' - seen[i].at <= ScanWindow => clock - seen[i].at <= ScanWindow
    BY <1>1, <2>1
  <2>3. QED BY <2>2 DEF PortsKnown, Probing
<1>6. ArpKnown' /\ LastKnown'
  BY DEF ArpKnown, LastKnown, SpoofAlerted, Replies, Never
<1>7. BurstsAlerted' /\ ScansAlerted' /\ AlertsSound'
  <2>1. BurstsAlerted'
    BY DEF BurstsAlerted, Counting, CountedBy, AlertBy, Alerted
  <2>2. ScansAlerted'
    BY DEF ScansAlerted, Probing, PortsBy, ProbesBy, AlertBy, Alerted
  <2>3. AlertsSound'
    <3>1. \A ip, k, from, to : Of(ip, k, from, to)' = Of(ip, k, from, to)
      BY DEF Of, Counts
    <3>2. \A ip, from, to : Tried(ip, from, to)' = Tried(ip, from, to)
      BY DEF Tried
    <3>3. \A ip : Replies(ip)' = Replies(ip)
      BY DEF Replies
    <3>4. QED BY <3>1, <3>2, <3>3 DEF AlertsSound
  <2>4. QED BY <2>1, <2>2, <2>3
<1>8. QED
  BY <1>2, <1>3, <1>4, <1>5, <1>6, <1>7

(* With empty tables and no packet, nothing is claimed. *)
Fresh ==
    /\ clock \in Nat /\ restarts \in Nat /\ mix \in Mixes
    /\ count = NoCount /\ ports = Nothing /\ arp = Nothing
    /\ last = NoAlert /\ seen = <<>> /\ alerts = {}

LEMMA SpanFresh == Fresh => SpanInv
<1> SUFFICES ASSUME clock \in Nat, restarts \in Nat, mix \in Mixes,
                    count = NoCount, ports = Nothing, arp = Nothing,
                    last = NoAlert, seen = <<>>, alerts = {}
             PROVE  SpanInv
  BY DEF Fresh
<1>1. DOMAIN seen = {} /\ seen \in Seq([packet : Packets, at : Nat])
  OBVIOUS
<1>2. Cardinality({}) = 0 /\ IsFiniteSet({})
  BY FS_EmptySet
<1>3. /\ \A ip \in Ips : \A k \in Counted : count[ip][k] = [n |-> 0, sec |-> 0]
      /\ \A ip \in Ips : ports[ip] = {} /\ arp[ip] = {}
      /\ \A ip \in Ips : \A k \in Kinds : last[ip][k] = Never
  BY DEF NoCount, Nothing, NoAlert
<1>4. SpanTypeOK
  <2>1. count \in [Ips -> [Counted -> [n : Nat, sec : Nat]]]
    BY DEF NoCount
  <2>2. ports \in [Ips -> SUBSET [port : Ports, at : 0..clock]] /\ arp \in [Ips -> SUBSET Macs]
    BY DEF Nothing
  <2>3. last \in [Ips -> [Kinds -> Int]]
    BY SpanNumbers DEF NoAlert, Never
  <2>4. \A ip \in Ips : \A m, o \in arp[ip] : m = o
    BY <1>3
  <2>5. \A ip \in Ips : \A r, q \in ports[ip] : r.port = q.port => r = q
    BY <1>3
  <2>6. QED BY <2>1, <2>2, <2>3, <2>4, <2>5 DEF SpanTypeOK
<1>5. Recorded
  BY <1>1 DEF Recorded
<1>6. CountsKnown
  <2>1. \A ip, k, q : InSecond(ip, k, q) = {}
    BY <1>1 DEF InSecond
  <2>2. 0 <= Second(clock)
    BY SecondOf
  <2>3. ASSUME NEW ip \in Ips, NEW k \in Counted
        PROVE  /\ count[ip][k].sec <= Second(clock)
               /\ count[ip][k].n = Cardinality(InSecond(ip, k, count[ip][k].sec))
    <3>1. count[ip][k].n = 0 /\ count[ip][k].sec = 0
      BY <1>3
    <3>2. InSecond(ip, k, count[ip][k].sec) = {}
      BY <2>1
    <3>3. Cardinality(InSecond(ip, k, count[ip][k].sec)) = 0
      BY <1>2, <3>2
    <3>4. QED BY <2>2, <3>1, <3>3
  <2>4. QED BY <1>1, <2>3 DEF CountsKnown
<1>7. PortsKnown /\ ArpKnown /\ LastKnown
  BY <1>1, <1>2, <1>3 DEF PortsKnown, ArpKnown, LastKnown, Replies
<1>8. BurstsAlerted /\ ScansAlerted /\ AlertsSound
  BY <1>1 DEF BurstsAlerted, ScansAlerted, AlertsSound
<1>9. QED
  BY <1>4, <1>5, <1>6, <1>7, <1>8 DEF SpanInv

LEMMA RestartStep == SpanInv /\ RestartAnalyzer => SpanInv'
<1>1. Fresh => SpanInv
  BY SpanFresh
<1>2. SpanInv /\ RestartAnalyzer => Fresh'
  BY DEF SpanInv, RestartAnalyzer, Fresh, SpanTypeOK, NoCount, Nothing,
         NoAlert, Never
<1>3. QED
  BY <1>1, <1>2, PTL

LEMMA SpanSteps == SpanInv /\ [SpanNext]_spanVars => SpanInv'
<1>1. ASSUME SpanInv, NEW p \in mix, Handle(p) PROVE SpanInv'
  BY <1>1, HandleStep
<1>2. ASSUME SpanInv, ClockTick PROVE SpanInv'
  <2>1. clock \in Nat /\ restarts \in Nat
    BY <1>2 DEF SpanInv, SpanTypeOK
  <2>2. /\ clock' = clock + 1 /\ restarts' = restarts
        /\ UNCHANGED <<count, ports, arp, last, mix, seen, alerts>>
    BY <1>2 DEF ClockTick, trackers, spanHistory
  <2>3. QED BY <1>2, <2>1, <2>2, SpanQuiet
<1>3. ASSUME SpanInv, RestartAnalyzer PROVE SpanInv'
  BY <1>3, RestartStep
<1>4. ASSUME SpanInv, UNCHANGED spanVars PROVE SpanInv'
  <2>1. clock \in Nat /\ restarts \in Nat
    BY <1>4 DEF SpanInv, SpanTypeOK
  <2>2. /\ clock' = clock /\ restarts' = restarts
        /\ UNCHANGED <<count, ports, arp, last, mix, seen, alerts>>
    BY <1>4 DEF spanVars, trackers, spanHistory
  <2>3. QED BY <1>4, <2>1, <2>2, SpanQuiet
<1>5. QED
  BY <1>1, <1>2, <1>3, <1>4 DEF SpanNext

LEMMA SpanInvAlways == SpanSpec => []SpanInv
<1>1. SpanInit => SpanInv
  <2>1. SpanInit => Fresh
    BY DEF SpanInit, Fresh
  <2>2. QED BY <2>1, SpanFresh
<1>2. SpanInv /\ [SpanNext]_spanVars => SpanInv'
  BY SpanSteps
<1>3. QED
  BY <1>1, <1>2, PTL DEF SpanSpec

(* A flood seen in full has an alert: by its last packet, if by no earlier one. *)

LEMMA LastOf ==
    ASSUME Recorded, NEW S \in SUBSET (DOMAIN seen), S # {}
    PROVE  \E j \in S : \A i \in S : i <= j
<1>1. DOMAIN seen = 1..Len(seen) /\ Len(seen) \in Nat
  BY SeenFacts
<1>2. S \subseteq Nat /\ \A i \in S : i <= Len(seen)
  BY <1>1
<1>3. QED
  BY <1>1, <1>2, GreatestExists

LEMMA BurstOfSecond ==
    ASSUME SpanInv, NEW ip \in Ips, NEW k \in Counted, NEW s,
           NEW S \in SUBSET (DOMAIN seen), Cardinality(S) > Above[k],
           \A j \in S : Counting(j, ip, k) /\ Second(seen[j].at) = s
    PROVE  \E j \in S : AlertBy(ip, k, seen[j].at)
<1>1. Recorded /\ BurstsAlerted
  BY DEF SpanInv
<1>2. IsFiniteSet(S) /\ Cardinality(S) \in Nat /\ Above[k] \in Nat
  BY <1>1, PacketsFinite, FS_CardinalityType, SpanNumbers
<1>3. S # {}
  BY <1>2, FS_EmptySet
<1>4. PICK j \in S : \A i \in S : i <= j
  BY <1>1, <1>3, LastOf
<1>5. S \subseteq CountedBy(j, ip, k)
  BY <1>4 DEF CountedBy
<1>6. IsFiniteSet(CountedBy(j, ip, k))
  BY <1>1, PacketsFinite DEF CountedBy
<1>7. Cardinality(S) <= Cardinality(CountedBy(j, ip, k))
  BY <1>5, <1>6, FS_Subset
<1>8. Cardinality(CountedBy(j, ip, k)) \in Nat
  BY <1>6, FS_CardinalityType
<1>9. Cardinality(CountedBy(j, ip, k)) > Above[k]
  BY <1>2, <1>7, <1>8
<1>10. AlertBy(ip, k, seen[j].at)
  BY <1>1, <1>9 DEF BurstsAlerted
<1>11. QED
  BY <1>10

LEMMA FloodAlerted ==
    ASSUME SpanInv, NEW ip \in Ips, NEW k \in Counted,
           NEW from \in Nat, NEW to, to = from + Sec - 1,
           Cardinality(Of(ip, k, from, to)) > 2 * Above[k]
    PROVE  Alerted(ip, k, from, to)
<1> DEFINE S == Of(ip, k, from, to)
           s == Second(from)
           A == {i \in S : Second(seen[i].at) = s}
           B == {i \in S : Second(seen[i].at) = s + 1}
<1>1. /\ Recorded /\ Sec \in Nat \ {0} /\ Above[k] \in Nat /\ Cooldown \in Nat
      /\ \A i \in DOMAIN seen : seen[i].at \in Nat
  BY SpanNumbers, SeenFacts DEF SpanInv
<1>2. \A i \in S : /\ i \in DOMAIN seen /\ Counting(i, ip, k)
                   /\ from <= seen[i].at /\ seen[i].at <= to
  BY DEF Of, Counting
<1>3. S = A \cup B
  <2>1. ASSUME NEW i \in S PROVE Second(seen[i].at) \in {s, s + 1}
    <3>1. /\ seen[i].at \in Nat /\ from <= seen[i].at
          /\ seen[i].at <= from + Sec - 1
      BY <1>1, <1>2
    <3>2. QED BY <3>1, TwoSeconds
  <2>2. QED BY <2>1
<1>4. /\ A \in SUBSET (DOMAIN seen) /\ B \in SUBSET (DOMAIN seen)
      /\ A \subseteq S /\ B \subseteq S
  BY <1>2
<1>5. /\ \A i \in A : Second(seen[i].at) = s
      /\ \A i \in B : Second(seen[i].at) = s + 1
  OBVIOUS
<1>6. Cardinality(S) > 2 * Above[k]
  OBVIOUS
<1> HIDE DEF S, s, A, B
<1>7. IsFiniteSet(A) /\ IsFiniteSet(B)
  BY <1>1, <1>4, PacketsFinite
<1>8. /\ Cardinality(A) \in Nat /\ Cardinality(B) \in Nat
      /\ Cardinality(A \cap B) \in Nat
      /\ Cardinality(S) = Cardinality(A) + Cardinality(B) - Cardinality(A \cap B)
  BY <1>3, <1>7, FS_Union, FS_CardinalityType, FS_Intersection
<1>9. Cardinality(A) > Above[k] \/ Cardinality(B) > Above[k]
  BY <1>1, <1>6, <1>8
<1>10. \E j \in S : AlertBy(ip, k, seen[j].at)
  <2>1. CASE Cardinality(A) > Above[k]
    <3>1. \E j \in A : AlertBy(ip, k, seen[j].at)
      BY <1>2, <1>4, <1>5, <2>1, BurstOfSecond
    <3>2. QED BY <1>4, <3>1
  <2>2. CASE Cardinality(B) > Above[k]
    <3>1. \E j \in B : AlertBy(ip, k, seen[j].at)
      BY <1>2, <1>4, <1>5, <2>2, BurstOfSecond
    <3>2. QED BY <1>4, <3>1
  <2>3. QED BY <1>9, <2>1, <2>2
<1>11. PICK j \in S : AlertBy(ip, k, seen[j].at)
  BY <1>10
<1>12. PICK a \in alerts : /\ a.ip = ip /\ a.kind = k
                           /\ seen[j].at - Cooldown <= a.at /\ a.at <= seen[j].at
  BY <1>11 DEF AlertBy, Alerted
<1>13. a.at \in Nat /\ seen[j].at \in Nat /\ to \in Int
  BY <1>1, <1>2 DEF SpanInv, SpanTypeOK
<1>14. from - Cooldown <= a.at /\ a.at <= to
  BY <1>1, <1>2, <1>12, <1>13
<1>15. QED
  BY <1>12, <1>14 DEF Alerted

LEMMA ScanAlerted ==
    ASSUME SpanInv, NEW ip \in Ips,
           NEW from \in Nat, NEW to, to = from + ScanWindow,
           Cardinality(Tried(ip, from, to)) >= ScanPorts
    PROVE  Alerted(ip, "scan", from, to)
<1> DEFINE S == {j \in DOMAIN seen : /\ Probing(j, ip)
                                     /\ from <= seen[j].at /\ seen[j].at <= to}
<1>1. /\ Recorded /\ ScansAlerted /\ ScanPorts \in Nat \ {0} /\ ScanWindow \in Nat
      /\ Cooldown \in Nat
      /\ \A i \in DOMAIN seen : seen[i].at \in Nat
  BY SpanNumbers, SeenFacts DEF SpanInv
<1>2. Tried(ip, from, to) = {seen[i].packet.port : i \in S}
  BY DEF Tried, Probing
<1>3. S \in SUBSET (DOMAIN seen)
  OBVIOUS
<1>4. S # {}
  <2>1. SUFFICES ASSUME S = {} PROVE FALSE
    OBVIOUS
  <2>2. Tried(ip, from, to) = {}
    BY <1>2, <2>1
  <2>3. Cardinality(Tried(ip, from, to)) = 0
    BY <2>2, FS_EmptySet
  <2>4. QED BY <1>1, <2>3
<1>5. PICK j \in S : \A i \in S : i <= j
  <2> HIDE DEF S
  <2> QED BY <1>1, <1>3, <1>4, LastOf
<1>6. Tried(ip, from, to) \subseteq PortsBy(j, ip)
  <2>1. ASSUME NEW i \in S PROVE i \in ProbesBy(j, ip)
    <3>1. i \in DOMAIN seen /\ Probing(i, ip) /\ i <= j
      BY <1>5
    <3>2. seen[i].at \in Nat /\ seen[j].at \in Nat
      BY <1>1
    <3>3. seen[j].at - ScanWindow <= seen[i].at
      BY <1>1, <3>2
    <3>4. QED BY <3>1, <3>3 DEF ProbesBy
  <2>2. QED BY <1>2, <2>1 DEF PortsBy
<1>7. IsFiniteSet(PortsBy(j, ip)) /\ Cardinality(PortsBy(j, ip)) \in Nat
  <2> DEFINE f == [i \in ProbesBy(j, ip) |-> seen[i].packet.port]
  <2>1. IsFiniteSet(ProbesBy(j, ip))
    BY <1>1, PacketsFinite DEF ProbesBy
  <2>2. DOMAIN f = ProbesBy(j, ip) /\ {f[x] : x \in DOMAIN f} = PortsBy(j, ip)
    BY DEF PortsBy
  <2> HIDE DEF f
  <2>3. IsFiniteSet(PortsBy(j, ip))
    BY <2>1, <2>2, ValuesOf
  <2>4. QED BY <2>3, FS_CardinalityType
<1>8. /\ Cardinality(Tried(ip, from, to)) <= Cardinality(PortsBy(j, ip))
      /\ Cardinality(Tried(ip, from, to)) \in Nat
  BY <1>6, <1>7, FS_Subset, FS_CardinalityType
<1>9. Cardinality(PortsBy(j, ip)) >= ScanPorts
  BY <1>1, <1>7, <1>8
<1>10. AlertBy(ip, "scan", seen[j].at)
  BY <1>1, <1>5, <1>9 DEF ScansAlerted
<1>11. PICK a \in alerts : /\ a.ip = ip /\ a.kind = "scan"
                           /\ seen[j].at - Cooldown <= a.at /\ a.at <= seen[j].at
  BY <1>10 DEF AlertBy, Alerted
<1>12. a.at \in Nat /\ seen[j].at \in Nat /\ to \in Int
  BY <1>1 DEF SpanInv, SpanTypeOK
<1>13. from - Cooldown <= a.at /\ a.at <= to
  BY <1>1, <1>11, <1>12
<1>14. QED
  BY <1>11, <1>13 DEF Alerted

LEMMA FloodsFollow ==
    ASSUME SpanInv
    PROVE  FloodsAlerted
<1>1. \A i \in DOMAIN seen : seen[i].at \in Nat
  BY SeenFacts DEF SpanInv
<1>2. ASSUME NEW ip \in Ips, NEW i \in DOMAIN seen, NEW k \in Counted,
             Cardinality(Of(ip, k, seen[i].at, seen[i].at + Sec - 1)) > 2 * Above[k]
      PROVE  Alerted(ip, k, seen[i].at, seen[i].at + Sec - 1)
  BY <1>1, <1>2, FloodAlerted
<1>3. ASSUME NEW ip \in Ips, NEW i \in DOMAIN seen,
             Cardinality(Tried(ip, seen[i].at, seen[i].at + ScanWindow))
                 >= ScanPorts
      PROVE  Alerted(ip, "scan", seen[i].at, seen[i].at + ScanWindow)
  BY <1>1, <1>3, ScanAlerted
<1>4. ASSUME NEW ip \in Ips, NEW i \in Replies(ip), NEW j \in Replies(ip),
             seen[i].packet.mac # seen[j].packet.mac
      PROVE  \E a \in alerts : a.ip = ip /\ a.kind = "spoof"
  <2>1. /\ seen[i].packet.mac \in arp[ip] \/ SpoofAlerted(ip)
        /\ seen[j].packet.mac \in arp[ip] \/ SpoofAlerted(ip)
    BY DEF SpanInv, ArpKnown
  <2>2. \A m, o \in arp[ip] : m = o
    BY DEF SpanInv, SpanTypeOK
  <2>3. QED BY <1>4, <2>1, <2>2 DEF SpoofAlerted
<1>5. QED
  BY <1>2, <1>3, <1>4 DEF FloodsAlerted
-----------------------------------------------------------------------------
(* The tables, the clock and the alerts have their types: one entry for a port,
   one address for an IP. *)
THEOREM SpanTypeCorrect == SpanSpec => []SpanTypeOK
<1>1. SpanInv => SpanTypeOK
  BY DEF SpanInv
<1>2. QED
  BY <1>1, SpanInvAlways, PTL

(* No alert without the packets that justify it, in its second or its window,
   and none of a kind about an address within the cool-down of another: whatever
   packets come, in whatever order, at whatever times. *)
THEOREM AlertsAreSound == SpanSpec => []AlertsSound
<1>1. SpanInv => AlertsSound
  BY DEF SpanInv
<1>2. QED
  BY <1>1, SpanInvAlways, PTL

(* Counting by the second of the clock misses no flood of more than twice the
   threshold, wherever it begins; forgetting the ports of old misses no scan; and
   keeping the first address of an IP misses no second one. *)
THEOREM FloodsAlwaysAlerted == SpanSpec => []FloodsAlerted
<1>1. SpanInv => FloodsAlerted
  BY FloodsFollow
<1>2. QED
  BY <1>1, SpanInvAlways, PTL
-----------------------------------------------------------------------------
(***************************************************************************)
(* The throttles, for any addresses, tiers and durations, any number of    *)
(* requests at a time and any run of the clock: their types, that a ban    *)
(* lasts and that no guess goes uncounted.                                 *)
(***************************************************************************)


-----------------------------------------------------------------------------
(* The inductive invariant. *)

(* A request of the portal holds the table's entry, or is an orphan. *)
Holding == \A t \in Threads :
    /\ pc[t] # "idle" => t <= budget.threads
    /\ door = "portal" /\ pc[t] \in {"verify", "record", "reset"} /\ t \notin orphans
          => attempts[addr[t]] # NoEntry

OneDoor ==
    /\ door = "dashboard" => orphans = {} /\ \A a \in Addrs : astray[a] = 0
    /\ door = "portal" => LockFree

(* An entry outlives its ban: no ban reaches farther than Ttl from the failure
   that was counted last, though its request may have read the clock long ago. *)
BansInTable == \A a \in Addrs :
    /\ attempts[a] # NoEntry => attempts[a].until <= attempts[a].last + Ttl
    /\ Standing(a) => attempts[a] # NoEntry /\ attempts[a].until = banned[a]
    /\ door = "dashboard" /\ attempts[a].failures < FirstTier => attempts[a].until = 0
    /\ attempts[a].last <= now

(* The guesses at an address that are under way: those not yet looked at ... *)
Verifying(a) == {t \in Threads : addr[t] = a /\ pc[t] = "verify"}

(* ... and those that were wrong and are not yet counted. *)
Uncounted(a) == {t \in Threads : addr[t] = a /\ pc[t] = "record" /\ t \notin orphans}

(* The failures since the last ban, as the table has them. *)
CountedOf(n) ==
    IF n <= 0 THEN 0
    ELSE IF door = "portal" THEN n % FailLimit
    ELSE IF n < FirstTier THEN n ELSE 0

Accounted == \A a \in Addrs :
    since[a] <= CountedOf(attempts[a].failures) + Cardinality(Uncounted(a))

BansBite == \A a \in Addrs : Standing(a) =>
    since[a] + astray[a] + Cardinality(Verifying(a)) <= budget.threads - 1

(* The requests that may still guess for an entry that was dropped. *)
Lost(a) == {t \in orphans : addr[t] = a /\ pc[t] = "verify"}

Strayed == \A a \in Addrs : astray[a] + Cardinality(Lost(a)) <= budget.threads

(* Nobody is past the check of a ban that runs but who was when it began. *)
OnlyLate == \A a \in Addrs :
    /\ ended[a] # "new"
    /\ Standing(a) => Past(a) \subseteq late

IInv == TypeOK /\ Holding /\ OneDoor /\ BansInTable /\ Accounted /\ BansBite
           /\ Strayed /\ OnlyLate
-----------------------------------------------------------------------------
USE ThrottleAssumption

(* The lowest threshold. *)
LEMMA FirstTierLowest ==
    /\ FirstTier \in Nat \ {0}
    /\ \A tier \in Tiers : FirstTier <= tier[1]
    /\ \E tier \in Tiers : tier[1] = FirstTier
<1> DEFINE counts == {tier[1] : tier \in Tiers}
<1>1. counts \subseteq Nat \ {0} /\ counts # {}
  OBVIOUS
<1>2. \E n \in counts : \A j \in counts : n <= j
  <2> HIDE DEF counts
  <2> QED BY <1>1, LeastExists
<1>3. \E n \in counts : \A tier \in Tiers : n <= tier[1]
  BY <1>2
<1>4. FirstTier \in counts /\ \A tier \in Tiers : FirstTier <= tier[1]
  BY <1>3 DEF FirstTier
<1>5. QED
  BY <1>1, <1>4

(* The dashboard's lockout lasts no longer than an entry is kept, and begins
   with the lowest threshold. *)
LEMMA IpLockoutFacts ==
    ASSUME NEW n \in Nat
    PROVE  /\ IpLockoutFor(n) \in 0..Ttl
           /\ IpLockoutFor(n) > 0 <=> FirstTier <= n
<1> DEFINE reached == {tier \in Tiers : tier[1] <= n}
           counts == {tier[1] : tier \in reached}
<1>1. CASE reached = {}
  <2>1. IpLockoutFor(n) = 0
    BY <1>1 DEF IpLockoutFor
  <2>2. PICK tier \in Tiers : tier[1] = FirstTier
    BY FirstTierLowest
  <2>3. ~(FirstTier <= n)
    BY <1>1, <2>2
  <2>4. QED BY <2>1, <2>3
<1>2. CASE reached # {}
  <2>1. counts \subseteq Nat /\ counts # {} /\ \A k \in counts : k <= n
    BY <1>2
  <2>2. PICK k \in counts : \A j \in counts : j <= k
    <3> HIDE DEF counts
    <3> QED BY <2>1, GreatestExists
  <2>3. \E top \in reached : \A tier \in reached : tier[1] <= top[1]
    BY <2>2
  <2>4. (CHOOSE top \in reached : \A tier \in reached : tier[1] <= top[1]) \in reached
    BY <2>3
  <2>5. \A tier \in Tiers : tier[2] \in 1..Ttl
    OBVIOUS
  <2>6. IpLockoutFor(n) \in 1..Ttl
    BY <1>2, <2>4, <2>5 DEF IpLockoutFor
  <2>7. FirstTier <= n
    <3>1. PICK tier \in Tiers : tier[1] <= n
      BY <1>2
    <3>2. FirstTier <= tier[1] /\ tier[1] \in Nat /\ FirstTier \in Nat
      BY FirstTierLowest
    <3>3. QED BY <3>1, <3>2
  <2>8. QED BY <2>6, <2>7
<1>3. QED
  BY <1>1, <1>2

(* The portal's likewise; it begins with every FailLimit-th failure. *)
LEMMA LockoutFacts ==
    ASSUME NEW n \in Nat \ {0}
    PROVE  /\ LockoutFor(n) \in 0..Ttl
           /\ LockoutFor(n) > 0 <=> n % FailLimit = 0
<1> DEFINE q == n \div FailLimit
           d == LockoutStep * q
<1>1. FailLimit \in Nat \ {0} /\ LockoutStep \in Nat \ {0} /\ LockoutCap \in 1..Ttl
  OBVIOUS
<1>2. /\ q \in Nat /\ n % FailLimit \in 0..(FailLimit - 1)
      /\ n % FailLimit = n - FailLimit * q
  BY <1>1, DivMod, Zenon
<1>3. CASE n % FailLimit # 0
  BY <1>1, <1>3 DEF LockoutFor
<1>4. CASE n % FailLimit = 0
  <2>1. n = FailLimit * q
    <3> HIDE DEF q
    <3>1. FailLimit * q \in Int
      BY <1>1, <1>2
    <3>2. QED BY <1>2, <1>4, <3>1
  <2>2. q # 0
    <3> HIDE DEF q
    <3> QED BY <2>1, <1>1
  <2>3. d \in Nat \ {0}
    <3> HIDE DEF q
    <3> QED BY <1>1, <1>2, <2>2
  <2>4. LockoutFor(n) = IF d < LockoutCap THEN d ELSE LockoutCap
    BY <1>4 DEF LockoutFor
  <2> HIDE DEF d
  <2>5. QED
    BY <1>1, <1>4, <2>3, <2>4
<1>5. QED
  BY <1>3, <1>4

(* How far the failures since the last ban can get. *)
LEMMA LimitType == ASSUME door \in Doors PROVE Limit \in Nat \ {0}
BY FirstTierLowest DEF Limit

LEMMA CountedType ==
    ASSUME door \in Doors, NEW n \in Int
    PROVE  CountedOf(n) \in 0..(Limit - 1)
<1>1. FailLimit \in Nat \ {0} /\ FirstTier \in Nat \ {0}
  BY FirstTierLowest
<1>2. CASE n <= 0
  BY <1>1, <1>2, LimitType DEF CountedOf
<1>3. CASE n > 0 /\ door = "portal"
  <2>1. n % FailLimit \in 0..(FailLimit - 1)
    BY <1>1, <1>3, DivMod
  <2>2. CountedOf(n) = n % FailLimit /\ Limit = FailLimit
    BY <1>3 DEF CountedOf, Limit
  <2>3. QED BY <2>1, <2>2
<1>4. CASE n > 0 /\ door = "dashboard"
  BY <1>1, <1>4 DEF CountedOf, Limit
<1>5. QED
  BY <1>2, <1>3, <1>4

LEMMA LockoutType ==
    ASSUME door \in Doors, NEW n \in Nat \ {0}
    PROVE  Lockout(n) \in 0..Ttl
BY IpLockoutFacts, LockoutFacts DEF Lockout

(* A failure that sets no ban counts. *)
LEMMA CountedGrows ==
    ASSUME door \in Doors, NEW n \in Nat, ~(Lockout(n + 1) > 0)
    PROVE  CountedOf(n) + 1 <= CountedOf(n + 1)
<1> SUFFICES ASSUME NEW m \in Nat \ {0}, m = n + 1, ~(Lockout(m) > 0)
             PROVE  CountedOf(n) + 1 <= CountedOf(m)
  OBVIOUS
<1>1. CASE door = "portal"
  <2>1. m % FailLimit # 0
    BY <1>1, LockoutFacts DEF Lockout
  <2>2. FailLimit \in Nat \ {0}
    OBVIOUS
  <2>3. (n % FailLimit) + 1 <= m % FailLimit
    BY <2>1, <2>2, ModStep
  <2>4. CountedOf(m) = m % FailLimit
    BY <1>1 DEF CountedOf
  <2>5. m % FailLimit \in 0..(FailLimit - 1)
    <3>1. m \in Nat
      OBVIOUS
    <3>2. QED BY <2>2, <3>1, DivMod, Zenon
  <2>6. CASE n = 0
    <3>1. CountedOf(n) = 0
      BY <2>6 DEF CountedOf
    <3>2. QED BY <2>1, <2>2, <2>4, <2>5, <3>1
  <2>7. CASE n > 0
    <3>1. CountedOf(n) = n % FailLimit
      BY <1>1, <2>7 DEF CountedOf
    <3>2. QED BY <2>3, <2>4, <3>1
  <2>8. QED BY <2>6, <2>7
<1>2. CASE door = "dashboard"
  <2>1. m < FirstTier
    BY <1>2, IpLockoutFacts, FirstTierLowest DEF Lockout
  <2>2. QED
    BY <1>2, <2>1, FirstTierLowest DEF CountedOf
<1>3. QED
  BY <1>1, <1>2
-----------------------------------------------------------------------------
(* Facts about the requests under way. *)

LEMMA BudgetType == ASSUME budget \in Budgets PROVE budget.threads \in Nat
OBVIOUS

LEMMA Threaded ==
    ASSUME TypeOK, Holding, NEW a \in Addrs
    PROVE  /\ Uncounted(a) \in SUBSET (1..budget.threads)
           /\ Verifying(a) \in SUBSET (1..budget.threads)
           /\ Lost(a) \in SUBSET (1..budget.threads)
           /\ budget.threads \in Nat
<1>1. \A t \in Threads : t \in Nat /\ t >= 1
  BY DEF Threads
<1>2. QED
  BY <1>1, BudgetType DEF TypeOK, Holding, Uncounted, Verifying, Lost
-----------------------------------------------------------------------------
(* Facts about the entries of the table. *)

LEMMA EntryFields ==
    ASSUME NEW e \in Entry \cup {NoEntry}
    PROVE  /\ e.failures \in Int /\ e.failures >= -1
           /\ e.until \in Nat /\ e.last \in Nat
           /\ e # NoEntry => e \in Entry /\ e.failures \in Nat
BY DEF Entry, NoEntry

LEMMA NewEntryType ==
    ASSUME NEW read \in Nat
    PROVE  NewEntry(read) \in Entry /\ NewEntry(read) # NoEntry /\ NoEntry \notin Entry
BY DEF NewEntry, Entry, NoEntry

(* Dropping leaves an entry or takes it, and takes none whose ban lasts. *)
LEMMA DroppedFacts ==
    ASSUME TypeOK, NEW as \in SUBSET Addrs, NEW read \in 0..now
    PROVE  /\ Dropped(as, read) \in [Addrs -> Entry \cup {NoEntry}]
           /\ \A a \in Addrs :
                 \/ Dropped(as, read)[a] = attempts[a]
                 \/ /\ Dropped(as, read)[a] = NoEntry /\ attempts[a] # NoEntry
                    /\ BansInTable => ~Standing(a)
<1>1. Dropped(as, read) \in [Addrs -> Entry \cup {NoEntry}]
  BY DEF TypeOK, Dropped
<1>2. ASSUME NEW a \in Addrs, BansInTable, Stale(attempts[a], read)
      PROVE  ~Standing(a)
  <2>1. /\ attempts[a].until \in Nat /\ attempts[a].last \in Nat
        /\ banned[a] \in Nat /\ now \in Nat /\ read \in Nat /\ read <= now
    BY EntryFields DEF TypeOK
  <2>2. attempts[a] # NoEntry /\ read - attempts[a].last > Ttl
    BY <1>2 DEF Stale
  <2>3. attempts[a].until <= attempts[a].last + Ttl
    BY <1>2, <2>2 DEF BansInTable
  <2>4. Standing(a) => attempts[a].until = banned[a] /\ now < banned[a]
    BY <1>2 DEF BansInTable, Standing
  <2>5. Ttl \in Nat
    OBVIOUS
  <2>6. QED BY <2>1, <2>2, <2>3, <2>4, <2>5
<1>3. \A a \in Addrs : \/ Dropped(as, read)[a] = attempts[a]
                       \/ Dropped(as, read)[a] = NoEntry /\ Stale(attempts[a], read)
  BY DEF Dropped
<1>4. \A a \in Addrs : Stale(attempts[a], read) => attempts[a] # NoEntry
  BY DEF Stale
<1>5. QED
  BY <1>1, <1>2, <1>3, <1>4

LEMMA FoundType ==
    ASSUME NEW table \in [Addrs -> Entry \cup {NoEntry}], NEW a \in Addrs,
           NEW read \in Nat
    PROVE  Found(table, a, read) \in Entry /\ Found(table, a, read) # NoEntry
BY NewEntryType DEF Found

LEMMA FailedType ==
    ASSUME door \in Doors, NEW e \in Entry, NEW read \in Nat
    PROVE  /\ Failed(e, read) \in Entry /\ Failed(e, read) # NoEntry
           /\ Failed(e, read).failures = e.failures + 1
           /\ Failed(e, read).last = read
           /\ Lockout(e.failures + 1) > 0 =>
                 Failed(e, read).until = read + Lockout(e.failures + 1)
           /\ ~(Lockout(e.failures + 1) > 0) => Failed(e, read).until = e.until
           /\ Lockout(e.failures + 1) \in 0..Ttl
<1>1. e.failures \in Nat /\ e.until \in Nat /\ e.failures + 1 \in Nat \ {0}
  BY DEF Entry
<1>2. Lockout(e.failures + 1) \in 0..Ttl
  BY <1>1, LockoutType
<1> DEFINE d == Lockout(e.failures + 1)
<1>3. Failed(e, read) = [failures |-> e.failures + 1, last |-> read,
                          until |-> IF d > 0 THEN read + d ELSE e.until]
  BY DEF Failed
<1> HIDE DEF d
<1>4. d \in Nat
  BY <1>2 DEF d
<1>5. Failed(e, read) \in Entry
  BY <1>1, <1>3, <1>4 DEF Entry
<1>6. QED
  BY <1>1, <1>2, <1>3, <1>5, NewEntryType DEF d

LEMMA RememberedType ==
    ASSUME TypeOK, NEW table
    PROVE  Remembered(since, table) \in [Addrs -> Nat] /\ Remembered(astray, table) \in [Addrs -> Nat]
BY DEF TypeOK, Remembered

LEMMA GotoType ==
    ASSUME TypeOK, NEW t \in Threads, Goto(t, "verify") \/ Goto(t, "record")
                                        \/ Goto(t, "reset") \/ Goto(t, "alert"),
           now' = now
    PROVE  /\ pc' \in [Threads -> {"idle", "check", "verify", "record", "alert", "reset"}]
           /\ addr' = addr /\ at' \in [Threads -> 0..now]
           /\ \A u \in Threads : u # t => pc'[u] = pc[u]
           /\ pc'[t] # "idle"
BY DEF TypeOK, Goto

LEMMA NoAddrType == NoAddr \in Addrs
BY DEF NoAddr

LEMMA LeaveType ==
    ASSUME TypeOK, NEW t \in Threads, Leave(t), now' = now
    PROVE  /\ pc' \in [Threads -> {"idle", "check", "verify", "record", "alert", "reset"}]
           /\ addr' \in [Threads -> Addrs] /\ at' \in [Threads -> 0..now]
           /\ \A u \in Threads : u # t => pc'[u] = pc[u] /\ addr'[u] = addr[u]
           /\ pc'[t] = "idle"
<1>1. NoAddr \in Addrs
  BY NoAddrType DEF TypeOK
<1>2. 0 \in 0..now
  BY DEF TypeOK
<1>3. QED
  BY <1>1, <1>2 DEF TypeOK, Leave
-----------------------------------------------------------------------------
(* Every variable keeps its type. *)

LEMMA InitType == Init => TypeOK
<1> SUFFICES ASSUME Init PROVE TypeOK
  OBVIOUS
<1>1. 0 \in 0..0
  OBVIOUS
<1>2. QED
  BY <1>1, NoAddrType DEF Init, TypeOK

LEMMA CountType ==
    ASSUME TypeOK, NEW t \in Threads, NEW table \in [Addrs -> Entry \cup {NoEntry}],
           NEW e \in Entry, Count(t, table, e), t \notin orphans, pc[t] = "record",
           UNCHANGED <<door, budget, now>>
    PROVE  TypeOK'
<1>1. attempts' \in [Addrs -> Entry \cup {NoEntry}]
  BY DEF Count, TypeOK
<1>2. e.until \in Nat
  BY DEF Entry
<1>3. banned' \in [Addrs -> Nat] /\ ended' \in [Addrs -> {"no", "late", "new"}]
  BY <1>2 DEF Count, TypeOK
<1>4. since' \in [Addrs -> Nat] /\ astray' \in [Addrs -> Nat]
  <2>1. Remembered(since, table) \in [Addrs -> Nat] /\ Remembered(astray, table) \in [Addrs -> Nat]
    BY RememberedType
  <2>2. QED BY <2>1 DEF Count
<1>5. /\ pc' \in [Threads -> {"idle", "check", "verify", "record", "alert", "reset"}]
      /\ addr' \in [Threads -> Addrs] /\ at' \in [Threads -> 0..now]
      /\ \A u \in Threads : u # t => pc'[u] = pc[u]
      /\ orphans' = orphans
  <2>1. CASE Goto(t, "alert")
    BY <2>1, GotoType DEF Count, TypeOK
  <2>2. CASE Leave(t)
    BY <2>2, LeaveType DEF Count, TypeOK
  <2>3. QED BY <2>1, <2>2 DEF Count
<1>6. orphans' \subseteq {u \in Threads : pc'[u] \in {"verify", "record", "reset"}}
  BY <1>5 DEF TypeOK
<1>7. late' \subseteq {u \in Threads : pc'[u] \in {"verify", "reset"}}
  <2>1. late' \subseteq late \cup Past(addr[t])
    BY DEF Count
  <2>2. QED BY <1>5, <2>1 DEF TypeOK, Past
<1>8. QED
  BY <1>1, <1>3, <1>4, <1>5, <1>6, <1>7 DEF TypeOK

LEMMA NextType ==
    ASSUME TypeOK, Holding, OneDoor, Next
    PROVE  TypeOK'
<1> USE DEF TypeOK
<1>1. ASSUME NEW t \in Threads, NEW a \in Addrs, Begin(t, a)
      PROVE  TypeOK'
  BY <1>1 DEF Begin, history
<1>2. ASSUME NEW t \in Threads, Check(t)
      PROVE  TypeOK'
  <2> DEFINE a == addr[t]
             as == IF door = "dashboard" THEN {a} ELSE Addrs
             table == Dropped(as, at[t])
  <2>1. a \in Addrs /\ as \in SUBSET Addrs /\ at[t] \in 0..now /\ at[t] \in Nat
    OBVIOUS
  <2>2. table \in [Addrs -> Entry \cup {NoEntry}]
    BY <2>1, DroppedFacts
  <2>3. attempts' \in [Addrs -> Entry \cup {NoEntry}]
    <3>1. Found(table, a, at[t]) \in Entry
      BY <2>1, <2>2, FoundType
    <3>2. attempts' = table \/ attempts' = [table EXCEPT ![a] = Found(table, a, at[t])]
      BY <1>2 DEF Check
    <3> HIDE DEF table
    <3>3. QED BY <2>2, <3>1, <3>2
  <2>4. since' \in [Addrs -> Nat] /\ astray' \in [Addrs -> Nat]
    <3>1. since' = Remembered(since, table) /\ astray' = Remembered(astray, table)
      BY <1>2 DEF Check
    <3>2. QED BY <3>1, RememberedType
  <2>5. UNCHANGED <<door, budget, now, banned, late, ended>> /\ t \notin late
    BY <1>2 DEF Check
  <2>6. /\ pc' \in [Threads -> {"idle", "check", "verify", "record", "alert", "reset"}]
        /\ addr' \in [Threads -> Addrs] /\ at' \in [Threads -> 0..now]
        /\ \A u \in Threads : u # t => pc'[u] = pc[u]
    <3>1. Goto(t, "verify") \/ Leave(t)
      BY <1>2 DEF Check
    <3>2. QED BY <2>5, <3>1, GotoType, LeaveType
  <2>7. orphans' \subseteq {u \in Threads : pc'[u] \in {"verify", "record", "reset"}}
    <3>1. t \notin orphans /\ pc[t] = "check"
      BY <1>2 DEF Check
    <3>2. orphans' \subseteq orphans \cup
              {u \in Threads : pc[u] \in {"verify", "record", "reset"}}
      BY <1>2 DEF Check
    <3>3. QED BY <2>6, <3>1, <3>2
  <2>8. QED
    BY <2>3, <2>4, <2>5, <2>6, <2>7
<1>3. ASSUME NEW t \in Threads, Wrong(t)
      PROVE  TypeOK'
  <2>1. /\ Goto(t, "record") /\ late' = late \ {t}
        /\ UNCHANGED <<door, budget, attempts, orphans, now, banned, ended>>
    BY <1>3 DEF Wrong
  <2>2. since' \in [Addrs -> Nat] /\ astray' \in [Addrs -> Nat]
    BY <1>3 DEF Wrong
  <2>3. pc' = [pc EXCEPT ![t] = "record"]
    BY <2>1 DEF Goto
  <2>4. QED
    BY <2>1, <2>2, <2>3, GotoType
<1>4. ASSUME NEW t \in Threads, Right(t)
      PROVE  TypeOK'
  <2>1. Goto(t, "reset") /\ UNCHANGED <<door, budget, attempts, orphans, now, history>>
    BY <1>4 DEF Right
  <2>2. pc' = [pc EXCEPT ![t] = "reset"]
    BY <2>1 DEF Goto
  <2>3. QED
    BY <2>1, <2>2, GotoType DEF history
<1>5. ASSUME NEW t \in Threads, Refuse(t) \/ Alert(t)
      PROVE  TypeOK'
  <2>1. /\ Leave(t)
        /\ UNCHANGED <<door, budget, attempts, orphans, now, since, astray, banned, ended>>
        /\ late' = late \ {t}
    BY <1>5 DEF Refuse, Alert, history
  <2>2. t \notin orphans
    BY <1>5 DEF Refuse, Alert, OneDoor
  <2>3. QED
    BY <2>1, <2>2, LeaveType
<1>6. ASSUME NEW t \in Threads, RecordIpFailure(t)
      PROVE  TypeOK'
  <2>1. PICK table \in {Dropped(Addrs, at[t])} :
          \E e \in {Failed(Found(table, addr[t], at[t]), at[t])} : Count(t, table, e)
    BY <1>6 DEF RecordIpFailure
  <2>2. PICK e \in {Failed(Found(table, addr[t], at[t]), at[t])} : Count(t, table, e)
    BY <2>1
  <2>3. addr[t] \in Addrs /\ at[t] \in 0..now /\ at[t] \in Nat
    OBVIOUS
  <2>4. table \in [Addrs -> Entry \cup {NoEntry}]
    <3>1. Addrs \in SUBSET Addrs
      OBVIOUS
    <3>2. Dropped(Addrs, at[t]) \in [Addrs -> Entry \cup {NoEntry}]
      BY <2>3, <3>1, DroppedFacts, Zenon
    <3>3. QED BY <2>1, <3>2
  <2>5. e \in Entry
    <3>1. Found(table, addr[t], at[t]) \in Entry
      BY <2>3, <2>4, FoundType
    <3>2. Failed(Found(table, addr[t], at[t]), at[t]) \in Entry
      BY <2>3, <3>1, FailedType
    <3>3. QED BY <2>2, <3>2
  <2>6. t \notin orphans /\ pc[t] = "record" /\ UNCHANGED <<door, budget, now>>
    BY <1>6 DEF RecordIpFailure, OneDoor
  <2>7. QED
    BY <2>2, <2>4, <2>5, <2>6, CountType
<1>7. ASSUME NEW t \in Threads, RecordAttempt(t)
      PROVE  TypeOK'
  <2>1. CASE t \in orphans
    <3>1. /\ Leave(t) /\ orphans' = orphans \ {t} /\ t \notin late
          /\ UNCHANGED <<door, budget, attempts, now, history>>
      BY <1>7, <2>1 DEF RecordAttempt
    <3>2. QED BY <3>1, LeaveType DEF history
  <2>2. CASE t \notin orphans
    <3>1. /\ Count(t, attempts, Failed(attempts[addr[t]], now)) /\ pc[t] = "record"
          /\ UNCHANGED <<door, budget, now>>
      BY <1>7, <2>2 DEF RecordAttempt
    <3>2. attempts[addr[t]] \in Entry
      BY <1>7, <2>2, EntryFields DEF RecordAttempt, Holding
    <3>3. Failed(attempts[addr[t]], now) \in Entry
      BY <3>2, FailedType
    <3>4. QED BY <2>2, <3>1, <3>3, CountType
  <2>3. QED BY <2>1, <2>2
<1>8. ASSUME NEW t \in Threads, Reset(t)
      PROVE  TypeOK'
  <2>1. /\ Leave(t) /\ orphans' = orphans \ {t} /\ late' = late \ {t}
        /\ UNCHANGED <<door, budget, now, banned>>
    BY <1>8 DEF Reset
  <2>2. /\ attempts' \in [Addrs -> Entry \cup {NoEntry}]
        /\ since' \in [Addrs -> Nat] /\ astray' \in [Addrs -> Nat]
        /\ ended' \in [Addrs -> {"no", "late", "new"}]
    <3>1. NewEntry(now) \in Entry
      BY NewEntryType
    <3>2. CASE t \in orphans
      BY <1>8, <3>2 DEF Reset, history
    <3>3. CASE t \notin orphans
      BY <1>8, <3>1, <3>3 DEF Reset
    <3>4. QED BY <3>2, <3>3
  <2>3. QED
    BY <2>1, <2>2, LeaveType
<1>9. CASE Restart
  BY <1>9, NoAddrType DEF Restart
<1>10. CASE Tick
  <2>1. at' \in [Threads -> 0..now'] /\ now' \in Nat
    BY <1>10 DEF Tick, request
  <2>2. QED BY <1>10, <2>1 DEF Tick, request, history
<1>11. QED
  BY <1>1, <1>2, <1>3, <1>4, <1>5, <1>6, <1>7, <1>8, <1>9, <1>10
     DEF Next, Locking, Working
-----------------------------------------------------------------------------
(* What a check does to the table and to the requests. *)
LEMMA CheckFacts ==
    ASSUME TypeOK, Holding, OneDoor, BansInTable, NEW t \in Threads, Check(t)
    PROVE  /\ UNCHANGED <<door, budget, now, banned, late, ended>>
           /\ pc[t] = "check" /\ addr[t] \in Addrs /\ at[t] \in 0..now /\ t \notin orphans
           /\ \A u \in Threads : u # t => pc'[u] = pc[u] /\ addr'[u] = addr[u]
           /\ \/ pc'[t] = "idle"
              \/ pc'[t] = "verify" /\ addr' = addr /\ ~Standing(addr[t])
           /\ orphans \subseteq orphans'
           /\ door = "dashboard" => orphans' = {}
           /\ \A u \in Threads : u \in orphans' =>
                 \/ u \in orphans
                 \/ since'[addr[u]] = 0 /\ astray'[addr[u]] = 0
           /\ \A a \in Addrs :
                 \/ /\ attempts'[a] = attempts[a]
                    /\ since'[a] = since[a] /\ astray'[a] = astray[a]
                 \/ /\ attempts[a] = NoEntry /\ attempts'[a] = NewEntry(at[t])
                    /\ since'[a] = since[a] /\ astray'[a] = astray[a]
                 \/ /\ attempts'[a] \in {NoEntry, NewEntry(at[t])}
                    /\ since'[a] = 0 /\ astray'[a] = 0 /\ ~Standing(a)
           /\ door = "portal" =>
                 /\ attempts'[addr[t]] # NoEntry
                 /\ \A u \in Threads :
                       /\ u # t /\ pc[u] \in {"verify", "record", "reset"} /\ u \notin orphans'
                       => attempts'[addr[u]] # NoEntry
<1> DEFINE b == addr[t]
           as == IF door = "dashboard" THEN {b} ELSE Addrs
           table == Dropped(as, at[t])
<1>1. /\ b \in Addrs /\ as \in SUBSET Addrs /\ at[t] \in 0..now /\ at[t] \in Nat
      /\ now \in Nat
  BY DEF TypeOK
<1>2. /\ table \in [Addrs -> Entry \cup {NoEntry}]
      /\ \A a \in Addrs : \/ table[a] = attempts[a]
                          \/ table[a] = NoEntry /\ attempts[a] # NoEntry /\ ~Standing(a)
  <2>1. /\ table \in [Addrs -> Entry \cup {NoEntry}]
        /\ \A a \in Addrs :
              \/ table[a] = attempts[a]
              \/ /\ table[a] = NoEntry /\ attempts[a] # NoEntry
                 /\ BansInTable => ~Standing(a)
    <3> HIDE DEF as
    <3> QED BY <1>1, DroppedFacts, Zenon
  <2>2. QED BY <2>1
<1>3. /\ UNCHANGED <<door, budget, now, banned, late, ended>> /\ pc[t] = "check"
      /\ attempts' = IF door = "dashboard" THEN table
                     ELSE [table EXCEPT ![b] = Found(table, b, at[t])]
      /\ IF at[t] < table[b].until THEN Leave(t) ELSE Goto(t, "verify")
      /\ since' = Remembered(since, table) /\ astray' = Remembered(astray, table)
  BY DEF Check
<1>4. door = "dashboard" => orphans = {} /\ orphans' = {}
  BY DEF Check, OneDoor
<1>5. door = "portal" => orphans' = orphans \cup {u \in Threads :
          pc[u] \in {"verify", "record", "reset"} /\ Stale(attempts[addr[u]], at[t])}
  BY DEF Check
<1>6. door \in {"dashboard", "portal"} /\ t \notin orphans
  BY <1>3 DEF TypeOK
<1>7. \A a \in Addrs :
          /\ since'[a] = IF table[a] # attempts[a] THEN 0 ELSE since[a]
          /\ astray'[a] = IF table[a] # attempts[a] THEN 0 ELSE astray[a]
  BY <1>3 DEF Remembered
<1>8. door = "portal" => \A a \in Addrs : Stale(attempts[a], at[t]) <=> table[a] # attempts[a]
  <2>1. door = "portal" => \A a \in Addrs :
            table[a] = IF Stale(attempts[a], at[t]) THEN NoEntry ELSE attempts[a]
    BY DEF Dropped
  <2>2. QED BY <2>1 DEF Stale
<1> HIDE DEF table, as
<1>9. \A u \in Threads : u \in orphans' =>
          u \in orphans \/ (since'[addr[u]] = 0 /\ astray'[addr[u]] = 0)
  <2>1. \A u \in Threads : addr[u] \in Addrs
    BY DEF TypeOK
  <2>2. QED BY <1>4, <1>5, <1>6, <1>7, <1>8, <2>1
<1>10. NewEntry(at[t]) # NoEntry
  BY <1>1, NewEntryType
<1>11. \A a \in Addrs :
          \/ attempts'[a] = table[a]
          \/ door = "portal" /\ a = b /\ attempts'[a] = Found(table, b, at[t])
  BY <1>2, <1>3, <1>6
<1>12. \A a \in Addrs :
          \/ attempts'[a] = attempts[a] /\ since'[a] = since[a] /\ astray'[a] = astray[a]
          \/ /\ attempts[a] = NoEntry /\ attempts'[a] = NewEntry(at[t])
             /\ since'[a] = since[a] /\ astray'[a] = astray[a]
          \/ /\ attempts'[a] \in {NoEntry, NewEntry(at[t])}
             /\ since'[a] = 0 /\ astray'[a] = 0 /\ ~Standing(a)
  BY <1>2, <1>7, <1>11 DEF Found
<1>13. \A a \in Addrs : door = "portal" /\ table[a] # NoEntry => attempts'[a] # NoEntry
  BY <1>10, <1>11 DEF Found
<1>14. ASSUME door = "portal"
       PROVE  /\ attempts'[b] # NoEntry
              /\ \A u \in Threads :
                    /\ u # t /\ pc[u] \in {"verify", "record", "reset"} /\ u \notin orphans'
                    => attempts'[addr[u]] # NoEntry
  <2>2. attempts'[b] # NoEntry
    BY <1>1, <1>2, <1>3, <1>10, <1>14 DEF Found
  <2>3. ASSUME NEW u \in Threads, u # t, pc[u] \in {"verify", "record", "reset"},
               u \notin orphans'
        PROVE  attempts'[addr[u]] # NoEntry
    <3>1. addr[u] \in Addrs /\ attempts[addr[u]] # NoEntry
      BY <1>5, <1>14, <2>3 DEF Holding, TypeOK
    <3>2. ~Stale(attempts[addr[u]], at[t])
      BY <1>5, <1>14, <2>3
    <3>3. QED BY <1>8, <1>13, <1>14, <3>1, <3>2
  <2>4. QED BY <2>2, <2>3
<1>15. /\ \A u \in Threads : u # t => pc'[u] = pc[u] /\ addr'[u] = addr[u]
       /\ \/ pc'[t] = "idle"
          \/ pc'[t] = "verify" /\ addr' = addr /\ ~Standing(b)
  <2>1. CASE at[t] < table[b].until
    BY <1>3, <2>1, LeaveType
  <2>2. CASE ~(at[t] < table[b].until)
    <3>1. pc' = [pc EXCEPT ![t] = "verify"] /\ addr' = addr
      BY <1>3, <2>2 DEF Goto
    <3>2. ~Standing(b)
      <4>1. SUFFICES ASSUME Standing(b) PROVE FALSE
        OBVIOUS
      <4>2. banned[b] \in Nat
        BY <1>1 DEF TypeOK
      <4>3. table[b] = attempts[b]
        BY <1>1, <1>2, <4>1, <4>2
      <4>4. attempts[b].until = banned[b] /\ now < banned[b]
        BY <1>1, <4>1 DEF BansInTable, Standing
      <4>5. QED BY <1>1, <2>2, <4>1, <4>2, <4>3, <4>4
    <3>3. QED BY <3>1, <3>2 DEF TypeOK
  <2>3. QED BY <2>1, <2>2
<1>16. orphans \subseteq orphans'
  BY <1>4, <1>5, <1>6
<1>17. QED
  BY <1>1, <1>3, <1>4, <1>6, <1>9, <1>12, <1>14, <1>15, <1>16

(* What a counted failure does to the table and to the requests. *)
LEMMA CountFacts ==
    ASSUME TypeOK, BansInTable, NEW t \in Threads, t \notin orphans, NEW read \in 0..now,
           door = "dashboard" => Count(t, Dropped(Addrs, read),
                  Failed(Found(Dropped(Addrs, read), addr[t], read), read)),
           door = "portal" => /\ attempts[addr[t]] # NoEntry /\ read = now
                              /\ Count(t, attempts, Failed(attempts[addr[t]], read)),
           UNCHANGED <<door, budget, now>>
    PROVE  /\ orphans' = orphans
           /\ \A u \in Threads : u # t => pc'[u] = pc[u] /\ addr'[u] = addr[u]
           /\ \/ pc'[t] = "idle"
              \/ pc'[t] = "alert" /\ door = "dashboard"
           /\ late \subseteq late'
           /\ \A a \in Addrs : a # addr[t] =>
                 /\ banned'[a] = banned[a] /\ ended'[a] = ended[a]
                 /\ \/ /\ attempts'[a] = attempts[a]
                       /\ since'[a] = since[a] /\ astray'[a] = astray[a]
                    \/ /\ attempts'[a] = NoEntry /\ door = "dashboard"
                       /\ since'[a] = 0 /\ astray'[a] = 0 /\ ~Standing(a)
           /\ addr[t] \in Addrs /\ attempts'[addr[t]] \in Entry
           /\ attempts'[addr[t]].last <= now
           /\ attempts'[addr[t]].until <= attempts'[addr[t]].last + Ttl
           /\ \/ /\ since'[addr[t]] = 0 /\ astray'[addr[t]] = 0
                 /\ banned'[addr[t]] = attempts'[addr[t]].until
                 /\ ended'[addr[t]] = "no" /\ Past(addr[t]) \subseteq late'
                 /\ door = "dashboard" => FirstTier <= attempts'[addr[t]].failures
              \/ /\ banned'[addr[t]] = banned[addr[t]] /\ ended'[addr[t]] = ended[addr[t]]
                 /\ Standing(addr[t]) => attempts'[addr[t]].until = banned[addr[t]]
                 /\ astray'[addr[t]] \in {0, astray[addr[t]]}
                 /\ door = "dashboard" => attempts'[addr[t]].until = 0
                 /\ \/ since'[addr[t]] = 0
                    \/ /\ since'[addr[t]] = since[addr[t]]
                       /\ CountedOf(attempts[addr[t]].failures) + 1
                             <= CountedOf(attempts'[addr[t]].failures)
<1> DEFINE b == addr[t]
           table == IF door = "dashboard" THEN Dropped(Addrs, read) ELSE attempts
           f == Found(table, b, read)
           e == Failed(f, read)
<1>1. b \in Addrs /\ read \in Nat /\ now \in Nat /\ read <= now
  BY DEF TypeOK
<1>2. /\ table \in [Addrs -> Entry \cup {NoEntry}]
      /\ \A a \in Addrs : \/ table[a] = attempts[a]
                          \/ /\ table[a] = NoEntry /\ attempts[a] # NoEntry
                             /\ ~Standing(a) /\ door = "dashboard"
  <2>1. CASE door = "dashboard"
    <3>1. /\ Dropped(Addrs, read) \in [Addrs -> Entry \cup {NoEntry}]
          /\ \A a \in Addrs :
                \/ Dropped(Addrs, read)[a] = attempts[a]
                \/ /\ Dropped(Addrs, read)[a] = NoEntry /\ attempts[a] # NoEntry
                   /\ BansInTable => ~Standing(a)
      <4>1. Addrs \in SUBSET Addrs
        OBVIOUS
      <4>2. QED BY <4>1, DroppedFacts, Zenon
    <3>2. QED BY <2>1, <3>1
  <2>2. CASE door # "dashboard"
    BY <2>2 DEF TypeOK
  <2>3. QED BY <2>1, <2>2
<1>3. f \in Entry /\ f.failures \in Nat /\ f.until \in Nat
  <2>1. f \in Entry
    <3> HIDE DEF table
    <3> QED BY <1>1, <1>2, FoundType
  <2>2. QED BY <2>1 DEF Entry
<1>4. Count(t, table, e)
  <2>0. door \in {"dashboard", "portal"}
    BY DEF TypeOK
  <2>1. door = "portal" => Found(attempts, b, read) = attempts[b]
    BY DEF Found
  <2>2. QED BY <2>0, <2>1
<1>5. door = "portal" => attempts[b] # NoEntry /\ read = now
  OBVIOUS
<1>6. \/ f = attempts[b] /\ attempts[b] = table[b]
      \/ f = NewEntry(read) /\ table[b] = NoEntry /\ door = "dashboard"
  <2>1. table[b] = NoEntry => door = "dashboard"
    BY <1>1, <1>2, <1>5 DEF TypeOK
  <2>2. table[b] # NoEntry => f = attempts[b] /\ attempts[b] = table[b]
    BY <1>1, <1>2 DEF Found
  <2>3. table[b] = NoEntry => f = NewEntry(read)
    BY DEF Found
  <2>4. QED BY <2>1, <2>2, <2>3
<1> DEFINE m == f.failures + 1
<1> HIDE DEF table, f
<1>7. /\ e \in Entry /\ e.failures = m /\ e.last = read
      /\ Lockout(m) > 0 => e.until = read + Lockout(m)
      /\ ~(Lockout(m) > 0) => e.until = f.until
      /\ Lockout(m) \in 0..Ttl /\ m \in Nat \ {0}
  <2>1. door \in Doors /\ m \in Nat \ {0}
    BY <1>3 DEF TypeOK
  <2>2. QED BY <1>1, <1>3, <2>1, FailedType
<1> HIDE DEF e, m
<1> DEFINE ban == Lockout(m) > 0
<1>8. /\ attempts' = [table EXCEPT ![b] = e]
      /\ since' = [Remembered(since, table) EXCEPT ![b] = IF ban THEN 0 ELSE @]
      /\ astray' = [Remembered(astray, table) EXCEPT ![b] = IF ban THEN 0 ELSE @]
      /\ banned' = IF ban THEN [banned EXCEPT ![b] = e.until] ELSE banned
      /\ ended' = IF ban THEN [ended EXCEPT ![b] = "no"] ELSE ended
      /\ late' = IF ban THEN late \cup Past(b) ELSE late
      /\ IF ban /\ door = "dashboard" THEN Goto(t, "alert") ELSE Leave(t)
      /\ orphans' = orphans
  BY <1>4, <1>7 DEF Count
<1>9. /\ Remembered(since, table) =
            [a \in Addrs |-> IF table[a] # attempts[a] THEN 0 ELSE since[a]]
      /\ Remembered(astray, table) =
            [a \in Addrs |-> IF table[a] # attempts[a] THEN 0 ELSE astray[a]]
  BY DEF Remembered
<1>10. attempts'[b] = e
  BY <1>1, <1>2, <1>8
<1>11. \A a \in Addrs : a # b =>
          /\ banned'[a] = banned[a] /\ ended'[a] = ended[a] /\ attempts'[a] = table[a]
          /\ since'[a] = IF table[a] # attempts[a] THEN 0 ELSE since[a]
          /\ astray'[a] = IF table[a] # attempts[a] THEN 0 ELSE astray[a]
  BY <1>2, <1>8, <1>9 DEF TypeOK
<1>12. /\ since'[b] = IF ban THEN 0 ELSE IF table[b] # attempts[b] THEN 0 ELSE since[b]
       /\ astray'[b] = IF ban THEN 0 ELSE IF table[b] # attempts[b] THEN 0 ELSE astray[b]
  BY <1>1, <1>8, <1>9
<1>13. /\ banned'[b] = IF ban THEN e.until ELSE banned[b]
       /\ ended'[b] = IF ban THEN "no" ELSE ended[b]
       /\ late' = IF ban THEN late \cup Past(b) ELSE late
  BY <1>1, <1>8 DEF TypeOK
<1>14. /\ \A u \in Threads : u # t => pc'[u] = pc[u] /\ addr'[u] = addr[u]
       /\ \/ pc'[t] = "idle"
          \/ pc'[t] = "alert" /\ door = "dashboard"
  <2>1. CASE ban /\ door = "dashboard"
    BY <1>8, <2>1 DEF Goto, TypeOK
  <2>2. CASE ~(ban /\ door = "dashboard")
    <3>1. Leave(t) /\ now' = now
      BY <1>8, <2>2
    <3>2. QED BY <3>1, LeaveType
  <2>3. QED BY <2>1, <2>2
<1>15. \A a \in Addrs : a # b =>
          /\ banned'[a] = banned[a] /\ ended'[a] = ended[a]
          /\ \/ attempts'[a] = attempts[a] /\ since'[a] = since[a] /\ astray'[a] = astray[a]
             \/ /\ attempts'[a] = NoEntry /\ door = "dashboard"
                /\ since'[a] = 0 /\ astray'[a] = 0 /\ ~Standing(a)
  BY <1>2, <1>11
<1>16. CASE ban
  <2>1. door = "dashboard" => FirstTier <= m
    BY <1>7, <1>16, IpLockoutFacts DEF Lockout
  <2>2. e.until <= e.last + Ttl
    BY <1>1, <1>7, <1>16
  <2>3. /\ since'[b] = 0 /\ astray'[b] = 0 /\ banned'[b] = e.until
        /\ ended'[b] = "no" /\ late' = late \cup Past(b)
    BY <1>12, <1>13, <1>16
  <2>4. QED BY <1>1, <1>7, <1>8, <1>10, <1>14, <1>15, <2>1, <2>2, <2>3
<1>17. CASE ~ban
  <2>1. /\ banned'[b] = banned[b] /\ ended'[b] = ended[b] /\ late' = late
        /\ e.until = f.until /\ astray'[b] \in {0, astray[b]}
    BY <1>7, <1>12, <1>13, <1>17
  <2>2. door = "dashboard" => f.until = 0
    <3>1. SUFFICES ASSUME door = "dashboard" PROVE f.until = 0
      OBVIOUS
    <3>2. m < FirstTier
      BY <1>7, <1>17, <3>1, IpLockoutFacts, FirstTierLowest DEF Lockout
    <3>3. f.failures < FirstTier
      BY <1>3, <3>2, FirstTierLowest DEF m
    <3>4. CASE f = NewEntry(read)
      BY <3>4 DEF NewEntry
    <3>5. CASE f = attempts[b]
      BY <1>1, <3>1, <3>3, <3>5 DEF BansInTable
    <3>6. QED BY <1>6, <3>4, <3>5
  <2>3. Standing(b) => f.until = banned[b]
    <3>1. SUFFICES ASSUME Standing(b) PROVE f.until = banned[b]
      OBVIOUS
    <3>2. banned[b] \in Nat
      BY <1>1 DEF TypeOK
    <3>3. attempts[b] # NoEntry /\ attempts[b].until = banned[b]
      BY <1>1, <3>1 DEF BansInTable
    <3>4. table[b] = attempts[b]
      BY <1>1, <1>2, <3>1, <3>2
    <3>5. QED BY <1>6, <3>3, <3>4
  <2>4. e.until <= e.last + Ttl
    <3>1. CASE door = "dashboard"
      BY <1>1, <1>7, <2>1, <2>2, <3>1
    <3>2. CASE door = "portal"
      <4>1. f = attempts[b] /\ attempts[b] # NoEntry /\ read = now
        BY <1>5, <1>6, <3>2
      <4>2. f.until <= f.last + Ttl /\ f.last <= now /\ f.last \in Nat
        BY <1>1, <1>3, <4>1 DEF BansInTable, Entry
      <4>3. QED BY <1>1, <1>3, <1>7, <2>1, <4>1, <4>2
    <3>3. QED BY <3>1, <3>2 DEF TypeOK
  <2>5. \/ since'[b] = 0
        \/ /\ since'[b] = since[b]
           /\ CountedOf(attempts[b].failures) + 1 <= CountedOf(m)
    <3>1. CASE table[b] # attempts[b]
      BY <1>12, <1>17, <3>1
    <3>2. CASE table[b] = attempts[b]
      <4>1. since'[b] = since[b]
        BY <1>12, <1>17, <3>2
      <4>2. CountedOf(f.failures) + 1 <= CountedOf(m)
        BY <1>3, <1>17, CountedGrows DEF m, TypeOK
      <4>3. CountedOf(attempts[b].failures) = CountedOf(f.failures)
        <5>1. CASE f = attempts[b]
          BY <5>1
        <5>2. CASE f = NewEntry(read) /\ table[b] = NoEntry
          BY <3>2, <5>2 DEF NewEntry, NoEntry, CountedOf
        <5>3. QED BY <1>6, <5>1, <5>2
      <4>4. QED BY <4>1, <4>2, <4>3
    <3>3. QED BY <3>1, <3>2
  <2>6. QED
    BY <1>1, <1>7, <1>8, <1>10, <1>14, <1>15, <2>1, <2>2, <2>3, <2>4, <2>5
<1>18. QED
  BY <1>16, <1>17
-----------------------------------------------------------------------------
(* The steps of the two recordings. *)
LEMMA RecordFacts ==
    ASSUME IInv, NEW t \in Threads,
           RecordIpFailure(t) \/ (RecordAttempt(t) /\ t \notin orphans)
    PROVE  /\ UNCHANGED <<door, budget, now>> /\ t \notin orphans /\ pc[t] = "record"
           /\ \E read \in 0..now :
                 /\ door = "dashboard" => Count(t, Dropped(Addrs, read),
                       Failed(Found(Dropped(Addrs, read), addr[t], read), read))
                 /\ door = "portal" =>
                       /\ attempts[addr[t]] # NoEntry /\ read = now
                       /\ Count(t, attempts, Failed(attempts[addr[t]], read))
<1>1. CASE RecordIpFailure(t)
  <2>1. /\ UNCHANGED <<door, budget, now>> /\ pc[t] = "record" /\ door = "dashboard"
        /\ Count(t, Dropped(Addrs, at[t]),
                 Failed(Found(Dropped(Addrs, at[t]), addr[t], at[t]), at[t]))
    BY <1>1 DEF RecordIpFailure
  <2>2. t \notin orphans /\ at[t] \in 0..now
    BY <2>1 DEF IInv, OneDoor, TypeOK
  <2>3. QED BY <2>1, <2>2
<1>2. CASE RecordAttempt(t) /\ t \notin orphans
  <2>1. /\ UNCHANGED <<door, budget, now>> /\ pc[t] = "record" /\ door = "portal"
        /\ Count(t, attempts, Failed(attempts[addr[t]], now))
    BY <1>2 DEF RecordAttempt
  <2>2. attempts[addr[t]] # NoEntry /\ now \in 0..now
    BY <1>2, <2>1 DEF IInv, Holding, TypeOK
  <2>3. QED BY <1>2, <2>1, <2>2
<1>3. QED
  BY <1>1, <1>2

(* A request that ends, and an address's counts that are cleared. *)
LEMMA ResetFacts ==
    ASSUME IInv, NEW t \in Threads, Reset(t)
    PROVE  /\ UNCHANGED <<door, budget, now, banned>> /\ pc'[t] = "idle" /\ addr[t] \in Addrs
           /\ orphans' = orphans \ {t} /\ late' = late \ {t}
           /\ \A u \in Threads : u # t => pc'[u] = pc[u] /\ addr'[u] = addr[u]
           /\ \A a \in Addrs :
                 \/ /\ attempts'[a] = attempts[a] /\ since'[a] = since[a]
                    /\ astray'[a] = astray[a] /\ ended'[a] = ended[a]
                 \/ /\ since'[a] = 0 /\ astray'[a] = 0 /\ ~(Standing(a)')
                    /\ ended'[a] \in {ended[a], "late"}
                    /\ attempts'[a] \in {NoEntry, NewEntry(now)}
                    /\ door = "portal" => attempts'[a] = NewEntry(now)
<1>1. /\ UNCHANGED <<door, budget, now, banned>> /\ Leave(t) /\ orphans' = orphans \ {t}
      /\ addr[t] \in Addrs /\ pc[t] = "reset" /\ late' = late \ {t}
  BY DEF Reset, IInv, TypeOK
<1>2. /\ pc'[t] = "idle"
      /\ \A u \in Threads : u # t => pc'[u] = pc[u] /\ addr'[u] = addr[u]
  BY <1>1, LeaveType DEF IInv
<1>3. CASE t \in orphans
  <2>1. UNCHANGED <<attempts, since, astray, ended>>
    BY <1>3 DEF Reset
  <2>2. QED BY <1>1, <1>2, <2>1
<1>4. CASE t \notin orphans
  <2>1. /\ attempts' = [attempts EXCEPT ![addr[t]] =
                            IF door = "dashboard" THEN NoEntry ELSE NewEntry(now)]
        /\ since' = [since EXCEPT ![addr[t]] = 0] /\ astray' = [astray EXCEPT ![addr[t]] = 0]
        /\ ended' = IF Standing(addr[t])
                    THEN [ended EXCEPT ![addr[t]] = IF t \in late THEN "late" ELSE "new"]
                    ELSE ended
    BY <1>4 DEF Reset
  <2>2. Standing(addr[t]) => t \in late
    BY <1>1 DEF IInv, OnlyLate, Past
  <2>3. ~(now' < banned'[addr[t]] /\ ended'[addr[t]] = "no")
        /\ ended'[addr[t]] \in {ended[addr[t]], "late"}
    <3>1. ended \in [Addrs -> {"no", "late", "new"}]
      BY DEF IInv, TypeOK
    <3>2. CASE Standing(addr[t])
      BY <1>1, <2>1, <2>2, <3>1, <3>2
    <3>3. CASE ~Standing(addr[t])
      BY <1>1, <2>1, <3>1, <3>3 DEF Standing
    <3>4. QED BY <3>2, <3>3
  <2>4. \A a \in Addrs : a # addr[t] =>
            /\ attempts'[a] = attempts[a] /\ since'[a] = since[a]
            /\ astray'[a] = astray[a] /\ ended'[a] = ended[a]
    BY <2>1 DEF IInv, TypeOK
  <2>5. /\ since'[addr[t]] = 0 /\ astray'[addr[t]] = 0
        /\ attempts'[addr[t]] = IF door = "dashboard" THEN NoEntry ELSE NewEntry(now)
    BY <1>1, <2>1 DEF IInv, TypeOK
  <2>6. ASSUME NEW a \in Addrs
        PROVE  \/ /\ attempts'[a] = attempts[a] /\ since'[a] = since[a]
                  /\ astray'[a] = astray[a] /\ ended'[a] = ended[a]
               \/ /\ since'[a] = 0 /\ astray'[a] = 0 /\ ~(Standing(a)')
                  /\ ended'[a] \in {ended[a], "late"}
                  /\ attempts'[a] \in {NoEntry, NewEntry(now)}
                  /\ door = "portal" => attempts'[a] = NewEntry(now)
    <3>1. CASE a = addr[t]
      BY <2>3, <2>5, <3>1 DEF Standing
    <3>2. CASE a # addr[t]
      BY <2>4, <3>2
    <3>3. QED BY <3>1, <3>2
  <2>7. QED BY <1>1, <1>2, <2>6
<1>5. QED
  BY <1>3, <1>4

(* An orphan of the portal ends, and nothing is counted. *)
LEMMA OrphanFacts ==
    ASSUME IInv, NEW t \in Threads, RecordAttempt(t), t \in orphans
    PROVE  /\ UNCHANGED <<door, budget, now, attempts, history>> /\ Leave(t)
           /\ orphans' = orphans \ {t}
BY DEF RecordAttempt
-----------------------------------------------------------------------------
(* Requests keep holding what they hold. *)
LEMMA HoldingStep ==
    ASSUME IInv, Next
    PROVE  Holding' /\ OneDoor'
<1> USE DEF IInv
<1>1. ASSUME NEW t \in Threads, NEW a \in Addrs, Begin(t, a)
      PROVE  Holding' /\ OneDoor'
  BY <1>1 DEF Begin, history, TypeOK, Holding, OneDoor, LockFree
<1>2. ASSUME NEW t \in Threads, Check(t)
      PROVE  Holding' /\ OneDoor'
  <2>1. /\ UNCHANGED <<door, budget>> /\ pc[t] = "check" /\ addr[t] \in Addrs
        /\ \A u \in Threads : u # t => pc'[u] = pc[u] /\ addr'[u] = addr[u]
        /\ pc'[t] = "idle" \/ (pc'[t] = "verify" /\ addr' = addr)
        /\ door = "dashboard" => orphans' = {}
        /\ \A a \in Addrs : astray'[a] \in {0, astray[a]}
        /\ door = "portal" =>
              /\ attempts'[addr[t]] # NoEntry
              /\ \A u \in Threads :
                    /\ u # t /\ pc[u] \in {"verify", "record", "reset"} /\ u \notin orphans'
                    => attempts'[addr[u]] # NoEntry
    BY <1>2, CheckFacts
  <2>2. OneDoor'
    BY <2>1 DEF OneDoor, LockFree
  <2>3. ASSUME NEW u \in Threads, pc'[u] # "idle"
        PROVE  u <= budget'.threads
    BY <2>1, <2>3 DEF Holding
  <2>4. ASSUME NEW u \in Threads, door' = "portal", pc'[u] \in {"verify", "record", "reset"},
               u \notin orphans'
        PROVE  attempts'[addr'[u]] # NoEntry
    BY <2>1, <2>4
  <2>5. QED BY <2>2, <2>3, <2>4 DEF Holding
<1>3. ASSUME NEW t \in Threads, Wrong(t) \/ Right(t)
      PROVE  Holding' /\ OneDoor'
  <2>1. /\ UNCHANGED <<door, budget, attempts, orphans, addr>> /\ pc[t] = "verify"
        /\ pc' = [pc EXCEPT ![t] = "record"] \/ pc' = [pc EXCEPT ![t] = "reset"]
        /\ t \notin orphans => astray' = astray
    BY <1>3 DEF Wrong, Right, Goto, history
  <2>2. Holding'
    BY <2>1 DEF Holding, TypeOK
  <2>3. OneDoor'
    BY <2>1 DEF OneDoor, LockFree, TypeOK
  <2>4. QED BY <2>2, <2>3
<1>4. ASSUME NEW t \in Threads, UNCHANGED <<door, budget, attempts, astray>>, Leave(t),
             orphans' \subseteq orphans, orphans \subseteq orphans' \cup {t}
      PROVE  Holding' /\ OneDoor'
  BY <1>4 DEF Leave, Holding, OneDoor, LockFree, TypeOK
<1>5. ASSUME NEW t \in Threads, Refuse(t) \/ Alert(t)
      PROVE  Holding' /\ OneDoor'
  <2>1. UNCHANGED <<door, budget, attempts, orphans, astray>> /\ Leave(t)
    BY <1>5 DEF Refuse, Alert, history
  <2>2. QED BY <1>4, <2>1
<1>6. ASSUME NEW t \in Threads, RecordAttempt(t), t \in orphans
      PROVE  Holding' /\ OneDoor'
  <2>1. /\ UNCHANGED <<door, budget, attempts, astray>> /\ Leave(t)
        /\ orphans' = orphans \ {t}
    BY <1>6, OrphanFacts DEF history
  <2>2. QED BY <1>4, <2>1
<1>7. ASSUME NEW t \in Threads, RecordIpFailure(t) \/ (RecordAttempt(t) /\ t \notin orphans)
      PROVE  Holding' /\ OneDoor'
  <2>1. /\ UNCHANGED <<door, budget, now>> /\ t \notin orphans /\ pc[t] = "record"
        /\ orphans' = orphans
        /\ \A u \in Threads : u # t => pc'[u] = pc[u] /\ addr'[u] = addr[u]
        /\ pc'[t] = "idle" \/ (pc'[t] = "alert" /\ door = "dashboard")
        /\ addr[t] \in Addrs /\ attempts'[addr[t]] \in Entry
        /\ \A a \in Addrs : a # addr[t] => attempts'[a] = attempts[a] \/ door = "dashboard"
        /\ \A a \in Addrs : astray'[a] \in {0, astray[a]}
    BY <1>7, RecordFacts, CountFacts
  <2>2. OneDoor'
    BY <2>1 DEF OneDoor, LockFree
  <2>3. ASSUME NEW u \in Threads, pc'[u] # "idle"
        PROVE  u <= budget'.threads
    BY <2>1, <2>3 DEF Holding
  <2>4. ASSUME NEW u \in Threads, door' = "portal", pc'[u] \in {"verify", "record", "reset"},
               u \notin orphans'
        PROVE  attempts'[addr'[u]] # NoEntry
    <3>1. u # t /\ door # "dashboard" /\ addr'[u] = addr[u] /\ pc'[u] = pc[u]
      BY <2>1, <2>4
    <3>2. addr[u] \in Addrs /\ attempts[addr[u]] # NoEntry
      BY <2>1, <2>4, <3>1 DEF Holding, TypeOK
    <3>3. QED BY <2>1, <3>1, <3>2, NewEntryType DEF TypeOK
  <2>5. QED BY <2>2, <2>3, <2>4 DEF Holding
<1>8. ASSUME NEW t \in Threads, Reset(t)
      PROVE  Holding' /\ OneDoor'
  <2>1. /\ UNCHANGED <<door, budget, now>> /\ pc'[t] = "idle" /\ orphans' = orphans \ {t}
        /\ \A u \in Threads : u # t => pc'[u] = pc[u] /\ addr'[u] = addr[u]
        /\ \A a \in Addrs : \/ attempts'[a] = attempts[a]
                            \/ door = "portal" => attempts'[a] = NewEntry(now)
        /\ \A a \in Addrs : astray'[a] \in {0, astray[a]}
    BY <1>8, ResetFacts
  <2>2. OneDoor'
    BY <2>1 DEF OneDoor, LockFree
  <2>3. ASSUME NEW u \in Threads, pc'[u] # "idle"
        PROVE  u <= budget'.threads
    BY <2>1, <2>3 DEF Holding
  <2>4. ASSUME NEW u \in Threads, door' = "portal", pc'[u] \in {"verify", "record", "reset"},
               u \notin orphans'
        PROVE  attempts'[addr'[u]] # NoEntry
    <3>1. u # t /\ door = "portal" /\ addr'[u] = addr[u] /\ pc'[u] = pc[u] /\ u \notin orphans
      BY <2>1, <2>4
    <3>2. addr[u] \in Addrs /\ attempts[addr[u]] # NoEntry
      BY <2>4, <3>1 DEF Holding, TypeOK
    <3>3. QED BY <2>1, <3>1, <3>2, NewEntryType DEF TypeOK
  <2>5. QED BY <2>2, <2>3, <2>4 DEF Holding
<1>9. CASE Restart
  BY <1>9 DEF Restart, Holding, OneDoor, LockFree
<1>10. CASE Tick
  BY <1>10 DEF Tick, request, history, Holding, OneDoor, LockFree
<1>11. QED
  BY <1>1, <1>2, <1>3, <1>5, <1>6, <1>7, <1>8, <1>9, <1>10 DEF Next, Locking, Working

(* The table keeps the bans that last. *)
LEMMA BansInTableStep ==
    ASSUME IInv, Next
    PROVE  BansInTable'
<1> USE DEF IInv
<1>0. /\ Ttl \in Nat /\ now \in Nat
      /\ NoEntry.until = 0 /\ NoEntry.last = 0 /\ banned \in [Addrs -> Nat]
      /\ \A a \in Addrs : Standing(a) => now < banned[a]
  BY DEF NoEntry, TypeOK, Standing
<1>1. ASSUME UNCHANGED <<door, attempts, now, banned, ended>>
      PROVE  BansInTable'
  BY <1>1 DEF BansInTable, Standing
<1>2. ASSUME NEW t \in Threads, Check(t)
      PROVE  BansInTable'
  <2>1. /\ UNCHANGED <<door, now, banned, ended>> /\ at[t] \in 0..now
        /\ \A a \in Addrs :
              \/ attempts'[a] = attempts[a]
              \/ attempts[a] = NoEntry /\ attempts'[a] = NewEntry(at[t])
              \/ attempts'[a] \in {NoEntry, NewEntry(at[t])} /\ ~Standing(a)
    BY <1>2, CheckFacts
  <2>2. NewEntry(at[t]).until = 0 /\ NewEntry(at[t]).last = at[t]
    BY DEF NewEntry
  <2>3. ASSUME NEW a \in Addrs
        PROVE  /\ attempts'[a] # NoEntry => attempts'[a].until <= attempts'[a].last + Ttl
               /\ Standing(a) => attempts'[a] # NoEntry /\ attempts'[a].until = banned[a]
               /\ door = "dashboard" /\ attempts'[a].failures < FirstTier
                     => attempts'[a].until = 0
               /\ attempts'[a].last <= now
    <3>1. CASE attempts'[a] = attempts[a]
      BY <3>1 DEF BansInTable
    <3>2. CASE attempts'[a] \in {NoEntry, NewEntry(at[t])} /\ ~Standing(a)
      BY <1>0, <2>1, <2>2, <3>2
    <3>3. CASE attempts[a] = NoEntry /\ attempts'[a] = NewEntry(at[t])
      <4>1. ~Standing(a)
        BY <1>0, <3>3 DEF BansInTable
      <4>2. QED BY <3>2, <3>3, <4>1
    <3>4. QED BY <2>1, <3>1, <3>2, <3>3
  <2>4. QED BY <2>1, <2>3 DEF BansInTable, Standing
<1>3. ASSUME NEW t \in Threads, RecordIpFailure(t) \/ (RecordAttempt(t) /\ t \notin orphans)
      PROVE  BansInTable'
  <2> DEFINE b == addr[t]
  <2>1. /\ UNCHANGED <<door, now>>
        /\ \A a \in Addrs : a # b =>
              /\ banned'[a] = banned[a] /\ ended'[a] = ended[a]
              /\ attempts'[a] = attempts[a] \/ (attempts'[a] = NoEntry /\ ~Standing(a))
        /\ b \in Addrs /\ attempts'[b] \in Entry /\ attempts'[b].last <= now
        /\ attempts'[b].until <= attempts'[b].last + Ttl
        /\ \/ /\ banned'[b] = attempts'[b].until
              /\ door = "dashboard" => FirstTier <= attempts'[b].failures
           \/ /\ banned'[b] = banned[b] /\ ended'[b] = ended[b]
              /\ Standing(b) => attempts'[b].until = banned[b]
              /\ door = "dashboard" => attempts'[b].until = 0
    BY <1>3, RecordFacts, CountFacts
  <2>2. ASSUME NEW a \in Addrs
        PROVE  /\ attempts'[a] # NoEntry => attempts'[a].until <= attempts'[a].last + Ttl
               /\ Standing(a)' => attempts'[a] # NoEntry /\ attempts'[a].until = banned'[a]
               /\ door = "dashboard" /\ attempts'[a].failures < FirstTier
                     => attempts'[a].until = 0
               /\ attempts'[a].last <= now
    <3>1. CASE a # b /\ attempts'[a] = attempts[a]
      BY <2>1, <3>1 DEF BansInTable, Standing
    <3>2. CASE a # b /\ attempts'[a] = NoEntry /\ ~Standing(a)
      BY <1>0, <2>1, <3>2 DEF Standing
    <3>3. CASE a = b
      <4>1. attempts'[b] # NoEntry /\ attempts'[b].failures \in Nat
        BY <2>1, NewEntryType DEF Entry, TypeOK
      <4>2. FirstTier <= attempts'[b].failures => ~(attempts'[b].failures < FirstTier)
        BY <4>1, FirstTierLowest
      <4>3. QED BY <2>1, <3>3, <4>1, <4>2 DEF Standing
    <3>4. QED BY <2>1, <3>1, <3>2, <3>3
  <2>3. QED BY <2>1, <2>2 DEF BansInTable
<1>4. ASSUME NEW t \in Threads, Reset(t)
      PROVE  BansInTable'
  <2>1. /\ UNCHANGED <<door, now>>
        /\ \A a \in Addrs :
              \/ attempts'[a] = attempts[a] /\ ended'[a] = ended[a]
              \/ ~(Standing(a)') /\ attempts'[a] \in {NoEntry, NewEntry(now)}
        /\ banned' = banned
    BY <1>4, ResetFacts
  <2>2. NewEntry(now).until = 0 /\ NewEntry(now).last = now
    BY DEF NewEntry
  <2>3. \A a \in Addrs : Standing(a)' => attempts'[a] = attempts[a] /\ Standing(a)
    BY <2>1 DEF Standing
  <2>4. QED BY <1>0, <2>1, <2>2, <2>3 DEF BansInTable
<1>5. CASE Restart
  BY <1>0, <1>5 DEF Restart, BansInTable, Standing
<1>6. CASE Tick
  <2>1. UNCHANGED <<door, attempts, banned, ended>> /\ now' = now + 1
    BY <1>6 DEF Tick, history
  <2>2. \A a \in Addrs : attempts[a].last \in Nat /\ banned[a] \in Nat
    BY EntryFields DEF TypeOK
  <2>3. QED BY <1>0, <2>1, <2>2 DEF BansInTable, Standing
<1>7. ASSUME NEW t \in Threads,
             \/ \E a \in Addrs : Begin(t, a)
             \/ Wrong(t) \/ Right(t) \/ Refuse(t) \/ Alert(t)
             \/ RecordAttempt(t) /\ t \in orphans
      PROVE  BansInTable'
  <2>1. UNCHANGED <<door, attempts, now, banned, ended>>
    BY <1>7, OrphanFacts DEF Begin, Wrong, Right, Refuse, Alert, history
  <2>2. QED BY <1>1, <2>1
<1>8. QED
  BY <1>2, <1>3, <1>4, <1>5, <1>6, <1>7 DEF Next, Locking, Working
-----------------------------------------------------------------------------
(* The requests of an address in the next state. *)
LEMMA ThreadedNext ==
    ASSUME TypeOK', Holding', UNCHANGED budget, NEW a \in Addrs
    PROVE  /\ Uncounted(a)' \in SUBSET (1..budget.threads)
           /\ Verifying(a)' \in SUBSET (1..budget.threads)
           /\ Lost(a)' \in SUBSET (1..budget.threads)
           /\ Cardinality(Uncounted(a)') \in Nat
<1>1. \A t \in Threads : t \in Nat /\ t >= 1
  BY DEF Threads
<1>2. budget.threads \in Nat
  BY BudgetType DEF TypeOK
<1>3. /\ Uncounted(a)' \in SUBSET (1..budget.threads)
      /\ Verifying(a)' \in SUBSET (1..budget.threads)
      /\ Lost(a)' \in SUBSET (1..budget.threads)
  BY <1>1, <1>2 DEF TypeOK, Holding, Uncounted, Verifying, Lost
<1>4. QED
  BY <1>2, <1>3, ThreadsCounted

(* An address's account holds when its guesses are forgotten, or when nothing
   was counted and nothing of what is under way got lost. *)
LEMMA AccountKept ==
    ASSUME IInv, TypeOK', Holding', UNCHANGED <<door, budget>>, NEW a \in Addrs,
           \/ since'[a] = 0
           \/ /\ since'[a] = since[a]
              /\ CountedOf(attempts[a].failures) <= CountedOf(attempts'[a].failures)
              /\ Uncounted(a) \subseteq Uncounted(a)'
    PROVE  since'[a] <= CountedOf(attempts'[a].failures) + Cardinality(Uncounted(a)')
<1>1. /\ attempts[a].failures \in Int /\ attempts'[a].failures \in Int
      /\ since[a] \in Nat /\ since'[a] \in Nat /\ door \in Doors
  BY EntryFields DEF IInv, TypeOK
<1>2. /\ CountedOf(attempts[a].failures) \in Nat /\ CountedOf(attempts'[a].failures) \in Nat
  <2>1. Limit \in Nat
    BY <1>1, LimitType
  <2>2. /\ CountedOf(attempts[a].failures) \in 0..(Limit - 1)
        /\ CountedOf(attempts'[a].failures) \in 0..(Limit - 1)
    BY <1>1, CountedType
  <2>3. QED BY <2>1, <2>2
<1>3. /\ Uncounted(a)' \in SUBSET (1..budget.threads)
      /\ Cardinality(Uncounted(a)') \in Nat
      /\ budget.threads \in Nat
  BY ThreadedNext, Threaded DEF IInv
<1>4. CASE since'[a] = 0
  BY <1>2, <1>3, <1>4
<1>5. CASE /\ since'[a] = since[a]
           /\ CountedOf(attempts[a].failures) <= CountedOf(attempts'[a].failures)
           /\ Uncounted(a) \subseteq Uncounted(a)'
  <2>1. Cardinality(Uncounted(a)) <= Cardinality(Uncounted(a)')
    BY <1>3, <1>5, CardinalityMonotone
  <2>2. since[a] <= CountedOf(attempts[a].failures) + Cardinality(Uncounted(a))
    BY DEF IInv, Accounted
  <2>3. Cardinality(Uncounted(a)) \in Nat
    BY Threaded, ThreadsCounted DEF IInv
  <2>4. QED BY <1>1, <1>2, <1>3, <1>5, <2>1, <2>2, <2>3
<1>6. QED
  BY <1>4, <1>5

(* A ban bites on when no guess is let through meanwhile. *)
LEMMA BiteKept ==
    ASSUME IInv, TypeOK', Holding', UNCHANGED budget, NEW a \in Addrs,
           \/ ~(Standing(a)')
           \/ /\ Standing(a)
              /\ since'[a] \in {0, since[a]} /\ astray'[a] \in {0, astray[a]}
              /\ Verifying(a)' \subseteq Verifying(a)
    PROVE  Standing(a)' =>
              since'[a] + astray'[a] + Cardinality(Verifying(a)') <= budget.threads - 1
<1>1. since[a] \in Nat /\ astray[a] \in Nat
  BY DEF IInv, TypeOK
<1>2. SUFFICES ASSUME Standing(a)'
               PROVE  since'[a] + astray'[a] + Cardinality(Verifying(a)') <= budget.threads - 1
  OBVIOUS
<1>3. /\ Standing(a)
      /\ since'[a] \in {0, since[a]} /\ astray'[a] \in {0, astray[a]}
      /\ Verifying(a)' \subseteq Verifying(a)
  BY <1>2
<1>4. since[a] + astray[a] + Cardinality(Verifying(a)) <= budget.threads - 1
  BY <1>3 DEF IInv, BansBite
<1>5. /\ Verifying(a) \in SUBSET (1..budget.threads) /\ budget.threads \in Nat
  BY Threaded DEF IInv
<1>6. /\ Cardinality(Verifying(a)') <= Cardinality(Verifying(a))
      /\ Cardinality(Verifying(a)') \in Nat /\ Cardinality(Verifying(a)) \in Nat
  <2>1. Verifying(a)' \in SUBSET (1..budget.threads)
    BY <1>3, <1>5
  <2>2. Cardinality(Verifying(a)') \in Nat /\ Cardinality(Verifying(a)) \in Nat
    BY <1>5, <2>1, ThreadsCounted
  <2>3. Cardinality(Verifying(a)') <= Cardinality(Verifying(a))
    BY <1>3, <1>5, CardinalityMonotone
  <2>4. QED BY <2>2, <2>3
<1>7. QED
  BY <1>1, <1>3, <1>4, <1>5, <1>6
-----------------------------------------------------------------------------
(* No guess gets lost, and bans bite. *)
LEMMA AccountStep ==
    ASSUME IInv, Next, TypeOK', Holding'
    PROVE  Accounted'
<1> USE DEF IInv
<1> DEFINE Held(a) == since'[a] <= CountedOf(attempts'[a].failures) + Cardinality(Uncounted(a)')
<1>0. SUFFICES ASSUME NEW a \in Addrs
               PROVE  UNCHANGED <<door, budget>> /\ Held(a)
  <2>1. UNCHANGED <<door, budget>>
    BY DEF Next, Locking, Working, Begin, Check, Wrong, Right, Refuse, RecordIpFailure,
           Alert, RecordAttempt, Reset, Restart, Tick
  <2>2. ASSUME NEW a \in Addrs
        PROVE  since'[a] <= (CountedOf(attempts[a].failures) + Cardinality(Uncounted(a)))'
    BY <2>1 DEF CountedOf
  <2>3. QED BY <2>2 DEF Accounted
<1>1. ASSUME NEW t \in Threads, Wrong(t)
      PROVE  UNCHANGED <<door, budget>> /\ Held(a)
  <2>1. /\ UNCHANGED <<door, budget, attempts, orphans>> /\ pc[t] = "verify"
        /\ pc' = [pc EXCEPT ![t] = "record"] /\ addr' = addr
        /\ since' = IF t \in orphans THEN since ELSE [since EXCEPT ![addr[t]] = @ + 1]
    BY <1>1 DEF Wrong, Goto
  <2>2. CASE t \in orphans \/ addr[t] # a
    <3>1. since'[a] = since[a]
      BY <2>1, <2>2 DEF TypeOK
    <3>2. Uncounted(a) \subseteq Uncounted(a)'
      BY <2>1, <2>2 DEF Uncounted, TypeOK
    <3>3. CountedOf(attempts[a].failures) <= CountedOf(attempts'[a].failures)
      BY <2>1, EntryFields, CountedType, LimitType DEF TypeOK
    <3>4. QED BY <2>1, <3>1, <3>2, <3>3, AccountKept
  <2>3. CASE t \notin orphans /\ addr[t] = a
    <3>1. since'[a] = since[a] + 1 /\ since[a] \in Nat
      BY <2>1, <2>3 DEF TypeOK
    <3>2. t \in Uncounted(a)' /\ Uncounted(a) = Uncounted(a)' \ {t}
      BY <2>1, <2>3 DEF Uncounted, TypeOK
    <3>3. Cardinality(Uncounted(a)) = Cardinality(Uncounted(a)') - 1
      BY <2>1, <3>2, Threaded, ThreadedNext, CardinalityAdded
    <3>4. since[a] <= CountedOf(attempts[a].failures) + Cardinality(Uncounted(a))
      BY DEF Accounted
    <3>5. CountedOf(attempts[a].failures) \in Int /\ Cardinality(Uncounted(a)') \in Nat
      <4>1. attempts[a].failures \in Int /\ door \in Doors
        BY EntryFields DEF TypeOK
      <4>2. CountedOf(attempts[a].failures) \in Int
        BY <4>1, CountedType, LimitType
      <4>3. QED BY <2>1, <4>2, ThreadedNext
    <3>6. attempts'[a] = attempts[a]
      BY <2>1
    <3>7. QED BY <2>1, <3>1, <3>3, <3>4, <3>5, <3>6
  <2>4. QED BY <2>2, <2>3
<1>2. ASSUME NEW t \in Threads, RecordIpFailure(t) \/ (RecordAttempt(t) /\ t \notin orphans)
      PROVE  UNCHANGED <<door, budget>> /\ Held(a)
  <2> DEFINE b == addr[t]
  <2>1. /\ UNCHANGED <<door, budget, now, orphans>> /\ t \notin orphans /\ pc[t] = "record"
        /\ \A u \in Threads : u # t => pc'[u] = pc[u] /\ addr'[u] = addr[u]
        /\ pc'[t] # "record" /\ b \in Addrs
        /\ a # b => \/ attempts'[a] = attempts[a] /\ since'[a] = since[a]
                    \/ since'[a] = 0
        /\ \/ since'[b] = 0
           \/ /\ since'[b] = since[b]
              /\ CountedOf(attempts[b].failures) + 1 <= CountedOf(attempts'[b].failures)
    BY <1>2, RecordFacts, CountFacts
  <2>2. CASE since'[a] = 0
    BY <2>1, <2>2, AccountKept
  <2>3. CASE a # b /\ attempts'[a] = attempts[a] /\ since'[a] = since[a]
    <3>1. Uncounted(a) \subseteq Uncounted(a)'
      BY <2>1, <2>3 DEF Uncounted, TypeOK
    <3>2. CountedOf(attempts[a].failures) <= CountedOf(attempts'[a].failures)
      BY <2>3, EntryFields, CountedType, LimitType DEF TypeOK
    <3>3. QED BY <2>1, <2>3, <3>1, <3>2, AccountKept
  <2>4. CASE /\ a = b /\ since'[b] = since[b]
             /\ CountedOf(attempts[b].failures) + 1 <= CountedOf(attempts'[b].failures)
    <3>1. t \in Uncounted(a) /\ Uncounted(a)' = Uncounted(a) \ {t}
      BY <2>1, <2>4 DEF Uncounted, TypeOK
    <3>2. Cardinality(Uncounted(a)') = Cardinality(Uncounted(a)) - 1
      <4>1. /\ Uncounted(a) \in SUBSET (1..budget.threads)
            /\ Uncounted(a)' \in SUBSET (1..budget.threads) /\ budget.threads \in Nat
        BY <2>1, Threaded, ThreadedNext
      <4>2. QED BY <3>1, <4>1, CardinalityAdded
    <3>3. since[a] <= CountedOf(attempts[a].failures) + Cardinality(Uncounted(a))
      BY DEF Accounted
    <3>4. /\ CountedOf(attempts[a].failures) \in Int /\ CountedOf(attempts'[a].failures) \in Int
          /\ Cardinality(Uncounted(a)) \in Nat /\ since[a] \in Nat
      <4>1. Cardinality(Uncounted(a)) \in Nat
        BY Threaded, ThreadsCounted
      <4>2. attempts[a].failures \in Int /\ attempts'[a].failures \in Int
        BY EntryFields DEF TypeOK
      <4>3. QED BY <4>1, <4>2, CountedType, LimitType DEF TypeOK
    <3>5. QED BY <2>1, <2>4, <3>2, <3>3, <3>4
  <2>5. QED BY <2>1, <2>2, <2>3, <2>4
<1>3. ASSUME NEW t \in Threads, Check(t)
      PROVE  UNCHANGED <<door, budget>> /\ Held(a)
  <2>1. /\ UNCHANGED <<door, budget>> /\ pc[t] = "check"
        /\ \A u \in Threads : u # t => pc'[u] = pc[u] /\ addr'[u] = addr[u]
        /\ \A u \in Threads : u \in orphans' => u \in orphans \/ since'[addr[u]] = 0
        /\ at[t] \in 0..now
        /\ \/ attempts'[a] = attempts[a] /\ since'[a] = since[a]
           \/ /\ attempts[a] = NoEntry /\ attempts'[a] = NewEntry(at[t])
              /\ since'[a] = since[a]
           \/ since'[a] = 0
    BY <1>3, CheckFacts
  <2>2. CASE since'[a] = 0
    BY <2>1, <2>2, AccountKept
  <2>3. CASE since'[a] # 0
    <3>1. Uncounted(a) \subseteq Uncounted(a)'
      BY <2>1, <2>3 DEF Uncounted, TypeOK
    <3>2. CountedOf(attempts[a].failures) <= CountedOf(attempts'[a].failures)
      <4>1. CASE attempts'[a] = attempts[a]
        BY <4>1, EntryFields, CountedType, LimitType DEF TypeOK
      <4>2. CASE attempts[a] = NoEntry /\ attempts'[a] = NewEntry(at[t])
        <5>1. CountedOf(attempts[a].failures) = 0 /\ CountedOf(attempts'[a].failures) = 0
          BY <4>2 DEF NoEntry, NewEntry, CountedOf
        <5>2. QED BY <5>1
      <4>3. QED BY <2>1, <2>3, <4>1, <4>2
    <3>3. since'[a] = since[a]
      BY <2>1, <2>3
    <3>4. QED BY <2>1, <3>1, <3>2, <3>3, AccountKept
  <2>4. QED BY <2>2, <2>3
<1>4. ASSUME NEW t \in Threads, Reset(t)
      PROVE  UNCHANGED <<door, budget>> /\ Held(a)
  <2>1. /\ UNCHANGED <<door, budget>> /\ orphans' = orphans \ {t} /\ pc[t] = "reset"
        /\ \A u \in Threads : u # t => pc'[u] = pc[u] /\ addr'[u] = addr[u]
        /\ \/ attempts'[a] = attempts[a] /\ since'[a] = since[a]
           \/ since'[a] = 0
    <3>1. pc[t] = "reset"
      BY <1>4 DEF Reset
    <3>2. QED BY <1>4, <3>1, ResetFacts
  <2>2. Uncounted(a) \subseteq Uncounted(a)'
    BY <2>1 DEF Uncounted, TypeOK
  <2>3. attempts'[a] = attempts[a] =>
            CountedOf(attempts[a].failures) <= CountedOf(attempts'[a].failures)
    BY EntryFields, CountedType, LimitType DEF TypeOK
  <2>4. QED BY <2>1, <2>2, <2>3, AccountKept
<1>5. CASE Restart
  <2>1. UNCHANGED <<door, budget>> /\ since'[a] = 0
    BY <1>5 DEF Restart
  <2>2. QED BY <2>1, AccountKept
<1>6. ASSUME UNCHANGED <<door, budget, attempts, since>>, Uncounted(a) \subseteq Uncounted(a)'
      PROVE  UNCHANGED <<door, budget>> /\ Held(a)
  <2>1. CountedOf(attempts[a].failures) <= CountedOf(attempts'[a].failures)
    BY <1>6, EntryFields, CountedType, LimitType DEF TypeOK
  <2>2. QED BY <1>6, <2>1, AccountKept
<1>7. CASE Tick
  <2>1. UNCHANGED <<door, budget, attempts, since, pc, addr, orphans>>
    BY <1>7 DEF Tick, history, request
  <2>2. Uncounted(a) \subseteq Uncounted(a)'
    BY <2>1 DEF Uncounted
  <2>3. QED BY <1>6, <2>1, <2>2
<1>8. ASSUME NEW t \in Threads,
             (\E b \in Addrs : Begin(t, b)) \/ Right(t) \/ Refuse(t) \/ Alert(t)
      PROVE  UNCHANGED <<door, budget>> /\ Held(a)
  <2>1. /\ UNCHANGED <<door, budget, attempts, since, orphans>> /\ pc[t] # "record"
        /\ \A u \in Threads : u # t => pc'[u] = pc[u] /\ addr'[u] = addr[u]
    BY <1>8, LeaveType DEF Begin, Right, Refuse, Alert, history, Goto, TypeOK
  <2>2. Uncounted(a) \subseteq Uncounted(a)'
    BY <2>1 DEF Uncounted, TypeOK
  <2>3. QED BY <1>6, <2>1, <2>2
<1>9. ASSUME NEW t \in Threads, RecordAttempt(t), t \in orphans
      PROVE  UNCHANGED <<door, budget>> /\ Held(a)
  <2>1. /\ UNCHANGED <<door, budget, attempts, since>> /\ orphans' = orphans \ {t}
        /\ \A u \in Threads : u # t => pc'[u] = pc[u] /\ addr'[u] = addr[u]
    <3>1. Leave(t) /\ UNCHANGED <<door, budget, now, attempts, history>>
      BY <1>9, OrphanFacts
    <3>2. QED BY <1>9, <3>1, OrphanFacts, LeaveType DEF history
  <2>2. Uncounted(a) \subseteq Uncounted(a)'
    BY <1>9, <2>1 DEF Uncounted, TypeOK
  <2>3. QED BY <1>6, <2>1, <2>2
<1>10. QED
  BY <1>1, <1>2, <1>3, <1>4, <1>5, <1>7, <1>8, <1>9 DEF Next, Locking, Working

LEMMA BiteStep ==
    ASSUME IInv, Next, TypeOK', Holding'
    PROVE  BansBite'
<1> USE DEF IInv
<1> DEFINE Bites(a) == Standing(a)' =>
               since'[a] + astray'[a] + Cardinality(Verifying(a)') <= budget.threads - 1
<1>0. SUFFICES ASSUME NEW a \in Addrs
               PROVE  UNCHANGED budget /\ Bites(a)
  <2>1. UNCHANGED budget
    BY DEF Next, Locking, Working, Begin, Check, Wrong, Right, Refuse, RecordIpFailure,
           Alert, RecordAttempt, Reset, Restart, Tick
  <2>2. QED BY <2>1 DEF BansBite
<1>1. now \in Nat /\ banned[a] \in Nat /\ since[a] \in Nat /\ astray[a] \in Nat
  BY DEF TypeOK
<1>2. ASSUME NEW t \in Threads, Wrong(t)
      PROVE  UNCHANGED budget /\ Bites(a)
  <2>1. /\ UNCHANGED <<budget, now, banned, ended, orphans>> /\ pc[t] = "verify"
        /\ pc' = [pc EXCEPT ![t] = "record"] /\ addr' = addr
        /\ \/ since' = [since EXCEPT ![addr[t]] = @ + 1] /\ astray' = astray
           \/ astray' = [astray EXCEPT ![addr[t]] = @ + 1] /\ since' = since
    BY <1>2 DEF Wrong, Goto
  <2>0. Standing(a)' = Standing(a)
    BY <2>1 DEF Standing
  <2>2. CASE addr[t] # a
    <3>1. since'[a] = since[a] /\ astray'[a] = astray[a]
      BY <2>1, <2>2 DEF TypeOK
    <3>2. Verifying(a)' \subseteq Verifying(a)
      BY <2>1, <2>2 DEF Verifying, TypeOK
    <3>3. QED BY <2>0, <2>1, <3>1, <3>2, BiteKept
  <2>3. CASE addr[t] = a
    <3>1. since'[a] + astray'[a] = since[a] + astray[a] + 1
      BY <1>1, <2>1, <2>3 DEF TypeOK
    <3>2. t \in Verifying(a) /\ Verifying(a)' = Verifying(a) \ {t}
      BY <2>1, <2>3 DEF Verifying, TypeOK
    <3>3. /\ Verifying(a) \in SUBSET (1..budget.threads)
          /\ Verifying(a)' \in SUBSET (1..budget.threads) /\ budget.threads \in Nat
      BY <2>1, Threaded, ThreadedNext
    <3>4. Cardinality(Verifying(a)') = Cardinality(Verifying(a)) - 1
      BY <3>2, <3>3, CardinalityAdded
    <3>5. Standing(a) => since[a] + astray[a] + Cardinality(Verifying(a)) <= budget.threads - 1
      BY DEF BansBite
    <3>6. Cardinality(Verifying(a)) \in Nat
      BY <3>3, ThreadsCounted
    <3>7. since'[a] \in Nat /\ astray'[a] \in Nat
      BY DEF TypeOK
    <3>8. QED BY <1>1, <2>0, <2>1, <3>1, <3>3, <3>4, <3>5, <3>6, <3>7
  <2>4. QED BY <2>2, <2>3
<1>3. ASSUME NEW t \in Threads, RecordIpFailure(t) \/ (RecordAttempt(t) /\ t \notin orphans)
      PROVE  UNCHANGED budget /\ Bites(a)
  <2> DEFINE b == addr[t]
  <2>1. /\ UNCHANGED <<budget, now>> /\ pc[t] = "record"
        /\ \A u \in Threads : u # t => pc'[u] = pc[u] /\ addr'[u] = addr[u]
        /\ pc'[t] # "verify" /\ b \in Addrs
        /\ a # b => /\ banned'[a] = banned[a] /\ ended'[a] = ended[a]
                    /\ \/ since'[a] = since[a] /\ astray'[a] = astray[a]
                       \/ since'[a] = 0 /\ astray'[a] = 0
        /\ \/ since'[b] = 0 /\ astray'[b] = 0
           \/ /\ banned'[b] = banned[b] /\ ended'[b] = ended[b]
              /\ since'[b] = 0 \/ since'[b] = since[b]
              /\ astray'[b] \in {0, astray[b]}
    <3>1. PICK read \in 0..now :
              /\ door = "dashboard" => Count(t, Dropped(Addrs, read),
                    Failed(Found(Dropped(Addrs, read), addr[t], read), read))
              /\ door = "portal" => /\ attempts[addr[t]] # NoEntry /\ read = now
                                    /\ Count(t, attempts, Failed(attempts[addr[t]], read))
      BY <1>3, RecordFacts
    <3>2. UNCHANGED <<door, budget, now>> /\ t \notin orphans /\ pc[t] = "record"
      BY <1>3, RecordFacts
    <3>3. /\ \A u \in Threads : u # t => pc'[u] = pc[u] /\ addr'[u] = addr[u]
          /\ pc'[t] # "verify" /\ b \in Addrs
      BY <3>1, <3>2, CountFacts
    <3>4. a # b => /\ banned'[a] = banned[a] /\ ended'[a] = ended[a]
                   /\ \/ since'[a] = since[a] /\ astray'[a] = astray[a]
                      \/ since'[a] = 0 /\ astray'[a] = 0
      BY <3>1, <3>2, CountFacts
    <3>5. \/ since'[b] = 0 /\ astray'[b] = 0
          \/ /\ banned'[b] = banned[b] /\ ended'[b] = ended[b]
             /\ since'[b] = 0 \/ since'[b] = since[b]
             /\ astray'[b] \in {0, astray[b]}
      BY <3>1, <3>2, CountFacts
    <3>6. QED BY <3>2, <3>3, <3>4, <3>5
  <2>2. Verifying(a)' \subseteq Verifying(a)
    BY <2>1 DEF Verifying, TypeOK
  <2>3. CASE a # b \/ ~(since'[b] = 0 /\ astray'[b] = 0)
    <3>1. /\ banned'[a] = banned[a] /\ ended'[a] = ended[a]
          /\ since'[a] \in {0, since[a]} /\ astray'[a] \in {0, astray[a]}
      BY <2>1, <2>3
    <3>2. Standing(a)' = Standing(a)
      BY <2>1, <3>1 DEF Standing
    <3>3. QED BY <2>1, <2>2, <3>1, <3>2, BiteKept
  <2>4. CASE a = b /\ since'[b] = 0 /\ astray'[b] = 0
    <3>1. t \in 1..budget.threads /\ t \notin Verifying(a)'
      <4>1. t \in Nat /\ t >= 1
        BY DEF Threads
      <4>2. t <= budget.threads
        BY <2>1 DEF Holding
      <4>3. QED BY <2>1, <4>1, <4>2, BudgetType DEF Verifying, TypeOK
    <3>2. Verifying(a)' \in SUBSET (1..budget.threads) /\ budget.threads \in Nat
      BY <2>1, ThreadedNext, Threaded
    <3>3. /\ Cardinality(Verifying(a)') <= budget.threads - 1
          /\ Cardinality(Verifying(a)') \in Nat
      BY <3>1, <3>2, ThreadsCounted
    <3>4. QED BY <2>1, <2>4, <3>2, <3>3
  <2>5. QED BY <2>3, <2>4
<1>4. ASSUME NEW t \in Threads, Check(t)
      PROVE  UNCHANGED budget /\ Bites(a)
  <2>1. /\ UNCHANGED <<budget, now, banned, ended>> /\ pc[t] = "check" /\ addr[t] \in Addrs
        /\ \A u \in Threads : u # t => pc'[u] = pc[u] /\ addr'[u] = addr[u]
        /\ pc'[t] = "idle" \/ (addr' = addr /\ ~Standing(addr[t]))
        /\ \/ since'[a] = since[a] /\ astray'[a] = astray[a]
           \/ since'[a] = 0 /\ astray'[a] = 0
    BY <1>4, CheckFacts
  <2>2. CASE Standing(a)
    <3>1. Verifying(a)' \subseteq Verifying(a)
      BY <2>1, <2>2 DEF Verifying, TypeOK
    <3>2. QED BY <2>1, <2>2, <3>1, BiteKept
  <2>3. CASE ~Standing(a)
    BY <2>1, <2>3 DEF Standing
  <2>4. QED BY <2>2, <2>3
<1>5. ASSUME NEW t \in Threads, Reset(t)
      PROVE  UNCHANGED budget /\ Bites(a)
  <2>1. /\ UNCHANGED <<budget, now>> /\ pc'[t] = "idle"
        /\ \A u \in Threads : u # t => pc'[u] = pc[u] /\ addr'[u] = addr[u]
        /\ banned'[a] = banned[a]
        /\ \/ since'[a] = since[a] /\ astray'[a] = astray[a] /\ ended'[a] = ended[a]
           \/ ~(Standing(a)')
    BY <1>5, ResetFacts
  <2>2. Verifying(a)' \subseteq Verifying(a)
    BY <2>1 DEF Verifying, TypeOK
  <2>3. Standing(a)' => Standing(a)
    BY <2>1 DEF Standing
  <2>4. QED BY <2>1, <2>2, <2>3, BiteKept
<1>6. CASE Restart
  <2>1. UNCHANGED <<budget, now>> /\ banned'[a] = 0
    BY <1>6 DEF Restart
  <2>2. QED BY <1>1, <2>1 DEF Standing
<1>7. CASE Tick
  <2>1. UNCHANGED <<budget, since, astray, banned, ended, pc, addr>> /\ now' = now + 1
    BY <1>1, <1>7 DEF Tick, history, request
  <2>2. Verifying(a)' \subseteq Verifying(a)
    BY <2>1 DEF Verifying
  <2>3. Standing(a)' => Standing(a)
    BY <1>1, <2>1 DEF Standing
  <2>4. QED BY <2>1, <2>2, <2>3, BiteKept
<1>8. ASSUME NEW t \in Threads,
             \/ (\E b \in Addrs : Begin(t, b)) \/ Right(t) \/ Refuse(t) \/ Alert(t)
             \/ (RecordAttempt(t) /\ t \in orphans)
      PROVE  UNCHANGED budget /\ Bites(a)
  <2>1. /\ UNCHANGED <<budget, now, since, astray, banned, ended>> /\ pc'[t] # "verify"
        /\ \A u \in Threads : u # t => pc'[u] = pc[u] /\ addr'[u] = addr[u]
    BY <1>8, LeaveType, OrphanFacts DEF Begin, Right, Refuse, Alert, history, Goto, TypeOK
  <2>2. Verifying(a)' \subseteq Verifying(a)
    BY <2>1 DEF Verifying, TypeOK
  <2>3. Standing(a)' = Standing(a)
    BY <2>1 DEF Standing
  <2>4. QED BY <2>1, <2>2, <2>3, BiteKept
<1>9. QED
  BY <1>2, <1>3, <1>4, <1>5, <1>6, <1>7, <1>8 DEF Next, Locking, Working
-----------------------------------------------------------------------------
(* Each request that was under way when an entry was dropped guesses once. *)
LEMMA StrayedStep ==
    ASSUME IInv, Next, TypeOK', Holding'
    PROVE  Strayed'
<1> USE DEF IInv
<1> DEFINE Few(a) == astray'[a] + Cardinality(Lost(a)') <= budget.threads
<1>0. SUFFICES ASSUME NEW a \in Addrs
               PROVE  UNCHANGED budget /\ Few(a)
  <2>1. UNCHANGED budget
    BY DEF Next, Locking, Working, Begin, Check, Wrong, Right, Refuse, RecordIpFailure,
           Alert, RecordAttempt, Reset, Restart, Tick
  <2>2. QED BY <2>1 DEF Strayed
<1>1. ASSUME UNCHANGED budget,
             astray'[a] = 0 \/ (astray'[a] = astray[a] /\ Lost(a)' \subseteq Lost(a))
      PROVE  Few(a)
  <2>1. /\ Lost(a) \in SUBSET (1..budget.threads) /\ Lost(a)' \in SUBSET (1..budget.threads)
        /\ budget.threads \in Nat
    BY <1>1, Threaded, ThreadedNext
  <2>2. /\ Cardinality(Lost(a)) \in 0..budget.threads
        /\ Cardinality(Lost(a)') \in 0..budget.threads
    BY <2>1, ThreadsCounted
  <2>3. CASE astray'[a] = 0
    BY <2>1, <2>2, <2>3
  <2>4. CASE astray'[a] = astray[a] /\ Lost(a)' \subseteq Lost(a)
    <3>1. Cardinality(Lost(a)') <= Cardinality(Lost(a))
      BY <2>1, <2>4, CardinalityMonotone
    <3>2. astray[a] + Cardinality(Lost(a)) <= budget.threads /\ astray[a] \in Nat
      BY DEF Strayed, TypeOK
    <3>3. QED BY <2>1, <2>2, <2>4, <3>1, <3>2
  <2>5. QED BY <1>1, <2>3, <2>4
<1>2. ASSUME NEW t \in Threads, Wrong(t)
      PROVE  UNCHANGED budget /\ Few(a)
  <2>1. /\ UNCHANGED <<budget, orphans>> /\ pc[t] = "verify"
        /\ pc' = [pc EXCEPT ![t] = "record"] /\ addr' = addr
        /\ astray' = IF t \in orphans THEN [astray EXCEPT ![addr[t]] = @ + 1] ELSE astray
    BY <1>2 DEF Wrong, Goto
  <2>2. CASE t \notin orphans \/ addr[t] # a
    <3>1. astray'[a] = astray[a] /\ Lost(a)' \subseteq Lost(a)
      BY <2>1, <2>2 DEF Lost, TypeOK
    <3>2. QED BY <1>1, <2>1, <3>1
  <2>3. CASE t \in orphans /\ addr[t] = a
    <3>1. astray'[a] = astray[a] + 1 /\ astray[a] \in Nat
      BY <2>1, <2>3 DEF TypeOK
    <3>2. t \in Lost(a) /\ Lost(a)' = Lost(a) \ {t}
      BY <2>1, <2>3 DEF Lost, TypeOK
    <3>3. /\ Lost(a) \in SUBSET (1..budget.threads) /\ Lost(a)' \in SUBSET (1..budget.threads)
          /\ budget.threads \in Nat
      BY <2>1, Threaded, ThreadedNext
    <3>4. Cardinality(Lost(a)') = Cardinality(Lost(a)) - 1
      BY <3>2, <3>3, CardinalityAdded
    <3>5. astray[a] + Cardinality(Lost(a)) <= budget.threads /\ Cardinality(Lost(a)) \in Nat
      BY <3>3, ThreadsCounted DEF Strayed
    <3>6. QED BY <2>1, <3>1, <3>3, <3>4, <3>5
  <2>4. QED BY <2>2, <2>3
<1>3. ASSUME NEW t \in Threads, RecordIpFailure(t) \/ (RecordAttempt(t) /\ t \notin orphans)
      PROVE  UNCHANGED budget /\ Few(a)
  <2>1. /\ UNCHANGED <<budget, orphans>> /\ pc'[t] # "verify"
        /\ \A u \in Threads : u # t => pc'[u] = pc[u] /\ addr'[u] = addr[u]
        /\ astray'[a] \in {0, astray[a]}
    BY <1>3, RecordFacts, CountFacts
  <2>2. Lost(a)' \subseteq Lost(a)
    BY <2>1 DEF Lost, TypeOK
  <2>3. QED BY <1>1, <2>1, <2>2
<1>4. ASSUME NEW t \in Threads, Check(t)
      PROVE  UNCHANGED budget /\ Few(a)
  <2>1. /\ UNCHANGED budget /\ t \notin orphans
        /\ \A u \in Threads : u # t => pc'[u] = pc[u] /\ addr'[u] = addr[u]
        /\ pc'[t] = "idle" \/ addr' = addr
        /\ \A u \in Threads : u \in orphans' => u \in orphans \/ astray'[addr[u]] = 0
        /\ astray'[a] \in {0, astray[a]}
    BY <1>4, CheckFacts
  <2>2. astray'[a] # 0 => Lost(a)' \subseteq Lost(a)
    BY <2>1 DEF Lost, TypeOK
  <2>3. QED BY <1>1, <2>1, <2>2
<1>5. ASSUME NEW t \in Threads,
             \/ (\E b \in Addrs : Begin(t, b)) \/ Right(t) \/ Refuse(t) \/ Alert(t) \/ Reset(t)
             \/ (RecordAttempt(t) /\ t \in orphans)
      PROVE  UNCHANGED budget /\ Few(a)
  <2>1. /\ UNCHANGED budget /\ orphans' \subseteq orphans /\ pc'[t] # "verify"
        /\ \A u \in Threads : u # t => pc'[u] = pc[u] /\ addr'[u] = addr[u]
        /\ astray'[a] \in {0, astray[a]}
    <3>1. CASE Reset(t)
      BY <3>1, ResetFacts
    <3>2. CASE RecordAttempt(t) /\ t \in orphans
      BY <3>2, LeaveType, OrphanFacts DEF history, TypeOK
    <3>3. CASE (\E b \in Addrs : Begin(t, b)) \/ Right(t) \/ Refuse(t) \/ Alert(t)
      BY <3>3, LeaveType DEF Begin, Right, Refuse, Alert, history, Goto, TypeOK
    <3>4. QED BY <1>5, <3>1, <3>2, <3>3
  <2>2. Lost(a)' \subseteq Lost(a)
    BY <2>1 DEF Lost, TypeOK
  <2>3. QED BY <1>1, <2>1, <2>2
<1>6. CASE Restart
  BY <1>1, <1>6 DEF Restart
<1>7. CASE Tick
  <2>1. UNCHANGED <<budget, astray, pc, addr, orphans>>
    BY <1>7 DEF Tick, history, request
  <2>2. QED BY <1>1, <2>1 DEF Lost
<1>8. QED
  BY <1>2, <1>3, <1>4, <1>5, <1>6, <1>7 DEF Next, Locking, Working

(* Who gets past the check while a ban runs was past it when the ban began. *)
LEMMA OnlyLateStep ==
    ASSUME IInv, Next, TypeOK'
    PROVE  OnlyLate'
<1> USE DEF IInv
<1> DEFINE Kept(a) == ended'[a] # "new" /\ (Standing(a)' => Past(a)' \subseteq late')
<1>0. SUFFICES ASSUME NEW a \in Addrs PROVE Kept(a)
  BY DEF OnlyLate
<1>1. ASSUME ended'[a] # "new",
             Standing(a)' => Standing(a) /\ Past(a)' \ late' \subseteq Past(a) \ late
      PROVE  Kept(a)
  BY <1>1 DEF OnlyLate
<1>2. now \in Nat /\ banned[a] \in Nat /\ ended[a] # "new"
  BY DEF TypeOK, OnlyLate
<1>3. ASSUME NEW t \in Threads, RecordIpFailure(t) \/ (RecordAttempt(t) /\ t \notin orphans)
      PROVE  Kept(a)
  <2> DEFINE b == addr[t]
  <2>1. /\ UNCHANGED now /\ pc'[t] \in {"idle", "alert"} /\ late \subseteq late'
        /\ \A u \in Threads : u # t => pc'[u] = pc[u] /\ addr'[u] = addr[u]
        /\ a # b => banned'[a] = banned[a] /\ ended'[a] = ended[a]
        /\ \/ ended'[b] = "no" /\ Past(b) \subseteq late'
           \/ banned'[b] = banned[b] /\ ended'[b] = ended[b]
    BY <1>3, RecordFacts, CountFacts
  <2>2. Past(a)' \subseteq Past(a)
    BY <2>1 DEF Past, TypeOK
  <2>3. CASE a = b /\ ended'[b] = "no" /\ Past(b) \subseteq late'
    BY <2>2, <2>3
  <2>4. CASE banned'[a] = banned[a] /\ ended'[a] = ended[a]
    BY <1>1, <1>2, <2>1, <2>2, <2>4 DEF Standing
  <2>5. QED BY <2>1, <2>3, <2>4
<1>4. ASSUME NEW t \in Threads, Check(t)
      PROVE  Kept(a)
  <2>1. /\ UNCHANGED <<now, banned, late, ended>>
        /\ \A u \in Threads : u # t => pc'[u] = pc[u] /\ addr'[u] = addr[u]
        /\ pc'[t] = "idle" \/ (addr' = addr /\ ~Standing(addr[t]))
    BY <1>4, CheckFacts
  <2>2. Standing(a)' = Standing(a)
    BY <2>1 DEF Standing
  <2>3. Standing(a) => Past(a)' \subseteq Past(a)
    BY <2>1 DEF Past, TypeOK
  <2>4. QED BY <1>1, <1>2, <2>1, <2>2, <2>3
<1>5. ASSUME NEW t \in Threads,
             \/ (\E b \in Addrs : Begin(t, b)) \/ Wrong(t) \/ Right(t) \/ Refuse(t) \/ Alert(t)
             \/ Reset(t) \/ (RecordAttempt(t) /\ t \in orphans)
      PROVE  Kept(a)
  <2>1. /\ UNCHANGED <<now, banned>>
        /\ ended'[a] = ended[a] \/ (ended'[a] = "late" /\ ~(Standing(a)'))
        /\ \A u \in Threads : u # t => pc'[u] = pc[u] /\ addr'[u] = addr[u]
        /\ \/ pc'[t] \notin {"verify", "reset"} /\ late' \in {late, late \ {t}}
           \/ pc[t] = "verify" /\ addr' = addr /\ late' = late
    <3>1. CASE Reset(t)
      BY <3>1, ResetFacts
    <3>2. CASE RecordAttempt(t) /\ t \in orphans
      BY <3>2, LeaveType, OrphanFacts DEF history, TypeOK
    <3>3. CASE (\E b \in Addrs : Begin(t, b)) \/ Wrong(t) \/ Right(t)
      BY <3>3 DEF Begin, Wrong, Right, history, Goto, TypeOK
    <3>4. CASE Refuse(t) \/ Alert(t)
      BY <3>4, LeaveType DEF Refuse, Alert, history
    <3>5. QED BY <1>5, <3>1, <3>2, <3>3, <3>4
  <2>2. Standing(a)' => Standing(a)
    BY <2>1 DEF Standing
  <2>3. Past(a)' \ late' \subseteq Past(a) \ late
    BY <2>1 DEF Past, TypeOK
  <2>4. QED BY <1>1, <1>2, <2>1, <2>2, <2>3
<1>6. CASE Restart
  BY <1>2, <1>6 DEF Restart, Standing
<1>7. CASE Tick
  <2>1. UNCHANGED <<banned, late, ended, pc, addr>> /\ now' = now + 1
    BY <1>7 DEF Tick, history, request
  <2>2. (Standing(a)' => Standing(a)) /\ Past(a)' = Past(a)
    BY <1>2, <2>1 DEF Standing, Past
  <2>3. QED BY <1>1, <1>2, <2>1, <2>2
<1>8. QED
  BY <1>3, <1>4, <1>5, <1>6, <1>7 DEF Next, Locking, Working
-----------------------------------------------------------------------------
(* The invariant. *)

LEMMA InitInv == Init => IInv
<1> SUFFICES ASSUME Init PROVE IInv
  OBVIOUS
<1>1. TypeOK
  BY InitType
<1>2. Holding /\ OneDoor
  BY DEF Init, Holding, OneDoor, LockFree
<1>3. /\ now = 0 /\ since = [a \in Addrs |-> 0] /\ banned = [a \in Addrs |-> 0]
      /\ astray = [a \in Addrs |-> 0] /\ ended = [a \in Addrs |-> "no"]
      /\ attempts = [a \in Addrs |-> NoEntry] /\ orphans = {}
  BY DEF Init
<1>4. BansInTable /\ BansBite /\ OnlyLate
  BY <1>3 DEF BansInTable, BansBite, NoEntry, OnlyLate, Standing
<1>5. Accounted
  <2>1. ASSUME NEW a \in Addrs
        PROVE  since[a] <= CountedOf(attempts[a].failures) + Cardinality(Uncounted(a))
    <3>1. Cardinality(Uncounted(a)) \in Nat
      BY <1>1, <1>2, Threaded, ThreadsCounted
    <3>2. CountedOf(attempts[a].failures) = 0
      BY <1>3 DEF NoEntry, CountedOf
    <3>3. QED BY <1>3, <3>1, <3>2
  <2>2. QED BY <2>1 DEF Accounted
<1>6. Strayed
  <2>1. ASSUME NEW a \in Addrs PROVE astray[a] + Cardinality(Lost(a)) <= budget.threads
    <3>1. /\ Lost(a) \in SUBSET (1..budget.threads) /\ budget.threads \in Nat
      BY <1>1, <1>2, Threaded
    <3>2. Cardinality(Lost(a)) \in 0..budget.threads
      BY <3>1, ThreadsCounted
    <3>3. QED BY <1>3, <3>1, <3>2
  <2>2. QED BY <2>1 DEF Strayed
<1>7. QED
  BY <1>1, <1>2, <1>4, <1>5, <1>6 DEF IInv

LEMMA NextInv == IInv /\ [Next]_vars => IInv'
<1> SUFFICES ASSUME IInv, [Next]_vars PROVE IInv'
  OBVIOUS
<1>1. CASE Next
  <2>1. TypeOK'
    BY <1>1, NextType DEF IInv
  <2>2. Holding' /\ OneDoor'
    BY <1>1, HoldingStep
  <2>3. QED
    BY <1>1, <2>1, <2>2, BansInTableStep, AccountStep, BiteStep, StrayedStep, OnlyLateStep
       DEF IInv
<1>2. CASE UNCHANGED vars
  BY <1>2 DEF vars, request, history, IInv, TypeOK, Holding, OneDoor, LockFree, BansInTable,
              Accounted, BansBite, Uncounted, Verifying, CountedOf, Strayed, Lost, OnlyLate,
              Standing, Past
<1>3. QED
  BY <1>1, <1>2

LEMMA Invariance == Spec => []IInv
BY InitInv, NextInv, PTL DEF Spec

(* The table, the requests and their clocks keep their types. *)
THEOREM TypeCorrect == Spec => []TypeOK
<1>1. IInv => TypeOK
  BY DEF IInv
<1>2. QED BY <1>1, Invariance, PTL

LEMMA InvThrottled == IInv => Throttled
<1> SUFFICES ASSUME IInv PROVE Throttled
  OBVIOUS
<1> USE DEF IInv
<1>1. ASSUME NEW a \in Addrs, Standing(a)
      PROVE  attempts[a].until >= banned[a] /\ since[a] + astray[a] <= budget.threads - 1
  <2>1. /\ attempts[a].until = banned[a] /\ banned[a] \in Nat
        /\ since[a] \in Nat /\ astray[a] \in Nat
        /\ since[a] + astray[a] + Cardinality(Verifying(a)) <= budget.threads - 1
    BY <1>1 DEF BansInTable, BansBite, TypeOK
  <2>2. Cardinality(Verifying(a)) \in Nat /\ budget.threads \in Nat
    BY Threaded, ThreadsCounted
  <2>3. QED BY <2>1, <2>2
<1>2. ASSUME NEW a \in Addrs
      PROVE  /\ since[a] < Limit + budget.threads
             /\ astray[a] <= IF door = "dashboard" THEN 0 ELSE budget.threads
             /\ door = "dashboard" /\ attempts[a].failures >= Limit
                   => since[a] <= budget.threads
  <2> DEFINE n == attempts[a].failures
  <2>1. /\ since[a] <= CountedOf(n) + Cardinality(Uncounted(a))
        /\ since[a] \in Nat /\ n \in Int /\ door \in Doors
    BY EntryFields DEF Accounted, TypeOK
  <2>2. Cardinality(Uncounted(a)) \in 0..budget.threads /\ budget.threads \in Nat
    BY Threaded, ThreadsCounted
  <2>3. CountedOf(n) \in 0..(Limit - 1) /\ Limit \in Nat
    BY <2>1, CountedType, LimitType
  <2>4. door = "dashboard" /\ n >= Limit => CountedOf(n) = 0
    BY <2>1, FirstTierLowest DEF CountedOf, Limit
  <2> HIDE DEF n
  <2>5. /\ since[a] < Limit + budget.threads
        /\ door = "dashboard" /\ n >= Limit => since[a] <= budget.threads
    BY <2>1, <2>2, <2>3, <2>4
  <2>6. astray[a] <= IF door = "dashboard" THEN 0 ELSE budget.threads
    <3>1. astray[a] + Cardinality(Lost(a)) <= budget.threads /\ astray[a] \in Nat
      BY DEF Strayed, TypeOK
    <3>2. Cardinality(Lost(a)) \in Nat /\ budget.threads \in Nat
      BY Threaded, ThreadsCounted
    <3>3. door = "dashboard" => astray[a] = 0
      BY DEF OneDoor
    <3>4. QED BY <3>1, <3>2, <3>3
  <2>7. QED BY <2>5, <2>6 DEF n
<1>3. \A a \in Addrs : ended[a] # "new"
  BY DEF OnlyLate
<1>4. QED
  BY <1>1, <1>2, <1>3 DEF Throttled, BansHold, GuessesCounted

(* A ban lasts as announced unless a success ends it of a request that was past the
   check when it began, and until then no guess is looked at but of such requests; of
   the wrong guesses since a ban, a success or the dropping of its entry, no more are
   uncounted than are under way or were when the entry was dropped. *)
THEOREM GuessesThrottled == Spec => []Throttled
BY Invariance, InvThrottled, PTL
=============================================================================
