-------------------------- MODULE CollectorProofs --------------------------
(* Proofs about the event collector, for any logs, leases, edits of the    *)
(* policy and kills: its types, how often it flags a device, that sessions *)
(* of one client and name stay apart, that forbidden names are alerted and *)
(* addresses put down to their holders, and that sessions and floods count *)
(* the queries that were read.                                             *)
EXTENDS Collector, FiniteSetTheorems, TLAPS
-----------------------------------------------------------------------------
(* Facts about the windows of the clock. *)

LEMMA DivBounds ==
    ASSUME NEW g \in Nat \ {0}, NEW t \in Nat
    PROVE  t \div g \in Int /\ g * (t \div g) <= t /\ t < g * (t \div g) + g
OBVIOUS

LEMMA TimesStep ==
    ASSUME NEW g \in Nat, NEW a \in Int, NEW b \in Int, a + 1 <= b
    PROVE  g * a + g <= g * b
OBVIOUS

(* The quotient grows with the dividend. *)
LEMMA DivMonotone ==
    ASSUME NEW g \in Nat \ {0}, NEW s \in Nat, NEW t \in Nat, s <= t
    PROVE  s \div g <= t \div g
<1> DEFINE a == s \div g
           b == t \div g
<1>1. a \in Int /\ g * a <= s /\ b \in Int /\ t < g * b + g
  BY DivBounds
<1> HIDE DEF a, b
<1>2. SUFFICES ASSUME b + 1 <= a PROVE FALSE
  BY <1>1 DEF a, b
<1>3. g * b + g <= g * a
  BY <1>1, <1>2, TimesStep
<1>4. g * a \in Int /\ g * b \in Int
  BY <1>1
<1>5. QED
  BY <1>1, <1>3, <1>4

LEMMA Numbers ==
    /\ Gap \in Nat /\ Gap > 0 /\ Ttl \in Nat /\ Ttl > 0
    /\ Grace \in Nat /\ FloodWindow \in Nat /\ LeaseRefresh \in Nat /\ SeenMax \in Nat
    /\ ScanLimit \in Nat /\ ScanLimit > 0
    /\ FloodThreshold \in Nat /\ FloodThreshold > 0
BY TimesAssumption

LEMMA BudgetNumbers ==
    ASSUME NEW b \in Budgets
    PROVE  b.lines \in Nat /\ b.crashes \in Nat /\ b.faults \in Nat /\ b.edits \in Nat
BY TimesAssumption

(* What the handlers rely on: the line in hand has the kind they are for. *)
Hand ==
    /\ pc \in {"query", "flood"} =>
         cur.line \in DOMAIN log /\ log[cur.line].kind = "query"
    /\ pc \in {"ack", "flag"} => cur.mac \in Macs

(* The parts of TypeOK that change together. *)
WorldTypes ==
    /\ now \in Nat /\ log \in Seq(Lines)
    /\ leases \in [Ips -> Macs \cup {NoMac}]
    /\ policy \in Policies
    /\ known \in [Macs -> {"absent", "unknown", "labelled"}]
StoreTypes ==
    /\ sessions \in Seq(Rows)
    /\ alertRows \subseteq (Macs \cup {NoMac}) \X Names \X Nat
PlaceTypes ==
    /\ saved \in 0 .. Len(log) /\ pos \in 0 .. Len(log)
    /\ pc \in {"down", "asleep", "reading", "query", "flood", "ack", "flag"}
    /\ start \in Nat
    /\ cur \in [line : 0 .. Len(log), mac : Macs \cup {NoMac}]
    /\ Hand
MemoryTypes ==
    /\ seen \subseteq Lines
    /\ times \in [Macs -> SUBSET Nat]
    /\ lcache \in [map : [Ips -> Macs \cup {NoMac}], left : 0 .. LeaseRefresh]
    /\ pcache \in [lists : Policies, left : 0 .. Ttl]
BudgetTypes ==
    /\ budget \in Budgets
    /\ crashes \in 0 .. budget.crashes /\ faults \in 0 .. budget.faults
    /\ edits \in 0 .. budget.edits
HistoryTypes ==
    /\ replayed \in BOOLEAN
    /\ floods \subseteq SUBSET Nat
    /\ quiet \in [Macs -> SUBSET Nat]
    /\ device \in [Macs -> [marked : Nat, flagged : Nat, removed : Nat]]
    /\ steady \in [lease : [Ips -> 0 .. LeaseRefresh], policy : 0 .. Ttl, reads : 0 .. Ttl]

TypeInv ==
    WorldTypes /\ StoreTypes /\ PlaceTypes /\ MemoryTypes /\ BudgetTypes /\ HistoryTypes

LEMMA TypesSplit == TypeInv <=> TypeOK /\ Hand
BY DEF TypeInv, TypeOK, WorldTypes, StoreTypes, PlaceTypes, MemoryTypes, BudgetTypes,
       HistoryTypes

LEMMA QueryLine ==
    ASSUME NEW x \in Lines, x.kind = "query"
    PROVE  x.ip \in Ips /\ x.name \in Names /\ x.at \in Nat
BY DEF Lines

LEMMA AckLine ==
    ASSUME NEW x \in Lines, x.kind # "query"
    PROVE  x.kind = "ack" /\ x.ip \in Ips /\ x.mac \in Macs /\ x.at \in Nat
BY DEF Lines

LEMMA WindowType ==
    ASSUME NEW t \in Nat PROVE Window(t) \in Int
BY Numbers DEF Window

LEMMA TypeInit == Init => TypeInv
<1> SUFFICES ASSUME Init PROVE TypeInv
  OBVIOUS
<1>1. WorldTypes
  BY DEF Init, WorldTypes, NoLeases, NoPolicy, Policies
<1>2. StoreTypes
  BY DEF Init, StoreTypes
<1>3. PlaceTypes
  BY DEF Init, PlaceTypes, Hand, NoLine
<1>4. MemoryTypes
  BY Numbers DEF Init, MemoryTypes, OldLeases, OldPolicy, NoLeases, NoPolicy, Policies
<1>5. BudgetTypes
  BY BudgetNumbers DEF Init, BudgetTypes
<1>6. HistoryTypes
  <2>1. steady \in [lease : [Ips -> 0 .. LeaseRefresh], policy : 0 .. Ttl, reads : 0 .. Ttl]
    BY Numbers DEF Init
  <2>2. device \in [Macs -> [marked : Nat, flagged : Nat, removed : Nat]]
    BY DEF Init
  <2>3. QED BY <2>1, <2>2 DEF Init, HistoryTypes
<1>7. QED
  BY <1>1, <1>2, <1>3, <1>4, <1>5, <1>6 DEF TypeInv

LEMMA WorldFrame ==
    ASSUME [Next]_vars
    PROVE  \/ UNCHANGED <<now, log, leases, policy, known>>
           \/ Tick \/ HandleAck
           \/ \E ip \in Ips : (\E n \in Names : Query(ip, n)) \/ (\E m \in Macs : Lease(ip, m))
           \/ \E list \in {"forbidden", "noise"}, n \in Names : EditPolicy(list, n)
           \/ \E m \in Macs : MarkKnown(m) \/ RemoveKnown(m)
BY DEF Next, Collect, World, vars, durable, process, history, bounds, Crash, Restart,
       RunOnce, EndOfFile, SkipLine, TakeLine, PolicyAlert, DropNoise, UpdateSession,
       BumpPrior, LoseBump, MissSession, FaultyQuery,
       NewSession, SessionQuery, QueryDone, CheckFlood, FlagDevice, DropQuery, DropFlood,
       DropDevice, Lose

LEMMA WorldStep == TypeInv /\ [Next]_vars => WorldTypes'
<1> SUFFICES ASSUME WorldTypes, PlaceTypes, [Next]_vars PROVE WorldTypes'
  BY DEF TypeInv
<1>0. /\ now \in Nat /\ log \in Seq(Lines)
      /\ leases \in [Ips -> Macs \cup {NoMac}] /\ policy \in Policies
      /\ known \in [Macs -> {"absent", "unknown", "labelled"}]
  BY DEF WorldTypes
<1>1. CASE UNCHANGED <<now, log, leases, policy, known>>
  BY <1>0, <1>1 DEF WorldTypes
<1>2. CASE Tick
  <2>1. now' = now + 1 /\ UNCHANGED <<log, leases, policy, known>>
    BY <1>2, Zenon DEF Tick, durable
  <2>2. now' \in Nat
    BY <1>0, <2>1
  <2>3. QED BY <1>0, <2>1, <2>2 DEF WorldTypes
<1>3. CASE HandleAck
  BY <1>3 DEF HandleAck, WorldTypes, PlaceTypes, Hand
<1>4. ASSUME NEW ip \in Ips, NEW n \in Names, Query(ip, n) PROVE WorldTypes'
  <2> DEFINE line == [kind |-> "query", ip |-> ip, name |-> n, at |-> now]
  <2>1. line \in Lines
    BY <1>0 DEF Lines
  <2>2. log' = Append(log, line) /\ UNCHANGED <<now, leases, policy, known>>
    BY <1>4 DEF Query, Write
  <2>3. log' \in Seq(Lines)
    <3> HIDE DEF line
    <3> QED BY <1>0, <2>1, <2>2
  <2>4. QED BY <1>0, <2>2, <2>3 DEF WorldTypes
<1>5. ASSUME NEW ip \in Ips, NEW m \in Macs, Lease(ip, m) PROVE WorldTypes'
  <2> DEFINE line == [kind |-> "ack", ip |-> ip, mac |-> m, at |-> now]
  <2>1. line \in Lines
    BY <1>0 DEF Lines
  <2>2. /\ log' = Append(log, line) /\ leases' = [leases EXCEPT ![ip] = m]
        /\ UNCHANGED <<now, policy, known>>
    BY <1>5 DEF Lease, Write
  <2>3. log' \in Seq(Lines)
    <3> HIDE DEF line
    <3> QED BY <1>0, <2>1, <2>2
  <2>4. leases' \in [Ips -> Macs \cup {NoMac}]
    BY <1>0, <2>2
  <2>5. QED BY <1>0, <2>2, <2>3, <2>4 DEF WorldTypes
<1>6. ASSUME NEW list \in {"forbidden", "noise"}, NEW n \in Names, EditPolicy(list, n)
      PROVE  WorldTypes'
  BY <1>6 DEF EditPolicy, Policies, WorldTypes
<1>7. ASSUME NEW m \in Macs, MarkKnown(m) \/ RemoveKnown(m) PROVE WorldTypes'
  BY <1>7 DEF MarkKnown, RemoveKnown, WorldTypes
<1>8. QED
  BY <1>1, <1>2, <1>3, <1>4, <1>5, <1>6, <1>7, WorldFrame

(* The line in hand of a handler. *)
LEMMA QueryInHand ==
    ASSUME TypeInv, pc \in {"query", "flood"}
    PROVE  /\ cur.line \in 1 .. Len(log) /\ Line \in Lines
           /\ Line.kind = "query" /\ Line.ip \in Ips /\ Line.name \in Names
           /\ Line.at \in Nat /\ Window(Line.at) \in Int
           /\ cur.mac \in Macs \cup {NoMac}
<1>1. log \in Seq(Lines) /\ cur.line \in DOMAIN log
      /\ log[cur.line].kind = "query" /\ cur.mac \in Macs \cup {NoMac}
  BY DEF TypeInv, WorldTypes, PlaceTypes, Hand
<1>2. cur.line \in 1 .. Len(log) /\ Line \in Lines /\ Line.kind = "query"
  BY <1>1 DEF Line
<1>3. QED
  BY <1>1, <1>2, QueryLine, WindowType

LEMMA StoreFrame ==
    ASSUME [Next]_vars
    PROVE  \/ UNCHANGED <<sessions, alertRows>>
           \/ PolicyAlert \/ UpdateSession \/ BumpPrior \/ NewSession \/ MissSession
BY DEF LoseBump, FaultyQuery, Next, Collect, World, vars, durable, process, history,
    bounds, Crash, Restart,
       RunOnce, EndOfFile, SkipLine, TakeLine, DropNoise, QueryDone, CheckFlood,
       HandleAck, FlagDevice, DropQuery, DropFlood, DropDevice, Lose, Tick, Query, Lease,
       EditPolicy, MarkKnown, RemoveKnown

LEMMA RowBumped ==
    ASSUME NEW r, r \in Rows, NEW e, e = Bumped(r)
    PROVE  e = [mac |-> r.mac, name |-> r.name, first |-> r.first, last |-> Line.at,
                count |-> r.count + 1, window |-> r.window,
                lines |-> r.lines \cup {cur.line}]
BY DEF Rows, Bumped

LEMMA BumpedType ==
    ASSUME NEW r \in Rows, Line.at \in Nat, cur.line \in Nat
    PROVE  Bumped(r) \in Rows
<1> DEFINE e == Bumped(r)
<1> HIDE DEF e
<1>1. e = [mac |-> r.mac, name |-> r.name, first |-> r.first, last |-> Line.at,
           count |-> r.count + 1, window |-> r.window, lines |-> r.lines \cup {cur.line}]
  BY RowBumped DEF e
<1>2. /\ r.mac \in Macs \cup {NoMac} /\ r.name \in Names /\ r.first \in Nat
      /\ r.count \in Nat /\ r.window \in Int /\ r.lines \subseteq Nat
  BY DEF Rows
<1>3. r.count + 1 \in Nat /\ r.lines \cup {cur.line} \subseteq Nat
  BY <1>2
<1>4. e \in Rows
  BY <1>1, <1>2, <1>3 DEF Rows
<1>5. QED
  BY <1>4 DEF e

(* What is left of the rows when one is touched. *)
LEMMA Touched ==
    ASSUME TypeInv, pc = "query", NEW i \in DOMAIN sessions, Touch(i)
    PROVE  /\ sessions' \in Seq(Rows) /\ Len(sessions') = Len(sessions)
           /\ DOMAIN sessions' = DOMAIN sessions
           /\ \A j \in DOMAIN sessions : j # i => sessions'[j] = sessions[j]
           /\ sessions'[i] = Bumped(sessions[i])
<1> DEFINE new == Bumped(sessions[i])
<1>1. sessions \in Seq(Rows) /\ sessions[i] \in Rows
  BY DEF TypeInv, StoreTypes
<1>2. new \in Rows
  BY <1>1, BumpedType, QueryInHand
<1>3. sessions' = [sessions EXCEPT ![i] = new]
  BY DEF Touch
<1> HIDE DEF new
<1>4. sessions' \in Seq(Rows) /\ Len(sessions') = Len(sessions)
  BY <1>1, <1>2, <1>3
<1>5. /\ DOMAIN sessions' = DOMAIN sessions
      /\ \A j \in DOMAIN sessions : j # i => sessions'[j] = sessions[j]
      /\ sessions'[i] = new
  BY <1>1, <1>3
<1>6. QED
  BY <1>4, <1>5 DEF new

LEMMA StoreStep == TypeInv /\ [Next]_vars => StoreTypes'
<1> SUFFICES ASSUME TypeInv, [Next]_vars PROVE StoreTypes'
  OBVIOUS
<1>1. CASE UNCHANGED <<sessions, alertRows>>
  BY <1>1 DEF TypeInv, StoreTypes
<1>2. CASE PolicyAlert
  BY <1>2, QueryInHand DEF PolicyAlert, QueryDone, TypeInv, StoreTypes
<1>3. ASSUME pc = "query", alertRows' = alertRows, NEW i \in DOMAIN sessions, Touch(i)
      PROVE  StoreTypes'
  BY <1>3, Touched DEF TypeInv, StoreTypes
<1>4. ASSUME pc = "query", alertRows' = alertRows, Insert
      PROVE  StoreTypes'
  <2>1. [mac |-> cur.mac, name |-> Line.name, first |-> Line.at, last |-> Line.at,
         count |-> 1, window |-> Window(Line.at), lines |-> {cur.line}] \in Rows
    BY <1>4, QueryInHand DEF Rows
  <2>2. QED
    BY <1>4, <2>1 DEF Insert, TypeInv, StoreTypes
<1>5. CASE UpdateSession
  BY <1>3, <1>5 DEF UpdateSession, SessionQuery, QueryDone, OpenRows
<1>6. CASE BumpPrior \/ NewSession
  BY <1>3, <1>4, <1>6 DEF BumpPrior, NewSession, SessionQuery, QueryDone, Bump, HashRows
<1>7. CASE MissSession
  BY <1>3, <1>4, <1>7 DEF MissSession, FaultyQuery, Bump, HashRows
<1>8. QED
  BY <1>1, <1>2, <1>5, <1>6, <1>7, StoreFrame

LEMMA PlaceFrame ==
    ASSUME [Next]_vars
    PROVE  \/ UNCHANGED <<log, saved, pc, start, pos, cur>>
           \/ Crash \/ Restart \/ RunOnce \/ EndOfFile \/ SkipLine \/ TakeLine
           \/ QueryDone \/ FaultyQuery \/ CheckFlood \/ HandleAck \/ FlagDevice
           \/ (Lose /\ UNCHANGED pos)
           \/ \E ip \in Ips : (\E n \in Names : Query(ip, n)) \/ (\E m \in Macs : Lease(ip, m))
BY DEF Next, Collect, World, vars, durable, process, history, bounds,
       PolicyAlert, DropNoise, UpdateSession, BumpPrior, LoseBump, MissSession, NewSession,
       SessionQuery,
       DropQuery, DropFlood, DropDevice, Lose, Tick, EditPolicy, MarkKnown, RemoveKnown

(* A longer log leaves the collector where it was. *)
LEMMA PlaceWrite ==
    ASSUME TypeInv, NEW line, log' = Append(log, line), UNCHANGED <<saved, process>>
    PROVE  PlaceTypes'
<1>1. /\ log \in Seq(Lines) /\ saved \in 0 .. Len(log) /\ pos \in 0 .. Len(log)
      /\ pc \in {"down", "asleep", "reading", "query", "flood", "ack", "flag"}
      /\ start \in Nat
      /\ cur \in [line : 0 .. Len(log), mac : Macs \cup {NoMac}] /\ Hand
  BY DEF TypeInv, WorldTypes, PlaceTypes
<1>2. UNCHANGED <<saved, pc, start, pos, cur>>
  BY DEF process
<1>3. Len(log') = Len(log) + 1 /\ \A k \in DOMAIN log : k \in DOMAIN log' /\ log'[k] = log[k]
  BY <1>1
<1>4. saved' \in 0 .. Len(log)' /\ pos' \in 0 .. Len(log)'
  BY <1>1, <1>2, <1>3
<1>5. cur' \in [line : 0 .. Len(log)', mac : Macs \cup {NoMac}]
  <2>1. Len(log) \in Nat /\ cur.line \in 0 .. Len(log) /\ cur.mac \in Macs \cup {NoMac}
        /\ cur = [line |-> cur.line, mac |-> cur.mac]
    BY <1>1
  <2>2. cur.line \in 0 .. Len(log')
    BY <2>1, <1>3
  <2>3. QED BY <2>1, <2>2, <1>2
<1>6. Hand'
  BY <1>1, <1>2, <1>3 DEF Hand
<1>7. QED
  BY <1>1, <1>2, <1>4, <1>5, <1>6 DEF PlaceTypes

LEMMA NextLineType ==
    ASSUME TypeInv, pos < Len(log)
    PROVE  /\ pos + 1 \in DOMAIN log /\ NextLine \in Lines
           /\ NextLine.kind \in {"query", "ack"} /\ NextLine.ip \in Ips
           /\ NextLine.kind = "ack" => NextLine.mac \in Macs
<1>1. log \in Seq(Lines) /\ pos \in 0 .. Len(log)
  BY DEF TypeInv, WorldTypes, PlaceTypes
<1>2. pos + 1 \in DOMAIN log /\ NextLine \in Lines
  BY <1>1 DEF NextLine
<1>3. QED
  BY <1>2, QueryLine, AckLine

LEMMA LoadedLeases ==
    ASSUME TypeInv, LoadLeases
    PROVE  lcache' \in [map : [Ips -> Macs \cup {NoMac}], left : 0 .. LeaseRefresh]
<1>1. /\ leases \in [Ips -> Macs \cup {NoMac}] /\ LeaseRefresh \in 0 .. LeaseRefresh
      /\ lcache \in [map : [Ips -> Macs \cup {NoMac}], left : 0 .. LeaseRefresh]
      /\ 0 \in 0 .. LeaseRefresh
  BY Numbers DEF TypeInv, WorldTypes, MemoryTypes
<1>2. QED
  BY <1>1 DEF LoadLeases, OldLeases, NoLeases

LEMMA PlaceStep == TypeInv /\ [Next]_vars => PlaceTypes'
<1> SUFFICES ASSUME TypeInv, [Next]_vars PROVE PlaceTypes'
  OBVIOUS
<1>0. /\ log \in Seq(Lines) /\ Len(log) \in Nat /\ now \in Nat
      /\ saved \in 0 .. Len(log) /\ pos \in 0 .. Len(log)
      /\ pc \in {"down", "asleep", "reading", "query", "flood", "ack", "flag"}
      /\ start \in Nat
      /\ cur \in [line : 0 .. Len(log), mac : Macs \cup {NoMac}] /\ Hand
  BY DEF TypeInv, WorldTypes, PlaceTypes
<1>a. NoLine \in [line : 0 .. Len(log), mac : Macs \cup {NoMac}]
  BY <1>0 DEF NoLine
<1>1. CASE UNCHANGED <<log, saved, pc, start, pos, cur>>
  BY <1>0, <1>1 DEF PlaceTypes, Hand
<1>2. CASE Crash
  <2>1. UNCHANGED <<log, saved, start>> /\ pc' = "down" /\ pos' = saved /\ cur' = NoLine
    BY <1>2 DEF Crash, durable
  <2>2. QED BY <1>0, <1>a, <2>1 DEF PlaceTypes, Hand
<1>3. CASE Restart
  <2>1. UNCHANGED <<log, saved, pos, cur>> /\ pc' = "asleep" /\ start' = now
    BY <1>3 DEF Restart, durable
  <2>2. QED BY <1>0, <2>1 DEF PlaceTypes, Hand
<1>4. CASE RunOnce
  <2>1. UNCHANGED <<log, saved, start, cur>> /\ pc' = "reading" /\ pos' = saved
    BY <1>4 DEF RunOnce, durable
  <2>2. QED BY <1>0, <2>1 DEF PlaceTypes, Hand
<1>5. CASE EndOfFile
  <2>1. UNCHANGED <<log, pos, start, cur>> /\ pc' = "asleep" /\ saved' = pos
    BY <1>5 DEF EndOfFile
  <2>2. QED BY <1>0, <2>1 DEF PlaceTypes, Hand
<1>6. CASE SkipLine
  <2>1. UNCHANGED <<log, saved, pc, start, cur>> /\ pos' = pos + 1 /\ pos < Len(log)
    BY <1>6 DEF SkipLine, durable
  <2>2. QED BY <1>0, <2>1 DEF PlaceTypes, Hand
<1>7. CASE TakeLine
  <2>1. /\ UNCHANGED <<log, saved, start>> /\ pos < Len(log) /\ pos' = pos + 1
        /\ pc' = NextLine.kind /\ LoadLeases
        /\ cur' = [line |-> pos + 1,
                   mac  |-> IF NextLine.kind = "ack" THEN NextLine.mac
                            ELSE lcache'.map[NextLine.ip]]
    BY <1>7 DEF TakeLine, durable
  <2>2. /\ pos + 1 \in DOMAIN log /\ pos + 1 \in 0 .. Len(log)
        /\ NextLine.kind \in {"query", "ack"} /\ NextLine.ip \in Ips
        /\ NextLine.kind = "ack" => NextLine.mac \in Macs
    BY <1>0, <2>1, NextLineType
  <2>3. lcache'.map[NextLine.ip] \in Macs \cup {NoMac}
    BY <2>1, <2>2, LoadedLeases
  <2>4. cur' \in [line : 0 .. Len(log), mac : Macs \cup {NoMac}]
    BY <2>1, <2>2, <2>3
  <2>5. Hand'
    <3>1. cur'.line = pos + 1 /\ (NextLine.kind = "ack" => cur'.mac = NextLine.mac)
      BY <2>1
    <3>2. QED BY <2>1, <2>2, <3>1 DEF Hand, NextLine
  <2>6. QED BY <1>0, <2>1, <2>2, <2>4, <2>5 DEF PlaceTypes
<1>8. CASE QueryDone \/ FaultyQuery
  <2>1. UNCHANGED <<log, saved, start, pos, cur>> /\ pc = "query" /\ pc' = "flood"
    BY <1>8 DEF QueryDone, FaultyQuery
  <2>2. QED BY <1>0, <2>1 DEF PlaceTypes, Hand
<1>9. CASE CheckFlood \/ FlagDevice \/ (Lose /\ UNCHANGED pos)
  <2>1. UNCHANGED <<log, saved, start, pos>> /\ pc' = "reading" /\ cur' = NoLine
    BY <1>9 DEF CheckFlood, FlagDevice, Lose, durable
  <2>2. QED BY <1>0, <1>a, <2>1 DEF PlaceTypes, Hand
<1>10. CASE HandleAck
  <2>1. /\ UNCHANGED <<log, saved, start, pos>> /\ pc = "ack"
        /\ \/ pc' = "reading" /\ cur' = NoLine
           \/ pc' = "flag" /\ cur' = cur
    BY <1>10 DEF HandleAck
  <2>2. QED BY <1>0, <1>a, <2>1 DEF PlaceTypes, Hand
<1>11. ASSUME NEW ip \in Ips,
              (\E n \in Names : Query(ip, n)) \/ (\E m \in Macs : Lease(ip, m))
       PROVE  PlaceTypes'
  <2>1. \E line : log' = Append(log, line) /\ UNCHANGED <<saved, process>>
    BY <1>11 DEF Query, Lease, Write
  <2>2. QED BY <2>1, PlaceWrite
<1>12. QED
  BY <1>1, <1>2, <1>3, <1>4, <1>5, <1>6, <1>7, <1>8, <1>9, <1>10, <1>11, PlaceFrame

LEMMA MemoryFrame ==
    ASSUME [Next]_vars
    PROVE  \/ UNCHANGED <<seen, times, lcache, pcache>>
           \/ Tick \/ Crash \/ RunOnce \/ TakeLine \/ QueryDone \/ CheckFlood
           \/ DropFlood \/ (ReadPolicy /\ UNCHANGED <<seen, times, lcache>>)
BY DEF Next, Collect, World, vars, durable, process, history, bounds,
       PolicyAlert, DropNoise, UpdateSession, BumpPrior, LoseBump, MissSession, FaultyQuery,
       NewSession, SessionQuery,
       DropDevice, DropQuery, Lose, Restart, EndOfFile, SkipLine, HandleAck, FlagDevice,
       Query, Lease,
       EditPolicy, MarkKnown, RemoveKnown

LEMMA OldSnapshots ==
    /\ OldLeases \in [map : [Ips -> Macs \cup {NoMac}], left : 0 .. LeaseRefresh]
    /\ OldPolicy \in [lists : Policies, left : 0 .. Ttl]
    /\ NoPolicy \in Policies
BY Numbers DEF OldLeases, OldPolicy, NoLeases, NoPolicy, Policies

(* A snapshot a second later. *)
LEMMA Aged ==
    ASSUME NEW A, NEW n \in Nat,
           NEW x, x \in [map : A, left : 0 .. n], x.left > 1,
           NEW y, y = [x EXCEPT !.left = @ - 1]
    PROVE  y = [map |-> x.map, left |-> x.left - 1] /\ y \in [map : A, left : 0 .. n]
<1>1. y = [map |-> x.map, left |-> x.left - 1]
  OBVIOUS
<1>2. x.map \in A /\ x.left \in 0 .. n /\ x.left - 1 \in 0 .. n
  OBVIOUS
<1>3. QED
  BY <1>1, <1>2

LEMMA AgedPolicy ==
    ASSUME NEW A, NEW n \in Nat,
           NEW x, x \in [lists : A, left : 0 .. n], x.left > 1,
           NEW y, y = [x EXCEPT !.left = @ - 1]
    PROVE  y = [lists |-> x.lists, left |-> x.left - 1] /\ y \in [lists : A, left : 0 .. n]
<1>1. y = [lists |-> x.lists, left |-> x.left - 1]
  OBVIOUS
<1>2. x.lists \in A /\ x.left \in 0 .. n /\ x.left - 1 \in 0 .. n
  OBVIOUS
<1>3. QED
  BY <1>1, <1>2

LEMMA PolicyRead ==
    ASSUME TypeInv, ReadPolicy
    PROVE  pcache' \in [lists : Policies, left : 0 .. Ttl]
<1>1. /\ policy \in Policies /\ pcache \in [lists : Policies, left : 0 .. Ttl]
      /\ Ttl \in 0 .. Ttl
  BY Numbers DEF TypeInv, WorldTypes, MemoryTypes
<1>2. QED
  BY <1>1 DEF ReadPolicy

LEMMA LoadedPolicy ==
    ASSUME TypeInv, LoadPolicy
    PROVE  /\ pcache' \in [lists : Policies, left : 0 .. Ttl]
           /\ faults' \in 0 .. budget.faults
           /\ steady' = steady \/ steady' = [steady EXCEPT !.reads = 0]
<1>1. Ttl \in 0 .. Ttl /\ faults \in 0 .. budget.faults /\ budget.faults \in Nat
  BY Numbers, BudgetNumbers DEF TypeInv, BudgetTypes
<1>2. CASE ReadPolicy /\ UNCHANGED <<faults, steady>>
  BY <1>1, <1>2, PolicyRead
<1>3. CASE /\ faults < budget.faults /\ faults' = faults + 1
           /\ pcache' = [lists |-> NoPolicy, left |-> Ttl]
           /\ steady' = [steady EXCEPT !.reads = 0]
  BY <1>1, <1>3, OldSnapshots
<1>4. QED
  BY <1>2, <1>3, Zenon DEF LoadPolicy

LEMMA MemoryStep == TypeInv /\ [Next]_vars => MemoryTypes'
<1> SUFFICES ASSUME TypeInv, [Next]_vars PROVE MemoryTypes'
  OBVIOUS
<1>0. /\ seen \subseteq Lines /\ times \in [Macs -> SUBSET Nat]
      /\ lcache \in [map : [Ips -> Macs \cup {NoMac}], left : 0 .. LeaseRefresh]
      /\ pcache \in [lists : Policies, left : 0 .. Ttl]
  BY DEF TypeInv, MemoryTypes
<1>1. CASE UNCHANGED <<seen, times, lcache, pcache>>
  BY <1>0, <1>1 DEF MemoryTypes
<1>2. CASE Tick
  <2>1. /\ UNCHANGED <<seen, times>>
        /\ lcache' = IF lcache.left > 1 THEN [lcache EXCEPT !.left = @ - 1] ELSE OldLeases
        /\ pcache' = IF pcache.left > 1 THEN [pcache EXCEPT !.left = @ - 1] ELSE OldPolicy
    BY <1>2, Zenon DEF Tick
  <2>2. lcache' \in [map : [Ips -> Macs \cup {NoMac}], left : 0 .. LeaseRefresh]
    <3>1. CASE lcache.left > 1
      BY <1>0, <2>1, <3>1, Aged, Numbers
    <3>2. CASE ~(lcache.left > 1)
      BY <2>1, <3>2, OldSnapshots, Zenon
    <3>3. QED BY <3>1, <3>2
  <2>3. pcache' \in [lists : Policies, left : 0 .. Ttl]
    <3>1. CASE pcache.left > 1
      BY <1>0, <2>1, <3>1, AgedPolicy, Numbers
    <3>2. CASE ~(pcache.left > 1)
      BY <2>1, <3>2, OldSnapshots, Zenon
    <3>3. QED BY <3>1, <3>2
  <2>4. QED BY <1>0, <2>1, <2>2, <2>3, Zenon DEF MemoryTypes
<1>3. CASE Crash
  BY <1>3, OldSnapshots DEF Crash, MemoryTypes
<1>4. CASE RunOnce
  <2>1. LoadLeases /\ UNCHANGED <<seen, times, pcache>>
    BY <1>4 DEF RunOnce
  <2>2. QED BY <1>0, <2>1, LoadedLeases DEF MemoryTypes
<1>5. CASE TakeLine
  <2>1. /\ LoadLeases /\ UNCHANGED <<times, pcache>> /\ pos < Len(log)
        /\ seen' = (IF Cardinality(seen) >= SeenMax THEN {} ELSE seen) \cup {NextLine}
    BY <1>5 DEF TakeLine
  <2>2. NextLine \in Lines
    BY <2>1, NextLineType
  <2>3. seen' \subseteq Lines
    BY <1>0, <2>1, <2>2
  <2>4. QED BY <1>0, <2>1, <2>3, LoadedLeases DEF MemoryTypes
<1>6. CASE QueryDone
  <2>1. LoadPolicy /\ UNCHANGED <<seen, times, lcache>>
    BY <1>6 DEF QueryDone
  <2>2. QED BY <1>0, <2>1, LoadedPolicy DEF MemoryTypes
<1>7. CASE CheckFlood
  <2>1. pc = "flood" /\ UNCHANGED <<seen, lcache, pcache>>
    BY <1>7 DEF CheckFlood
  <2>2. times' = times \/ times' = [times EXCEPT ![cur.mac] = IF Flooding THEN {} ELSE Counted]
    BY <1>7, Zenon DEF CheckFlood
  <2>3. Counted \subseteq Nat \/ times' = times
    <3>1. CASE cur.mac = NoMac
      BY <1>7, <3>1 DEF CheckFlood
    <3>2. CASE cur.mac # NoMac
      BY <1>0, <2>1, <3>2, QueryInHand DEF Counted
    <3>3. QED BY <3>1, <3>2
  <2>4. times' \in [Macs -> SUBSET Nat]
    BY <1>0, <2>2, <2>3
  <2>5. QED BY <1>0, <2>1, <2>4 DEF MemoryTypes
<1>8. CASE ReadPolicy /\ UNCHANGED <<seen, times, lcache>>
  BY <1>0, <1>8, PolicyRead DEF MemoryTypes
<1>9. CASE DropFlood
  <2>1. UNCHANGED <<seen, lcache, pcache>> /\ times' = [times EXCEPT ![cur.mac] = {}]
    BY <1>9 DEF DropFlood, Lose
  <2>2. QED BY <1>0, <2>1 DEF MemoryTypes
<1>10. QED
  BY <1>1, <1>2, <1>3, <1>4, <1>5, <1>6, <1>7, <1>8, <1>9, MemoryFrame

LEMMA BudgetFrame ==
    ASSUME [Next]_vars
    PROVE  \/ UNCHANGED bounds
           \/ Crash \/ QueryDone
           \/ (/\ faults < budget.faults /\ faults' = faults + 1
               /\ UNCHANGED <<budget, crashes, edits>>)
           \/ (Edit /\ UNCHANGED <<budget, crashes, faults>>)
BY DEF Next, Collect, World, vars, durable, process, history, bounds,
       PolicyAlert, DropNoise, UpdateSession, BumpPrior, LoseBump, MissSession, FaultyQuery,
       NewSession, SessionQuery,
       DropQuery, DropFlood, DropDevice, Lose, Restart, EndOfFile, SkipLine, HandleAck,
       FlagDevice, Query, Lease, EditPolicy, MarkKnown, RemoveKnown, Tick, RunOnce,
       TakeLine, CheckFlood

LEMMA BudgetStep == TypeInv /\ [Next]_vars => BudgetTypes'
<1> SUFFICES ASSUME TypeInv, [Next]_vars PROVE BudgetTypes'
  OBVIOUS
<1>0. /\ budget \in Budgets /\ crashes \in 0 .. budget.crashes
      /\ faults \in 0 .. budget.faults /\ edits \in 0 .. budget.edits
      /\ budget.crashes \in Nat /\ budget.faults \in Nat /\ budget.edits \in Nat
  BY BudgetNumbers DEF TypeInv, BudgetTypes
<1>1. CASE UNCHANGED bounds
  BY <1>0, <1>1 DEF bounds, BudgetTypes
<1>2. CASE Crash
  <2>1. /\ crashes < budget.crashes /\ crashes' = crashes + 1
        /\ UNCHANGED <<budget, faults, edits>>
    BY <1>2 DEF Crash
  <2>2. QED BY <1>0, <2>1 DEF BudgetTypes
<1>3. CASE QueryDone
  <2>1. LoadPolicy /\ UNCHANGED <<budget, crashes, edits>>
    BY <1>3 DEF QueryDone
  <2>2. QED BY <1>0, <2>1, LoadedPolicy DEF BudgetTypes
<1>4. CASE /\ faults < budget.faults /\ faults' = faults + 1
           /\ UNCHANGED <<budget, crashes, edits>>
  BY <1>0, <1>4 DEF BudgetTypes
<1>5. CASE Edit /\ UNCHANGED <<budget, crashes, faults>>
  <2>1. edits < budget.edits /\ edits' = edits + 1 /\ UNCHANGED <<budget, crashes, faults>>
    BY <1>5 DEF Edit
  <2>2. QED BY <1>0, <2>1 DEF BudgetTypes
<1>6. QED
  BY <1>1, <1>2, <1>3, <1>4, <1>5, BudgetFrame

LEMMA HistoryFrame ==
    ASSUME [Next]_vars
    PROVE  \/ UNCHANGED history
           \/ Tick \/ Crash \/ QueryDone \/ CheckFlood \/ HandleAck \/ FlagDevice \/ DropFlood
           \/ \E ip \in Ips, m \in Macs : Lease(ip, m)
           \/ \E list \in {"forbidden", "noise"}, n \in Names : EditPolicy(list, n)
           \/ \E m \in Macs : RemoveKnown(m)
BY DEF Next, Collect, World, vars, durable, process, history, bounds,
       PolicyAlert, DropNoise, UpdateSession, BumpPrior, LoseBump, MissSession, FaultyQuery,
       NewSession, SessionQuery,
       DropQuery, DropDevice, Restart, EndOfFile, SkipLine, Query, MarkKnown, RunOnce,
       TakeLine, Lose

Steadies == [lease : [Ips -> 0 .. LeaseRefresh], policy : 0 .. Ttl, reads : 0 .. Ttl]
Devices == [Macs -> [marked : Nat, flagged : Nat, removed : Nat]]

(* One more event of a device. *)
LEMMA DeviceMarked ==
    ASSUME NEW d, d \in Devices, NEW m \in Macs,
           NEW e, e = [d EXCEPT ![m].marked = @ + 1]
    PROVE  e \in Devices
BY DEF Devices

LEMMA DeviceFlagged ==
    ASSUME NEW d, d \in Devices, NEW m \in Macs,
           NEW e, e = [d EXCEPT ![m].flagged = @ + 1]
    PROVE  e \in Devices
BY DEF Devices

LEMMA DeviceRemoved ==
    ASSUME NEW d, d \in Devices, NEW m \in Macs,
           NEW e, e = [d EXCEPT ![m].removed = @ + 1]
    PROVE  e \in Devices
BY DEF Devices

LEMMA Steadied ==
    ASSUME NEW s, s \in Steadies, NEW e
    PROVE  /\ e = [s EXCEPT !.policy = 0] => e \in Steadies
           /\ e = [s EXCEPT !.reads = 0] => e \in Steadies
           /\ \A ip \in Ips : e = [s EXCEPT !.lease[ip] = 0] => e \in Steadies
BY Numbers DEF Steadies

LEMMA HistoryStep == TypeInv /\ [Next]_vars => HistoryTypes'
<1> SUFFICES ASSUME TypeInv, [Next]_vars PROVE HistoryTypes'
  OBVIOUS
<1>0. /\ replayed \in BOOLEAN /\ floods \subseteq SUBSET Nat
      /\ quiet \in [Macs -> SUBSET Nat] /\ device \in Devices /\ steady \in Steadies
  BY DEF TypeInv, HistoryTypes, Devices, Steadies
<1>s. SUFFICES /\ replayed' \in BOOLEAN /\ floods' \subseteq SUBSET Nat
               /\ quiet' \in [Macs -> SUBSET Nat] /\ device' \in Devices
               /\ steady' \in Steadies
  BY DEF HistoryTypes, Devices, Steadies
<1>1. CASE UNCHANGED history
  BY <1>0, <1>1 DEF history
<1>2. CASE Tick
  <2>1. /\ UNCHANGED <<replayed, floods, quiet, device>>
        /\ steady' = [lease  |-> [ip \in Ips |-> OneMore(steady.lease[ip], LeaseRefresh)],
                      policy |-> OneMore(steady.policy, Ttl),
                      reads  |-> OneMore(steady.reads, Ttl)]
    BY <1>2 DEF Tick
  <2>2. /\ \A ip \in Ips : steady.lease[ip] \in 0 .. LeaseRefresh
        /\ steady.policy \in 0 .. Ttl /\ steady.reads \in 0 .. Ttl
    BY <1>0 DEF Steadies
  <2>3. \A n \in Nat : \A x \in 0 .. n : OneMore(x, n) \in 0 .. n
    BY DEF OneMore
  <2>4. steady' \in Steadies
    BY <2>1, <2>2, <2>3, Numbers DEF Steadies
  <2>5. QED BY <1>0, <2>1, <2>4
<1>3. CASE Crash
  <2>1. /\ replayed' = (replayed \/ pos # saved) /\ floods' = {}
        /\ quiet' = [m \in Macs |-> {}] /\ UNCHANGED <<device, steady>>
    BY <1>3 DEF Crash
  <2>2. QED BY <1>0, <2>1
<1>4. CASE QueryDone
  <2>1. LoadPolicy /\ UNCHANGED <<replayed, floods, quiet, device>>
    BY <1>4 DEF QueryDone
  <2>2. QED BY <1>0, <2>1, LoadedPolicy, Steadied
<1>5. CASE CheckFlood
  <2>1. pc = "flood" /\ UNCHANGED <<replayed, device, steady>>
    BY <1>5 DEF CheckFlood
  <2>2. CASE cur.mac = NoMac
    BY <1>0, <1>5, <2>1, <2>2 DEF CheckFlood
  <2>3. CASE cur.mac # NoMac
    <3>1. cur.line \in Nat /\ cur.mac \in Macs /\ times[cur.mac] \subseteq Nat
      BY <2>1, <2>3, QueryInHand DEF TypeInv, MemoryTypes
    <3>2. Counted \subseteq Nat
      BY <3>1 DEF Counted
    <3>3. /\ floods' = floods \cup (IF Flooding THEN {Counted} ELSE {})
          /\ quiet' = [quiet EXCEPT ![cur.mac] =
                         (@ \cup {cur.line}) \ (IF Flooding THEN Counted ELSE {})]
      BY <1>5, <2>3, Zenon DEF CheckFlood
    <3>4. floods' \subseteq SUBSET Nat
      BY <1>0, <3>2, <3>3
    <3>5. quiet' \in [Macs -> SUBSET Nat]
      <4>1. quiet[cur.mac] \subseteq Nat
        BY <1>0, <3>1
      <4>2. (quiet[cur.mac] \cup {cur.line}) \ (IF Flooding THEN Counted ELSE {}) \in SUBSET Nat
        BY <3>1, <4>1
      <4>3. QED BY <1>0, <3>1, <3>3, <4>2
    <3>6. QED BY <1>0, <2>1, <3>4, <3>5
  <2>4. QED BY <2>2, <2>3
<1>6. CASE HandleAck
  <2>1. pc = "ack" /\ UNCHANGED <<replayed, floods, quiet, steady>>
    BY <1>6 DEF HandleAck
  <2>2. cur.mac \in Macs
    BY <2>1 DEF TypeInv, PlaceTypes, Hand
  <2>3. device' = device \/ device' = [device EXCEPT ![cur.mac].marked = @ + 1]
    BY <1>6, Zenon DEF HandleAck
  <2>4. QED BY <1>0, <2>1, <2>2, <2>3, DeviceMarked
<1>7. CASE FlagDevice
  <2>1. /\ pc = "flag" /\ UNCHANGED <<replayed, floods, quiet, steady>>
        /\ device' = [device EXCEPT ![cur.mac].flagged = @ + 1]
    BY <1>7, Zenon DEF FlagDevice
  <2>2. cur.mac \in Macs
    BY <2>1 DEF TypeInv, PlaceTypes, Hand
  <2>3. device' \in Devices
    BY <1>0, <2>1, <2>2, DeviceFlagged
  <2>4. QED BY <1>0, <2>1, <2>3, Zenon
<1>8. CASE DropFlood
  <2>1. /\ pc = "flood" /\ UNCHANGED <<replayed, floods, device, steady>>
        /\ quiet' = [quiet EXCEPT ![cur.mac] = @ \cup {cur.line}]
    BY <1>8 DEF DropFlood, Lose
  <2>2. cur.line \in Nat
    BY <2>1, QueryInHand
  <2>3. QED BY <1>0, <2>1, <2>2
<1>9. ASSUME NEW ip \in Ips, NEW m \in Macs, Lease(ip, m)
      PROVE  /\ UNCHANGED <<replayed, floods, quiet, device>> /\ steady' \in Steadies
  <2>1. /\ UNCHANGED <<replayed, floods, quiet, device>>
        /\ steady' = steady \/ steady' = [steady EXCEPT !.lease[ip] = 0]
    BY <1>9, Zenon DEF Lease
  <2>2. QED BY <1>0, <2>1, Steadied
<1>10. ASSUME NEW list \in {"forbidden", "noise"}, NEW n \in Names, EditPolicy(list, n)
       PROVE  /\ UNCHANGED <<replayed, floods, quiet, device>> /\ steady' \in Steadies
  <2>1. /\ UNCHANGED <<replayed, floods, quiet, device>>
        /\ steady' = [steady EXCEPT !.policy = 0]
    BY <1>10, Zenon DEF EditPolicy
  <2>2. QED BY <1>0, <2>1, Steadied
<1>11. ASSUME NEW m \in Macs, RemoveKnown(m)
       PROVE  /\ UNCHANGED <<replayed, floods, quiet, steady>> /\ device' \in Devices
  <2>1. /\ UNCHANGED <<replayed, floods, quiet, steady>>
        /\ device' = [device EXCEPT ![m].removed = @ + 1]
    BY <1>11, Zenon DEF RemoveKnown
  <2>2. QED BY <1>0, <2>1, DeviceRemoved
<1>12. QED
  BY <1>0, <1>1, <1>2, <1>3, <1>4, <1>5, <1>6, <1>7, <1>8, <1>9, <1>10, <1>11, HistoryFrame

LEMMA TypeStep == TypeInv /\ [Next]_vars => TypeInv'
BY WorldStep, StoreStep, PlaceStep, MemoryStep, BudgetStep, HistoryStep DEF TypeInv

(* Every variable of the collector keeps its type, and whatever handler    *)
(* runs has a line of its kind in hand: no interleaving of kills, edits    *)
(* and failed writes leaves it with a line it cannot read.                 *)
THEOREM TypeCorrect == Spec => [](TypeOK /\ Hand)
<1>1. Spec => []TypeInv
  BY TypeInit, TypeStep, PTL DEF Spec
<1>2. QED
  BY <1>1, TypesSplit, PTL
-----------------------------------------------------------------------------
(* Devices: an entry of the collector's is in the inventory until it is    *)
(* removed there, and a report follows its entry.                          *)
Pending(m) == IF pc = "flag" /\ cur.mac = m THEN 1 ELSE 0
Present(m) == IF known[m] = "absent" THEN 0 ELSE 1

DeviceInv ==
    \A m \in Macs :
        /\ device[m].flagged + Pending(m) <= device[m].marked
        /\ device[m].marked <= device[m].removed + Present(m)
        /\ (crashes = 0 /\ faults = 0) =>
             device[m].marked = device[m].flagged + Pending(m)

LEMMA DeviceFrame ==
    ASSUME [Next]_vars
    PROVE  \/ UNCHANGED <<known, device, pc, cur, crashes, faults>>
           \/ (UNCHANGED <<known, device, crashes, faults>> /\ pc # "flag" /\ pc' # "flag")
           \/ TakeLine \/ QueryDone \/ FaultyQuery \/ Crash \/ Lose \/ HandleAck \/ FlagDevice
           \/ \E m \in Macs : MarkKnown(m) \/ RemoveKnown(m)
BY DEF Next, Collect, World, vars, durable, process, history, bounds, Edit,
       PolicyAlert, DropNoise, UpdateSession, BumpPrior, LoseBump, MissSession, NewSession,
       SessionQuery,
       DropQuery, DropFlood, DropDevice, Restart, RunOnce, EndOfFile, SkipLine,
       CheckFlood, Query, Lease, EditPolicy, Tick

LEMMA DeviceInit == Init => DeviceInv
BY DEF Init, DeviceInv, Pending, Present

LEMMA DeviceStep == TypeInv /\ DeviceInv /\ [Next]_vars => DeviceInv'
<1> SUFFICES ASSUME TypeInv, DeviceInv, [Next]_vars, NEW m \in Macs
             PROVE  /\ device'[m].flagged + Pending(m)' <= device'[m].marked
                    /\ device'[m].marked <= device'[m].removed + Present(m)'
                    /\ (crashes' = 0 /\ faults' = 0) =>
                         device'[m].marked = device'[m].flagged + Pending(m)'
  BY DEF DeviceInv
<1>0. /\ device \in Devices
      /\ known \in [Macs -> {"absent", "unknown", "labelled"}]
      /\ crashes \in Nat /\ faults \in Nat
  BY BudgetNumbers DEF TypeInv, HistoryTypes, Devices, WorldTypes, BudgetTypes
<1>1. /\ device[m].marked \in Nat /\ device[m].flagged \in Nat /\ device[m].removed \in Nat
      /\ device[m].flagged + Pending(m) <= device[m].marked
      /\ device[m].marked <= device[m].removed + Present(m)
      /\ (crashes = 0 /\ faults = 0) => device[m].marked = device[m].flagged + Pending(m)
      /\ Pending(m) \in {0, 1} /\ Present(m) \in {0, 1}
  BY <1>0 DEF DeviceInv, Devices, Pending, Present
<1>2. CASE UNCHANGED <<known, device, pc, cur, crashes, faults>>
  BY <1>1, <1>2 DEF Pending, Present
<1>3. CASE UNCHANGED <<known, device, crashes, faults>> /\ pc # "flag" /\ pc' # "flag"
  BY <1>1, <1>3 DEF Pending, Present
<1>4. CASE TakeLine
  <2>1. /\ pc = "reading" /\ pc' = NextLine.kind /\ pos < Len(log)
        /\ UNCHANGED <<known, device, crashes, faults>>
    BY <1>4 DEF TakeLine, durable, history, bounds
  <2>2. pc' # "flag"
    BY <2>1, NextLineType
  <2>3. QED BY <1>1, <2>1, <2>2 DEF Pending, Present
<1>5. CASE QueryDone \/ FaultyQuery
  <2>1. /\ pc = "query" /\ pc' = "flood" /\ UNCHANGED <<known, device, crashes>>
        /\ faults' = faults \/ faults' = faults + 1
    BY <1>5 DEF QueryDone, LoadPolicy, FaultyQuery, history
  <2>2. QED BY <1>0, <1>1, <2>1 DEF Pending, Present
<1>6. CASE Crash \/ Lose
  <2>1. /\ pc' \in {"down", "reading"} /\ UNCHANGED <<known, device>>
        /\ \/ crashes' = crashes + 1 \/ faults' = faults + 1
    BY <1>6 DEF Crash, Lose, durable
  <2>2. ~(crashes' = 0 /\ faults' = 0)
    BY <1>0, <2>1
  <2>3. QED BY <1>1, <2>1, <2>2 DEF Pending, Present
<1>7. CASE HandleAck
  <2>1. pc = "ack" /\ UNCHANGED <<crashes, faults>> /\ cur.mac \in Macs
    BY <1>7 DEF HandleAck, bounds, TypeInv, PlaceTypes, Hand
  <2>2. CASE known[cur.mac] # "absent"
    <3>1. pc' = "reading" /\ UNCHANGED <<known, device>>
      BY <1>7, <2>2, Zenon DEF HandleAck
    <3>2. QED BY <1>1, <2>1, <3>1 DEF Pending, Present
  <2>3. CASE known[cur.mac] = "absent"
    <3>1. /\ pc' = "flag" /\ cur' = cur
          /\ known' = [known EXCEPT ![cur.mac] = "unknown"]
          /\ device' = [device EXCEPT ![cur.mac].marked = @ + 1]
      BY <1>7, <2>3, Zenon DEF HandleAck
    <3>2. \A y \in Macs :
           /\ device'[y].marked = device[y].marked + (IF y = cur.mac THEN 1 ELSE 0)
           /\ device'[y].flagged = device[y].flagged /\ device'[y].removed = device[y].removed
      BY <1>0, <2>1, <3>1 DEF Devices
    <3>3. /\ known'[m] = IF m = cur.mac THEN "unknown" ELSE known[m]
          /\ Pending(m) = 0 /\ Pending(m)' = IF m = cur.mac THEN 1 ELSE 0
      BY <1>0, <2>1, <3>1 DEF Pending
    <3>4. Present(m)' = IF m = cur.mac THEN 1 ELSE Present(m)
      BY <3>3 DEF Present
    <3>5. m = cur.mac => Present(m) = 0
      BY <2>3 DEF Present
    <3>6. QED BY <1>1, <2>1, <3>2, <3>3, <3>4, <3>5
  <2>4. QED BY <2>2, <2>3
<1>8. CASE FlagDevice
  <2>1. /\ pc = "flag" /\ pc' = "reading" /\ UNCHANGED <<known, crashes, faults>>
        /\ device' = [device EXCEPT ![cur.mac].flagged = @ + 1]
    BY <1>8, Zenon DEF FlagDevice, durable, bounds
  <2>2. cur.mac \in Macs
    BY <2>1 DEF TypeInv, PlaceTypes, Hand
  <2>3. \A y \in Macs :
         /\ device'[y].flagged = device[y].flagged + (IF y = cur.mac THEN 1 ELSE 0)
         /\ device'[y].marked = device[y].marked /\ device'[y].removed = device[y].removed
    BY <1>0, <2>1, <2>2 DEF Devices
  <2>4. /\ Pending(m) = IF m = cur.mac THEN 1 ELSE 0
        /\ Pending(m)' = 0 /\ Present(m)' = Present(m)
    BY <2>1 DEF Pending, Present
  <2>5. QED BY <1>1, <2>1, <2>3, <2>4
<1>9. ASSUME NEW x \in Macs, MarkKnown(x)
      PROVE  /\ UNCHANGED <<device, crashes, faults>> /\ Pending(m)' = Pending(m)
             /\ Present(m)' = Present(m) \/ Present(m)' = 1
  <2>1. /\ UNCHANGED <<device, crashes, faults, pc, cur>>
        /\ known' = [known EXCEPT ![x] = "labelled"]
    BY <1>9 DEF MarkKnown, history, process
  <2>2. QED BY <1>0, <2>1 DEF Pending, Present
<1>10. ASSUME NEW x \in Macs, RemoveKnown(x)
       PROVE  /\ device'[m].removed = device[m].removed + (IF m = x THEN 1 ELSE 0)
              /\ device'[m].marked = device[m].marked
              /\ device'[m].flagged = device[m].flagged
              /\ UNCHANGED <<crashes, faults>> /\ Pending(m)' = Pending(m)
              /\ Present(m)' = IF m = x THEN 0 ELSE Present(m)
  <2>1. /\ UNCHANGED <<crashes, faults, pc, cur>>
        /\ known' = [known EXCEPT ![x] = "absent"]
        /\ device' = [device EXCEPT ![x].removed = @ + 1]
    BY <1>10, Zenon DEF RemoveKnown, process
  <2>2. \A y \in Macs :
         /\ device'[y].removed = device[y].removed + (IF y = x THEN 1 ELSE 0)
         /\ device'[y].marked = device[y].marked /\ device'[y].flagged = device[y].flagged
    BY <1>0, <2>1 DEF Devices
  <2>3. known'[m] = IF m = x THEN "absent" ELSE known[m]
    BY <1>0, <2>1
  <2>4. QED BY <2>1, <2>2, <2>3 DEF Pending, Present
<1>11. CASE \E x \in Macs : MarkKnown(x)
  BY <1>1, <1>9, <1>11
<1>12. CASE \E x \in Macs : RemoveKnown(x)
  BY <1>1, <1>10, <1>12
<1>13. QED
  BY <1>2, <1>3, <1>4, <1>5, <1>6, <1>7, <1>8, <1>11, <1>12, DeviceFrame

(* reconcile_mac: however kills, failed writes, other lines and the        *)
(* operator's edits fall, a device is entered and flagged at most once per *)
(* removal, and never entered without its report in an undisturbed run.    *)
THEOREM DevicesFlaggedOnce == Spec => []DeviceFlaggedOnce
<1>1. Spec => [](TypeInv /\ DeviceInv)
  <2>1. Init => TypeInv /\ DeviceInv
    BY TypeInit, DeviceInit
  <2>2. TypeInv /\ DeviceInv /\ [Next]_vars => (TypeInv /\ DeviceInv)'
    BY TypeStep, DeviceStep
  <2>3. QED BY <2>1, <2>2, PTL DEF Spec
<1>2. TypeInv /\ DeviceInv => DeviceFlaggedOnce
  <2> SUFFICES ASSUME TypeInv, DeviceInv, NEW m \in Macs
               PROVE  /\ device[m].flagged <= device[m].marked
                      /\ device[m].marked <= device[m].removed + 1
                      /\ (crashes = 0 /\ faults = 0) =>
                           device[m].marked = device[m].flagged + Pending(m)
    BY DEF DeviceFlaggedOnce, Pending
  <2>1. device[m].marked \in Nat /\ device[m].flagged \in Nat /\ device[m].removed \in Nat
    BY DEF TypeInv, HistoryTypes
  <2>2. Pending(m) \in {0, 1} /\ Present(m) \in {0, 1}
    BY DEF Pending, Present
  <2>3. QED BY <2>1, <2>2 DEF DeviceInv
<1>3. QED
  BY <1>1, <1>2, PTL
-----------------------------------------------------------------------------
(* Sessions: as long as no line is read twice, what is still to be counted *)
(* is not older than any row, so a row is only ever extended forwards, and *)
(* only the newest of its client and name.                                 *)
Ordered ==
    /\ \A i, j \in DOMAIN log : i <= j => log[i].at <= log[j].at
    /\ \A i \in DOMAIN log : log[i].at <= now

Placed ==
    /\ pc \in {"asleep", "down"} => pos = saved
    /\ pc = "query" => cur.line = pos

Ahead == {k \in DOMAIN log : k > pos \/ (pc = "query" /\ k = pos)}

RowsPast ==
    \A i \in DOMAIN sessions :
        /\ sessions[i].window = Window(sessions[i].first)
        /\ sessions[i].first <= sessions[i].last /\ sessions[i].last <= now
        /\ \A k \in Ahead : sessions[i].last <= log[k].at

Later(i, j) == i < j /\ Same(sessions[i], sessions[j]) /\ sessions[i].mac # NoMac

Between(i, j) == {k \in i .. j - 1 : sessions[k].mac = sessions[i].mac}

RowsApart ==
    \A i, j \in DOMAIN sessions : Later(i, j) =>
        /\ sessions[i].window < sessions[j].window
        /\ sessions[i].last <= sessions[j].first
        /\ Cardinality(Between(i, j)) <= ScanLimit =>
             sessions[i].last + Gap < sessions[j].first

Whole == ~replayed /\ faults = 0

SessionInv == Ordered /\ Placed /\ (Whole => RowsPast /\ RowsApart)

LEMMA SessionInit == Init => SessionInv
BY DEF Init, SessionInv, Ordered, Placed, RowsPast, RowsApart

(* The clock goes forward and the log grows at its end. *)
LEMMA LogStep ==
    ASSUME [Next]_vars
    PROVE  \/ UNCHANGED <<log, now>>
           \/ log' = log /\ now' = now + 1
           \/ /\ now' = now /\ UNCHANGED <<sessions, replayed, pc, pos, cur, saved>>
              /\ \E line : log' = Append(log, line) /\ line.at = now
<1>1. \/ UNCHANGED <<log, now>> \/ Tick
      \/ \E ip \in Ips : (\E n \in Names : Query(ip, n)) \/ (\E m \in Macs : Lease(ip, m))
  BY DEF Next, Collect, World, vars, durable, process, history, bounds, Crash, Restart,
         RunOnce, EndOfFile, SkipLine, TakeLine, PolicyAlert, DropNoise, UpdateSession,
         BumpPrior, LoseBump, MissSession, FaultyQuery, NewSession, SessionQuery,
         QueryDone, CheckFlood, HandleAck,
         FlagDevice, DropQuery, DropFlood, DropDevice, Lose, EditPolicy, MarkKnown, RemoveKnown
<1>2. CASE Tick
  BY <1>2, Zenon DEF Tick, durable
<1>3. ASSUME NEW ip \in Ips, NEW n \in Names, Query(ip, n)
      PROVE  /\ now' = now /\ UNCHANGED <<sessions, replayed, pc, pos, cur, saved>>
             /\ \E line : log' = Append(log, line) /\ line.at = now
  <2>1. [kind |-> "query", ip |-> ip, name |-> n, at |-> now].at = now
    OBVIOUS
  <2>2. log' = Append(log, [kind |-> "query", ip |-> ip, name |-> n, at |-> now])
    BY <1>3, Zenon DEF Query, Write
  <2>3. UNCHANGED <<now, sessions, replayed, pc, pos, cur, saved>>
    BY <1>3 DEF Query, process, history
  <2>4. QED BY <2>1, <2>2, <2>3, Zenon
<1>4. ASSUME NEW ip \in Ips, NEW m \in Macs, Lease(ip, m)
      PROVE  /\ now' = now /\ UNCHANGED <<sessions, replayed, pc, pos, cur, saved>>
             /\ \E line : log' = Append(log, line) /\ line.at = now
  <2>1. [kind |-> "ack", ip |-> ip, mac |-> m, at |-> now].at = now
    OBVIOUS
  <2>2. log' = Append(log, [kind |-> "ack", ip |-> ip, mac |-> m, at |-> now])
    BY <1>4, Zenon DEF Lease, Write
  <2>3. UNCHANGED <<now, sessions, replayed, pc, pos, cur, saved>>
    BY <1>4 DEF Lease, process
  <2>4. QED BY <2>1, <2>2, <2>3, Zenon
<1>5. QED
  BY <1>1, <1>2, <1>3, <1>4, Zenon

LEMMA LogTimes ==
    ASSUME TypeInv
    PROVE  /\ now \in Nat /\ Len(log) \in Nat /\ DOMAIN log = 1 .. Len(log)
           /\ \A k \in DOMAIN log : log[k].at \in Nat
<1>1. now \in Nat /\ log \in Seq(Lines)
  BY DEF TypeInv, WorldTypes
<1>2. \A x \in Lines : x.at \in Nat
  BY DEF Lines
<1>3. \A k \in DOMAIN log : log[k] \in Lines
  BY <1>1
<1>4. QED
  BY <1>1, <1>2, <1>3

LEMMA OrderedStep == TypeInv /\ Ordered /\ [Next]_vars => Ordered'
<1> SUFFICES ASSUME TypeInv, Ordered, [Next]_vars PROVE Ordered'
  OBVIOUS
<1>1. CASE UNCHANGED <<log, now>>
  BY <1>1 DEF Ordered
<1>2. CASE log' = log /\ now' = now + 1
  BY <1>2, LogTimes DEF Ordered
<1>3. ASSUME NEW line, log' = Append(log, line), line.at = now, now' = now
      PROVE  Ordered'
  <2>0. log \in Seq(Lines)
    BY DEF TypeInv, WorldTypes
  <2>1. /\ DOMAIN log' = 1 .. Len(log) + 1
        /\ \A k \in DOMAIN log : log'[k] = log[k]
        /\ log'[Len(log) + 1] = line
    BY <1>3, <2>0
  <2>2. \A k \in DOMAIN log' : log'[k].at <= now
    BY <1>3, <2>1, LogTimes DEF Ordered
  <2>3. \A i, j \in DOMAIN log' : i <= j => log'[i].at <= log'[j].at
    <3> SUFFICES ASSUME NEW i \in DOMAIN log', NEW j \in DOMAIN log', i <= j
                 PROVE  log'[i].at <= log'[j].at
      OBVIOUS
    <3>1. CASE j = Len(log) + 1
      BY <1>3, <2>1, <2>2, <3>1
    <3>2. CASE j # Len(log) + 1
      BY <2>1, <3>2, LogTimes DEF Ordered
    <3>3. QED BY <3>1, <3>2
  <2>4. QED BY <1>3, <2>2, <2>3 DEF Ordered
<1>4. QED
  BY <1>1, <1>2, <1>3, LogStep

LEMMA PlacedStep == TypeInv /\ Placed /\ [Next]_vars => Placed'
<1> SUFFICES ASSUME TypeInv, Placed, [Next]_vars PROVE Placed'
  OBVIOUS
<1>1. CASE UNCHANGED <<log, saved, pc, start, pos, cur>>
  BY <1>1 DEF Placed
<1>2. CASE Crash \/ Restart \/ RunOnce
  BY <1>2 DEF Crash, Restart, RunOnce, durable, Placed
<1>3. CASE EndOfFile \/ SkipLine
  BY <1>3 DEF EndOfFile, SkipLine, durable, Placed
<1>4. CASE TakeLine
  <2>1. /\ pos < Len(log) /\ pc' = NextLine.kind /\ pos' = pos + 1
        /\ cur' = [line |-> pos + 1,
                   mac  |-> IF NextLine.kind = "ack" THEN NextLine.mac
                            ELSE lcache'.map[NextLine.ip]]
    BY <1>4 DEF TakeLine
  <2>2. pc' \in {"query", "ack"} /\ cur'.line = pos'
    BY <2>1, NextLineType
  <2>3. QED BY <2>2 DEF Placed
<1>5. CASE \/ QueryDone \/ FaultyQuery \/ CheckFlood \/ HandleAck \/ FlagDevice
           \/ (Lose /\ UNCHANGED pos)
  BY <1>5 DEF QueryDone, FaultyQuery, CheckFlood, HandleAck, FlagDevice, Lose, Placed
<1>6. ASSUME NEW ip \in Ips,
             (\E n \in Names : Query(ip, n)) \/ (\E m \in Macs : Lease(ip, m))
      PROVE  UNCHANGED <<saved, pc, start, pos, cur>>
  BY <1>6 DEF Query, Lease, process
<1>7. CASE UNCHANGED <<saved, pc, start, pos, cur>>
  BY <1>7 DEF Placed
<1>8. QED
  BY <1>1, <1>2, <1>3, <1>4, <1>5, <1>6, <1>7, PlaceFrame

(* Nothing comes back to be counted, except what the log gets. *)
LEMMA AheadStep ==
    ASSUME TypeInv, Placed, [Next]_vars, ~replayed', log' = log
    PROVE  /\ Ahead' \subseteq Ahead
           /\ pc = "query" /\ pc' # "query" => \A k \in Ahead' : k > pos
<1>0. /\ pos \in Nat /\ DOMAIN log = 1 .. Len(log) /\ Len(log) \in Nat
      /\ \A k \in DOMAIN log : k \in Nat
  <2>1. pos \in 0 .. Len(log) /\ log \in Seq(Lines)
    BY DEF TypeInv, PlaceTypes, WorldTypes
  <2>2. QED BY <2>1
<1>1. CASE UNCHANGED <<log, saved, pc, start, pos, cur>>
  BY <1>1 DEF Ahead
<1>2. CASE Crash
  <2>1. pc' = "down" /\ pos' = saved /\ replayed' = (replayed \/ pos # saved)
    BY <1>2 DEF Crash
  <2>2. pos' = pos
    BY <2>1
  <2>3. QED BY <2>1, <2>2 DEF Ahead
<1>3. CASE Restart \/ RunOnce
  <2>1. pos' = pos /\ pc' # "query" /\ pc # "query"
    BY <1>3 DEF Restart, RunOnce, Placed
  <2>2. QED BY <2>1 DEF Ahead
<1>4. CASE EndOfFile \/ CheckFlood \/ HandleAck \/ FlagDevice
  <2>1. pos' = pos /\ pc' # "query" /\ pc # "query"
    BY <1>4 DEF EndOfFile, CheckFlood, HandleAck, FlagDevice
  <2>2. QED BY <2>1 DEF Ahead
<1>5. CASE SkipLine \/ TakeLine
  <2>1. pos' = pos + 1 /\ pc = "reading"
    BY <1>5 DEF SkipLine, TakeLine
  <2>2. QED BY <1>0, <2>1 DEF Ahead
<1>6. CASE QueryDone \/ FaultyQuery \/ (Lose /\ UNCHANGED pos)
  <2>1. pos' = pos /\ pc' # "query"
    BY <1>6 DEF QueryDone, FaultyQuery, Lose
  <2>2. QED BY <2>1 DEF Ahead
<1>7. ASSUME NEW ip \in Ips,
             (\E n \in Names : Query(ip, n)) \/ (\E m \in Macs : Lease(ip, m))
      PROVE  UNCHANGED <<pc, pos>>
  BY <1>7 DEF Query, Lease, process
<1>8. CASE UNCHANGED <<pc, pos>>
  BY <1>8 DEF Ahead
<1>9. QED
  BY <1>1, <1>2, <1>3, <1>4, <1>5, <1>6, <1>7, <1>8, PlaceFrame

LEMMA RowTypes ==
    ASSUME TypeInv, NEW i \in DOMAIN sessions
    PROVE  /\ sessions[i].first \in Nat /\ sessions[i].last \in Nat
           /\ sessions[i].window \in Int /\ sessions[i].mac \in Macs \cup {NoMac}
           /\ i \in Nat /\ i >= 1
<1>1. sessions \in Seq(Rows)
  BY DEF TypeInv, StoreTypes
<1>2. sessions[i] \in Rows /\ i \in Nat /\ i >= 1
  BY <1>1
<1>3. QED
  BY <1>2 DEF Rows

(* Rows that stay as they are stay in order. *)
LEMMA RowsKept ==
    ASSUME TypeInv, SessionInv, [Next]_vars, Whole, Whole', UNCHANGED sessions
    PROVE  RowsPast' /\ RowsApart'
<1>1. RowsPast /\ RowsApart /\ Placed
  BY DEF SessionInv
<1>2. RowsApart'
  <2>1. \A i, j : Later(i, j)' = Later(i, j)
    BY DEF Later, Same
  <2>2. \A i, j : Between(i, j)' = Between(i, j)
    BY Zenon DEF Between
  <2>3. QED BY <1>1, <2>1, <2>2 DEF RowsApart
<1>3. now \in Nat /\ now' \in Nat /\ now <= now'
  BY LogTimes, LogStep
<1>4. CASE log' = log
  <2>1. Ahead' \subseteq Ahead
    BY <1>1, <1>4, AheadStep DEF Whole
  <2>2. QED
    BY <1>1, <1>2, <1>3, <1>4, <2>1, RowTypes DEF RowsPast
<1>5. ASSUME NEW line, log' = Append(log, line), line.at = now, UNCHANGED <<now, pc, pos>>
      PROVE  RowsPast'
  <2>0. log \in Seq(Lines)
    BY DEF TypeInv, WorldTypes
  <2>1. /\ DOMAIN log' = DOMAIN log \cup {Len(log) + 1}
        /\ \A k \in DOMAIN log : log'[k] = log[k]
        /\ log'[Len(log) + 1] = line
    BY <1>5, <2>0
  <2>2. \A k \in Ahead' : (k \in Ahead /\ log'[k] = log[k]) \/ log'[k].at = now
    BY <1>5, <2>1 DEF Ahead
  <2>3. QED
    BY <1>1, <1>5, <2>2 DEF RowsPast
<1>6. QED
  BY <1>2, <1>4, <1>5, LogStep

(* The query in hand is as new as any row and not newer than what follows. *)
LEMMA QueryNow ==
    ASSUME TypeInv, Ordered, Placed, pc = "query"
    PROVE  /\ Line = log[pos] /\ Line.at \in Nat /\ Line.at <= now /\ pos \in Ahead
           /\ \A k \in DOMAIN log : k > pos => Line.at <= log[k].at
<1>1. /\ cur.line = pos /\ cur.line \in DOMAIN log /\ Line = log[pos] /\ Line.at \in Nat
      /\ pos \in Nat
  BY QueryInHand, LogTimes DEF Placed, Line
<1>2. pos \in DOMAIN log /\ Line.at = log[pos].at /\ pos \in Ahead
  BY <1>1 DEF Ahead
<1>3. \A k \in DOMAIN log : k > pos => pos <= k
  BY <1>1, LogTimes
<1>4. Line.at <= now /\ \A k \in DOMAIN log : k > pos => Line.at <= log[k].at
  BY <1>2, <1>3, Zenon DEF Ordered
<1>5. QED
  BY <1>1, <1>2, <1>4

LEMMA QueryStep ==
    ASSUME TypeInv, SessionInv, Whole, Whole', [Next]_vars, SessionQuery
    PROVE  /\ pc = "query" /\ UNCHANGED <<log, now>>
           /\ Line.at <= now /\ Line.at \in Nat
           /\ \A k \in Ahead' : k \in Ahead /\ Line.at <= log[k].at
           /\ \A i \in DOMAIN sessions : sessions[i].last <= Line.at
<1>1. pc = "query" /\ pc' # "query" /\ UNCHANGED <<log, now>>
  BY DEF SessionQuery, QueryDone
<1>2. RowsPast /\ Ordered /\ Placed
  BY DEF SessionInv
<1>3. Ahead' \subseteq Ahead /\ \A k \in Ahead' : k > pos
  BY <1>1, <1>2, AheadStep DEF Whole
<1>4. QED
  BY <1>1, <1>2, <1>3, QueryNow DEF RowsPast, Ahead

LEMMA WindowMonotone ==
    ASSUME NEW s \in Nat, NEW t \in Nat, s <= t
    PROVE  Window(s) <= Window(t)
BY DivMonotone, Numbers DEF Window

(* The newest row of its client and name is extended. *)
LEMMA RowsTouched ==
    ASSUME TypeInv, SessionInv, Whole, Whole', [Next]_vars, SessionQuery,
           NEW i \in DOMAIN sessions, Touch(i),
           \A j \in DOMAIN sessions : ~Later(i, j)
    PROVE  RowsPast' /\ RowsApart'
<1>0. RowsPast /\ RowsApart /\ pc = "query" /\ Line.at \in Nat /\ Line.at <= now
      /\ sessions \in Seq(Rows)
  BY QueryStep DEF SessionInv, TypeInv, StoreTypes
<1>1. /\ DOMAIN sessions' = DOMAIN sessions
      /\ \A h \in DOMAIN sessions :
           /\ sessions'[h].mac = sessions[h].mac /\ sessions'[h].name = sessions[h].name
           /\ sessions'[h].first = sessions[h].first
           /\ sessions'[h].window = sessions[h].window
           /\ sessions'[h].last = IF h = i THEN Line.at ELSE sessions[h].last
  <2> DEFINE e == Bumped(sessions[i])
  <2>1. /\ DOMAIN sessions' = DOMAIN sessions
        /\ \A j \in DOMAIN sessions : j # i => sessions'[j] = sessions[j]
        /\ sessions'[i] = e
    BY <1>0, Touched
  <2>2. e = [mac |-> sessions[i].mac, name |-> sessions[i].name,
             first |-> sessions[i].first, last |-> Line.at,
             count |-> sessions[i].count + 1, window |-> sessions[i].window,
             lines |-> sessions[i].lines \cup {cur.line}]
    BY <1>0, RowBumped
  <2> HIDE DEF e
  <2>3. /\ e.mac = sessions[i].mac /\ e.name = sessions[i].name
        /\ e.first = sessions[i].first /\ e.window = sessions[i].window
        /\ e.last = Line.at
    BY <2>2
  <2>4. QED BY <2>1, <2>3
<1>2. \A h \in DOMAIN sessions : sessions[h].last <= sessions'[h].last
  BY <1>1, QueryStep, RowTypes
<1>3. RowsPast'
  <2> SUFFICES ASSUME NEW h \in DOMAIN sessions
               PROVE  /\ sessions'[h].window = Window(sessions'[h].first)
                      /\ sessions'[h].first <= sessions'[h].last
                      /\ sessions'[h].last <= now'
                      /\ \A k \in Ahead' : sessions'[h].last <= log'[k].at
    BY <1>1 DEF RowsPast, Window
  <2>1. /\ sessions[h].window = Window(sessions[h].first)
        /\ sessions[h].first <= sessions[h].last /\ sessions[h].last <= now
        /\ \A k \in Ahead : sessions[h].last <= log[k].at
    BY <1>0 DEF RowsPast
  <2>2. sessions[h].first <= sessions'[h].last
    BY <1>1, <1>2, <2>1, <1>0, RowTypes
  <2>3. QED BY <1>1, <2>1, <2>2, QueryStep
<1>4. RowsApart'
  <2> SUFFICES ASSUME NEW g \in DOMAIN sessions, NEW j \in DOMAIN sessions, Later(g, j)'
               PROVE  /\ sessions'[g].window < sessions'[j].window
                      /\ sessions'[g].last <= sessions'[j].first
                      /\ Cardinality(Between(g, j)') <= ScanLimit =>
                           sessions'[g].last + Gap < sessions'[j].first
    BY <1>1 DEF RowsApart
  <2>1. Later(g, j)
    BY <1>1 DEF Later, Same
  <2>2. g # i
    BY <2>1
  <2>3. Between(g, j)' = Between(g, j)
    <3>1. \A k \in g .. j - 1 : k \in DOMAIN sessions
      <4>1. DOMAIN sessions = 1 .. Len(sessions) /\ Len(sessions) \in Nat
        BY <1>0
      <4>2. QED BY <4>1
    <3>2. QED BY <1>1, <3>1 DEF Between
  <2>4. QED BY <1>0, <1>1, <2>1, <2>2, <2>3 DEF RowsApart
<1>5. QED
  BY <1>3, <1>4

(* The limit on the rows that are looked at never hides a newer one. *)
LEMMA ScannedLater ==
    ASSUME TypeInv, NEW i \in DOMAIN sessions, NEW j \in DOMAIN sessions,
           Later(i, j), Scanned(i)
    PROVE  Scanned(j)
<1> DEFINE S == {k \in i .. Len(sessions) : sessions[k].mac = sessions[i].mac}
           T == {k \in j .. Len(sessions) : sessions[k].mac = sessions[j].mac}
<1>1. sessions \in Seq(Rows) /\ Len(sessions) \in Nat /\ i \in Nat /\ j \in Nat
  BY RowTypes DEF TypeInv, StoreTypes
<1>2. T \subseteq S
  BY <1>1 DEF Later, Same
<1>3. IsFiniteSet(S)
  <2>1. IsFiniteSet(i .. Len(sessions))
    BY <1>1, FS_Interval
  <2>2. S \subseteq i .. Len(sessions)
    OBVIOUS
  <2> HIDE DEF S
  <2>3. QED BY <2>1, <2>2, FS_Subset
<1>4. Cardinality(T) <= Cardinality(S) /\ Cardinality(S) \in Nat /\ Cardinality(T) \in Nat
  <2> HIDE DEF S, T
  <2>1. IsFiniteSet(T) /\ Cardinality(T) <= Cardinality(S)
    BY <1>2, <1>3, FS_Subset
  <2>2. QED BY <1>3, <2>1, FS_CardinalityType
<1>5. Cardinality(S) <= ScanLimit
  BY DEF Scanned
<1>6. QED
  <2>1. Cardinality(T) <= ScanLimit
    <3> HIDE DEF S, T
    <3> QED BY <1>4, <1>5, Numbers
  <2>2. QED BY <2>1, Zenon DEF Scanned

LEMMA OpenRowNewest ==
    ASSUME TypeInv, RowsPast, RowsApart, Line.at \in Nat,
           NEW i \in OpenRows, \A j \in OpenRows : j <= i, NEW j \in DOMAIN sessions
    PROVE  ~Later(i, j)
<1> SUFFICES ASSUME Later(i, j) PROVE FALSE
  OBVIOUS
<1>1. /\ i \in DOMAIN sessions /\ cur.mac # NoMac
      /\ sessions[i].mac = cur.mac /\ sessions[i].name = Line.name
      /\ Scanned(i) /\ Line.at - sessions[i].last <= Gap
  BY DEF OpenRows
<1>2. Scanned(j)
  BY <1>1, ScannedLater
<1>3. sessions[i].last <= sessions[j].first /\ sessions[j].first <= sessions[j].last
  BY <1>1 DEF RowsApart, RowsPast
<1>4. Line.at - sessions[j].last <= Gap
  BY <1>1, <1>3, RowTypes, Numbers
<1>5. sessions[j].mac = cur.mac /\ sessions[j].name = Line.name
  BY <1>1 DEF Later, Same
<1>6. j \in OpenRows
  BY <1>1, <1>2, <1>4, <1>5 DEF OpenRows
<1>7. QED
  BY <1>1, <1>6, RowTypes DEF Later

LEMMA HashRowNewest ==
    ASSUME TypeInv, RowsPast, RowsApart, Line.at \in Nat,
           \A h \in DOMAIN sessions : sessions[h].last <= Line.at,
           cur.mac # NoMac, NEW i \in HashRows, NEW j \in DOMAIN sessions
    PROVE  ~Later(i, j)
<1> SUFFICES ASSUME Later(i, j) PROVE FALSE
  OBVIOUS
<1>1. i \in DOMAIN sessions /\ sessions[i].window = Window(Line.at)
  BY DEF HashRows
<1>2. /\ sessions[i].window < sessions[j].window
      /\ sessions[j].window = Window(sessions[j].first)
      /\ sessions[j].first <= sessions[j].last /\ sessions[j].last <= Line.at
  BY <1>1 DEF RowsApart, RowsPast
<1>3. sessions[j].first <= Line.at
  BY <1>2, RowTypes
<1>4. Window(sessions[j].first) <= Window(Line.at)
  BY <1>3, WindowMonotone, RowTypes
<1>5. QED
  BY <1>1, <1>2, <1>4, WindowType, RowTypes

(* A new row is a new stretch of activity. *)
LEMMA RowsNew ==
    ASSUME TypeInv, SessionInv, Whole, Whole', [Next]_vars, NewSession
    PROVE  RowsPast' /\ RowsApart'
<1> DEFINE new == [mac |-> cur.mac, name |-> Line.name, first |-> Line.at,
                   last |-> Line.at, count |-> 1, window |-> Window(Line.at),
                   lines |-> {cur.line}]
           n == Len(sessions) + 1
<1>0. /\ SessionQuery /\ OpenRows = {} /\ HashRows = {}
      /\ sessions' = Append(sessions, new)
  BY DEF NewSession, Insert
<1>1. RowsPast /\ RowsApart /\ sessions \in Seq(Rows) /\ Line.at \in Nat
      /\ cur.mac \in Macs \cup {NoMac} /\ pc = "query"
  BY <1>0, QueryStep, QueryInHand DEF SessionInv, TypeInv, StoreTypes
<1>2. /\ new.mac = cur.mac /\ new.name = Line.name /\ new.first = Line.at
      /\ new.last = Line.at /\ new.window = Window(Line.at)
  OBVIOUS
<1> HIDE DEF new
<1>3. /\ DOMAIN sessions = 1 .. Len(sessions) /\ Len(sessions) \in Nat
      /\ DOMAIN sessions' = DOMAIN sessions \cup {n}
      /\ \A h \in DOMAIN sessions : sessions'[h] = sessions[h]
      /\ sessions'[n] = new
  BY <1>0, <1>1
<1>4. RowsPast'
  <2>1. ASSUME NEW h \in DOMAIN sessions
        PROVE  /\ sessions'[h].window = Window(sessions'[h].first)
               /\ sessions'[h].first <= sessions'[h].last
               /\ sessions'[h].last <= now'
               /\ \A k \in Ahead' : sessions'[h].last <= log'[k].at
    BY <1>0, <1>1, <1>3, QueryStep DEF RowsPast
  <2>2. /\ sessions'[n].window = Window(sessions'[n].first)
        /\ sessions'[n].first <= sessions'[n].last
        /\ sessions'[n].last <= now'
        /\ \A k \in Ahead' : sessions'[n].last <= log'[k].at
    BY <1>0, <1>1, <1>2, <1>3, QueryStep
  <2>3. QED BY <1>3, <2>1, <2>2 DEF RowsPast, Window
<1>5. ASSUME NEW g \in DOMAIN sessions', NEW j \in DOMAIN sessions', Later(g, j)'
      PROVE  /\ sessions'[g].window < sessions'[j].window
             /\ sessions'[g].last <= sessions'[j].first
             /\ Cardinality(Between(g, j)') <= ScanLimit =>
                  sessions'[g].last + Gap < sessions'[j].first
  <2>1. g \in DOMAIN sessions /\ g < j
    BY <1>3, <1>5 DEF Later
  <2>2. Between(g, j)' = {k \in g .. j - 1 : sessions[k].mac = sessions[g].mac}
    <3>1. \A k \in g .. j - 1 : k \in DOMAIN sessions
      BY <1>3, <2>1
    <3>2. QED BY <1>3, <2>1, <3>1 DEF Between
  <2>3. CASE j \in DOMAIN sessions
    BY <1>1, <1>3, <1>5, <2>1, <2>2, <2>3 DEF RowsApart, Later, Same, Between
  <2>4. CASE j = n
    <3>1. /\ sessions[g].mac = cur.mac /\ sessions[g].name = Line.name
          /\ cur.mac # NoMac
      BY <1>2, <1>3, <1>5, <2>1, <2>4 DEF Later, Same
    <3>2. /\ sessions[g].window = Window(sessions[g].first)
          /\ sessions[g].first <= sessions[g].last /\ sessions[g].last <= Line.at
      BY <1>0, <1>1, <2>1, QueryStep DEF RowsPast
    <3>3. sessions[g].window # Window(Line.at)
      BY <1>0, <2>1, <3>1 DEF HashRows
    <3>4. sessions[g].window < Window(Line.at)
      <4>1. sessions[g].first <= Line.at
        BY <1>1, <2>1, <3>2, RowTypes
      <4>2. Window(sessions[g].first) <= Window(Line.at)
        BY <1>1, <2>1, <4>1, WindowMonotone, RowTypes
      <4>3. QED BY <1>1, <2>1, <3>2, <3>3, <4>2, WindowType, RowTypes
    <3>5. Between(g, j)' = {k \in g .. Len(sessions) : sessions[k].mac = sessions[g].mac}
      BY <1>3, <2>2, <2>4
    <3>6. Cardinality(Between(g, j)') <= ScanLimit => Scanned(g)
      BY <3>5, Zenon DEF Scanned
    <3>7. Scanned(g) => ~(Line.at - sessions[g].last <= Gap)
      BY <1>0, <2>1, <3>1 DEF OpenRows
    <3>8. Scanned(g) => sessions[g].last + Gap < Line.at
      BY <1>1, <2>1, <3>7, RowTypes, Numbers
    <3>9. QED BY <1>2, <1>3, <2>1, <2>4, <3>2, <3>4, <3>6, <3>8
  <2>5. QED BY <1>3, <2>3, <2>4
<1>6. QED
  BY <1>4, <1>5 DEF RowsApart

LEMMA SessionStep == TypeInv /\ SessionInv /\ [Next]_vars => SessionInv'
<1> SUFFICES ASSUME TypeInv, SessionInv, [Next]_vars PROVE SessionInv'
  OBVIOUS
<1>1. Ordered' /\ Placed'
  BY OrderedStep, PlacedStep DEF SessionInv
<1>2. Whole' => Whole
  <2>1. replayed => replayed'
    BY DEF Next, Collect, World, vars, durable, process, history, bounds, Crash, Restart,
           RunOnce, EndOfFile, SkipLine, TakeLine, PolicyAlert, DropNoise, UpdateSession,
           BumpPrior, LoseBump, MissSession, FaultyQuery, NewSession, SessionQuery,
           QueryDone, CheckFlood, HandleAck, FlagDevice, DropQuery, DropFlood, DropDevice,
           Lose, Tick, Query, Lease, EditPolicy, MarkKnown, RemoveKnown
  <2>2. faults' = faults \/ faults' = faults + 1
    BY BudgetFrame DEF bounds, Crash, QueryDone, LoadPolicy
  <2>3. faults \in Nat
    BY BudgetNumbers DEF TypeInv, BudgetTypes
  <2>4. QED BY <2>1, <2>2, <2>3 DEF Whole
<1>3. ASSUME Whole' PROVE RowsPast' /\ RowsApart'
  <2>0. Whole /\ RowsPast /\ RowsApart
    BY <1>2, <1>3 DEF SessionInv
  <2>1. CASE UNCHANGED sessions
    BY <1>3, <2>0, <2>1, RowsKept
  <2>2. CASE UpdateSession
    <3>1. SessionQuery
      BY <2>2 DEF UpdateSession
    <3>2. PICK i \in OpenRows : (\A j \in OpenRows : j <= i) /\ Touch(i)
      BY <2>2 DEF UpdateSession
    <3>3. i \in DOMAIN sessions
      BY DEF OpenRows
    <3>4. \A j \in DOMAIN sessions : ~Later(i, j)
      BY <1>3, <2>0, <3>1, <3>2, QueryStep, OpenRowNewest
    <3>5. QED BY <1>3, <2>0, <3>1, <3>2, <3>3, <3>4, RowsTouched
  <2>3. CASE BumpPrior
    <3>1. SessionQuery
      BY <2>3 DEF BumpPrior
    <3>2. PICK i \in HashRows : Touch(i)
      BY <2>3 DEF BumpPrior, Bump
    <3>3. i \in DOMAIN sessions /\ sessions[i].mac = cur.mac
      BY DEF HashRows
    <3>4. \A j \in DOMAIN sessions : ~Later(i, j)
      <4>1. CASE cur.mac = NoMac
        BY <3>3, <4>1 DEF Later
      <4>2. CASE cur.mac # NoMac
        BY <1>3, <2>0, <3>1, <4>2, QueryStep, HashRowNewest
      <4>3. QED BY <4>1, <4>2
    <3>5. QED BY <1>3, <2>0, <3>1, <3>2, <3>3, <3>4, RowsTouched
  <2>4. CASE NewSession
    BY <1>3, <2>0, <2>4, RowsNew
  <2>5. ~MissSession
    <3>1. faults \in Nat /\ faults' = 0
      BY <1>3, BudgetNumbers DEF TypeInv, BudgetTypes, Whole
    <3>2. QED BY <3>1 DEF MissSession, FaultyQuery
  <2>6. QED
    BY <2>1, <2>2, <2>3, <2>4, <2>5, StoreFrame DEF PolicyAlert
<1>4. QED
  BY <1>1, <1>3 DEF SessionInv

(* Sessions: for any log, any gap and limit, and whatever edits and kills  *)
(* between passes come in between, two rows of a client and a name are     *)
(* more than the gap apart.                                                *)
THEOREM SessionsStayApart == Spec => []SessionsApart
<1>1. Spec => [](TypeInv /\ SessionInv)
  <2>1. Init => TypeInv /\ SessionInv
    BY TypeInit, SessionInit
  <2>2. TypeInv /\ SessionInv /\ [Next]_vars => (TypeInv /\ SessionInv)'
    BY TypeStep, SessionStep
  <2>3. QED BY <2>1, <2>2, PTL DEF Spec
<1>2. SessionInv => SessionsApart
  BY DEF SessionInv, Whole, RowsApart, SessionsApart, Later, Between
<1>3. QED
  BY <1>1, <1>2, PTL
-----------------------------------------------------------------------------
(* Counting: a line is added to a row at most once, when it is in hand, and what
   a pass has behind it is not read again. *)
Behind == DOMAIN log \ Ahead

RowsCounted ==
    \A i \in DOMAIN sessions :
        /\ sessions[i].lines \subseteq Behind
        /\ sessions[i].count = Cardinality(sessions[i].lines)
        /\ \A j \in DOMAIN sessions :
              i # j => sessions[i].lines \cap sessions[j].lines = {}

(* Without a kill the collector never starts again, and without an edit every
   snapshot of the policy is empty. *)
Calm ==
    /\ crashes = 0 => ~replayed /\ start = 0 /\ pc # "down"
    /\ edits = 0 => policy = NoPolicy /\ pcache.lists = NoPolicy

Undisturbed == crashes = 0 /\ faults = 0 /\ edits = 0

InRow(x) == \E i \in DOMAIN sessions : \E l \in sessions[i].lines : log[l] = x

(* Every query behind has a row that counts it or an equal one; so has every
   query that will be skipped as seen. *)
NoneMissed ==
    /\ \A k \in Behind : log[k].kind = "query" => InRow(log[k])
    /\ \A x \in seen : x.kind = "query" => InRow(x) \/ (pc = "query" /\ x = Line)

CountInv == (~replayed => RowsCounted) /\ Calm /\ (Undisturbed => NoneMissed)

LEMMA CountInit == Init => CountInv
<1> SUFFICES ASSUME Init PROVE CountInv
  OBVIOUS
<1>1. sessions = <<>> /\ seen = {} /\ log = <<>>
  BY DEF Init
<1>2. Behind = {}
  BY <1>1 DEF Behind
<1>3. RowsCounted
  BY <1>1 DEF RowsCounted
<1>4. Calm
  BY DEF Init, Calm, OldPolicy
<1>5. NoneMissed
  BY <1>1, <1>2 DEF NoneMissed
<1>6. QED
  BY <1>3, <1>4, <1>5 DEF CountInv

(* The log only grows, and what is read stays behind. *)
LEMMA LogKept ==
    ASSUME TypeInv, [Next]_vars
    PROVE  /\ DOMAIN log \subseteq DOMAIN log'
           /\ \A k \in DOMAIN log : log'[k] = log[k]
<1>1. log \in Seq(Lines)
  BY DEF TypeInv, WorldTypes
<1>2. ASSUME NEW line, log' = Append(log, line)
      PROVE  DOMAIN log \subseteq DOMAIN log' /\ \A k \in DOMAIN log : log'[k] = log[k]
  BY <1>1, <1>2
<1>3. QED
  BY <1>2, LogStep

LEMMA BehindStep ==
    ASSUME TypeInv, Placed, [Next]_vars, ~replayed'
    PROVE  Behind \subseteq Behind'
<1>1. CASE log' = log
  BY <1>1, AheadStep DEF Behind
<1>2. CASE UNCHANGED <<pc, pos>>
  BY <1>2, LogKept DEF Behind, Ahead
<1>3. QED
  BY <1>1, <1>2, LogStep

LEMMA BehindFinite ==
    ASSUME TypeInv, NEW S, S \subseteq DOMAIN log
    PROVE  IsFiniteSet(S) /\ Cardinality(S) \in Nat
<1>1. log \in Seq(Lines)
  BY DEF TypeInv, WorldTypes
<1>2. DOMAIN log = 1 .. Len(log) /\ Len(log) \in Nat
  BY <1>1
<1>3. IsFiniteSet(1 .. Len(log))
  BY <1>2, FS_Interval
<1>4. QED
  BY <1>2, <1>3, FS_Subset, FS_CardinalityType

(* The query in hand goes behind when it is counted, by whichever statement. *)
LEMMA QueryCounted ==
    ASSUME TypeInv, Placed, [Next]_vars, ~replayed', QueryDone \/ FaultyQuery
    PROVE  /\ pc = "query" /\ log' = log /\ cur.line \in Ahead
           /\ Behind \cup {cur.line} \subseteq Behind'
<1>1. pc = "query" /\ pc' = "flood" /\ log' = log
  BY DEF QueryDone, FaultyQuery
<1>2. cur.line = pos /\ pos \in DOMAIN log /\ pos \in Nat
  BY <1>1, QueryInHand, LogTimes DEF Placed
<1>3. pos \notin Ahead'
  BY <1>1, <1>2, AheadStep
<1>4. QED
  BY <1>1, <1>2, <1>3, BehindStep DEF Behind, Ahead

LEMMA CountTouched ==
    ASSUME TypeInv, RowsCounted, pc = "query", cur.line \in Ahead,
           Behind \cup {cur.line} \subseteq Behind', NEW i \in DOMAIN sessions, Touch(i)
    PROVE  RowsCounted'
<1> DEFINE e == Bumped(sessions[i])
<1>1. /\ DOMAIN sessions' = DOMAIN sessions
      /\ \A j \in DOMAIN sessions : j # i => sessions'[j] = sessions[j]
      /\ sessions'[i] = e /\ sessions[i] \in Rows
  BY Touched DEF TypeInv, StoreTypes
<1>2. e = [mac |-> sessions[i].mac, name |-> sessions[i].name,
           first |-> sessions[i].first, last |-> Line.at,
           count |-> sessions[i].count + 1, window |-> sessions[i].window,
           lines |-> sessions[i].lines \cup {cur.line}]
  BY <1>1, RowBumped
<1> HIDE DEF e
<1>3. /\ sessions'[i].count = sessions[i].count + 1
      /\ sessions'[i].lines = sessions[i].lines \cup {cur.line}
  BY <1>1, <1>2
<1>4. \A j \in DOMAIN sessions : /\ sessions[j].lines \subseteq Behind
                                 /\ cur.line \notin sessions[j].lines
  BY DEF RowsCounted, Behind
<1>5. Cardinality(sessions'[i].lines) = sessions'[i].count
  <2>1. IsFiniteSet(sessions[i].lines) /\ sessions[i].count = Cardinality(sessions[i].lines)
    BY <1>4, BehindFinite DEF RowsCounted, Behind
  <2>2. QED
    BY <1>3, <1>4, <2>1, FS_AddElement
<1>6. ASSUME NEW g \in DOMAIN sessions, NEW j \in DOMAIN sessions, g # j
      PROVE  sessions'[g].lines \cap sessions'[j].lines = {}
  BY <1>1, <1>3, <1>4, <1>6 DEF RowsCounted
<1>7. ASSUME NEW j \in DOMAIN sessions
      PROVE  /\ sessions'[j].lines \subseteq Behind'
             /\ sessions'[j].count = Cardinality(sessions'[j].lines)
  BY <1>1, <1>3, <1>4, <1>5 DEF RowsCounted
<1>8. QED
  BY <1>1, <1>6, <1>7, Zenon DEF RowsCounted

LEMMA CountInserted ==
    ASSUME TypeInv, RowsCounted, cur.line \in Ahead,
           Behind \cup {cur.line} \subseteq Behind', Insert
    PROVE  /\ RowsCounted'
           /\ DOMAIN sessions \subseteq DOMAIN sessions'
           /\ \A i \in DOMAIN sessions : sessions'[i] = sessions[i]
           /\ \E i \in DOMAIN sessions' : cur.line \in sessions'[i].lines
<1> DEFINE new == [mac |-> cur.mac, name |-> Line.name, first |-> Line.at,
                   last |-> Line.at, count |-> 1, window |-> Window(Line.at),
                   lines |-> {cur.line}]
           n == Len(sessions) + 1
<1>1. sessions \in Seq(Rows) /\ sessions' = Append(sessions, new)
  BY DEF TypeInv, StoreTypes, Insert
<1>2. new.count = 1 /\ new.lines = {cur.line}
  OBVIOUS
<1> HIDE DEF new
<1>3. /\ DOMAIN sessions' = DOMAIN sessions \cup {n} /\ n \notin DOMAIN sessions
      /\ \A i \in DOMAIN sessions : sessions'[i] = sessions[i]
      /\ sessions'[n] = new
  BY <1>1
<1>4. \A j \in DOMAIN sessions : /\ sessions[j].lines \subseteq Behind
                                 /\ cur.line \notin sessions[j].lines
  BY DEF RowsCounted, Behind
<1>5. Cardinality({cur.line}) = 1
  BY FS_Singleton
<1>6. ASSUME NEW g \in DOMAIN sessions', NEW j \in DOMAIN sessions', g # j
      PROVE  sessions'[g].lines \cap sessions'[j].lines = {}
  BY <1>2, <1>3, <1>4, <1>6 DEF RowsCounted
<1>7. ASSUME NEW j \in DOMAIN sessions'
      PROVE  /\ sessions'[j].lines \subseteq Behind'
             /\ sessions'[j].count = Cardinality(sessions'[j].lines)
  BY <1>2, <1>3, <1>4, <1>5 DEF RowsCounted
<1>8. RowsCounted'
  BY <1>6, <1>7, Zenon DEF RowsCounted
<1>9. QED
  BY <1>2, <1>3, <1>8

LEMMA RowsCountedStep ==
    ASSUME TypeInv, Placed, RowsCounted, [Next]_vars, ~replayed'
    PROVE  RowsCounted'
<1>1. CASE UNCHANGED sessions
  BY <1>1, BehindStep DEF RowsCounted
<1>2. ASSUME QueryDone \/ FaultyQuery, NEW i \in DOMAIN sessions, Touch(i)
      PROVE  RowsCounted'
  BY <1>2, QueryCounted, CountTouched
<1>3. ASSUME QueryDone \/ FaultyQuery, Insert PROVE RowsCounted'
  BY <1>3, QueryCounted, CountInserted
<1>4. CASE UpdateSession
  BY <1>2, <1>4 DEF UpdateSession, SessionQuery, OpenRows
<1>5. CASE BumpPrior \/ NewSession
  BY <1>2, <1>3, <1>5 DEF BumpPrior, NewSession, SessionQuery, Bump, HashRows
<1>6. CASE MissSession
  BY <1>2, <1>3, <1>6 DEF MissSession, Bump, HashRows
<1>7. QED
  BY <1>1, <1>4, <1>5, <1>6, StoreFrame DEF PolicyAlert

(* What a row has counted stays counted. *)
LEMMA InRowKept ==
    ASSUME TypeInv, Placed, RowsCounted, [Next]_vars, ~replayed', NEW x, InRow(x)
    PROVE  InRow(x)'
<1>1. PICK i \in DOMAIN sessions : \E l \in sessions[i].lines : log[l] = x
  BY DEF InRow
<1>l. PICK l \in sessions[i].lines : log[l] = x
  BY <1>1
<1>2. l \in DOMAIN log
  BY <1>l DEF RowsCounted, Behind
<1>3. SUFFICES i \in DOMAIN sessions' /\ sessions[i].lines \subseteq sessions'[i].lines
  BY <1>l, <1>2, LogKept DEF InRow
<1>4. CASE UNCHANGED sessions
  BY <1>1, <1>4
<1>5. ASSUME pc = "query", NEW j \in DOMAIN sessions, Touch(j)
      PROVE  i \in DOMAIN sessions' /\ sessions[i].lines \subseteq sessions'[i].lines
  <2> DEFINE e == Bumped(sessions[j])
  <2>1. /\ DOMAIN sessions' = DOMAIN sessions
        /\ \A h \in DOMAIN sessions : h # j => sessions'[h] = sessions[h]
        /\ sessions'[j] = e /\ sessions[j] \in Rows
    BY <1>5, Touched DEF TypeInv, StoreTypes
  <2>2. e = [mac |-> sessions[j].mac, name |-> sessions[j].name,
             first |-> sessions[j].first, last |-> Line.at,
             count |-> sessions[j].count + 1, window |-> sessions[j].window,
             lines |-> sessions[j].lines \cup {cur.line}]
    BY <2>1, RowBumped
  <2> HIDE DEF e
  <2>3. e.lines = sessions[j].lines \cup {cur.line}
    BY <2>2
  <2>4. QED
    BY <1>1, <2>1, <2>3
<1>6. ASSUME QueryDone \/ FaultyQuery, Insert
      PROVE  i \in DOMAIN sessions' /\ sessions[i].lines \subseteq sessions'[i].lines
  BY <1>1, <1>6, QueryCounted, CountInserted
<1>7. CASE UpdateSession
  BY <1>5, <1>7 DEF UpdateSession, SessionQuery, QueryDone, OpenRows
<1>8. CASE BumpPrior \/ NewSession
  BY <1>5, <1>6, <1>8 DEF BumpPrior, NewSession, SessionQuery, QueryDone, Bump, HashRows
<1>9. CASE MissSession
  BY <1>5, <1>6, <1>9 DEF MissSession, FaultyQuery, Bump, HashRows
<1>10. QED
  BY <1>4, <1>7, <1>8, <1>9, StoreFrame DEF PolicyAlert

(* The three ways of an undisturbed query all count it. *)
LEMMA QueryInRow ==
    ASSUME TypeInv, Placed, RowsCounted, [Next]_vars, ~replayed',
           UpdateSession \/ BumpPrior \/ NewSession
    PROVE  InRow(Line)'
<1>1. QueryDone
  BY DEF UpdateSession, BumpPrior, NewSession, SessionQuery
<1>2. pc = "query" /\ log' = log /\ cur' = cur
  BY <1>1 DEF QueryDone
<1>3. SUFFICES \E i \in DOMAIN sessions' : cur.line \in sessions'[i].lines
  BY <1>2 DEF InRow, Line
<1>4. ASSUME NEW j \in DOMAIN sessions, Touch(j)
      PROVE  j \in DOMAIN sessions' /\ cur.line \in sessions'[j].lines
  <2> DEFINE e == Bumped(sessions[j])
  <2>1. DOMAIN sessions' = DOMAIN sessions /\ sessions'[j] = e /\ sessions[j] \in Rows
    BY <1>2, <1>4, Touched DEF TypeInv, StoreTypes
  <2>2. e = [mac |-> sessions[j].mac, name |-> sessions[j].name,
             first |-> sessions[j].first, last |-> Line.at,
             count |-> sessions[j].count + 1, window |-> sessions[j].window,
             lines |-> sessions[j].lines \cup {cur.line}]
    BY <2>1, RowBumped
  <2> HIDE DEF e
  <2>3. e.lines = sessions[j].lines \cup {cur.line}
    BY <2>2
  <2>4. QED
    BY <2>1, <2>3
<1>5. CASE UpdateSession
  BY <1>4, <1>5 DEF UpdateSession, OpenRows
<1>6. CASE BumpPrior
  BY <1>4, <1>6 DEF BumpPrior, Bump, HashRows
<1>7. CASE NewSession
  BY <1>1, <1>7, QueryCounted, CountInserted DEF NewSession
<1>8. QED
  BY <1>5, <1>6, <1>7

LEMMA CalmStep == TypeInv /\ Calm /\ [Next]_vars => Calm'
<1> SUFFICES ASSUME TypeInv, Calm, [Next]_vars PROVE Calm'
  OBVIOUS
<1>1. crashes \in Nat /\ edits \in Nat
  BY BudgetNumbers DEF TypeInv, BudgetTypes
<1>2. crashes' = 0 => crashes = 0 /\ ~replayed' /\ start' = 0 /\ pc' # "down"
  <2>1. CASE Crash
    BY <1>1, <2>1 DEF Crash
  <2>2. CASE Restart
    BY <2>2 DEF Restart, bounds, Calm
  <2>3. CASE ~Crash /\ ~Restart
    <3>1. UNCHANGED <<crashes, replayed, start>>
      BY <2>3 DEF Next, Collect, World, vars, durable, process, history, bounds, Edit,
         RunOnce, EndOfFile, SkipLine, TakeLine, PolicyAlert, DropNoise, UpdateSession,
         BumpPrior, LoseBump, MissSession, FaultyQuery, NewSession, SessionQuery, QueryDone,
         LoadPolicy, CheckFlood, HandleAck, FlagDevice, DropQuery, DropFlood, DropDevice,
         Lose, Tick, Query, Lease, EditPolicy, MarkKnown, RemoveKnown
    <3>2. pc' = "down" => pc = "down"
      <4>1. CASE TakeLine
        BY <4>1, NextLineType DEF TakeLine
      <4>2. CASE ~TakeLine
        BY <2>3, <4>2
           DEF Next, Collect, World, vars, durable, process, history, bounds, Edit,
           RunOnce, EndOfFile, SkipLine, PolicyAlert, DropNoise, UpdateSession,
           BumpPrior, LoseBump, MissSession, FaultyQuery, NewSession, SessionQuery,
           QueryDone, CheckFlood, HandleAck, FlagDevice, DropQuery, DropFlood, DropDevice,
           Lose, Tick, Query, Lease, EditPolicy, MarkKnown, RemoveKnown
      <4>3. QED BY <4>1, <4>2
    <3>3. QED BY <3>1, <3>2 DEF Calm
  <2>4. QED BY <2>1, <2>2, <2>3
<1>3. edits' = 0 => edits = 0 /\ policy' = policy
  <2>1. CASE Edit
    BY <1>1, <2>1 DEF Edit
  <2>2. CASE ~Edit
    BY <2>2 DEF Next, Collect, World, vars, durable, process, history, bounds, Crash,
       Restart, RunOnce, EndOfFile, SkipLine, TakeLine, PolicyAlert, DropNoise,
       UpdateSession, BumpPrior, LoseBump, MissSession, FaultyQuery, NewSession,
       SessionQuery, QueryDone, CheckFlood, HandleAck, FlagDevice, DropQuery, DropFlood,
       DropDevice, Lose, Tick, Query, Lease, EditPolicy, MarkKnown, RemoveKnown
  <2>3. QED BY <2>1, <2>2
<1>4. ASSUME policy = NoPolicy, pcache.lists = NoPolicy PROVE pcache'.lists = NoPolicy
  <2>0. pcache \in [lists : Policies, left : 0 .. Ttl]
    BY DEF TypeInv, MemoryTypes
  <2>1. CASE UNCHANGED <<seen, times, lcache, pcache>>
    BY <1>4, <2>1
  <2>2. CASE Tick
    <3>1. pcache' = IF pcache.left > 1 THEN [pcache EXCEPT !.left = @ - 1] ELSE OldPolicy
      BY <2>2, Zenon DEF Tick
    <3>2. QED BY <1>4, <2>0, <3>1 DEF OldPolicy
  <2>3. CASE Crash
    BY <2>3 DEF Crash, OldPolicy
  <2>4. CASE RunOnce \/ TakeLine \/ CheckFlood \/ DropFlood
    BY <1>4, <2>4 DEF RunOnce, TakeLine, CheckFlood, DropFlood
  <2>5. CASE ReadPolicy
    BY <1>4, <2>5 DEF ReadPolicy
  <2>6. CASE QueryDone
    BY <1>4, <2>6 DEF QueryDone, LoadPolicy, ReadPolicy
  <2>7. QED
    BY <2>1, <2>2, <2>3, <2>4, <2>5, <2>6, MemoryFrame
<1>5. QED
  BY <1>2, <1>3, <1>4 DEF Calm

(* What a step does to the lines that are read. *)
LEMMA ReadFrame ==
    ASSUME [Next]_vars
    PROVE  \/ UNCHANGED <<log, seen, pos, pc, cur>>
           \/ (pc # "query" /\ UNCHANGED <<seen, pos, pc, cur>>)
           \/ (pc # "query" /\ pc' # "query" /\ UNCHANGED <<log, seen, pos>>)
           \/ Crash \/ RunOnce \/ SkipLine \/ TakeLine \/ QueryDone
           \/ faults' = faults + 1
BY DEF Next, Collect, World, vars, durable, process, history, bounds, Settled,
       Restart, EndOfFile, PolicyAlert, DropNoise, UpdateSession,
       BumpPrior, LoseBump, MissSession, FaultyQuery, NewSession, SessionQuery,
       CheckFlood, HandleAck, FlagDevice, DropQuery, DropFlood, DropDevice, Lose, Tick,
       Query, Lease, Write, EditPolicy, MarkKnown, RemoveKnown

LEMMA NoneMissedStep ==
    ASSUME TypeInv, Placed, RowsCounted, Calm, NoneMissed, [Next]_vars,
           ~replayed', Undisturbed, Undisturbed'
    PROVE  NoneMissed'
<1>1. \A x : InRow(x) => InRow(x)'
  BY InRowKept
<1>2. /\ log \in Seq(Lines) /\ pos \in Nat /\ DOMAIN log = 1 .. Len(log)
      /\ Len(log) \in Nat
  BY DEF TypeInv, WorldTypes, PlaceTypes
<1>3. ASSUME Behind' \subseteq Behind, seen' \subseteq seen, pc # "query"
      PROVE  NoneMissed'
  <2>1. ASSUME NEW k \in Behind', log'[k].kind = "query" PROVE InRow(log[k])'
    <3>1. k \in Behind /\ log'[k] = log[k]
      BY <1>3, <2>1, LogKept DEF Behind
    <3>2. InRow(log[k])
      BY <2>1, <3>1 DEF NoneMissed
    <3>3. QED BY <1>1, <3>1, <3>2 DEF InRow
  <2>2. ASSUME NEW x \in seen', x.kind = "query" PROVE InRow(x)'
    BY <1>1, <1>3, <2>2 DEF NoneMissed
  <2>3. QED BY <2>1, <2>2 DEF NoneMissed, InRow
<1>4. CASE UNCHANGED <<log, seen, pos, pc, cur>>
  <2>1. Behind' = Behind /\ Line' = Line
    BY <1>4 DEF Behind, Ahead, Line
  <2>2. ASSUME NEW k \in Behind, log[k].kind = "query" PROVE InRow(log[k])'
    BY <1>1, <1>4, <2>2 DEF NoneMissed, InRow
  <2>3. ASSUME NEW x \in seen, x.kind = "query"
        PROVE  InRow(x)' \/ (pc' = "query" /\ x = Line')
    BY <1>1, <1>4, <2>1, <2>3 DEF NoneMissed
  <2>4. QED BY <1>4, <2>1, <2>2, <2>3 DEF NoneMissed, InRow
<1>5. CASE pc # "query" /\ UNCHANGED <<seen, pos, pc, cur>>
  <2>1. \/ log' = log
        \/ \E line : log' = Append(log, line)
    BY LogStep
  <2>2. Behind' \subseteq Behind
    BY <1>2, <1>5, <2>1 DEF Behind, Ahead, TypeInv, PlaceTypes
  <2>3. QED BY <1>3, <1>5, <2>2
<1>6. CASE (pc # "query" /\ pc' # "query" /\ UNCHANGED <<log, seen, pos>>) \/ RunOnce
  <2>1. pc # "query" /\ pc' # "query" /\ UNCHANGED <<log, seen, pos>>
    BY <1>6 DEF RunOnce, durable, Placed
  <2>2. QED BY <1>3, <2>1 DEF Behind, Ahead
<1>7. ~Crash /\ ~(faults' = faults + 1)
  BY BudgetNumbers DEF Crash, Undisturbed, TypeInv, BudgetTypes
<1>8. CASE SkipLine
  <2>1. /\ pc = "reading" /\ pc' = pc /\ pos < Len(log) /\ ~IsFresh(NextLine)
        /\ pos' = pos + 1 /\ UNCHANGED <<log, seen, cur, sessions>>
    BY <1>8 DEF SkipLine, durable
  <2>2. NextLine \in seen
    <3>1. NextLine \in Lines /\ start = 0
      BY <2>1, NextLineType DEF Calm, Undisturbed
    <3>2. NextLine.at \in Nat
      BY <3>1 DEF Lines
    <3>3. QED BY <2>1, <3>1, <3>2, Numbers DEF IsFresh
  <2>3. Behind' \subseteq Behind \cup {pos + 1}
    BY <1>2, <2>1 DEF Behind, Ahead
  <2>4. NextLine.kind = "query" => InRow(NextLine)
    BY <2>1, <2>2 DEF NoneMissed
  <2>5. \A x : InRow(x)' = InRow(x)
    BY <2>1 DEF InRow
  <2>6. \A k \in Behind' : log[k].kind = "query" => InRow(log[k])
    BY <2>3, <2>4 DEF NoneMissed, NextLine
  <2>7. \A x \in seen : x.kind = "query" => InRow(x)
    BY <2>1 DEF NoneMissed
  <2>8. QED BY <2>1, <2>5, <2>6, <2>7 DEF NoneMissed, InRow
<1>9. CASE TakeLine
  <2>1. /\ pc = "reading" /\ pc' = NextLine.kind /\ pos < Len(log)
        /\ pos' = pos + 1 /\ UNCHANGED <<log, sessions>>
        /\ seen' \subseteq seen \cup {NextLine}
        /\ cur'.line = pos + 1
    BY <1>9 DEF TakeLine, durable
  <2>2. NextLine.kind \in {"query", "ack"} /\ NextLine = log[pos + 1]
    BY <2>1, NextLineType DEF NextLine
  <2>3. \A k \in Behind' : k \in Behind \/ (k = pos + 1 /\ log[k].kind # "query")
    BY <1>2, <2>1, <2>2 DEF Behind, Ahead
  <2>4. \A x : InRow(x)' = InRow(x)
    BY <2>1 DEF InRow
  <2>5. \A k \in Behind' : log[k].kind = "query" => InRow(log[k])
    BY <2>3 DEF NoneMissed
  <2>6. NextLine.kind = "query" => pc' = "query" /\ NextLine = Line'
    BY <2>1, <2>2 DEF Line
  <2>7. \A x \in seen' : x.kind = "query" => InRow(x) \/ (pc' = "query" /\ x = Line')
    BY <2>1, <2>6 DEF NoneMissed
  <2>8. QED BY <2>1, <2>4, <2>5, <2>7 DEF NoneMissed, InRow
<1>10. CASE QueryDone
  <2>1. /\ pc = "query" /\ pc' = "flood" /\ UNCHANGED <<log, seen, pos, cur>> /\ LoadPolicy
    BY <1>10, Zenon DEF QueryDone
  <2>2. pcache'.lists = NoPolicy
    BY <2>1, CalmStep DEF Calm, Undisturbed
  <2>3. UpdateSession \/ BumpPrior \/ NewSession
    <3>1. ~PolicyAlert /\ ~DropNoise
      BY <2>2 DEF PolicyAlert, DropNoise, NoPolicy
    <3>2. ~FaultyQuery /\ ~Lose
      BY <1>7 DEF FaultyQuery, Lose
    <3>3. PolicyAlert \/ DropNoise \/ UpdateSession \/ BumpPrior \/ NewSession
      BY <1>10, <2>1, <3>2
         DEF Next, Collect, World, vars, durable, process, history, bounds, Crash,
         Restart, RunOnce, EndOfFile, SkipLine, TakeLine, LoseBump, MissSession,
         CheckFlood, HandleAck, FlagDevice, DropQuery, DropFlood, DropDevice, Tick,
         Query, Lease, EditPolicy, MarkKnown, RemoveKnown
    <3>4. QED BY <3>1, <3>3
  <2>4. InRow(Line)' /\ Line' = Line
    BY <2>1, <2>3, QueryInRow DEF Line
  <2>5. cur.line = pos /\ Line = log[pos]
    BY <2>1 DEF Placed, Line
  <2>6. \A k \in Behind' : k \in Behind \/ k = pos
    BY <1>2, <2>1 DEF Behind, Ahead
  <2>7. ASSUME NEW k \in Behind', log[k].kind = "query" PROVE InRow(log[k])'
    <3>1. CASE k = pos
      BY <2>1, <2>4, <2>5, <3>1 DEF InRow, Line
    <3>2. CASE k \in Behind
      <4>1. InRow(log[k])
        BY <2>7, <3>2 DEF NoneMissed
      <4>2. QED BY <1>1, <2>1, <4>1 DEF InRow
    <3>3. QED BY <2>6, <3>1, <3>2
  <2>8. ASSUME NEW x \in seen, x.kind = "query" PROVE InRow(x)'
    <3>1. CASE x = Line
      BY <2>4, <3>1 DEF InRow, Line
    <3>2. CASE InRow(x)
      BY <1>1, <3>2
    <3>3. QED BY <2>8, <3>1, <3>2 DEF NoneMissed
  <2>9. QED BY <2>1, <2>7, <2>8 DEF NoneMissed, InRow
<1>11. QED
  BY <1>4, <1>5, <1>6, <1>7, <1>8, <1>9, <1>10, ReadFrame

LEMMA CountStep == TypeInv /\ Placed /\ CountInv /\ [Next]_vars => CountInv'
<1> SUFFICES ASSUME TypeInv, Placed, CountInv, [Next]_vars PROVE CountInv'
  OBVIOUS
<1>1. Calm /\ Calm'
  BY CalmStep DEF CountInv
<1>2. ~replayed' => ~replayed
  BY DEF Next, Collect, World, vars, durable, process, history, bounds, Crash, Restart,
     RunOnce, EndOfFile, SkipLine, TakeLine, PolicyAlert, DropNoise, UpdateSession,
     BumpPrior, LoseBump, MissSession, FaultyQuery, NewSession, SessionQuery,
     QueryDone, CheckFlood, HandleAck, FlagDevice, DropQuery, DropFlood, DropDevice,
     Lose, Tick, Query, Lease, EditPolicy, MarkKnown, RemoveKnown
<1>3. ~replayed' => RowsCounted'
  BY <1>2, RowsCountedStep DEF CountInv
<1>4. Undisturbed' => Undisturbed
  <2>1. crashes \in Nat /\ faults \in Nat /\ edits \in Nat
    BY BudgetNumbers DEF TypeInv, BudgetTypes
  <2>2. /\ crashes' = crashes \/ crashes' = crashes + 1
        /\ faults' = faults \/ faults' = faults + 1
        /\ edits' = edits \/ edits' = edits + 1
    BY BudgetFrame DEF bounds, Crash, QueryDone, LoadPolicy, Edit
  <2>3. QED BY <2>1, <2>2 DEF Undisturbed
<1>5. Undisturbed' => NoneMissed'
  BY <1>1, <1>2, <1>4, NoneMissedStep DEF CountInv, Calm, Undisturbed
<1>6. QED
  BY <1>1, <1>3, <1>5 DEF CountInv

(* request_count: no line counts twice while no pass is cut short, and an
   undisturbed run counts every query it has read: CountedExactly. *)
THEOREM RequestsCounted == Spec => []CountedExactly
<1>1. Spec => [](TypeInv /\ Placed /\ CountInv)
  <2>1. Init => TypeInv /\ Placed /\ CountInv
    BY TypeInit, SessionInit, CountInit DEF SessionInv
  <2>2. TypeInv /\ Placed /\ CountInv /\ [Next]_vars => (TypeInv /\ Placed /\ CountInv)'
    BY TypeStep, PlacedStep, CountStep
  <2>3. QED BY <2>1, <2>2, PTL DEF Spec
<1>2. TypeInv /\ Placed /\ CountInv => CountedExactly
  <2> SUFFICES ASSUME TypeInv, Placed, CountInv PROVE CountedExactly
    OBVIOUS
  <2>1. ASSUME Undisturbed, NEW k \in 1 .. pos, log[k].kind = "query", cur.line # k
        PROVE  InRow(log[k])
    <3>1. pos \in 0 .. Len(log) /\ log \in Seq(Lines)
      BY DEF TypeInv, WorldTypes, PlaceTypes
    <3>2. k \in Behind
      BY <2>1, <3>1 DEF Behind, Ahead, Placed
    <3>3. QED BY <2>1, <3>2 DEF CountInv, NoneMissed
  <2>2. QED
    BY <2>1 DEF CountedExactly, CountInv, RowsCounted, Undisturbed, InRow
<1>3. QED
  BY <1>1, <1>2, PTL

-----------------------------------------------------------------------------
(* Floods: a line is counted when check_flood has it in hand, once.  Of the
   lines that are in no reported flood the list drops only those that no line
   to come can share a window with. *)
Checked == {k \in 1 .. pos : pc \in {"query", "flood"} => k # pos}

Outdated(k) ==
    /\ log[k].at + FloodWindow < now
    /\ \A j \in DOMAIN log \ Checked : log[k].at + FloodWindow < log[j].at

ListsChecked ==
    /\ pc \in {"query", "flood"} => cur.line = pos
    /\ \A m \in Macs : times[m] \subseteq Checked /\ quiet[m] \subseteq Checked
    /\ \A f \in floods : f \subseteq Checked

ListsApart ==
    /\ \A m, x \in Macs : m # x => times[m] \cap times[x] = {}
    /\ \A m \in Macs : \A f \in floods : times[m] \cap f = {}

DropsOutdated ==
    faults = 0 => \A m \in Macs : \A k \in quiet[m] \ times[m] : Outdated(k)

FloodInv == ListsChecked /\ ListsApart /\ FloodExact /\ DropsOutdated

LEMMA FloodInit == Init => FloodInv
BY DEF Init, FloodInv, ListsChecked, ListsApart, FloodExact, DropsOutdated

LEMMA CheckedStep ==
    ASSUME TypeInv, Placed, [Next]_vars
    PROVE  Crash \/ Checked \subseteq Checked'
<1>0. pos \in Nat /\ pos <= Len(log) /\ Len(log) \in Nat
  BY LogTimes DEF TypeInv, PlaceTypes
<1>1. CASE UNCHANGED <<log, saved, pc, start, pos, cur>>
  BY <1>1 DEF Checked
<1>2. CASE Restart \/ RunOnce
  <2>1. pos' = pos /\ pc' \in {"asleep", "reading"}
    BY <1>2 DEF Restart, RunOnce, Placed
  <2>2. QED BY <2>1 DEF Checked
<1>3. CASE EndOfFile \/ CheckFlood \/ HandleAck \/ FlagDevice \/ (Lose /\ UNCHANGED pos)
  <2>1. pos' = pos /\ pc' \in {"asleep", "reading", "flag"}
    BY <1>3 DEF EndOfFile, CheckFlood, HandleAck, FlagDevice, Lose
  <2>2. QED BY <2>1 DEF Checked
<1>4. CASE SkipLine \/ TakeLine
  <2>1. pos' = pos + 1 /\ pc = "reading"
    BY <1>4 DEF SkipLine, TakeLine
  <2>2. QED BY <1>0, <2>1 DEF Checked
<1>5. CASE QueryDone \/ FaultyQuery
  <2>1. pos' = pos /\ pc = "query" /\ pc' = "flood"
    BY <1>5 DEF QueryDone, FaultyQuery
  <2>2. QED BY <2>1 DEF Checked
<1>6. ASSUME NEW ip \in Ips,
             (\E n \in Names : Query(ip, n)) \/ (\E m \in Macs : Lease(ip, m))
      PROVE  UNCHANGED <<pc, pos>>
  BY <1>6 DEF Query, Lease, process
<1>7. CASE UNCHANGED <<pc, pos>>
  BY <1>7 DEF Checked
<1>8. QED
  BY <1>1, <1>2, <1>3, <1>4, <1>5, <1>6, <1>7, PlaceFrame

(* The line in hand is the last one read, until it has been checked. *)
LEMMA HandStep ==
    ASSUME TypeInv, ListsChecked, [Next]_vars
    PROVE  pc' \in {"query", "flood"} => cur'.line = pos'
<1>1. CASE UNCHANGED <<log, saved, pc, start, pos, cur>>
  BY <1>1 DEF ListsChecked
<1>2. CASE Crash \/ Restart \/ RunOnce \/ EndOfFile \/ CheckFlood \/ HandleAck \/ FlagDevice
           \/ Lose
  BY <1>2 DEF Crash, Restart, RunOnce, EndOfFile, CheckFlood, HandleAck, FlagDevice, Lose
<1>3. CASE SkipLine
  BY <1>3 DEF SkipLine
<1>4. CASE TakeLine
  <2>1. cur' = [line |-> pos + 1,
                mac  |-> IF NextLine.kind = "ack" THEN NextLine.mac
                         ELSE lcache'.map[NextLine.ip]]
        /\ pos' = pos + 1
    BY <1>4 DEF TakeLine
  <2>2. QED BY <2>1
<1>5. CASE QueryDone \/ FaultyQuery
  BY <1>5 DEF QueryDone, FaultyQuery, ListsChecked
<1>6. ASSUME NEW ip \in Ips,
             (\E n \in Names : Query(ip, n)) \/ (\E m \in Macs : Lease(ip, m))
      PROVE  UNCHANGED <<pc, pos, cur>>
  BY <1>6 DEF Query, Lease, process
<1>7. CASE UNCHANGED <<pc, pos, cur>>
  BY <1>7 DEF ListsChecked
<1>8. QED
  BY <1>1, <1>2, <1>3, <1>4, <1>5, <1>6, <1>7, PlaceFrame

LEMMA CheckedLines ==
    ASSUME TypeInv
    PROVE  Checked \subseteq DOMAIN log
BY LogTimes DEF Checked, TypeInv, PlaceTypes

(* Lines to come are as new as the clock. *)
LEMMA OutdatedStep ==
    ASSUME TypeInv, [Next]_vars, Checked \subseteq Checked',
           NEW k \in DOMAIN log, Outdated(k)
    PROVE  Outdated(k)'
<1>1. log'[k] = log[k] /\ now \in Nat /\ now' \in Nat /\ now <= now'
      /\ log[k].at \in Nat
  BY LogKept, LogTimes, LogStep
<1>2. ASSUME NEW j \in DOMAIN log' \ Checked'
      PROVE  log[k].at + FloodWindow < log'[j].at
  <2>1. CASE j \in DOMAIN log
    BY <1>2, <2>1, LogKept DEF Outdated
  <2>2. CASE j \notin DOMAIN log
    <3>1. PICK line : log' = Append(log, line) /\ line.at = now
      BY <1>2, <2>2, LogStep
    <3>2. log \in Seq(Lines)
      BY DEF TypeInv, WorldTypes
    <3>3. log'[j] = line
      BY <1>2, <2>2, <3>1, <3>2
    <3>4. QED BY <3>1, <3>3 DEF Outdated
  <2>3. QED BY <2>1, <2>2
<1>3. QED
  BY <1>1, <1>2, Numbers DEF Outdated

(* What is counted of a log stays so when the log grows. *)
LEMMA WindowKept ==
    ASSUME TypeInv, [Next]_vars
    PROVE  \A k, j \in DOMAIN log : InWindow(k, j)' = InWindow(k, j)
BY LogKept DEF InWindow

LEMMA FloodExactKept ==
    ASSUME TypeInv, ListsChecked, FloodExact, [Next]_vars, UNCHANGED <<floods, quiet>>,
           faults' = 0 => faults = 0
    PROVE  FloodExact'
<1>1. /\ \A f \in floods : f \subseteq DOMAIN log
      /\ \A m \in Macs : quiet[m] \subseteq DOMAIN log
  BY CheckedLines DEF ListsChecked
<1>2. ASSUME NEW f \in floods
      PROVE  /\ Cardinality(f) >= FloodThreshold
             /\ \A k, j \in f : InWindow(k, j)' \/ InWindow(j, k)'
             /\ \A g \in floods : f = g \/ f \cap g = {}
  BY <1>1, WindowKept DEF FloodExact
<1>3. ASSUME faults = 0, NEW m \in Macs, NEW k \in quiet[m]
      PROVE  Cardinality({j \in quiet[m] : InWindow(k, j)'}) < FloodThreshold
  <2>1. {j \in quiet[m] : InWindow(k, j)'} = {j \in quiet[m] : InWindow(k, j)}
    BY <1>1, WindowKept
  <2>2. QED BY <1>3, <2>1, Zenon DEF FloodExact
<1>4. QED
  BY <1>2, <1>3 DEF FloodExact, InWindow

LEMMA FaultsGrow ==
    ASSUME TypeInv, [Next]_vars
    PROVE  faults' = 0 => faults = 0
<1>1. faults \in Nat
  BY BudgetNumbers DEF TypeInv, BudgetTypes
<1>2. faults' = faults \/ faults' = faults + 1
  BY BudgetFrame DEF bounds, Crash, QueryDone, LoadPolicy
<1>3. QED
  BY <1>1, <1>2

LEMMA FloodKept ==
    ASSUME TypeInv, Placed, FloodInv, [Next]_vars, ~Crash,
           UNCHANGED <<times, floods, quiet>>
    PROVE  FloodInv'
<1>1. Checked \subseteq Checked' /\ (faults' = 0 => faults = 0)
  BY CheckedStep, FaultsGrow
<1>2. ListsChecked'
  BY <1>1, HandStep DEF FloodInv, ListsChecked
<1>3. ListsApart'
  BY DEF FloodInv, ListsApart
<1>4. FloodExact'
  BY <1>1, FloodExactKept DEF FloodInv
<1>5. DropsOutdated'
  <2> SUFFICES ASSUME faults = 0, NEW m \in Macs, NEW k \in quiet[m] \ times[m]
               PROVE  Outdated(k)'
    BY <1>1 DEF DropsOutdated, Outdated
  <2>1. Outdated(k) /\ k \in DOMAIN log
    BY CheckedLines DEF FloodInv, DropsOutdated, ListsChecked
  <2>2. QED BY <1>1, <2>1, OutdatedStep
<1>6. QED
  BY <1>2, <1>3, <1>4, <1>5 DEF FloodInv

(* The line in hand among those around it. *)
LEMMA LineAmong ==
    ASSUME TypeInv, Ordered, ListsChecked, pc = "flood", log' = log, pos' = pos,
           pc' = "reading"
    PROVE  /\ cur.line \in DOMAIN log /\ Line = log[cur.line]
           /\ Line.at \in Nat /\ Line.at <= now
           /\ cur.line \notin Checked /\ Checked' = Checked \cup {cur.line}
           /\ \A k \in Checked : log[k].at <= Line.at
           /\ \A j \in DOMAIN log \ Checked' : Line.at <= log[j].at
<1>1. /\ cur.line = pos /\ pos \in DOMAIN log /\ Line = log[pos] /\ Line.at \in Nat
      /\ pos \in Nat /\ pos >= 1
  BY QueryInHand, LogTimes DEF ListsChecked, Line
<1>2. pos \notin Checked /\ Checked' = Checked \cup {pos}
  BY <1>1 DEF Checked
<1>3. /\ \A k \in Checked : k <= pos
      /\ \A j \in DOMAIN log \ Checked' : pos <= j
  BY <1>1, LogTimes DEF Checked
<1>4. QED
  BY <1>1, <1>2, <1>3, CheckedLines DEF Ordered

LEMMA FloodChecked ==
    ASSUME TypeInv, Ordered, Placed, FloodInv, CheckFlood, cur.mac # NoMac
    PROVE  FloodInv'
<1> DEFINE m == cur.mac
           C == Counted
<1>1. /\ pc = "flood" /\ pc' = "reading" /\ pos' = pos
      /\ UNCHANGED <<log, now, faults>>
      /\ times' = [times EXCEPT ![m] = IF Flooding THEN {} ELSE C]
      /\ floods' = floods \cup (IF Flooding THEN {C} ELSE {})
      /\ quiet' = [quiet EXCEPT ![m] = (@ \cup {cur.line})
                                         \ (IF Flooding THEN C ELSE {})]
  BY Zenon DEF CheckFlood, durable, bounds
<1>2. /\ m \in Macs
      /\ times \in [Macs -> SUBSET Nat] /\ quiet \in [Macs -> SUBSET Nat]
  BY <1>1, QueryInHand DEF TypeInv, MemoryTypes, HistoryTypes
<1>3. /\ cur.line \in DOMAIN log /\ Line = log[cur.line]
      /\ Line.at \in Nat /\ Line.at <= now
      /\ cur.line \notin Checked /\ Checked' = Checked \cup {cur.line}
      /\ \A k \in Checked : log[k].at <= Line.at
      /\ \A j \in DOMAIN log \ Checked' : Line.at <= log[j].at
      /\ Checked \subseteq DOMAIN log
  BY <1>1, LineAmong, CheckedLines DEF FloodInv
<1>4. /\ \A x \in Macs : times[x] \subseteq Checked /\ quiet[x] \subseteq Checked
      /\ \A f \in floods : f \subseteq Checked
  BY DEF FloodInv, ListsChecked
<1>5. /\ C \subseteq times[m] \cup {cur.line} /\ cur.line \in C
      /\ C \subseteq DOMAIN log /\ IsFiniteSet(C) /\ Cardinality(C) \in Nat
  <2>1. C \subseteq times[m] \cup {cur.line} /\ cur.line \in C
    BY DEF Counted
  <2>2. C \subseteq DOMAIN log
    BY <1>2, <1>3, <1>4, <2>1
  <2>3. QED BY <2>1, <2>2, BehindFinite
<1>6. \A k \in times[m] : k \in C \/ log[k].at < Line.at - FloodWindow
  BY <1>2, <1>3, <1>4, LogTimes, Numbers DEF Counted
<1>7. \A k \in C : /\ log[k].at \in Nat /\ log[k].at <= Line.at
                   /\ Line.at <= log[k].at + FloodWindow
  <2> SUFFICES ASSUME NEW k \in C
               PROVE  /\ log[k].at \in Nat /\ log[k].at <= Line.at
                      /\ Line.at <= log[k].at + FloodWindow
    OBVIOUS
  <2>1. CASE k = cur.line
    BY <1>3, <2>1, Numbers
  <2>2. CASE k # cur.line
    <3>1. k \in Checked /\ log[k].at >= Line.at - FloodWindow
      BY <1>2, <1>4, <2>2 DEF Counted
    <3>2. QED BY <1>3, <3>1, LogTimes, Numbers
  <2>3. QED BY <2>1, <2>2
<1>8. Flooding <=> Cardinality(C) >= FloodThreshold
  BY DEF Flooding
<1> HIDE DEF C
<1>9. /\ times'[m] = IF Flooding THEN {} ELSE C
      /\ quiet'[m] = (quiet[m] \cup {cur.line}) \ (IF Flooding THEN C ELSE {})
      /\ \A x \in Macs : x # m => times'[x] = times[x] /\ quiet'[x] = quiet[x]
  BY <1>1, <1>2
<1> HIDE DEF m
<1>10. ListsChecked'
  <2>1. \A x \in Macs : times'[x] \subseteq Checked' /\ quiet'[x] \subseteq Checked'
    BY <1>2, <1>3, <1>4, <1>5, <1>9
  <2>2. \A f \in floods' : f \subseteq Checked'
    BY <1>1, <1>2, <1>3, <1>4, <1>5
  <2>3. QED BY <1>1, <2>1, <2>2 DEF ListsChecked
<1>11. ListsApart'
  <2>1. \A x \in Macs : x # m => C \cap times[x] = {}
    BY <1>2, <1>3, <1>4, <1>5 DEF FloodInv, ListsApart
  <2>2. \A f \in floods : C \cap f = {}
    BY <1>2, <1>3, <1>4, <1>5 DEF FloodInv, ListsApart
  <2>3. ASSUME NEW x \in Macs, NEW y \in Macs, x # y
        PROVE  times'[x] \cap times'[y] = {}
    BY <1>9, <2>1, <2>3 DEF FloodInv, ListsApart
  <2>4. ASSUME NEW x \in Macs, NEW f \in floods'
        PROVE  times'[x] \cap f = {}
    BY <1>1, <1>9, <2>1, <2>2, <2>4 DEF FloodInv, ListsApart
  <2>5. QED BY <2>3, <2>4 DEF ListsApart
<1>12. \A k, j : InWindow(k, j)' = InWindow(k, j)
  BY <1>1 DEF InWindow
<1>13. ASSUME NEW f \in floods'
       PROVE  /\ Cardinality(f) >= FloodThreshold
              /\ \A k, j \in f : InWindow(k, j) \/ InWindow(j, k)
              /\ \A g \in floods' : f = g \/ f \cap g = {}
  <2>1. ASSUME NEW k \in C, NEW j \in C PROVE InWindow(k, j) \/ InWindow(j, k)
    <3>1. /\ log[k].at \in Nat /\ log[k].at <= Line.at
          /\ Line.at <= log[k].at + FloodWindow
          /\ log[j].at \in Nat /\ log[j].at <= Line.at
          /\ Line.at <= log[j].at + FloodWindow
      BY <1>7
    <3>2. QED BY <3>1, <1>3, Numbers DEF InWindow
  <2>2. \A g \in floods : C \cap g = {}
    BY <1>2, <1>3, <1>4, <1>5 DEF FloodInv, ListsApart
  <2>3. /\ \A g \in floods : /\ Cardinality(g) >= FloodThreshold
                             /\ \A k, j \in g : InWindow(k, j) \/ InWindow(j, k)
                             /\ \A h \in floods : g = h \/ g \cap h = {}
    BY DEF FloodInv, FloodExact
  <2>4. CASE f \in floods
    BY <1>1, <2>2, <2>3, <2>4
  <2>5. CASE f = C /\ Flooding
    BY <1>1, <1>8, <2>1, <2>2, <2>5
  <2>6. QED BY <1>1, <2>4, <2>5
<1>14. ASSUME faults = 0, NEW k \in quiet[m], k \notin C
       PROVE  log[k].at + FloodWindow < Line.at
  <2>1. CASE k \in times[m]
    BY <1>2, <1>3, <1>4, <1>6, <1>14, <2>1, LogTimes, Numbers
  <2>2. CASE k \notin times[m]
    <3>1. Outdated(k)
      BY <1>2, <1>14, <2>2 DEF FloodInv, DropsOutdated
    <3>2. QED BY <1>3, <3>1 DEF Outdated
  <2>3. QED BY <2>1, <2>2
<1>15. ASSUME faults = 0, NEW x \in Macs, NEW k \in quiet'[x]
       PROVE  Cardinality({j \in quiet'[x] : InWindow(k, j)}) < FloodThreshold
  <2>0. /\ \A y \in Macs : \A i \in quiet[y] :
              Cardinality({j \in quiet[y] : InWindow(i, j)}) < FloodThreshold
        /\ \A i \in DOMAIN log : log[i].at \in Nat
    BY <1>15, LogTimes DEF FloodInv, FloodExact
  <2>1. CASE x # m
    BY <1>9, <1>15, <2>0, <2>1
  <2>2. CASE x = m /\ Flooding
    <3>1. k \in quiet[m] /\ quiet'[m] \subseteq quiet[m]
      BY <1>5, <1>9, <1>15, <2>2
    <3>2. {j \in quiet[m] : InWindow(k, j)} \subseteq DOMAIN log
      BY <1>2, <1>3, <1>4
    <3>3. IsFiniteSet({j \in quiet[m] : InWindow(k, j)})
          /\ Cardinality({j \in quiet[m] : InWindow(k, j)}) \in Nat
      BY <3>2, BehindFinite
    <3>4. {j \in quiet'[m] : InWindow(k, j)} \subseteq {j \in quiet[m] : InWindow(k, j)}
      BY <3>1
    <3>5. /\ Cardinality({j \in quiet'[m] : InWindow(k, j)}) \in Nat
          /\ Cardinality({j \in quiet'[m] : InWindow(k, j)})
               <= Cardinality({j \in quiet[m] : InWindow(k, j)})
      BY <3>3, <3>4, FS_Subset, FS_CardinalityType
    <3>6. QED BY <1>2, <2>0, <2>2, <3>1, <3>3, <3>5, Numbers
  <2>3. CASE x = m /\ ~Flooding
    <3>1. quiet'[m] = quiet[m] \cup {cur.line} /\ k \in quiet[m] \cup {cur.line}
      BY <1>9, <1>15, <2>3
    <3>2. quiet[m] \subseteq Checked
      BY <1>2, <1>4
    <3>3. CASE k # cur.line /\ ~InWindow(k, cur.line)
      <4>1. {j \in quiet'[m] : InWindow(k, j)} = {j \in quiet[m] : InWindow(k, j)}
        BY <3>1, <3>3
      <4>2. QED BY <1>2, <2>0, <2>3, <3>1, <3>3, <4>1
    <3>4. CASE k = cur.line \/ InWindow(k, cur.line)
      <4>1. log[k].at \in Nat /\ Line.at <= log[k].at + FloodWindow
        <5>1. CASE k = cur.line
          BY <1>3, <5>1, Numbers
        <5>2. CASE InWindow(k, cur.line)
          BY <1>3, <2>0, <3>1, <3>2, <5>2 DEF InWindow
        <5>3. QED BY <3>4, <5>1, <5>2
      <4>2. ASSUME NEW j \in quiet[m], InWindow(k, j) PROVE j \in C
        <5>1. log[j].at \in Nat /\ log[k].at <= log[j].at
          BY <1>3, <2>0, <3>2, <4>2 DEF InWindow
        <5>2. ~(log[j].at + FloodWindow < Line.at)
          BY <1>3, <4>1, <5>1, Numbers
        <5>3. QED BY <1>14, <1>15, <5>2
      <4>3. {j \in quiet'[m] : InWindow(k, j)} \subseteq C
        BY <1>5, <3>1, <4>2
      <4>4. /\ Cardinality({j \in quiet'[m] : InWindow(k, j)}) \in Nat
            /\ Cardinality({j \in quiet'[m] : InWindow(k, j)}) <= Cardinality(C)
        BY <1>5, <4>3, FS_Subset, FS_CardinalityType
      <4>5. QED BY <1>5, <1>8, <2>3, <4>4, Numbers
    <3>5. QED BY <3>3, <3>4
  <2>4. QED BY <2>1, <2>2, <2>3
<1>16. FloodExact'
  BY <1>1, <1>12, <1>13, <1>15 DEF FloodExact
<1>17. DropsOutdated'
  <2> SUFFICES ASSUME faults = 0, NEW x \in Macs, NEW k \in quiet'[x] \ times'[x]
               PROVE  Outdated(k)'
    BY <1>1 DEF DropsOutdated, Outdated
  <2>1. CASE x # m
    <3>1. Outdated(k)
      BY <1>9, <2>1 DEF FloodInv, DropsOutdated
    <3>2. QED BY <1>1, <1>3, <3>1 DEF Outdated
  <2>2. CASE x = m
    <3>1. k \in quiet[m] /\ k \notin C
      BY <1>5, <1>9, <2>2
    <3>2. log[k].at + FloodWindow < Line.at
      BY <1>14, <3>1
    <3>3. log[k].at \in Nat /\ now \in Nat /\ \A j \in DOMAIN log : log[j].at \in Nat
      BY <1>2, <1>3, <1>4, <3>1, LogTimes
    <3>4. QED BY <1>1, <1>3, <3>2, <3>3, Numbers DEF Outdated
  <2>3. QED BY <2>1, <2>2
<1>18. QED
  BY <1>10, <1>11, <1>16, <1>17 DEF FloodInv

LEMMA FloodFrame ==
    ASSUME [Next]_vars
    PROVE  UNCHANGED <<times, floods, quiet>> \/ Crash \/ CheckFlood \/ DropFlood
BY DEF Next, Collect, World, vars, durable, process, history, bounds, Restart, RunOnce,
       EndOfFile, SkipLine, TakeLine, PolicyAlert, DropNoise, UpdateSession, BumpPrior,
       LoseBump, MissSession, FaultyQuery, NewSession, SessionQuery, QueryDone,
       HandleAck, FlagDevice, DropQuery, DropDevice, Lose, Tick, Query, Lease,
       EditPolicy, MarkKnown, RemoveKnown

LEMMA FloodStep == TypeInv /\ Ordered /\ Placed /\ FloodInv /\ [Next]_vars => FloodInv'
<1> SUFFICES ASSUME TypeInv, Ordered, Placed, FloodInv, [Next]_vars PROVE FloodInv'
  OBVIOUS
<1>1. CASE Crash
  <2>1. /\ pc' = "down" /\ floods' = {} /\ times' = [m \in Macs |-> {}]
        /\ quiet' = [m \in Macs |-> {}]
    BY <1>1 DEF Crash
  <2>2. QED
    BY <2>1 DEF FloodInv, ListsChecked, ListsApart, FloodExact, DropsOutdated
<1>2. CASE UNCHANGED <<times, floods, quiet>> /\ ~Crash
  BY <1>2, FloodKept
<1>3. CASE CheckFlood
  <2>1. CASE cur.mac = NoMac
    <3>1. UNCHANGED <<times, floods, quiet>> /\ ~Crash
      BY <1>3, <2>1 DEF CheckFlood, Crash
    <3>2. QED BY <3>1, FloodKept
  <2>2. CASE cur.mac # NoMac
    BY <1>3, <2>2, FloodChecked
  <2>3. QED BY <2>1, <2>2
<1>4. CASE DropFlood
  <2>1. /\ pc = "flood" /\ pc' = "reading" /\ UNCHANGED <<log, now, pos, floods>>
        /\ faults' = faults + 1
        /\ times' = [times EXCEPT ![cur.mac] = {}]
        /\ quiet' = [quiet EXCEPT ![cur.mac] = @ \cup {cur.line}]
    BY <1>4 DEF DropFlood, Lose, durable
  <2>2. /\ times \in [Macs -> SUBSET Nat] /\ quiet \in [Macs -> SUBSET Nat]
        /\ faults \in Nat
    BY BudgetNumbers DEF TypeInv, MemoryTypes, HistoryTypes, BudgetTypes
  <2>3. Checked' = Checked \cup {cur.line} /\ Checked \subseteq DOMAIN log
    BY <2>1, LineAmong, CheckedLines DEF FloodInv
  <2>4. \A x \in Macs : /\ times'[x] \subseteq times[x]
                        /\ quiet'[x] \subseteq quiet[x] \cup {cur.line}
    BY <2>1, <2>2
  <2>5. ListsChecked'
    BY <2>1, <2>3, <2>4 DEF FloodInv, ListsChecked
  <2>6. ListsApart'
    BY <2>1, <2>4 DEF FloodInv, ListsApart
  <2>7. faults' # 0
    BY <2>1, <2>2
  <2>8. \A k, j : InWindow(k, j)' = InWindow(k, j)
    BY <2>1 DEF InWindow
  <2>9. FloodExact'
    BY <2>1, <2>7, <2>8 DEF FloodInv, FloodExact
  <2>10. QED
    BY <2>5, <2>6, <2>7, <2>9 DEF FloodInv, DropsOutdated
<1>5. QED
  BY <1>1, <1>2, <1>3, <1>4, FloodFrame

(* check_flood: for any threshold and window, whatever kills, edits and other
   clients' lines fall in between, a report is of as many queries within a window,
   no query is in two, and none that fill a window go unreported unless a write
   failed: FloodExact. *)
THEOREM FloodsExact == Spec => []FloodExact
<1>1. Init => TypeInv /\ SessionInv /\ FloodInv
  BY TypeInit, SessionInit, FloodInit
<1>2. TypeInv /\ SessionInv /\ FloodInv /\ [Next]_vars
        => (TypeInv /\ SessionInv /\ FloodInv)'
  BY TypeStep, SessionStep, FloodStep DEF SessionInv
<1>3. FloodInv => FloodExact
  BY DEF FloodInv
<1>4. QED
  BY <1>1, <1>2, <1>3, PTL DEF Spec

(* Sessions and floods count what was asked: CountsExact. *)
THEOREM CountsAreExact == Spec => []CountsExact
<1>1. CountedExactly /\ FloodExact => CountsExact
  BY DEF CountsExact
<1>2. QED
  BY <1>1, RequestsCounted, FloodsExact, PTL
-----------------------------------------------------------------------------
(* Snapshots: one that differs from the tables is old by as much as the    *)
(* tables have been steady, so it expires before they count as steady.     *)
LeasesFresh ==
    lcache.left > 0 => \A ip \in Ips :
        \/ lcache.map[ip] = leases[ip]
        \/ steady.lease[ip] + lcache.left <= LeaseRefresh

PolicyFresh ==
    pcache.left > 0 => \A n \in policy.forbidden :
        \/ n \in pcache.lists.forbidden
        \/ steady.policy + pcache.left <= Ttl
        \/ steady.reads + pcache.left <= Ttl

LEMMA CacheFrame ==
    ASSUME [Next]_vars
    PROVE  \/ UNCHANGED <<leases, policy, lcache, pcache, steady>>
           \/ Tick \/ Crash
           \/ (LoadLeases /\ UNCHANGED <<leases, policy, pcache, steady>>)
           \/ (LoadPolicy /\ UNCHANGED <<leases, policy, lcache>>)
           \/ (ReadPolicy /\ UNCHANGED <<leases, policy, lcache, steady>>)
           \/ \E ip \in Ips, m \in Macs : Lease(ip, m)
           \/ \E list \in {"forbidden", "noise"}, n \in Names : EditPolicy(list, n)
BY DEF Next, Collect, World, vars, durable, process, history, bounds, Restart,
       RunOnce, EndOfFile, SkipLine, TakeLine, PolicyAlert, DropNoise, UpdateSession,
       BumpPrior, LoseBump, MissSession, FaultyQuery, NewSession, SessionQuery, QueryDone,
       CheckFlood, HandleAck,
       FlagDevice, DropQuery, DropFlood, DropDevice, Lose, Query, MarkKnown, RemoveKnown

LEMMA CacheTypes ==
    ASSUME TypeInv
    PROVE  /\ lcache.left \in 0 .. LeaseRefresh /\ pcache.left \in 0 .. Ttl
           /\ \A ip \in Ips : steady.lease[ip] \in 0 .. LeaseRefresh
           /\ steady.policy \in 0 .. Ttl /\ steady.reads \in 0 .. Ttl
           /\ lcache \in [map : [Ips -> Macs \cup {NoMac}], left : 0 .. LeaseRefresh]
           /\ pcache \in [lists : Policies, left : 0 .. Ttl]
           /\ steady \in Steadies
           /\ leases \in [Ips -> Macs \cup {NoMac}] /\ policy \in Policies
<1>1. /\ lcache \in [map : [Ips -> Macs \cup {NoMac}], left : 0 .. LeaseRefresh]
      /\ pcache \in [lists : Policies, left : 0 .. Ttl] /\ steady \in Steadies
      /\ leases \in [Ips -> Macs \cup {NoMac}] /\ policy \in Policies
  BY DEF TypeInv, MemoryTypes, HistoryTypes, Steadies, WorldTypes
<1>2. QED
  BY <1>1 DEF Steadies

LEMMA SteadyParts ==
    ASSUME NEW s, s \in Steadies, NEW e
    PROVE  /\ e = [s EXCEPT !.policy = 0] =>
                e.policy = 0 /\ e.lease = s.lease /\ e.reads = s.reads
           /\ e = [s EXCEPT !.reads = 0] =>
                e.reads = 0 /\ e.lease = s.lease /\ e.policy = s.policy
           /\ \A ip \in Ips : e = [s EXCEPT !.lease[ip] = 0] =>
                /\ e.policy = s.policy /\ e.reads = s.reads
                /\ e.lease = [s.lease EXCEPT ![ip] = 0]
BY DEF Steadies

(* A second later the snapshot is a second older, or gone. *)
LEMMA CacheTick ==
    ASSUME TypeInv, LeasesFresh, PolicyFresh, Tick
    PROVE  LeasesFresh' /\ PolicyFresh'
<1>1. /\ UNCHANGED <<leases, policy>>
      /\ lcache' = IF lcache.left > 1 THEN [lcache EXCEPT !.left = @ - 1] ELSE OldLeases
      /\ pcache' = IF pcache.left > 1 THEN [pcache EXCEPT !.left = @ - 1] ELSE OldPolicy
      /\ steady' = [lease  |-> [ip \in Ips |-> OneMore(steady.lease[ip], LeaseRefresh)],
                    policy |-> OneMore(steady.policy, Ttl),
                    reads  |-> OneMore(steady.reads, Ttl)]
  BY Zenon DEF Tick, durable
<1>2. /\ \A ip \in Ips : steady'.lease[ip] = OneMore(steady.lease[ip], LeaseRefresh)
      /\ steady'.policy = OneMore(steady.policy, Ttl)
      /\ steady'.reads = OneMore(steady.reads, Ttl)
  BY <1>1
<1>3. LeasesFresh'
  <2>1. CASE lcache.left > 1
    <3>1. lcache' = [map |-> lcache.map, left |-> lcache.left - 1]
      BY <1>1, <2>1, CacheTypes, Aged, Numbers
    <3>2. lcache'.map = lcache.map /\ lcache'.left = lcache.left - 1
      BY <3>1
    <3>3. QED BY <1>1, <1>2, <2>1, <3>2, CacheTypes, Numbers DEF LeasesFresh, OneMore
  <2>2. CASE ~(lcache.left > 1)
    BY <1>1, <2>2 DEF LeasesFresh, OldLeases
  <2>3. QED BY <2>1, <2>2
<1>4. PolicyFresh'
  <2>1. CASE pcache.left > 1
    <3>1. pcache' = [lists |-> pcache.lists, left |-> pcache.left - 1]
      BY <1>1, <2>1, CacheTypes, AgedPolicy, Numbers
    <3>2. pcache'.lists = pcache.lists /\ pcache'.left = pcache.left - 1
      BY <3>1
    <3>3. QED BY <1>1, <1>2, <2>1, <3>2, CacheTypes, Numbers DEF PolicyFresh, OneMore
  <2>2. CASE ~(pcache.left > 1)
    BY <1>1, <2>2 DEF PolicyFresh, OldPolicy
  <2>3. QED BY <2>1, <2>2
<1>5. QED
  BY <1>3, <1>4

LEMMA LeasesLoaded ==
    ASSUME TypeInv, LeasesFresh, LoadLeases, UNCHANGED <<leases, steady>>
    PROVE  LeasesFresh' /\ \A ip \in Ips : lcache'.map[ip] = leases[ip]
                                            \/ steady.lease[ip] < LeaseRefresh
<1>1. CASE lcache.left > 0
  BY <1>1, CacheTypes, Numbers DEF LoadLeases, LeasesFresh
<1>2. CASE ~(lcache.left > 0)
  BY <1>2, CacheTypes, Numbers DEF LoadLeases, LeasesFresh, OldLeases
<1>3. QED
  BY <1>1, <1>2

LEMMA PolicyLoaded ==
    ASSUME TypeInv, PolicyFresh, UNCHANGED policy,
           LoadPolicy \/ (ReadPolicy /\ UNCHANGED steady)
    PROVE  /\ PolicyFresh' /\ steady'.lease = steady.lease
           /\ (steady'.policy = Ttl /\ steady'.reads = Ttl) =>
                policy.forbidden \subseteq pcache'.lists.forbidden
<1>1. CASE ReadPolicy /\ UNCHANGED steady
  <2>1. CASE pcache.left > 0
    BY <1>1, <2>1, CacheTypes, Numbers DEF ReadPolicy, PolicyFresh
  <2>2. CASE ~(pcache.left > 0)
    BY <1>1, <2>2, CacheTypes, Numbers DEF ReadPolicy, PolicyFresh
  <2>3. QED BY <2>1, <2>2
<1>2. CASE /\ pcache' = [lists |-> NoPolicy, left |-> Ttl]
           /\ steady' = [steady EXCEPT !.reads = 0]
  <2>1. pcache'.left = Ttl /\ steady'.reads = 0 /\ steady'.lease = steady.lease
    BY <1>2, CacheTypes, SteadyParts
  <2>2. QED BY <2>1, Numbers DEF PolicyFresh
<1>3. QED
  BY <1>1, <1>2, Zenon DEF LoadPolicy

LEMMA CacheStep ==
    TypeInv /\ LeasesFresh /\ PolicyFresh /\ [Next]_vars => LeasesFresh' /\ PolicyFresh'
<1> SUFFICES ASSUME TypeInv, LeasesFresh, PolicyFresh, [Next]_vars
             PROVE  LeasesFresh' /\ PolicyFresh'
  OBVIOUS
<1>1. CASE UNCHANGED <<leases, policy, lcache, pcache, steady>>
  BY <1>1 DEF LeasesFresh, PolicyFresh
<1>2. CASE Tick
  BY <1>2, CacheTick
<1>3. CASE Crash
  <2>1. lcache'.left = 0 /\ pcache'.left = 0
    BY <1>3 DEF Crash, OldLeases, OldPolicy
  <2>2. QED BY <2>1 DEF LeasesFresh, PolicyFresh
<1>4. CASE LoadLeases /\ UNCHANGED <<leases, policy, pcache, steady>>
  BY <1>4, LeasesLoaded DEF PolicyFresh
<1>5. CASE LoadPolicy /\ UNCHANGED <<leases, policy, lcache>>
  BY <1>5, PolicyLoaded DEF LeasesFresh
<1>6. CASE ReadPolicy /\ UNCHANGED <<leases, policy, lcache, steady>>
  BY <1>6, PolicyLoaded DEF LeasesFresh
<1>7. ASSUME NEW ip \in Ips, NEW m \in Macs, Lease(ip, m)
      PROVE  LeasesFresh' /\ PolicyFresh'
  <2>1. /\ UNCHANGED <<policy, lcache, pcache>> /\ leases' = [leases EXCEPT ![ip] = m]
        /\ steady' = IF leases[ip] = m THEN steady ELSE [steady EXCEPT !.lease[ip] = 0]
    BY <1>7, Zenon DEF Lease, process
  <2>2. CASE leases[ip] = m
    <3>1. steady' = steady /\ leases' = leases
      BY <2>1, <2>2, CacheTypes
    <3>2. QED BY <2>1, <3>1 DEF LeasesFresh, PolicyFresh
  <2>3. CASE leases[ip] # m
    <3>1. steady' = [steady EXCEPT !.lease[ip] = 0]
      BY <2>1, <2>3, Zenon
    <3>2. /\ steady'.policy = steady.policy /\ steady'.reads = steady.reads
          /\ steady'.lease = [steady.lease EXCEPT ![ip] = 0]
      BY <3>1, CacheTypes, SteadyParts
    <3>3. steady.lease \in [Ips -> 0 .. LeaseRefresh]
      BY CacheTypes DEF Steadies
    <3>4. \A x \in Ips : steady'.lease[x] = IF x = ip THEN 0 ELSE steady.lease[x]
      BY <3>2, <3>3
    <3>5. \A x \in Ips : x # ip => leases'[x] = leases[x]
      BY <2>1, CacheTypes
    <3>6. LeasesFresh'
      BY <2>1, <3>4, <3>5, CacheTypes, Numbers DEF LeasesFresh
    <3>7. QED BY <2>1, <3>2, <3>6 DEF PolicyFresh
  <2>4. QED BY <2>2, <2>3
<1>8. ASSUME NEW list \in {"forbidden", "noise"}, NEW n \in Names, EditPolicy(list, n)
      PROVE  LeasesFresh' /\ PolicyFresh'
  <2>1. /\ UNCHANGED <<leases, lcache, pcache>> /\ steady' = [steady EXCEPT !.policy = 0]
    BY <1>8, Zenon DEF EditPolicy, process
  <2>2. steady'.policy = 0 /\ steady'.lease = steady.lease
    BY <2>1, CacheTypes, SteadyParts
  <2>3. QED BY <2>1, <2>2, CacheTypes, Numbers DEF LeasesFresh, PolicyFresh
<1>9. QED
  BY <1>1, <1>2, <1>3, <1>4, <1>5, <1>6, <1>7, <1>8, CacheFrame

LEMMA QueryEnds ==
    ASSUME [Next]_vars, TypeInv, pc = "query", pc' = "flood"
    PROVE  PolicyAlert \/ DropNoise \/ SessionQuery \/ FaultyQuery
<1>1. ~TakeLine
  BY DEF TakeLine
<1>2. QED
  BY <1>1 DEF Next, Collect, World, vars, durable, process, history, bounds, Restart, Crash,
       RunOnce, EndOfFile, SkipLine, UpdateSession, BumpPrior, LoseBump, MissSession,
       NewSession, CheckFlood,
       HandleAck, FlagDevice, DropQuery, DropFlood, DropDevice, Lose, Query, Lease, Tick,
       EditPolicy, MarkKnown, RemoveKnown

LEMMA PolicyStep ==
    ASSUME TypeInv, PolicyFresh, [Next]_vars, pc = "query", pc' = "flood",
           Line.name \in policy.forbidden, steady'.policy = Ttl, steady'.reads = Ttl
    PROVE  <<cur.mac, Line.name, Line.at>> \in alertRows'
<1>1. UNCHANGED policy /\ (LoadPolicy \/ (ReadPolicy /\ UNCHANGED steady))
  BY QueryEnds DEF PolicyAlert, DropNoise, SessionQuery, QueryDone, FaultyQuery, durable,
      history
<1>2. Line.name \in pcache'.lists.forbidden
  BY <1>1, PolicyLoaded
<1>3. PolicyAlert
  BY <1>2, QueryEnds DEF DropNoise, SessionQuery, FaultyQuery
<1>4. QED
  BY <1>3 DEF PolicyAlert

LEMMA AttributionStep ==
    ASSUME TypeInv, LeasesFresh, [Next]_vars, pc = "reading", pc' = "query"
    PROVE  \/ cur'.mac = leases[NextLine.ip]
           \/ steady.lease[NextLine.ip] < LeaseRefresh
<1>1. TakeLine
  BY DEF Next, Collect, World, vars, durable, process, history, bounds, Restart, Crash,
       RunOnce, EndOfFile, SkipLine, PolicyAlert, DropNoise, UpdateSession, BumpPrior,
       LoseBump, MissSession, FaultyQuery, NewSession, SessionQuery, QueryDone, CheckFlood,
       HandleAck, FlagDevice,
       DropQuery, DropFlood, DropDevice, Lose, Query, Lease, Tick, EditPolicy, MarkKnown,
       RemoveKnown
<1>2. /\ pos < Len(log) /\ LoadLeases /\ UNCHANGED <<leases, steady>>
      /\ NextLine.kind = "query"
      /\ cur' = [line |-> pos + 1,
                 mac  |-> IF NextLine.kind = "ack" THEN NextLine.mac
                          ELSE lcache'.map[NextLine.ip]]
  BY <1>1 DEF TakeLine, durable, history
<1>3. cur'.mac = lcache'.map[NextLine.ip] /\ NextLine.ip \in Ips
  BY <1>2, NextLineType
<1>4. QED
  BY <1>2, <1>3, LeasesLoaded

CacheInv == TypeInv /\ LeasesFresh /\ PolicyFresh

LEMMA CachesFresh == Spec => []CacheInv
<1>1. Init => CacheInv
  <2>1. Init => LeasesFresh /\ PolicyFresh
    BY DEF Init, LeasesFresh, PolicyFresh, OldLeases, OldPolicy
  <2>2. QED BY <2>1, TypeInit DEF CacheInv
<1>2. CacheInv /\ [Next]_vars => CacheInv'
  BY TypeStep, CacheStep DEF CacheInv
<1>3. QED
  BY <1>1, <1>2, PTL DEF Spec

(* PolicyCache: for any cache time, a query for a name that has been       *)
(* forbidden that long raises its alert, whatever was edited, read or      *)
(* killed before, unless a read of the tables failed meanwhile.            *)
THEOREM PolicyAlertsRaised == Spec => PolicyHonoured
<1>1. CacheInv /\ [Next]_vars =>
        [(/\ pc = "query" /\ pc' = "flood" /\ Line.name \in policy.forbidden
          /\ steady'.policy = Ttl /\ steady'.reads = Ttl)
           => <<cur.mac, Line.name, Line.at>> \in alertRows']_vars
  BY PolicyStep DEF CacheInv
<1>2. QED
  BY <1>1, CachesFresh, PTL DEF Spec, PolicyHonoured

(* _load_leases: for any refresh interval, a query is put down to a former *)
(* holder of the address only during that interval after the change.       *)
THEOREM AttributionsFresh == Spec => AttributionFresh
<1>1. CacheInv /\ [Next]_vars =>
        [(pc = "reading" /\ pc' = "query") =>
           LET ip == NextLine.ip IN
           \/ cur'.mac = leases[ip]
           \/ steady.lease[ip] < LeaseRefresh]_vars
  BY AttributionStep DEF CacheInv
<1>2. QED
  BY <1>1, CachesFresh, PTL DEF Spec, AttributionFresh
=============================================================================
