------------------------- MODULE LiveStreamProofs -------------------------
(***************************************************************************)
(* What TLAPS proves of the live feed, for any publishers, tabs and server *)
(* threads, any caps and any number of broken connections and failed       *)
(* queries: its types, that a tab's feed has no hole but the rows that its *)
(* reconnections give up, and that it runs backwards only by a failure of  *)
(* latest_id().                                                            *)
(***************************************************************************)
EXTENDS LiveStream, FiniteSetTheorems, WellFoundedInduction, TLAPS
-----------------------------------------------------------------------------
(* Facts about sets of numbers. *)

(* A set of naturals has a least element. *)
LEMMA LeastExists ==
    ASSUME NEW S, S \subseteq Nat, S # {}
    PROVE  \E i \in S : \A j \in S : i <= j
<1> DEFINE R == OpToRel(<, Nat)
<1>1. IsWellFoundedOn(R, Nat)
  BY NatLessThanWellFounded
<1>2. PICK i \in S : \A j \in S : <<j, i>> \notin R
  BY <1>1, WFMin
<1>3. \A a, b \in Nat : a < b => <<a, b>> \in R
  BY DEF OpToRel
<1>4. \A j \in S : ~(j < i)
  <2> HIDE DEF R
  <2> QED BY <1>2, <1>3, Zenon
<1>5. \A j \in S : i <= j
  BY <1>4
<1>6. QED
  BY <1>5

(* A bounded set of naturals has a greatest element. *)
LEMMA GreatestExists ==
    ASSUME NEW S, S \subseteq Nat, S # {}, NEW n \in Nat, \A i \in S : i <= n
    PROVE  \E i \in S : \A j \in S : j <= i
<1> DEFINE T == {n - i : i \in S}
<1>1. T \subseteq Nat /\ T # {}
  <2>1. \A i \in S : n - i \in Nat
    OBVIOUS
  <2>2. QED BY <2>1
<1>2. PICK k \in T : \A j \in T : k <= j
  <2> HIDE DEF T
  <2> QED BY <1>1, LeastExists
<1>3. PICK i \in S : k = n - i
  BY <1>2
<1>4. \A j \in S : n - i <= n - j
  BY <1>2, <1>3
<1>5. QED
  BY <1>4

USE LiveAssumption
-----------------------------------------------------------------------------
(* The inductive invariant. *)

(* Row ids name rows and never exceed the last one given out, which is kept. *)
RingOK ==
    /\ IsFiniteSet(ring)
    /\ lastRow # 0 => \E r \in ring : r.id = lastRow
    /\ \A r \in ring : r.id <= lastRow
    /\ \A r, q \in ring : r.id = q.id => r = q

(* A connection is served by one thread, which is not free. *)
Linking == \A t \in Tabs : link[t] # NoServer =>
    /\ phase[link[t]] # "free"
    /\ \A u \in Tabs : link[u] = link[t] => u = t

(* What a thread fetched lies after its cursor and skips no row. *)
Fetched == \A w \in Servers :
    /\ latest[w] <= lastRow /\ cursor[w] <= lastRow /\ header[w] <= lastRow
    /\ phase[w] = "resolve" /\ ~blind[w] => header[w] <= latest[w]
    /\ phase[w] # "write" => rows[w] = {}
    /\ \A q \in rows[w] :
          /\ cursor[w] < q.id /\ q.id <= lastRow
          /\ \A r \in rows[w] : r.id = q.id => r = q
          /\ \A r \in ring : cursor[w] < r.id /\ r.id <= q.id => r \in rows[w]

(* A tab has seen, or given up, every row of its feed up to the cursor of its
   thread. *)
Feed == \A t \in Tabs :
    /\ lastId[t] <= lastRow
    /\ link[t] # NoServer /\ phase[link[t]] \in {"latest", "resolve"} =>
          header[link[t]] = lastId[t]
    /\ link[t] # NoServer /\ phase[link[t]] \in {"loop", "write"} =>
          /\ ~blind[link[t]] => lastId[t] <= cursor[link[t]] + 1
          /\ \A r \in ring : since[t] < r.id /\ r.id <= cursor[link[t]] =>
                r.event \in shown[t] \/ r.id \in skipped[t]

IInv == TypeOK /\ RingOK /\ Linking /\ Fetched /\ Feed /\ NoHole
-----------------------------------------------------------------------------
(* Facts about the queries on the ring. *)

(* A fresh connection starts within the ids that were given out, after rows that
   are too old, or no longer among the newest. *)
LEMMA ReplayStartBound ==
    ASSUME TypeOK, RingOK, NEW w \in Servers, latest[w] <= lastRow,
           NEW recent, recent \in {{}, Recent}
    PROVE  /\ ReplayStart(w, recent) \in 0..lastRow
           /\ \A r \in ring : r.id <= ReplayStart(w, recent) =>
                 r \notin Recent \/ r.id + Replay <= lastRow
<1> DEFINE oldest == CHOOSE i \in Ids(recent) : \A j \in Ids(recent) : i <= j
           floor == IF latest[w] > Replay THEN latest[w] - Replay ELSE 0
<1>1. /\ floor \in 0..lastRow
      /\ \A r \in ring : r.id \in Nat \ {0} /\ (r.id <= floor => r.id + Replay <= lastRow)
  BY DEF TypeOK, Row
<1>2. CASE recent # {}
  <2>1. recent = Recent /\ Ids(recent) \subseteq 1..lastRow /\ Ids(recent) # {}
    BY <1>2 DEF TypeOK, RingOK, Row, Ids, Recent
  <2>2. oldest \in Ids(recent) /\ \A j \in Ids(recent) : oldest <= j
    <3>1. \E i \in Ids(recent) : \A j \in Ids(recent) : i <= j
      BY <2>1, LeastExists DEF TypeOK
    <3>2. QED BY <3>1
  <2> HIDE DEF oldest, floor
  <2>3. oldest - 1 \in 0..lastRow /\ oldest \in Nat
    BY <2>1, <2>2 DEF TypeOK
  <2>4. \A r \in ring : r.id <= oldest - 1 => r \notin Recent
    <3>1. \A r \in Recent : oldest <= r.id
      BY <2>1, <2>2 DEF Ids
    <3>2. QED BY <1>1, <2>3, <3>1
  <2>5. ReplayStart(w, recent) = IF oldest - 1 > floor THEN oldest - 1 ELSE floor
    BY <1>2 DEF ReplayStart, oldest, floor
  <2>6. QED
    BY <1>1, <2>3, <2>4, <2>5
<1>3. CASE recent = {}
  <2>1. ReplayStart(w, recent) = floor
    BY <1>3 DEF ReplayStart
  <2>2. QED BY <1>1, <2>1
<1>4. QED
  BY <1>2, <1>3

(* latest_id() is the id of the last row, or 0. *)
LEMMA LatestBound ==
    ASSUME TypeOK, RingOK
    PROVE  (IF ring = {} THEN 0
            ELSE CHOOSE i \in Ids(ring) : \A j \in Ids(ring) : j <= i) = lastRow
<1>1. CASE ring = {}
  BY <1>1 DEF TypeOK, RingOK
<1>2. CASE ring # {}
  <2>1. Ids(ring) \subseteq 1..lastRow /\ Ids(ring) # {} /\ lastRow \in Nat
    BY <1>2 DEF TypeOK, RingOK, Row, Ids
  <2>2. lastRow \in Ids(ring)
    BY <2>1 DEF RingOK, Ids
  <2>3. /\ \A j \in Ids(ring) : j <= lastRow
        /\ \A i \in Ids(ring) : (\A j \in Ids(ring) : j <= i) => i = lastRow
    BY <2>1, <2>2
  <2>4. QED
    BY <1>2, <2>2, <2>3
<1>3. QED
  BY <1>1, <1>2

(* drain() returns rows after the cursor and skips none of them. *)
LEMMA DrainSkipsNone ==
    ASSUME TypeOK, RingOK, NEW c \in Nat, NEW q \in Drain(c), NEW r \in ring,
           c < r.id, r.id <= q.id
    PROVE  r \in Drain(c)
<1> DEFINE after == {x \in ring : x.id > c}
           before(x) == {y \in after : y.id < x.id}
<1>1. q \in after /\ r \in after /\ Cardinality(before(q)) < Limit
  BY DEF Drain, TypeOK, Row
<1>2. IsFiniteSet(before(q))
  BY FS_Subset DEF RingOK
<1>3. before(r) \subseteq before(q)
  BY <1>1 DEF TypeOK, Row
<1>4. /\ IsFiniteSet(before(r))
      /\ Cardinality(before(r)) <= Cardinality(before(q))
      /\ Cardinality(before(r)) \in Nat /\ Cardinality(before(q)) \in Nat
  BY <1>2, <1>3, FS_Subset, FS_CardinalityType
<1>5. Cardinality(before(r)) < Limit
  <2> HIDE DEF before
  <2> QED BY <1>1, <1>4
<1>6. QED
  BY <1>1, <1>5 DEF Drain

(* drain() returns rows of the ring, after the cursor. *)
LEMMA DrainInRing ==
    ASSUME NEW c
    PROVE  \A r \in Drain(c) : r \in ring /\ r.id > c
BY DEF Drain

(* The cursor of a new connection: where a fresh one starts, or at or before the
   last row its tab saw, but for rows that are given up. *)
LEMMA ResumeBound ==
    ASSUME TypeOK, RingOK, NEW w \in Servers, latest[w] <= lastRow,
           header[w] <= lastRow, NEW recent, recent \in {{}, Recent}
    PROVE  /\ ResumeFrom(w, recent) \in 0..lastRow
           /\ header[w] = 0 => ResumeFrom(w, recent) = ReplayStart(w, recent)
           /\ header[w] <= latest[w] => header[w] <= ResumeFrom(w, recent) + 1
           /\ \A r \in ring : header[w] < r.id /\ r.id <= ResumeFrom(w, recent) =>
                 r.id \in GivenUp(w)
<1>1. /\ ReplayStart(w, recent) \in 0..lastRow
      /\ \A r \in ring : r.id <= ReplayStart(w, recent) =>
            r \notin Recent \/ r.id + Replay <= lastRow
  BY ReplayStartBound
<1>2. /\ header[w] \in Nat /\ latest[w] \in Nat /\ lastRow \in Nat
      /\ \A r \in ring : r.id \in Nat
  BY DEF TypeOK, Row
<1>3. \/ ResumeFrom(w, recent) = ReplayStart(w, recent)
      \/ header[w] # 0 /\ ResumeFrom(w, recent) = header[w] - 1
  BY DEF ResumeFrom
<1>4. \A r \in ring : header[w] < r.id /\ r.id <= ReplayStart(w, recent) =>
         r.id \in GivenUp(w)
  BY <1>1 DEF GivenUp, Ids
<1>5. header[w] <= latest[w] => header[w] <= ResumeFrom(w, recent) + 1
  BY <1>1, <1>2 DEF ResumeFrom
<1>6. QED
  BY <1>1, <1>2, <1>3, <1>4, <1>5 DEF ResumeFrom
-----------------------------------------------------------------------------
(* Every step preserves the invariant. *)

(* A delivery touches buffers only. *)
LEMMA DeliverStep ==
    ASSUME IInv, NEW p \in Publishers, Deliver(p)
    PROVE  IInv'
<1> USE DEF IInv
<1>TypeOK. TypeOK'
  BY DEF Deliver, bus, server, tab, bounds, TypeOK, Publishers
<1>RingOK. RingOK'
  BY DEF Deliver, bus, server, tab, bounds, TypeOK, RingOK
<1>Linking. Linking'
  BY DEF Deliver, bus, server, tab, bounds, TypeOK, Linking
<1>Fetched. Fetched'
  BY DEF Deliver, bus, server, tab, bounds, TypeOK, RingOK, Fetched
<1>Feed. Feed'
  BY DEF Deliver, bus, server, tab, bounds, TypeOK, RingOK, Linking, Fetched,
     Feed
<1>NoHole. NoHole'
  BY DEF Deliver, bus, server, tab, bounds, TypeOK, RingOK, Linking, Fetched,
     Feed, NoHole
<1>. QED
  BY <1>TypeOK, <1>RingOK, <1>Linking, <1>Fetched, <1>Feed, <1>NoHole

(* A new row has an id that no cursor has reached. *)
LEMMA InsertStep ==
    ASSUME IInv, NEW p \in Publishers, Insert(p)
    PROVE  IInv'
<1> USE DEF IInv
<1> DEFINE new == [id |-> lastRow + 1, at |-> now, event |-> handing[p]]
<1>1. /\ new \in Row /\ new.id = lastRow + 1
      /\ ring' \subseteq ring \cup {new}
  BY DEF Insert, TypeOK, Row, Newest
<1>2. /\ lastRow' = lastRow + 1 /\ lastRow \in Nat /\ lastRow' \in Nat
      /\ \A r \in ring' : r \in ring \/ r = new
      /\ \A r \in ring : r \in Row /\ r.id \in Nat \ {0} /\ r.id <= lastRow
      /\ UNCHANGED <<published, lost, server, tab, bounds, now>>
  BY <1>1 DEF Insert, TypeOK, RingOK, Row
<1>TypeOK. TypeOK'
  <2>1. /\ inserts' \in [{"collector", "web"} -> Nat]
        /\ handing' \in [Publishers -> Nat]
    BY DEF Insert, TypeOK, Process
  <2>2. ring' \in SUBSET Row
    BY <1>1, <1>2
  <2>3. QED
    BY <1>2, <2>1, <2>2 DEF TypeOK, server, tab, bounds
<1>RingOK. RingOK'
  <2>1. IsFiniteSet(ring')
    BY <1>1, FS_AddElement, FS_Subset DEF RingOK
  <2>2. new \in ring'
    <3>1. {q \in ring \cup {new} : q.id > new.id} = {}
      BY <1>1, <1>2
    <3>2. Cardinality({q \in ring \cup {new} : q.id > new.id}) < Keep
      <4>1. Keep \in Nat \ {0} /\ Cardinality({}) = 0
        BY FS_EmptySet
      <4>2. QED BY <3>1, <4>1
    <3> HIDE DEF new
    <3>3. new \in Newest(ring \cup {new}, Keep)
      BY <3>2 DEF Newest
    <3>4. QED BY <3>3 DEF Insert, new
  <2>3. QED
    BY <1>1, <1>2, <2>1, <2>2 DEF RingOK
<1>Linking. Linking'
  BY <1>2 DEF Linking, server, tab
<1>Fetched. Fetched'
  <2> SUFFICES ASSUME NEW w \in Servers
               PROVE  Fetched!(w)'
    BY DEF Fetched
  <2> QED
    BY <1>1, <1>2 DEF Fetched, TypeOK, server, Row
<1>Feed. Feed'
  BY <1>1, <1>2 DEF Feed, Fetched, Linking, TypeOK, server, tab, Row
<1>NoHole. NoHole'
  BY <1>1, <1>2 DEF NoHole, Feed, TypeOK, server, tab, Row
<1>. QED
  BY <1>TypeOK, <1>RingOK, <1>Linking, <1>Fetched, <1>Feed, <1>NoHole

(* A failed insertion leaves the ring alone. *)
LEMMA InsertLockedStep ==
    ASSUME IInv, NEW p \in Publishers, InsertLocked(p)
    PROVE  IInv'
<1> USE DEF IInv
<1>TypeOK. TypeOK'
  <2>1. handing[p] \in Nat /\ locks' \in Nat
    BY DEF InsertLocked, TypeOK
  <2>2. lost' \in SUBSET Nat /\ handing' \in [Publishers -> Nat]
    BY <2>1 DEF InsertLocked, TypeOK
  <2>3. QED
    BY <2>1, <2>2 DEF InsertLocked, server, tab, TypeOK
<1>RingOK. RingOK'
  BY DEF InsertLocked, bus, server, tab, bounds, TypeOK, RingOK
<1>Linking. Linking'
  BY DEF InsertLocked, bus, server, tab, bounds, TypeOK, Linking
<1>Fetched. Fetched'
  BY DEF InsertLocked, bus, server, tab, bounds, TypeOK, RingOK, Fetched
<1>Feed. Feed'
  BY DEF InsertLocked, bus, server, tab, bounds, TypeOK, RingOK, Linking,
     Fetched, Feed
<1>NoHole. NoHole'
  BY DEF InsertLocked, bus, server, tab, bounds, TypeOK, RingOK, Linking,
     Fetched, Feed, NoHole
<1>. QED
  BY <1>TypeOK, <1>RingOK, <1>Linking, <1>Fetched, <1>Feed, <1>NoHole

(* A new connection gets a free thread. *)
LEMMA ConnectStep ==
    ASSUME IInv, NEW t \in Tabs, NEW w \in Servers, Connect(t, w)
    PROVE  IInv'
<1> USE DEF IInv
<1>TypeOK. TypeOK'
  BY DEF Connect, bus, server, tab, bounds, TypeOK, Publishers
<1>RingOK. RingOK'
  BY DEF Connect, bus, server, tab, bounds, TypeOK, RingOK
<1>Linking. Linking'
  BY DEF Connect, bus, server, tab, bounds, TypeOK, Linking
<1>Fetched. Fetched'
  BY DEF Connect, bus, TypeOK, Fetched, Feed
<1>Feed. Feed'
  BY DEF Connect, bus, server, tab, bounds, TypeOK, RingOK, Linking, Fetched,
     Feed
<1>NoHole. NoHole'
  BY DEF Connect, bus, server, tab, bounds, TypeOK, RingOK, Linking, Fetched,
     Feed, NoHole
<1>. QED
  BY <1>TypeOK, <1>RingOK, <1>Linking, <1>Fetched, <1>Feed, <1>NoHole

(* Failed queries are counted. *)
LEMMA QueriedType ==
    ASSUME TypeOK, NEW failed \in BOOLEAN, Queried(failed)
    PROVE  locks' \in Nat
<1>1. locks \in Nat /\ locks + 1 \in Nat
  BY DEF TypeOK
<1>2. QED
  BY <1>1 DEF Queried

(* What latest_id() returns is the id of the last row, or 0. *)
LEMMA ReadLatestStep ==
    ASSUME IInv, NEW w \in Servers, ReadLatest(w)
    PROVE  IInv'
<1> USE DEF IInv
<1>1. PICK failed \in BOOLEAN :
          /\ Queried(failed)
          /\ latest' = [latest EXCEPT ![w] =
                           IF failed \/ ring = {} THEN 0
                           ELSE CHOOSE i \in Ids(ring) : \A j \in Ids(ring) : j <= i]
          /\ blind' = [blind EXCEPT ![w] = failed]
  BY DEF ReadLatest
<1>2. /\ latest' = [latest EXCEPT ![w] = IF failed THEN 0 ELSE lastRow]
      /\ blind' = [blind EXCEPT ![w] = failed] /\ locks' \in Nat
      /\ phase[w] = "latest" /\ phase' = [phase EXCEPT ![w] = "resolve"]
      /\ UNCHANGED <<bus, buffer, header, cursor, rows, tab, drops, now>>
  <2>1. (IF failed \/ ring = {} THEN 0
         ELSE CHOOSE i \in Ids(ring) : \A j \in Ids(ring) : j <= i)
           = IF failed THEN 0 ELSE lastRow
    BY LatestBound
  <2>2. latest' = [latest EXCEPT ![w] = IF failed THEN 0 ELSE lastRow]
    BY <1>1, <2>1
  <2>3. locks' \in Nat
    BY <1>1, QueriedType
  <2>4. QED BY <1>1, <2>2, <2>3 DEF ReadLatest
<1>TypeOK. TypeOK'
  BY <1>2 DEF TypeOK, bus, tab
<1>RingOK. RingOK'
  BY <1>2 DEF bus, TypeOK, RingOK
<1>Linking. Linking'
  BY <1>2 DEF tab, TypeOK, Linking
<1>Fetched. Fetched'
  BY <1>2 DEF TypeOK, Fetched, bus
<1>Feed. Feed'
  BY <1>2 DEF bus, tab, TypeOK, Linking, Feed
<1>NoHole. NoHole'
  BY <1>2 DEF bus, tab, NoHole
<1>. QED
  BY <1>TypeOK, <1>RingOK, <1>Linking, <1>Fetched, <1>Feed, <1>NoHole

(* The cursor of a connection starts at or before what its tab has seen, but for
   rows that are given up, or where its feed starts anew. *)
LEMMA ResolveCursorStep ==
    ASSUME IInv, NEW w \in Servers, ResolveCursor(w)
    PROVE  IInv'
<1> USE DEF IInv
<1>1. PICK failed \in BOOLEAN :
          LET recent == IF failed THEN {} ELSE Recent
          IN  /\ Queried(failed)
              /\ cursor' = [cursor EXCEPT ![w] = ResumeFrom(w, recent)]
              /\ since' = [t \in Tabs |-> IF link[t] = w /\ header[w] = 0
                                          THEN ReplayStart(w, recent) ELSE since[t]]
  BY DEF ResolveCursor
<1> DEFINE recent == IF failed THEN {} ELSE Recent
           start == ReplayStart(w, recent)
           from == ResumeFrom(w, recent)
           gone == GivenUp(w)
<1>2. /\ from \in 0..lastRow /\ start \in 0..lastRow
      /\ header[w] = 0 => from = start
      /\ header[w] <= latest[w] => header[w] <= from + 1
      /\ \A r \in ring : header[w] < r.id /\ r.id <= from => r.id \in gone
      /\ gone \subseteq Nat
  <2>1. recent \in {{}, Recent} /\ latest[w] <= lastRow /\ header[w] <= lastRow
    BY DEF Fetched
  <2>2. gone \subseteq Nat
    BY DEF GivenUp, Ids, TypeOK, Row
  <2> HIDE DEF recent
  <2>3. QED
    BY <2>1, <2>2, ResumeBound, ReplayStartBound
<1>3. /\ cursor' = [cursor EXCEPT ![w] = from] /\ locks' \in Nat
      /\ phase[w] = "resolve" /\ phase' = [phase EXCEPT ![w] = "loop"]
      /\ since' = [t \in Tabs |-> IF link[t] = w /\ header[w] = 0 THEN start ELSE since[t]]
      /\ skipped' = [t \in Tabs |-> IF link[t] # w THEN skipped[t]
                                    ELSE IF header[w] = 0 THEN {} ELSE skipped[t] \cup gone]
      /\ UNCHANGED <<bus, buffer, header, latest, blind, rows, link, lastId, shown,
                     drops, now>>
  <2>1. locks' \in Nat
    BY <1>1, QueriedType
  <2>2. QED BY <1>1, <2>1 DEF ResolveCursor
<1> HIDE DEF start, from, gone
<1>TypeOK. TypeOK'
  <2>1. since' \in [Tabs -> Nat] /\ skipped' \in [Tabs -> SUBSET Nat]
    <3>1. /\ since \in [Tabs -> Nat] /\ skipped \in [Tabs -> SUBSET Nat]
          /\ start \in Nat /\ gone \in SUBSET Nat
      BY <1>2 DEF TypeOK
    <3>2. /\ \A t \in Tabs : (IF link[t] = w /\ header[w] = 0 THEN start ELSE since[t]) \in Nat
          /\ \A t \in Tabs : (IF link[t] # w THEN skipped[t]
                               ELSE IF header[w] = 0 THEN {} ELSE skipped[t] \cup gone)
                                 \in SUBSET Nat
      BY <3>1
    <3>3. QED BY <1>3, <3>2
  <2>2. cursor' \in [Servers -> Nat]
    BY <1>2, <1>3 DEF TypeOK
  <2>3. QED
    BY <1>3, <2>1, <2>2 DEF TypeOK, bus
<1>RingOK. RingOK'
  BY <1>3 DEF RingOK, bus
<1>Linking. Linking'
  BY <1>3 DEF Linking, TypeOK
<1>Fetched. Fetched'
  BY <1>2, <1>3 DEF Fetched, TypeOK, bus
<1>4. ASSUME NEW t \in Tabs, link[t] = w, NEW r \in ring, since'[t] < r.id, r.id <= from
      PROVE  r.event \in shown[t] \/ r.id \in skipped'[t]
  <2>1. /\ r.id \in Nat /\ lastId[t] \in Nat /\ lastId[t] = header[w] /\ w # NoServer
        /\ from \in Nat /\ start \in Nat
    BY <1>2, <1>3, <1>4 DEF TypeOK, Row, Feed
  <2>2. header[w] # 0
    BY <1>2, <1>3, <1>4, <2>1
  <2>3. since'[t] = since[t] /\ skipped'[t] = skipped[t] \cup gone
    BY <1>3, <1>4, <2>2
  <2>4. CASE r.id <= lastId[t]
    BY <1>4, <2>3, <2>4 DEF NoHole
  <2>5. CASE lastId[t] < r.id
    BY <1>2, <1>4, <2>1, <2>3, <2>5
  <2>6. QED BY <2>1, <2>4, <2>5
<1>Feed. Feed'
  <2> SUFFICES ASSUME NEW t \in Tabs
               PROVE  Feed!(t)'
    BY DEF Feed
  <2>1. CASE link[t] = w
    <3>1. /\ lastId[t] = header[w] /\ link'[t] = w /\ lastId'[t] = lastId[t]
          /\ phase'[w] = "loop" /\ cursor'[w] = from /\ lastId[t] <= lastRow
          /\ w # NoServer /\ header[w] \in Nat /\ ring' = ring /\ shown' = shown
          /\ lastRow' = lastRow /\ link' = link /\ blind' = blind
      BY <1>3, <2>1 DEF Feed, TypeOK, bus
    <3>2. ~blind[w] => lastId[t] <= from + 1
      BY <1>2, <1>3, <3>1 DEF Fetched
    <3>3. QED
      BY <1>2, <1>4, <2>1, <3>1, <3>2
  <2>2. CASE link[t] # w
    BY <1>3, <2>2 DEF Feed, TypeOK, bus
  <2>3. QED BY <2>1, <2>2
<1>NoHole. NoHole'
  <2> SUFFICES ASSUME NEW t \in Tabs, NEW r \in ring,
                      since'[t] < r.id, r.id <= lastId[t]
               PROVE  r.event \in shown[t] \/ r.id \in skipped'[t]
    BY <1>3 DEF NoHole, bus
  <2>1. r.id \in Nat \ {0} /\ lastId[t] \in Nat /\ start \in Nat
    BY <1>2 DEF TypeOK, Row
  <2>2. CASE link[t] = w /\ header[w] = 0
    <3>1. lastId[t] = 0
      BY <1>3, <2>2 DEF Feed, TypeOK
    <3>2. QED
      BY <2>1, <3>1
  <2>3. CASE ~(link[t] = w /\ header[w] = 0)
    BY <1>3, <2>3 DEF NoHole
  <2>4. QED BY <2>2, <2>3
<1>. QED
  BY <1>TypeOK, <1>RingOK, <1>Linking, <1>Fetched, <1>Feed, <1>NoHole

(* The end of a thread keeps the types of what it resets. *)
LEMMA FinishType ==
    ASSUME TypeOK, NEW w \in Servers, Finish(w)
    PROVE  /\ phase' \in [Servers -> {"free", "latest", "resolve", "loop", "write"}]
           /\ buffer' \in [Servers -> SUBSET Nat] /\ header' \in [Servers -> Nat]
           /\ latest' \in [Servers -> Nat] /\ blind' \in [Servers -> BOOLEAN]
           /\ cursor' \in [Servers -> Nat] /\ rows' \in [Servers -> SUBSET Row]
BY DEF Finish, TypeOK

(* What is shown are events. *)
LEMMA ShowType ==
    ASSUME TypeOK, NEW w \in Servers, NEW events \in SUBSET Nat, Show(w, events)
    PROVE  shown' \in [Tabs -> SUBSET Nat]
<1>1. \A t \in Tabs : shown[t] \in SUBSET Nat
  BY DEF TypeOK
<1>2. \A t \in Tabs : (IF link[t] = w THEN shown[t] \cup events ELSE shown[t]) \in SUBSET Nat
  BY <1>1
<1>3. QED
  BY <1>2 DEF Show

(* Writing the buffer only adds to what is shown. *)
LEMMA TakeBufferStep ==
    ASSUME IInv, NEW w \in Servers, TakeBuffer(w)
    PROVE  IInv'
<1> USE DEF IInv
<1>TypeOK. TypeOK'
  <2>1. UNCHANGED <<bus, link, lastId, since, skipped, bounds, now>>
    BY DEF TakeBuffer
  <2>2. CASE Linked(w)
    <3>1. buffer[w] \in SUBSET Nat /\ Show(w, buffer[w])
      BY <2>2 DEF TakeBuffer, TypeOK
    <3>2. shown' \in [Tabs -> SUBSET Nat]
      BY <3>1, ShowType
    <3>3. /\ buffer' = [buffer EXCEPT ![w] = {}]
          /\ UNCHANGED <<phase, header, latest, blind, cursor, rows>>
      BY <2>2 DEF TakeBuffer
    <3>4. QED BY <2>1, <3>2, <3>3 DEF TypeOK, bus, bounds
  <2>3. CASE ~Linked(w)
    <3>1. Finish(w) /\ UNCHANGED shown
      BY <2>3 DEF TakeBuffer
    <3>2. QED BY <2>1, <3>1, FinishType DEF TypeOK, bus, bounds
  <2>4. QED BY <2>2, <2>3
<1>RingOK. RingOK'
  BY DEF TakeBuffer, Finish, Show, Linked, bus, server, tab, bounds, TypeOK,
     RingOK
<1>Linking. Linking'
  BY DEF TakeBuffer, Finish, Show, Linked, bus, server, tab, bounds, TypeOK,
     Linking
<1>Fetched. Fetched'
  BY DEF TakeBuffer, Finish, Show, Linked, bus, server, tab, bounds, TypeOK,
     RingOK, Fetched
<1>Feed. Feed'
  BY DEF TakeBuffer, Finish, Show, Linked, bus, server, tab, bounds, TypeOK,
     RingOK, Linking, Fetched, Feed
<1>NoHole. NoHole'
  BY DEF TakeBuffer, Finish, Show, Linked, bus, server, tab, bounds, TypeOK,
     RingOK, Linking, Fetched, Feed, NoHole
<1>. QED
  BY <1>TypeOK, <1>RingOK, <1>Linking, <1>Fetched, <1>Feed, <1>NoHole

(* drain() skips no row. *)
LEMMA PollStep ==
    ASSUME IInv, NEW w \in Servers, Poll(w)
    PROVE  IInv'
<1> USE DEF IInv
<1>1. /\ Drain(cursor[w]) \subseteq ring
      /\ \A r \in Drain(cursor[w]) : r \in ring /\ r.id > cursor[w]
      /\ \A q \in Drain(cursor[w]), r \in ring :
            cursor[w] < r.id /\ r.id <= q.id => r \in Drain(cursor[w])
  <2>1. cursor[w] \in Nat
    BY DEF TypeOK
  <2>2. QED
    BY <2>1, DrainInRing, DrainSkipsNone
<1> DEFINE got == Drain(cursor[w])
<1>2. /\ rows' = [rows EXCEPT ![w] = got]
      /\ phase[w] = "loop" /\ phase' = [phase EXCEPT ![w] = "write"]
      /\ UNCHANGED <<bus, buffer, header, latest, blind, cursor, tab, bounds, now>>
  BY DEF Poll
<1> HIDE DEF got
<1>3. /\ got \subseteq ring
      /\ \A r \in got : r \in ring /\ r.id > cursor[w]
      /\ \A q \in got, r \in ring : cursor[w] < r.id /\ r.id <= q.id => r \in got
  BY <1>1 DEF got
<1>TypeOK. TypeOK'
  BY <1>2, <1>3 DEF TypeOK, bus, tab, bounds
<1>RingOK. RingOK'
  BY <1>2 DEF RingOK, bus
<1>Linking. Linking'
  BY <1>2 DEF Linking, TypeOK, tab
<1>Fetched. Fetched'
  <2> SUFFICES ASSUME NEW v \in Servers
               PROVE  Fetched!(v)'
    BY DEF Fetched
  <2>1. CASE v = w
    <3>1. /\ rows'[w] = got /\ phase'[w] = "write" /\ cursor' = cursor
          /\ ring' = ring /\ lastRow' = lastRow /\ latest' = latest /\ header' = header
      BY <1>2 DEF TypeOK, bus
    <3>2. QED
      BY <1>3, <2>1, <3>1 DEF Fetched, RingOK, TypeOK, Row
  <2>2. CASE v # w
    BY <1>2, <2>2 DEF Fetched, TypeOK, bus
  <2>3. QED BY <2>1, <2>2
<1>Feed. Feed'
  BY <1>2 DEF Feed, TypeOK, bus, tab
<1>NoHole. NoHole'
  BY <1>2 DEF NoHole, bus, tab
<1>. QED
  BY <1>TypeOK, <1>RingOK, <1>Linking, <1>Fetched, <1>Feed, <1>NoHole

(* A row is written after every row before it. *)
LEMMA WriteRowStep ==
    ASSUME IInv, NEW w \in Servers, WriteRow(w)
    PROVE  IInv'
<1> USE DEF IInv
<1>1. PICK r \in rows[w] :
          /\ \A q \in rows[w] : r.id <= q.id
          /\ IF Linked(w)
             THEN /\ Show(w, {r.event})
                  /\ lastId' = [t \in Tabs |-> IF link[t] = w THEN r.id ELSE lastId[t]]
                  /\ cursor' = [cursor EXCEPT ![w] = IF r.id > @ THEN r.id ELSE @]
                  /\ rows' = [rows EXCEPT ![w] = @ \ {r}]
                  /\ blind' = [blind EXCEPT ![w] = FALSE]
                  /\ phase' = [phase EXCEPT ![w] =
                                  IF rows[w] = {r} THEN "loop" ELSE "write"]
                  /\ UNCHANGED <<buffer, header, latest>>
             ELSE /\ Finish(w)
                  /\ UNCHANGED <<shown, lastId>>
  BY DEF WriteRow
<1>2. /\ r \in Row /\ r.id \in Nat \ {0} /\ r.event \in Nat
      /\ cursor[w] < r.id /\ r.id <= lastRow
      /\ \A q \in rows[w] : q.id \in Nat /\ (q # r => r.id < q.id)
  <2>1. rows[w] \subseteq Row /\ \A q \in rows[w] : q.id \in Nat \ {0}
    BY DEF TypeOK, Row
  <2>2. /\ cursor[w] < r.id /\ r.id <= lastRow
        /\ \A q \in rows[w] : r.id = q.id => r = q
    BY DEF Fetched
  <2>3. r \in Row /\ r.event \in Nat
    BY <2>1 DEF Row
  <2>4. QED
    BY <1>1, <2>1, <2>2, <2>3
<1>3. /\ phase[w] = "write"
      /\ UNCHANGED <<bus, link, since, skipped, bounds, now>>
  BY DEF WriteRow
<1>4. Linked(w) => /\ cursor' = [cursor EXCEPT ![w] = r.id]
                   /\ shown' = [t \in Tabs |-> IF link[t] = w
                                   THEN shown[t] \cup {r.event} ELSE shown[t]]
  BY <1>1, <1>2 DEF Show, TypeOK
<1>5. ASSUME NEW t \in Tabs, link[t] = w, NEW x \in ring, since[t] < x.id, x.id <= r.id
      PROVE  x.event \in shown[t] \cup {r.event} \/ x.id \in skipped[t]
  <2>1. x.id \in Nat /\ cursor[w] \in Nat /\ w # NoServer
    BY DEF TypeOK, Row
  <2>2. CASE x.id <= cursor[w]
    BY <1>3, <1>5, <2>1, <2>2 DEF Feed
  <2>3. CASE cursor[w] < x.id
    <3>1. x \in rows[w]
      BY <1>1, <1>5, <2>3 DEF Fetched
    <3>2. x = r
      BY <1>2, <1>5, <2>1, <3>1
    <3>3. QED BY <3>2
  <2>4. QED BY <2>1, <2>2, <2>3
<1>TypeOK. TypeOK'
  <2>1. CASE Linked(w)
    <3>1. {r.event} \in SUBSET Nat /\ Show(w, {r.event})
      BY <1>1, <1>2, <2>1
    <3>2. shown' \in [Tabs -> SUBSET Nat]
      BY <3>1, ShowType
    <3>3. /\ cursor' \in [Servers -> Nat] /\ rows' \in [Servers -> SUBSET Row]
          /\ lastId' \in [Tabs -> Nat]
      BY <1>1, <1>2, <1>4, <2>1 DEF TypeOK
    <3>4. /\ phase' \in [Servers -> {"free", "latest", "resolve", "loop", "write"}]
          /\ blind' \in [Servers -> BOOLEAN]
      BY <1>1, <2>1 DEF TypeOK
    <3>5. UNCHANGED <<buffer, header, latest>>
      BY <1>1, <2>1
    <3>6. QED BY <1>3, <3>2, <3>3, <3>4, <3>5 DEF TypeOK, bus, bounds
  <2>2. CASE ~Linked(w)
    <3>1. Finish(w) /\ UNCHANGED <<shown, lastId>>
      BY <1>1, <2>2
    <3>2. QED BY <1>3, <3>1, FinishType DEF TypeOK, bus, bounds
  <2>3. QED BY <2>1, <2>2
<1>RingOK. RingOK'
  BY <1>3 DEF RingOK, bus
<1>Linking. Linking'
  BY <1>1, <1>3 DEF Linking, Linked, Finish, TypeOK
<1>Fetched. Fetched'
  <2> SUFFICES ASSUME NEW v \in Servers
               PROVE  Fetched!(v)'
    BY DEF Fetched
  <2>1. ring' = ring /\ lastRow' = lastRow
    BY <1>3 DEF bus
  <2>2. CASE v # w
    BY <1>1, <1>4, <2>1, <2>2 DEF Fetched, Finish, TypeOK
  <2>3. CASE v = w /\ Linked(w)
    <3>1. /\ cursor'[w] = r.id /\ rows'[w] = rows[w] \ {r}
          /\ phase'[w] = IF rows[w] = {r} THEN "loop" ELSE "write"
          /\ latest' = latest /\ header' = header
      BY <1>1, <1>4, <2>3 DEF TypeOK
    <3>2. phase'[w] # "write" => rows'[w] = {}
      BY <3>1
    <3>3. ASSUME NEW q \in rows'[w]
          PROVE  /\ cursor'[w] < q.id /\ q.id <= lastRow
                 /\ \A x \in rows'[w] : x.id = q.id => x = q
                 /\ \A x \in ring : cursor'[w] < x.id /\ x.id <= q.id => x \in rows'[w]
      <4>1. q \in rows[w] /\ q # r /\ q.id <= lastRow /\ r.id < q.id
        BY <1>2, <3>1, <3>3 DEF Fetched
      <4>2. ASSUME NEW x \in ring, r.id < x.id, x.id <= q.id
            PROVE  x \in rows'[w]
        <5>1. x.id \in Nat /\ cursor[w] \in Nat
          BY DEF TypeOK, Row
        <5>2. x \in rows[w]
          BY <1>2, <4>1, <4>2, <5>1 DEF Fetched
        <5>3. x # r
          BY <1>2, <4>2, <5>1
        <5>4. QED BY <3>1, <5>2, <5>3
      <4>3. \A x \in rows'[w] : x.id = q.id => x = q
        BY <3>1, <4>1 DEF Fetched
      <4>4. QED BY <3>1, <4>1, <4>2, <4>3
    <3>4. QED
      BY <1>2, <2>1, <2>3, <3>1, <3>2, <3>3 DEF Fetched
  <2>4. CASE v = w /\ ~Linked(w)
    BY <1>1, <2>1, <2>4 DEF Fetched, Finish, TypeOK
  <2>5. QED BY <2>2, <2>3, <2>4
<1>Feed. Feed'
  <2> SUFFICES ASSUME NEW t \in Tabs
               PROVE  Feed!(t)'
    BY DEF Feed
  <2>1. /\ ring' = ring /\ lastRow' = lastRow /\ link' = link /\ since' = since
        /\ skipped' = skipped
    BY <1>3 DEF bus
  <2>2. CASE ~Linked(w)
    BY <1>1, <2>1, <2>2 DEF Feed, Finish, Linked, TypeOK
  <2>3. CASE Linked(w) /\ link[t] # w
    <3>1. lastId'[t] = lastId[t] /\ shown'[t] = shown[t]
      BY <1>1, <1>4, <2>3
    <3>2. link[t] # NoServer => /\ phase'[link[t]] = phase[link[t]]
                                /\ cursor'[link[t]] = cursor[link[t]]
                                /\ header'[link[t]] = header[link[t]]
                                /\ blind'[link[t]] = blind[link[t]]
      BY <1>1, <1>4, <2>3 DEF TypeOK
    <3>3. QED BY <2>1, <3>1, <3>2 DEF Feed
  <2>4. CASE link[t] = w
    <3>1. Linked(w) /\ w # NoServer
      BY <2>4 DEF Linked
    <3>2. /\ lastId'[t] = r.id /\ cursor'[w] = r.id
          /\ shown'[t] = shown[t] \cup {r.event} /\ phase'[w] \in {"loop", "write"}
      BY <1>1, <1>4, <2>4, <3>1 DEF TypeOK
    <3>3. \A x \in ring : since[t] < x.id /\ x.id <= r.id =>
             x.event \in shown'[t] \/ x.id \in skipped[t]
      BY <1>5, <2>4, <3>2
    <3>4. QED BY <1>2, <2>1, <2>4, <3>2, <3>3
  <2>5. QED BY <2>2, <2>3, <2>4
<1>NoHole. NoHole'
  <2> SUFFICES ASSUME NEW t \in Tabs, NEW x \in ring,
                      since[t] < x.id, x.id <= lastId'[t]
               PROVE  x.event \in shown'[t] \/ x.id \in skipped[t]
    BY <1>3 DEF NoHole, bus
  <2>1. CASE ~Linked(w) \/ link[t] # w
    BY <1>1, <1>4, <2>1 DEF NoHole
  <2>2. CASE Linked(w) /\ link[t] = w
    BY <1>1, <1>4, <1>5, <2>2
  <2>3. QED BY <2>1, <2>2
<1>. QED
  BY <1>TypeOK, <1>RingOK, <1>Linking, <1>Fetched, <1>Feed, <1>NoHole

(* A thread that ends had no connection. *)
LEMMA HeartbeatStep ==
    ASSUME IInv, NEW w \in Servers, Heartbeat(w)
    PROVE  IInv'
<1> USE DEF IInv
<1>TypeOK. TypeOK'
  BY DEF Heartbeat, Finish, Linked, bus, server, tab, bounds, TypeOK, Publishers
<1>RingOK. RingOK'
  BY DEF Heartbeat, Finish, Linked, bus, server, tab, bounds, TypeOK, RingOK
<1>Linking. Linking'
  BY DEF Heartbeat, Finish, Linked, bus, server, tab, bounds, TypeOK, Linking
<1>Fetched. Fetched'
  BY DEF Heartbeat, Finish, Linked, bus, server, tab, bounds, TypeOK, RingOK,
     Fetched
<1>Feed. Feed'
  BY DEF Heartbeat, Finish, Linked, bus, server, tab, bounds, TypeOK, RingOK,
     Linking, Fetched, Feed
<1>NoHole. NoHole'
  BY DEF Heartbeat, Finish, Linked, bus, server, tab, bounds, TypeOK, RingOK,
     Linking, Fetched, Feed, NoHole
<1>. QED
  BY <1>TypeOK, <1>RingOK, <1>Linking, <1>Fetched, <1>Feed, <1>NoHole

(* A broken connection leaves its thread behind. *)
LEMMA DropStep ==
    ASSUME IInv, NEW t \in Tabs, Drop(t)
    PROVE  IInv'
<1> USE DEF IInv
<1>TypeOK. TypeOK'
  BY DEF Drop, bus, server, tab, bounds, TypeOK, Publishers
<1>RingOK. RingOK'
  BY DEF Drop, bus, server, tab, bounds, TypeOK, RingOK
<1>Linking. Linking'
  BY DEF Drop, bus, server, tab, bounds, TypeOK, Linking
<1>Fetched. Fetched'
  BY DEF Drop, bus, server, tab, bounds, TypeOK, RingOK, Fetched
<1>Feed. Feed'
  BY DEF Drop, bus, server, tab, bounds, TypeOK, RingOK, Linking, Fetched, Feed
<1>NoHole. NoHole'
  BY DEF Drop, bus, server, tab, bounds, TypeOK, RingOK, Linking, Fetched, Feed,
     NoHole
<1>. QED
  BY <1>TypeOK, <1>RingOK, <1>Linking, <1>Fetched, <1>Feed, <1>NoHole

(* A new EventSource starts a new feed. *)
LEMMA RenewStep ==
    ASSUME IInv, NEW t \in Tabs, Renew(t)
    PROVE  IInv'
<1> USE DEF IInv
<1>TypeOK. TypeOK'
  BY DEF Renew, bus, server, tab, bounds, TypeOK, Publishers
<1>RingOK. RingOK'
  BY DEF Renew, bus, server, tab, bounds, TypeOK, RingOK
<1>Linking. Linking'
  BY DEF Renew, bus, server, tab, bounds, TypeOK, Linking
<1>Fetched. Fetched'
  BY DEF Renew, bus, server, tab, bounds, TypeOK, RingOK, Fetched
<1>Feed. Feed'
  BY DEF Renew, bus, server, tab, bounds, TypeOK, RingOK, Linking, Fetched, Feed
<1>NoHole. NoHole'
  BY DEF Renew, TypeOK, NoHole, bus, Row
<1>. QED
  BY <1>TypeOK, <1>RingOK, <1>Linking, <1>Fetched, <1>Feed, <1>NoHole

(* Time moves. *)
LEMMA TickStep ==
    ASSUME IInv, Tick
    PROVE  IInv'
<1> USE DEF IInv
<1>TypeOK. TypeOK'
  BY DEF Tick, bus, server, tab, bounds, TypeOK, Publishers
<1>RingOK. RingOK'
  BY DEF Tick, bus, server, tab, bounds, TypeOK, RingOK
<1>Linking. Linking'
  BY DEF Tick, bus, server, tab, bounds, TypeOK, Linking
<1>Fetched. Fetched'
  BY DEF Tick, bus, server, tab, bounds, TypeOK, RingOK, Fetched
<1>Feed. Feed'
  BY DEF Tick, bus, server, tab, bounds, TypeOK, RingOK, Linking, Fetched, Feed
<1>NoHole. NoHole'
  BY DEF Tick, bus, server, tab, bounds, TypeOK, RingOK, Linking, Fetched, Feed,
     NoHole
<1>. QED
  BY <1>TypeOK, <1>RingOK, <1>Linking, <1>Fetched, <1>Feed, <1>NoHole

(* The invariant holds at first, ... *)
LEMMA InitHolds == Init => IInv
<1> SUFFICES ASSUME Init PROVE IInv
  OBVIOUS
<1>1. TypeOK
  BY DEF Init, TypeOK, Publishers
<1>2. RingOK
  BY FS_EmptySet DEF Init, RingOK
<1>3. Linking /\ Fetched /\ Feed /\ NoHole
  BY DEF Init, Linking, Fetched, Feed, NoHole
<1>4. QED
  BY <1>1, <1>2, <1>3 DEF IInv

(* ... is kept by every step, ... *)
LEMMA NextHolds == IInv /\ [Next]_vars => IInv'
<1> SUFFICES ASSUME IInv, [Next]_vars PROVE IInv'
  OBVIOUS
<1>1. ASSUME NEW p \in Publishers, Deliver(p) \/ Insert(p) \/ InsertLocked(p)
      PROVE  IInv'
  BY <1>1, DeliverStep, InsertStep, InsertLockedStep
<1>2. ASSUME NEW t \in Tabs,
             (\E w \in Servers : Connect(t, w)) \/ Drop(t) \/ Renew(t)
      PROVE  IInv'
  BY <1>2, ConnectStep, DropStep, RenewStep
<1>3. ASSUME NEW w \in Servers, ServerStep(w)
      PROVE  IInv'
  BY <1>3, ReadLatestStep, ResolveCursorStep, TakeBufferStep, PollStep,
     WriteRowStep, HeartbeatStep DEF ServerStep
<1>4. CASE Tick
  BY <1>4, TickStep
<1>5. CASE UNCHANGED vars
  BY <1>5 DEF vars, bus, server, tab, bounds, IInv, TypeOK, RingOK, Linking,
     Fetched, Feed, NoHole
<1>6. QED
  BY <1>1, <1>2, <1>3, <1>4, <1>5 DEF Next

(* ... and so holds always. *)
LEMMA Inductive == Spec => []IInv
BY InitHolds, NextHolds, PTL DEF Spec

(* The types are right: no cursor is ever negative, in particular. *)
THEOREM TypeCorrect == Spec => []TypeOK
<1>1. IInv => TypeOK
  BY DEF IInv
<1>2. QED
  BY <1>1, Inductive, PTL

(* Through broken connections, reconnections and failed queries a tab's feed has no
   hole but the rows that its reconnections gave up as too old or too many. *)
THEOREM FeedIsWhole == Spec => []NoHole
<1>1. IInv => NoHole
  BY DEF IInv
<1>2. QED
  BY <1>1, Inductive, PTL

(* One step never takes a tab's last event id back, unless its EventSource is a
   new one, or the latest_id() of its thread failed. *)
LEMMA ForwardStep ==
    ASSUME IInv, [Next]_vars, NEW t \in Tabs
    PROVE  \/ lastId'[t] >= lastId[t]
           \/ lastId'[t] = 0 /\ Renew(t)
           \/ link[t] \in Servers /\ blind[link[t]]
<1>0. lastId[t] \in Nat /\ lastId \in [Tabs -> Nat]
  BY DEF IInv, TypeOK
<1>1. CASE lastId' = lastId
  BY <1>0, <1>1
<1>2. ASSUME NEW w \in Servers, WriteRow(w), ~(link[t] \in Servers /\ blind[link[t]])
      PROVE  lastId'[t] >= lastId[t]
  <2>1. CASE Linked(w) /\ link[t] = w
    <3>1. PICK r \in rows[w] : lastId'[t] = r.id
      BY <1>2, <2>1 DEF WriteRow
    <3>2. /\ lastId[t] <= cursor[w] + 1 /\ cursor[w] < r.id
          /\ cursor[w] \in Nat /\ r.id \in Nat
      BY <1>2, <2>1 DEF WriteRow, IInv, Feed, Fetched, TypeOK, Row
    <3>3. QED BY <1>0, <3>1, <3>2
  <2>2. CASE ~(Linked(w) /\ link[t] = w)
    <3>1. lastId'[t] = lastId[t]
      BY <1>2, <2>2 DEF WriteRow
    <3>2. QED BY <1>0, <3>1
  <2>3. QED BY <2>1, <2>2
<1>3. ASSUME NEW u \in Tabs, Renew(u)
      PROVE  lastId'[t] >= lastId[t] \/ (lastId'[t] = 0 /\ Renew(t))
  <2>1. CASE t = u
    BY <1>0, <1>3, <2>1 DEF Renew
  <2>2. CASE t # u
    <3>1. lastId'[t] = lastId[t]
      BY <1>0, <1>3, <2>2 DEF Renew
    <3>2. QED BY <1>0, <3>1
  <2>3. QED BY <2>1, <2>2
<1>4. QED
  BY <1>1, <1>2, <1>3 DEF Next, ServerStep, Deliver, Insert, InsertLocked,
     Connect, Drop, ReadLatest, ResolveCursor, TakeBuffer, Poll, Heartbeat, Tick,
     vars, tab

(* A tab's feed never runs backwards: a reconnection whose latest_id() succeeds
   repeats at most the last row it saw. *)
THEOREM NeverBackwards == Spec => FeedForward
<1>1. IInv /\ [Next]_vars =>
        [\A t \in Tabs : \/ lastId'[t] >= lastId[t]
                         \/ lastId'[t] = 0 /\ Renew(t)
                         \/ link[t] \in Servers /\ blind[link[t]]]_vars
  BY ForwardStep
<1>2. QED
  BY <1>1, Inductive, PTL DEF Spec, FeedForward
=============================================================================
