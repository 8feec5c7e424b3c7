---------------------------- MODULE LiveStream ----------------------------
(***************************************************************************)
(* The live feed of the dashboard: events/live_bus.py,                     *)
(* web/server/live_stream.py and the EventSource of web/static/js/live.js. *)
(*                                                                         *)
(* A publisher first puts an event into the buffer of every subscriber of  *)
(* its own process, then inserts it into a ring of rows in SQLite.  Each   *)
(* connection of a tab is served by a thread that alternates between its   *)
(* buffer and the ring, where it remembers how far it has read.  A tab     *)
(* reconnects by itself and sends the last row id it saw (Last-Event-ID).  *)
(* The collector is a process of its own: its events travel by the ring    *)
(* only.  An event is its number; what it says does not matter here.       *)
(***************************************************************************)
EXTENDS Integers, FiniteSets

CONSTANTS
    Collectors,     \* publishing threads of the collector's process
    WebThreads,     \* publishing threads of the dashboard's process
    Tabs,           \* browser tabs
    Servers,        \* threads that serve connections
    NoServer,       \* a tab without a connection
    Backlog,        \* cap of a subscriber's buffer (500)
    Limit,          \* rows that one drain returns (200)
    TrimEvery,      \* _TRIM_EVERY (100)
    Keep,           \* rows that a trim leaves (1000)
    Replay,         \* _RING_REPLAY (50)
    Window,         \* _RING_REPLAY_WINDOW (60), in ticks
    Slack,          \* how far beyond the ring a last id may lie (1000)
    MaxEvents,      \* bound on the events published
    MaxLocks,       \* bound on insertions and reads that meet a locked database
    MaxDrops,       \* bound on broken connections
    MaxTime         \* bound of the clock

ASSUME LiveAssumption ==
    /\ NoServer \notin Servers
    /\ Collectors \cap WebThreads = {}
    /\ Backlog \in Nat /\ Limit \in Nat \ {0} /\ TrimEvery \in Nat \ {0}
    /\ Keep \in Nat \ {0} /\ Replay \in Nat \ {0} /\ Window \in Nat /\ Slack \in Nat
    /\ MaxEvents \in Nat /\ MaxLocks \in Nat /\ MaxDrops \in Nat /\ MaxTime \in Nat

VARIABLES
    ring,       \* live_stream_events
    lastRow,    \* the id of the last row ever inserted (AUTOINCREMENT)
    inserts,    \* _insert_count of each process, modulo TrimEvery
    published,  \* how many events were published
    handing,    \* the event each publisher still has to insert; 0 is none
    lost,       \* history: events whose insertion failed
    now,
    phase,      \* where each server thread is
    buffer,     \* _Subscriber._items
    header,     \* the Last-Event-ID of the request; 0 is none
    latest,     \* latest_id() as the thread read it
    blind,      \* history: latest_id() failed, and no row was written since
    cursor,     \* last_ring_id
    rows,       \* what drain() returned and is not yet written
    link,       \* the thread that serves each tab's connection
    lastId,     \* the tab's last event id; 0 is none
    shown,      \* events the tab has dispatched
    since,      \* history: the row after which the tab's EventSource reads
    skipped,    \* history: rows that its reconnections gave up
    locks, drops

bus == <<ring, lastRow, inserts, published, handing, lost>>
server == <<phase, buffer, header, latest, blind, cursor, rows>>
tab == <<link, lastId, shown, since, skipped>>
bounds == <<locks, drops>>
vars == <<bus, server, tab, bounds, now>>

Publishers == Collectors \cup WebThreads
Row == [id : Nat \ {0}, at : Nat, event : Nat]
Ids(set) == {r.id : r \in set}

Init ==
    /\ ring = {} /\ lastRow = 0 /\ published = 0 /\ lost = {}
    /\ inserts = [p \in {"collector", "web"} |-> 0]
    /\ handing = [p \in Publishers |-> 0]
    /\ now = 0 /\ locks = 0 /\ drops = 0
    /\ phase = [w \in Servers |-> "free"]
    /\ buffer = [w \in Servers |-> {}]
    /\ header = [w \in Servers |-> 0]
    /\ latest = [w \in Servers |-> 0]
    /\ blind = [w \in Servers |-> FALSE]
    /\ cursor = [w \in Servers |-> 0]
    /\ rows = [w \in Servers |-> {}]
    /\ link = [t \in Tabs |-> NoServer]
    /\ lastId = [t \in Tabs |-> 0]
    /\ shown = [t \in Tabs |-> {}]
    /\ since = [t \in Tabs |-> 0]
    /\ skipped = [t \in Tabs |-> {}]
-----------------------------------------------------------------------------
(* publish(). *)

Subscribers == {w \in Servers : phase[w] # "free"}
Process(p) == IF p \in Collectors THEN "collector" ELSE "web"

(* _deliver_local: a full buffer drops the event. *)
Deliver(p) ==
    /\ handing[p] = 0
    /\ published < MaxEvents
    /\ published' = published + 1
    /\ handing' = [handing EXCEPT ![p] = published']
    /\ buffer' = [w \in Servers |->
                     IF /\ p \in WebThreads /\ w \in Subscribers
                        /\ Cardinality(buffer[w]) < Backlog
                     THEN buffer[w] \cup {published'} ELSE buffer[w]]
    /\ UNCHANGED <<ring, lastRow, inserts, lost, phase, header, latest, blind, cursor,
                   rows, tab, bounds, now>>

(* The newest n rows. *)
Newest(set, n) == {r \in set : Cardinality({q \in set : q.id > r.id}) < n}

(* _ring_insert: every TrimEvery insertions of a process it trims the ring. *)
Insert(p) ==
    /\ handing[p] # 0
    /\ LET grown == ring \cup {[id |-> lastRow + 1, at |-> now, event |-> handing[p]]}
           count == (inserts[Process(p)] + 1) % TrimEvery
       IN  /\ ring' = IF count = 0 THEN Newest(grown, Keep) ELSE grown
           /\ inserts' = [inserts EXCEPT ![Process(p)] = count]
    /\ lastRow' = lastRow + 1
    /\ handing' = [handing EXCEPT ![p] = 0]
    /\ UNCHANGED <<published, lost, server, tab, bounds, now>>

(* The database is locked for longer than the busy timeout.  The handler of the
   exception assigns _ring_conn, which makes the name local to _ring_insert, so
   reading it raises UnboundLocalError: the retry, which waits for an
   OperationalError, never sees one, and publish() swallows the error. *)
InsertLocked(p) ==
    /\ handing[p] # 0
    /\ locks < MaxLocks
    /\ locks' = locks + 1
    /\ lost' = lost \cup {handing[p]}
    /\ handing' = [handing EXCEPT ![p] = 0]
    /\ UNCHANGED <<ring, lastRow, inserts, published, server, tab, drops, now>>
-----------------------------------------------------------------------------
(* stream(), up to its loop. *)

(* The head of the response, the hello event and the subscription. *)
Connect(t, w) ==
    /\ link[t] = NoServer
    /\ phase[w] = "free"
    /\ link' = [link EXCEPT ![t] = w]
    /\ phase' = [phase EXCEPT ![w] = "latest"]
    /\ header' = [header EXCEPT ![w] = lastId[t]]
    /\ UNCHANGED <<bus, buffer, latest, blind, cursor, rows, lastId, shown, since,
                   skipped, bounds, now>>

(* A query of the ring may fail on a locked database; it then answers 0. *)
Queried(failed) ==
    /\ failed => locks < MaxLocks
    /\ locks' = IF failed THEN locks + 1 ELSE locks

(* _resolve_ring_cursor: the two queries are two reads of the ring. *)
ReadLatest(w) ==
    /\ phase[w] = "latest"
    /\ \E failed \in BOOLEAN :
          /\ Queried(failed)
          /\ latest' = [latest EXCEPT ![w] =
                           IF failed \/ ring = {} THEN 0
                           ELSE CHOOSE i \in Ids(ring) : \A j \in Ids(ring) : j <= i]
          /\ blind' = [blind EXCEPT ![w] = failed]
    /\ phase' = [phase EXCEPT ![w] = "resolve"]
    /\ UNCHANGED <<bus, buffer, header, cursor, rows, tab, drops, now>>

Recent == {r \in ring : r.at >= now - Window}

(* Mutant: no max(0, ...). *)
ReplayUnclamped(w, recent) == latest[w] - Replay

(* Where a fresh connection starts to read, if those are the recent rows. *)
ReplayStart(w, recent) ==
    LET oldest == CHOOSE i \in Ids(recent) : \A j \in Ids(recent) : i <= j
        floor == IF latest[w] > Replay THEN latest[w] - Replay ELSE 0
    IN  IF recent # {} /\ oldest - 1 > floor THEN oldest - 1 ELSE floor

(* Mutant: the reconnecting tab's cursor is one too far. *)
ResumeFromNext(w, recent) ==
    IF header[w] # 0 /\ header[w] + 1 > ReplayStart(w, recent) THEN header[w] + 1
    ELSE ReplayStart(w, recent)

(* ... and one that resumes: one row before the last it saw, if that is neither
   older nor far beyond the ring as latest_id() gave it. *)
ResumeFrom(w, recent) ==
    IF /\ header[w] # 0 /\ header[w] <= latest[w] + Slack
       /\ header[w] - 1 > ReplayStart(w, recent)
    THEN header[w] - 1 ELSE ReplayStart(w, recent)

(* The rows a reconnecting tab has not seen and may not be sent any more: those
   older than the window, or not among the newest ones. *)
GivenUp(w) ==
    Ids({r \in ring : header[w] < r.id /\ (r \notin Recent \/ r.id + Replay <= lastRow)})

ResolveCursor(w) ==
    /\ phase[w] = "resolve"
    /\ \E failed \in BOOLEAN :
          LET recent == IF failed THEN {} ELSE Recent
          IN  /\ Queried(failed)
              /\ cursor' = [cursor EXCEPT ![w] = ResumeFrom(w, recent)]
              /\ since' = [t \in Tabs |-> IF link[t] = w /\ header[w] = 0
                                          THEN ReplayStart(w, recent) ELSE since[t]]
    /\ phase' = [phase EXCEPT ![w] = "loop"]
    /\ skipped' = [t \in Tabs |-> IF link[t] # w THEN skipped[t]
                                  ELSE IF header[w] = 0 THEN {}
                                  ELSE skipped[t] \cup GivenUp(w)]
    /\ UNCHANGED <<bus, buffer, header, latest, blind, rows, link, lastId, shown,
                   drops, now>>
-----------------------------------------------------------------------------
(* The loop of stream(). *)

Linked(w) == \E t \in Tabs : link[t] = w
Show(w, events) ==
    shown' = [t \in Tabs |-> IF link[t] = w THEN shown[t] \cup events ELSE shown[t]]

(* unsubscribe, and the end of the thread. *)
Finish(w) ==
    /\ phase' = [phase EXCEPT ![w] = "free"]
    /\ buffer' = [buffer EXCEPT ![w] = {}]
    /\ rows' = [rows EXCEPT ![w] = {}]
    /\ header' = [header EXCEPT ![w] = 0]
    /\ latest' = [latest EXCEPT ![w] = 0]
    /\ blind' = [blind EXCEPT ![w] = FALSE]
    /\ cursor' = [cursor EXCEPT ![w] = 0]

(* Mutant: a buffered event is written with an id of its own, as old versions did. *)
TakeBufferWithId(w) ==
    /\ phase[w] = "loop" /\ buffer[w] # {} /\ Linked(w)
    /\ Show(w, buffer[w])
    /\ lastId' = [t \in Tabs |-> IF link[t] = w THEN CHOOSE e \in buffer[w] : TRUE
                                 ELSE lastId[t]]
    /\ buffer' = [buffer EXCEPT ![w] = {}]
    /\ UNCHANGED <<phase, header, latest, blind, cursor, rows>>
    /\ UNCHANGED <<bus, link, since, skipped, bounds, now>>

(* wait_for: all that is buffered is written, without a row id. *)
TakeBuffer(w) ==
    /\ phase[w] = "loop" /\ buffer[w] # {}
    /\ IF Linked(w)
       THEN /\ Show(w, buffer[w])
            /\ buffer' = [buffer EXCEPT ![w] = {}]
            /\ UNCHANGED <<phase, header, latest, blind, cursor, rows>>
       ELSE /\ Finish(w)
            /\ UNCHANGED shown
    /\ UNCHANGED <<bus, link, lastId, since, skipped, bounds, now>>

(* Mutant: drain returns the newest rows. *)
DrainNewest(c) == Newest({r \in ring : r.id > c}, Limit)

(* drain: the oldest rows after the cursor.  (One that fails returns none, and
   the loop goes on as if there were none.) *)
Drain(c) ==
    LET after == {r \in ring : r.id > c}
    IN  {r \in after : Cardinality({q \in after : q.id < r.id}) < Limit}

Poll(w) ==
    /\ phase[w] = "loop" /\ rows[w] = {}
    /\ Drain(cursor[w]) # {}
    /\ rows' = [rows EXCEPT ![w] = Drain(cursor[w])]
    /\ phase' = [phase EXCEPT ![w] = "write"]
    /\ UNCHANGED <<bus, buffer, header, latest, blind, cursor, tab, bounds, now>>

(* One row is written, with its id. *)
WriteRow(w) ==
    /\ phase[w] = "write"
    /\ \E r \in rows[w] :
          /\ \A q \in rows[w] : r.id <= q.id
          /\ IF Linked(w)
             THEN /\ Show(w, {r.event})
                  /\ lastId' = [t \in Tabs |-> IF link[t] = w THEN r.id ELSE lastId[t]]
                  /\ cursor' = [cursor EXCEPT ![w] = IF r.id > @ THEN r.id ELSE @]
                  /\ rows' = [rows EXCEPT ![w] = @ \ {r}]
                  /\ blind' = [blind EXCEPT ![w] = FALSE]
                  /\ phase' = [phase EXCEPT ![w] =
                                  IF rows[w] = {r} THEN "loop" ELSE "write"]
                  /\ UNCHANGED <<buffer, header, latest>>
             ELSE /\ Finish(w)
                  /\ UNCHANGED <<shown, lastId>>
    /\ UNCHANGED <<bus, link, since, skipped, bounds, now>>

(* Mutant: no keepalive; only an event finds out that the tab is gone. *)
HeartbeatNone(w) ==
    /\ phase[w] = "loop" /\ buffer[w] # {}
    /\ ~Linked(w)
    /\ Finish(w)
    /\ UNCHANGED <<bus, tab, bounds, now>>

(* The keepalive of every second finds the connection broken. *)
Heartbeat(w) ==
    /\ phase[w] = "loop"
    /\ ~Linked(w)
    /\ Finish(w)
    /\ UNCHANGED <<bus, tab, bounds, now>>
-----------------------------------------------------------------------------
(* The browser. *)

(* The connection breaks; the EventSource will reconnect with its last id. *)
Drop(t) ==
    /\ link[t] # NoServer
    /\ drops < MaxDrops
    /\ drops' = drops + 1
    /\ link' = [link EXCEPT ![t] = NoServer]
    /\ UNCHANGED <<bus, server, lastId, shown, since, skipped, locks, now>>

(* After five errors live.js makes a new EventSource, which has no last id. *)
Renew(t) ==
    /\ link[t] = NoServer
    /\ lastId[t] # 0
    /\ lastId' = [lastId EXCEPT ![t] = 0]
    /\ UNCHANGED <<bus, server, link, shown, since, skipped, bounds, now>>

Tick ==
    /\ now < MaxTime
    /\ now' = now + 1
    /\ UNCHANGED <<bus, server, tab, bounds>>

ServerStep(w) ==
    \/ ReadLatest(w) \/ ResolveCursor(w)
    \/ TakeBuffer(w) \/ Poll(w) \/ WriteRow(w) \/ Heartbeat(w)

Next ==
    \/ \E p \in Publishers : Deliver(p) \/ Insert(p) \/ InsertLocked(p)
    \/ \E t \in Tabs : \/ \E w \in Servers : Connect(t, w)
                       \/ Drop(t)
                       \/ Renew(t)
    \/ \E w \in Servers : ServerStep(w)
    \/ Tick

Spec == Init /\ [][Next]_vars

(* The thread of a connection is scheduled, and its loop neglects neither the
   buffer nor the ring. *)
Fairness ==
    \A w \in Servers :
        /\ WF_vars(ReadLatest(w)) /\ WF_vars(ResolveCursor(w))
        /\ SF_vars(TakeBuffer(w)) /\ SF_vars(Poll(w))
        /\ WF_vars(WriteRow(w)) /\ WF_vars(Heartbeat(w))

FairSpec == Spec /\ Fairness
-----------------------------------------------------------------------------
(* Every variable has its type. *)
TypeOK ==
    /\ ring \in SUBSET Row /\ lastRow \in Nat /\ published \in Nat
    /\ inserts \in [{"collector", "web"} -> Nat]
    /\ handing \in [Publishers -> Nat]
    /\ lost \in SUBSET Nat
    /\ now \in Nat /\ locks \in Nat /\ drops \in Nat
    /\ phase \in [Servers -> {"free", "latest", "resolve", "loop", "write"}]
    /\ buffer \in [Servers -> SUBSET Nat]
    /\ header \in [Servers -> Nat] /\ latest \in [Servers -> Nat]
    /\ blind \in [Servers -> BOOLEAN] /\ cursor \in [Servers -> Nat]
    /\ rows \in [Servers -> SUBSET Row]
    /\ link \in [Tabs -> Servers \cup {NoServer}]
    /\ lastId \in [Tabs -> Nat] /\ since \in [Tabs -> Nat]
    /\ shown \in [Tabs -> SUBSET Nat] /\ skipped \in [Tabs -> SUBSET Nat]

(* A tab's feed has no hole but those of its reconnections: through broken
   connections and failed queries, every row between the start of its feed and the
   last id it saw was shown, or was older than the window or no longer among the
   newest rows when the tab came back.  A resume one row too far, a drain that
   skips, or an id committed late would break it. *)
NoHole == \A t \in Tabs : \A r \in ring :
    since[t] < r.id /\ r.id <= lastId[t] => r.event \in shown[t] \/ r.id \in skipped[t]

(* The feed never runs backwards: a reconnection repeats at most the last row,
   unless latest_id() failed and answered 0.  (A tab whose last id is beyond Slack
   is then sent again what it saw; its next row is the first to go back.) *)
FeedForward ==
    [][\A t \in Tabs : \/ lastId'[t] >= lastId[t]
                       \/ lastId'[t] = 0 /\ Renew(t)
                       \/ link[t] \in Servers /\ blind[link[t]]]_vars

(* A tab that stays connected is shown every event that reached the ring, also
   one its full buffer dropped, unless a trim removes it first. *)
EventuallyShown == \A t \in Tabs, e \in 1..MaxEvents :
    (\E w \in Servers, r \in ring :
        link[t] = w /\ phase[w] = "loop" /\ r.event = e /\ r.id > cursor[w])
    ~> (e \in shown[t] \/ link[t] = NoServer \/ e \notin {r.event : r \in ring})

(* "so closing a browser tab doesn't leak threads" (live_stream.py:26-28): the
   thread of a broken connection unsubscribes in the end. *)
NoLeak == \A w \in Servers :
    (w \in Subscribers /\ ~Linked(w)) ~> (w \notin Subscribers \/ Linked(w))

(* "Insert with retry on 'database is locked' errors" (live_bus.py:277): a lock
   that is gone before the third attempt loses no event. *)
LockedIsRetried == MaxLocks < 3 => lost = {}

(* "Clients that are merely reconnecting mid-feed have a cursor inside the window
   and are unaffected" (live_stream.py:187-188): no reconnection gives up a row. *)
ReconnectUnaffected == \A t \in Tabs : skipped[t] = {}

(* The feed never runs backwards, whatever fails. *)
AlwaysForward ==
    [][\A t \in Tabs : lastId'[t] >= lastId[t] \/ (lastId'[t] = 0 /\ Renew(t))]_vars

(* "a freshly-opened tab only catches up on events from the last minute"
   (live_stream.py:160-162): no older row lies after the cursor it starts with. *)
PastStaysPast == [][\A w \in Servers : ResolveCursor(w) /\ header[w] = 0 =>
    \A r \in ring : r.id > cursor'[w] => r.at >= now - Window]_vars
=============================================================================
