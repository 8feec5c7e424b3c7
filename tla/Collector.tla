----------------------------- MODULE Collector -----------------------------
(***************************************************************************)
(* The event collector of events/tailer.py: dnsmasq appends lines to its   *)
(* log, the collector reads them in passes through pygtail, drops history, *)
(* resolves the client, and turns DNS queries into policy alerts, session  *)
(* rows and flood alerts, and DHCP acknowledgements into reports of        *)
(* unknown devices.  It can be killed between any two commits and is       *)
(* started again; the dashboard edits the policy and the inventory         *)
(* meanwhile.                                                              *)
(*                                                                         *)
(* A line is a record; its text, hence its source_hash, is determined by   *)
(* it (dnsmasq stamps seconds, so two equal queries of one second are one  *)
(* text).  A name stands for a domain with its category.  forbidden and    *)
(* watched rules act alike and are one list.                               *)
(***************************************************************************)
EXTENDS Integers, Sequences, FiniteSets

CONSTANTS
    Macs, Ips, Names,
    NoMac,          \* the empty client_mac of an address without a lease
    Gap,            \* SESSION_GAP_SECONDS
    Grace,          \* STALE_GRACE_SECONDS
    ScanLimit,      \* LIMIT 200 of find_open_session
    FloodThreshold, FloodWindow,
    LeaseRefresh,   \* LEASE_REFRESH_INTERVAL
    Ttl,            \* PolicyCache.ttl
    SeenMax,        \* SEEN_HASHES_MAX
    MaxTime,        \* a bound of the model
    Budgets         \* bounds: what a behaviour may have of [lines, crashes,
                    \* faults, edits], one of these

ASSUME NoMacAssumption == NoMac \notin Macs
ASSUME TimesAssumption ==
    /\ Gap \in Nat \ {0} /\ Ttl \in Nat \ {0}
    /\ {Grace, FloodWindow, LeaseRefresh, SeenMax} \subseteq Nat
    /\ ScanLimit \in Nat \ {0} /\ FloodThreshold \in Nat \ {0}
    /\ MaxTime \in Nat
    /\ Budgets \subseteq [{"lines", "crashes", "faults", "edits"} -> Nat]

VARIABLES
    now,        \* the clock, in whole seconds
    log,        \* dnsmasq.log
    leases,     \* the lease file
    policy,     \* the tables [forbidden, noise]
    known,      \* known_devices: the label of each device
    sessions,   \* the session rows, by id
    alertRows,  \* source hashes of policy alert rows
    saved,      \* pygtail's offset file: lines read
    pc,         \* where the collector is, "down" when there is none
    start,      \* start_epoch
    pos,        \* lines the collector has taken from the log
    cur,        \* the line in hand and the client it resolved to
    seen,       \* _seen_hashes
    times,      \* query_times: the lines counted for each client
    lcache,     \* last_leases, and for how long it still serves
    pcache,     \* PolicyCache._data, and for how long it still serves
    budget,     \* the one of Budgets that this behaviour has
    crashes, faults, edits,  \* what it counts
    replayed,   \* history: a pass was cut short, its lines are read again
    floods,     \* history: the sets of lines this run reported as floods
    quiet,      \* history: counted by this run and in no reported flood
    device,     \* history: of each device, times marked, flagged and removed
    steady      \* history: for how long a lease, the policy and its reads have
                \* been undisturbed (saturating at the interval that matters)

durable == <<log, leases, policy, known, sessions, alertRows, saved>>
process == <<pc, start, pos, cur, seen, times, lcache, pcache>>
bounds  == <<budget, crashes, faults, edits>>
history == <<replayed, floods, quiet, device, steady>>
vars == <<now, durable, process, bounds, history>>

Lines ==
    [kind : {"query"}, ip : Ips, name : Names, at : Nat]
      \cup [kind : {"ack"}, ip : Ips, mac : Macs, at : Nat]
Rows == [mac : Macs \cup {NoMac}, name : Names, first : Nat, last : Nat,
         count : Nat, window : Int, lines : SUBSET Nat]
Policies == [forbidden : SUBSET Names, noise : SUBSET Names]
NoPolicy == [forbidden |-> {}, noise |-> {}]
NoLeases == [ip \in Ips |-> NoMac]
NoLine == [line |-> 0, mac |-> NoMac]

(* A snapshot that has to be read again before it is used. *)
OldLeases == [map |-> NoLeases, left |-> 0]
OldPolicy == [lists |-> NoPolicy, left |-> 0]

Init ==
    /\ now = 0 /\ log = <<>> /\ saved = 0
    /\ leases \in [Ips -> Macs \cup {NoMac}]
    /\ policy = NoPolicy
    /\ known = [m \in Macs |-> "absent"]
    /\ sessions = <<>> /\ alertRows = {}
    /\ start = 0 /\ pc = "asleep" /\ pos = 0
    /\ cur = NoLine
    /\ seen = {}
    /\ times = [m \in Macs |-> {}]
    /\ lcache = OldLeases /\ pcache = OldPolicy
    /\ budget \in Budgets /\ crashes = 0 /\ faults = 0 /\ edits = 0
    /\ replayed = FALSE /\ floods = {}
    /\ quiet = [m \in Macs |-> {}]
    /\ device = [m \in Macs |-> [marked |-> 0, flagged |-> 0, removed |-> 0]]
    /\ steady = [lease  |-> [ip \in Ips |-> LeaseRefresh],
                 policy |-> Ttl, reads |-> Ttl]
-----------------------------------------------------------------------------
(* The world around the collector.  Nothing but a kill and the inventory   *)
(* moves while a line is in hand: what handling it waits for (a locked     *)
(* database) counts as time before it was taken.                           *)
Settled == pc \in {"down", "asleep", "reading"}

OneMore(age, cap) == IF age < cap THEN age + 1 ELSE cap

Tick ==
    /\ Settled /\ now < MaxTime /\ now' = now + 1
    /\ lcache' = IF lcache.left > 1 THEN [lcache EXCEPT !.left = @ - 1] ELSE OldLeases
    /\ pcache' = IF pcache.left > 1 THEN [pcache EXCEPT !.left = @ - 1] ELSE OldPolicy
    /\ steady' = [lease  |-> [ip \in Ips |-> OneMore(steady.lease[ip], LeaseRefresh)],
                  policy |-> OneMore(steady.policy, Ttl),
                  reads  |-> OneMore(steady.reads, Ttl)]
    /\ UNCHANGED <<durable, pc, start, pos, cur, seen, times, bounds,
                   replayed, floods, quiet, device>>

Write(line) == Settled /\ Len(log) < budget.lines /\ log' = Append(log, line)

(* dnsmasq answers a client's query and logs it. *)
Query(ip, n) ==
    /\ Write([kind |-> "query", ip |-> ip, name |-> n, at |-> now])
    /\ UNCHANGED <<now, leases, policy, known, sessions, alertRows, saved,
                   process, bounds, history>>

(* dnsmasq gives an address to a device, or renews it. *)
Lease(ip, m) ==
    /\ Write([kind |-> "ack", ip |-> ip, mac |-> m, at |-> now])
    /\ leases' = [leases EXCEPT ![ip] = m]
    /\ steady' = IF leases[ip] = m THEN steady
                 ELSE [steady EXCEPT !.lease[ip] = 0]
    /\ UNCHANGED <<now, policy, known, sessions, alertRows, saved, process, bounds,
                   replayed, floods, quiet, device>>

Edit == edits < budget.edits /\ edits' = edits + 1

(* The dashboard adds or removes a pattern. *)
EditPolicy(list, n) ==
    /\ Settled /\ Edit
    /\ policy' = [policy EXCEPT ![list] = IF n \in @ THEN @ \ {n} ELSE @ \cup {n}]
    /\ steady' = [steady EXCEPT !.policy = 0]
    /\ UNCHANGED <<now, log, leases, known, sessions, alertRows, saved, process,
                   budget, crashes, faults, replayed, floods, quiet, device>>

(* The dashboard labels a device. *)
MarkKnown(m) ==
    /\ Edit
    /\ known' = [known EXCEPT ![m] = "labelled"]
    /\ UNCHANGED <<now, log, leases, policy, sessions, alertRows, saved, process,
                   budget, crashes, faults, history>>

(* The dashboard forgets a device. *)
RemoveKnown(m) ==
    /\ Edit /\ known[m] # "absent"
    /\ known' = [known EXCEPT ![m] = "absent"]
    /\ device' = [device EXCEPT ![m].removed = @ + 1]
    /\ UNCHANGED <<now, log, leases, policy, sessions, alertRows, saved, process,
                   budget, crashes, faults, replayed, floods, quiet, steady>>

(* The process is killed (stop.sh, start.sh, the OOM killer): what it had  *)
(* in memory is gone.                                                      *)
Crash ==
    /\ pc # "down" /\ crashes < budget.crashes
    /\ crashes' = crashes + 1 /\ pc' = "down"
    /\ replayed' = (replayed \/ pos # saved)
    /\ pos' = saved /\ cur' = NoLine /\ seen' = {}
    /\ times' = [m \in Macs |-> {}]
    /\ lcache' = OldLeases /\ pcache' = OldPolicy
    /\ floods' = {} /\ quiet' = [m \in Macs |-> {}]
    /\ UNCHANGED <<now, durable, start, budget, faults, edits, device, steady>>

(* start.sh or the watchdog starts a collector. *)
Restart ==
    /\ pc = "down" /\ pc' = "asleep" /\ start' = now
    /\ UNCHANGED <<now, durable, pos, cur, seen, times, lcache, pcache, bounds, history>>
-----------------------------------------------------------------------------
(* The collector. *)

(* Mutant: one second too long. *)
LoadLeasesLate ==
    lcache' = IF lcache.left > 0 THEN lcache
              ELSE IF leases = NoLeases THEN OldLeases
              ELSE [map |-> leases, left |-> LeaseRefresh + 1]

(* The lease table in use: an empty or old one is read again. *)
LoadLeases ==
    lcache' = IF lcache.left > 0 THEN lcache
              ELSE IF leases = NoLeases THEN OldLeases
              ELSE [map |-> leases, left |-> LeaseRefresh]

(* Mutant: one line of the log is lost at every pass. *)
RunOncePastEnd ==
    /\ pc = "asleep" /\ pc' = "reading" /\ pos' = saved + 1
    /\ LoadLeases
    /\ UNCHANGED <<now, durable, start, cur, seen, times, pcache, bounds, history>>

(* A pass begins: run_once opens the log at the saved offset. *)
RunOnce ==
    /\ pc = "asleep" /\ pc' = "reading" /\ pos' = saved
    /\ LoadLeases
    /\ UNCHANGED <<now, durable, start, cur, seen, times, pcache, bounds, history>>

(* Mutant: without save_on_end. *)
EndOfFileUnsaved ==
    /\ pc = "reading" /\ pos = Len(log)
    /\ saved' = saved /\ pc' = "asleep"
    /\ UNCHANGED <<now, log, leases, policy, known, sessions, alertRows, start, pos,
                   cur, seen, times, lcache, pcache, bounds, history>>

(* pygtail saves its offset at the end of the file only. *)
EndOfFile ==
    /\ pc = "reading" /\ pos = Len(log)
    /\ saved' = pos /\ pc' = "asleep"
    /\ UNCHANGED <<now, log, leases, policy, known, sessions, alertRows, start, pos,
                   cur, seen, times, lcache, pcache, bounds, history>>

NextLine == log[pos + 1]

(* _is_fresh: not from before this run, and not handled by this run. *)
IsFresh(line) == line.at >= start - Grace /\ line \notin seen

SkipLine ==
    /\ pc = "reading" /\ pos < Len(log) /\ ~IsFresh(NextLine)
    /\ pos' = pos + 1
    /\ UNCHANGED <<now, durable, pc, start, cur, seen, times, lcache, pcache,
                   bounds, history>>

(* A fresh line is remembered and its client looked up. *)
TakeLine ==
    /\ pc = "reading" /\ pos < Len(log) /\ IsFresh(NextLine)
    /\ pos' = pos + 1
    /\ seen' = (IF Cardinality(seen) >= SeenMax THEN {} ELSE seen) \cup {NextLine}
    /\ LoadLeases
    /\ pc' = NextLine.kind
    /\ cur' = [line |-> pos + 1,
               mac  |-> IF NextLine.kind = "ack" THEN NextLine.mac
                        ELSE lcache'.map[NextLine.ip]]
    /\ UNCHANGED <<now, durable, start, times, pcache, bounds, history>>

Line == log[cur.line]
Window(t) == t \div Gap

(* Mutant: one second too long. *)
ReadPolicyLate ==
    pcache' = IF pcache.left > 0 THEN pcache ELSE [lists |-> policy, left |-> Ttl + 1]

(* PolicyCache: a snapshot serves for Ttl seconds. *)
ReadPolicy ==
    pcache' = IF pcache.left > 0 THEN pcache ELSE [lists |-> policy, left |-> Ttl]

(* A read that fails returns empty lists, which replace it all the same.   *)
LoadPolicy ==
    \/ ReadPolicy /\ UNCHANGED <<faults, steady>>
    \/ /\ pcache.left = 0 /\ faults < budget.faults /\ faults' = faults + 1
       /\ pcache' = [lists |-> NoPolicy, left |-> Ttl]
       /\ steady' = [steady EXCEPT !.reads = 0]

QueryDone ==
    /\ pc = "query" /\ LoadPolicy /\ pc' = "flood"
    /\ UNCHANGED <<now, log, leases, policy, known, saved, start, pos, cur, seen,
                   times, lcache, budget, crashes, edits, replayed, floods, quiet, device>>

(* A forbidden or watched name: one alert row per client, name and second. *)
PolicyAlert ==
    /\ QueryDone
    /\ Line.name \in pcache'.lists.forbidden
    /\ alertRows' = alertRows \cup {<<cur.mac, Line.name, Line.at>>}
    /\ UNCHANGED sessions

DropNoise ==
    /\ QueryDone
    /\ Line.name \in pcache'.lists.noise \ pcache'.lists.forbidden
    /\ UNCHANGED <<sessions, alertRows>>

SessionQuery ==
    /\ QueryDone
    /\ Line.name \notin pcache'.lists.noise \cup pcache'.lists.forbidden
    /\ UNCHANGED alertRows

(* The client's newest ScanLimit rows at and after row i include it. *)
Scanned(i) ==
    Cardinality({k \in i .. Len(sessions) : sessions[k].mac = sessions[i].mac})
      <= ScanLimit

Same(r, s) == r.mac = s.mac /\ r.name = s.name

(* Mutant: the gap is one second short. *)
OpenRowsShort ==
    {i \in DOMAIN sessions :
        /\ cur.mac # NoMac
        /\ sessions[i].mac = cur.mac /\ sessions[i].name = Line.name
        /\ Scanned(i)
        /\ Line.at - sessions[i].last < Gap}

(* find_open_session: the rows the query may be added to. *)
OpenRows ==
    {i \in DOMAIN sessions :
        /\ cur.mac # NoMac
        /\ sessions[i].mac = cur.mac /\ sessions[i].name = Line.name
        /\ Scanned(i)
        /\ Line.at - sessions[i].last <= Gap}

(* The row with the hash of a session that began now. *)
HashRows ==
    {i \in DOMAIN sessions :
        /\ sessions[i].mac = cur.mac /\ sessions[i].name = Line.name
        /\ sessions[i].window = Window(Line.at)}

Bumped(row) ==
    [row EXCEPT !.last = Line.at, !.count = @ + 1, !.lines = @ \cup {cur.line}]

Touch(i) == sessions' = [sessions EXCEPT ![i] = Bumped(@)]

UpdateSession ==
    /\ SessionQuery
    /\ \E i \in OpenRows : (\A j \in OpenRows : j <= i) /\ Touch(i)

(* The insert of a new row is ignored as a duplicate: the earlier row is   *)
(* bumped.                                                                 *)
Bump == \E i \in HashRows : Touch(i)

Insert ==
    /\ HashRows = {}
    /\ sessions' = Append(sessions,
         [mac |-> cur.mac, name |-> Line.name, first |-> Line.at, last |-> Line.at,
          count |-> 1, window |-> Window(Line.at), lines |-> {cur.line}])

BumpPrior == SessionQuery /\ OpenRows = {} /\ Bump

NewSession == SessionQuery /\ OpenRows = {} /\ Insert

(* A statement of the above fails and the failure is swallowed.            *)
FaultyQuery ==
    /\ pc = "query" /\ pc' = "flood" /\ ReadPolicy
    /\ Line.name \notin pcache'.lists.noise \cup pcache'.lists.forbidden
    /\ faults < budget.faults /\ faults' = faults + 1
    /\ UNCHANGED <<now, log, leases, policy, known, alertRows, saved, start, pos, cur,
                   seen, times, lcache, budget, crashes, edits, history>>

LoseBump == FaultyQuery /\ OpenRows = {} /\ HashRows # {} /\ UNCHANGED sessions

(* find_open_session answers None: no session is found open.               *)
MissSession == FaultyQuery /\ OpenRows # {} /\ (Bump \/ Insert)

(* check_flood's list with the line in hand.  The lines of one run are     *)
(* read in the order of their times: what is too old is at its head.       *)
Counted ==
    {k \in times[cur.mac] : log[k].at >= Line.at - FloodWindow} \cup {cur.line}

Flooding == cur.mac # NoMac /\ Cardinality(Counted) >= FloodThreshold

CheckFlood ==
    /\ pc = "flood" /\ pc' = "reading" /\ cur' = NoLine
    /\ IF cur.mac = NoMac
       THEN UNCHANGED <<times, floods, quiet>>
       ELSE /\ times' = [times EXCEPT ![cur.mac] = IF Flooding THEN {} ELSE Counted]
            /\ floods' = floods \cup (IF Flooding THEN {Counted} ELSE {})
            /\ quiet' = [quiet EXCEPT ![cur.mac] =
                           (@ \cup {cur.line})
                             \ (IF Flooding THEN Counted ELSE {})]
    /\ UNCHANGED <<now, durable, start, pos, seen, lcache, pcache, bounds,
                   replayed, device, steady>>

(* Mutant: the inventory is not asked. *)
HandleAckBlind ==
    /\ pc = "ack" /\ pc' = "flag" /\ cur' = cur
    /\ known' = [known EXCEPT ![cur.mac] = "unknown"]
    /\ device' = [device EXCEPT ![cur.mac].marked = @ + 1]
    /\ UNCHANGED <<now, log, leases, policy, sessions, alertRows, saved, start, pos,
                   seen, times, lcache, pcache, bounds, replayed, floods, quiet, steady>>

(* A DHCP acknowledgement: the event row, then reconcile_mac enters an     *)
(* unknown device in the inventory, and only then flags it.  is_known and  *)
(* mark_known are one step: an entry made or removed between the two is as *)
(* good as one before or after both, since mark_known inserts or ignores,  *)
(* and its answer, not is_known's, decides whether the device is flagged.  *)
HandleAck ==
    /\ pc = "ack"
    /\ IF known[cur.mac] # "absent"
       THEN pc' = "reading" /\ cur' = NoLine /\ UNCHANGED <<known, device>>
       ELSE /\ pc' = "flag" /\ cur' = cur
            /\ known' = [known EXCEPT ![cur.mac] = "unknown"]
            /\ device' = [device EXCEPT ![cur.mac].marked = @ + 1]
    /\ UNCHANGED <<now, log, leases, policy, sessions, alertRows, saved, start, pos,
                   seen, times, lcache, pcache, bounds, replayed, floods, quiet, steady>>

FlagDevice ==
    /\ pc = "flag" /\ pc' = "reading" /\ cur' = NoLine
    /\ device' = [device EXCEPT ![cur.mac].flagged = @ + 1]
    /\ UNCHANGED <<now, durable, start, pos, seen, times, lcache, pcache,
                   bounds, replayed, floods, quiet, steady>>

(* A write to the database stays locked beyond its retries: handle_event   *)
(* raises and run_once goes on with the next line.  The policy was loaded  *)
(* and a flood's list reset before that.                                   *)
Lose ==
    /\ faults < budget.faults /\ faults' = faults + 1
    /\ pc' = "reading" /\ cur' = NoLine
    /\ UNCHANGED <<now, durable, start, pos, seen, lcache,
                   budget, crashes, edits, replayed, floods, device, steady>>

DropQuery ==
    /\ pc = "query" /\ Lose /\ ReadPolicy
    /\ Line.name \notin pcache'.lists.noise \ pcache'.lists.forbidden
    /\ UNCHANGED <<times, quiet>>

DropFlood ==
    /\ pc = "flood" /\ Flooding /\ Lose
    /\ times' = [times EXCEPT ![cur.mac] = {}]
    /\ quiet' = [quiet EXCEPT ![cur.mac] = @ \cup {cur.line}]
    /\ UNCHANGED pcache

DropDevice ==
    /\ pc \in {"ack", "flag"} /\ Lose
    /\ UNCHANGED <<times, quiet, pcache>>
-----------------------------------------------------------------------------
Collect ==
    \/ RunOnce \/ EndOfFile \/ SkipLine \/ TakeLine
    \/ PolicyAlert \/ DropNoise \/ UpdateSession \/ BumpPrior \/ LoseBump
    \/ NewSession \/ MissSession \/ CheckFlood \/ HandleAck \/ FlagDevice
    \/ DropQuery \/ DropFlood \/ DropDevice

World ==
    \/ Tick \/ Crash \/ Restart
    \/ \E ip \in Ips : (\E n \in Names : Query(ip, n)) \/ (\E m \in Macs : Lease(ip, m))
    \/ \E list \in {"forbidden", "noise"}, n \in Names : EditPolicy(list, n)
    \/ \E m \in Macs : MarkKnown(m) \/ RemoveKnown(m)

Next == Collect \/ World

Spec == Init /\ [][Next]_vars

-----------------------------------------------------------------------------
TypeOK ==
    /\ now \in Nat /\ log \in Seq(Lines)
    /\ leases \in [Ips -> Macs \cup {NoMac}]
    /\ policy \in Policies
    /\ known \in [Macs -> {"absent", "unknown", "labelled"}]
    /\ sessions \in Seq(Rows)
    /\ alertRows \subseteq (Macs \cup {NoMac}) \X Names \X Nat
    /\ saved \in 0 .. Len(log) /\ pos \in 0 .. Len(log)
    /\ pc \in {"down", "asleep", "reading", "query", "flood", "ack", "flag"}
    /\ start \in Nat
    /\ cur \in [line : 0 .. Len(log), mac : Macs \cup {NoMac}]
    /\ seen \subseteq Lines
    /\ times \in [Macs -> SUBSET Nat]
    /\ lcache \in [map : [Ips -> Macs \cup {NoMac}], left : 0 .. LeaseRefresh]
    /\ pcache \in [lists : Policies, left : 0 .. Ttl]
    /\ budget \in Budgets
    /\ crashes \in 0 .. budget.crashes /\ faults \in 0 .. budget.faults
    /\ edits \in 0 .. budget.edits
    /\ replayed \in BOOLEAN
    /\ floods \subseteq SUBSET Nat
    /\ quiet \in [Macs -> SUBSET Nat]
    /\ device \in [Macs -> [marked : Nat, flagged : Nat, removed : Nat]]
    /\ steady \in [lease : [Ips -> 0 .. LeaseRefresh], policy : 0 .. Ttl, reads : 0 .. Ttl]

(* One session row per stretch of activity: two rows of one client and     *)
(* name are more than Gap apart, unless so many rows of the client came    *)
(* between that find_open_session no longer looks at the older one.  It    *)
(* does not hold once a pass was cut short and its lines are read again,   *)
(* or a statement failed.                                                  *)
SessionsApart ==
    (~replayed /\ faults = 0) =>
        \A i, j \in DOMAIN sessions :
            (/\ i < j /\ Same(sessions[i], sessions[j]) /\ sessions[i].mac # NoMac
             /\ Cardinality({k \in i .. j - 1 : sessions[k].mac = sessions[i].mac})
                  <= ScanLimit)
              => sessions[i].last + Gap < sessions[j].first

(* request_count: no line is counted twice, by one row or by two, as long  *)
(* as no pass is cut short; and in an undisturbed run no query that was    *)
(* read goes uncounted (an equal one of the same second counts for it).    *)
CountedExactly ==
    /\ ~replayed =>
         \A i \in DOMAIN sessions :
            /\ sessions[i].count = Cardinality(sessions[i].lines)
            /\ \A j \in DOMAIN sessions :
                  i # j => sessions[i].lines \cap sessions[j].lines = {}
    /\ (crashes = 0 /\ faults = 0 /\ edits = 0) =>
         \A k \in 1 .. pos :
            (log[k].kind = "query" /\ cur.line # k) =>
               \E i \in DOMAIN sessions : \E l \in sessions[i].lines : log[l] = log[k]

(* reconcile_mac: a device is flagged once, and again only after it was    *)
(* removed from the inventory; whoever the collector entered in it is      *)
(* flagged, unless a kill or a failed write came between the two.          *)
DeviceFlaggedOnce ==
    \A m \in Macs :
        /\ device[m].flagged <= device[m].marked
        /\ device[m].marked <= device[m].removed + 1
        /\ (crashes = 0 /\ faults = 0) =>
             device[m].marked =
               device[m].flagged + (IF pc = "flag" /\ cur.mac = m THEN 1 ELSE 0)

InWindow(k, j) == log[k].at <= log[j].at /\ log[j].at <= log[k].at + FloodWindow

(* check_flood: a reported flood is FloodThreshold queries within the      *)
(* window, no query is in two reports, and no FloodThreshold counted       *)
(* queries of a client lie within a window without a report (writes that   *)
(* fail excepted).                                                         *)
FloodExact ==
    /\ \A f \in floods :
          /\ Cardinality(f) >= FloodThreshold
          /\ \A k, j \in f : InWindow(k, j) \/ InWindow(j, k)
          /\ \A g \in floods : f = g \/ f \cap g = {}
    /\ faults = 0 =>
         \A m \in Macs : \A k \in quiet[m] :
            Cardinality({j \in quiet[m] : InWindow(k, j)}) < FloodThreshold

(* What is counted, by session and by window, is what was asked. *)
CountsExact == CountedExactly /\ FloodExact

(* A query for a name that has been forbidden for Ttl raises its alert,    *)
(* whatever the cache held, unless a read of the tables failed since.      *)
PolicyHonoured ==
    [][(/\ pc = "query" /\ pc' = "flood" /\ Line.name \in policy.forbidden
        /\ steady'.policy = Ttl /\ steady'.reads = Ttl)
         => <<cur.mac, Line.name, Line.at>> \in alertRows']_vars

(* A query is put down to a client that no longer holds the address only   *)
(* during LeaseRefresh seconds after the change.                           *)
AttributionFresh ==
    [][(pc = "reading" /\ pc' = "query") =>
         LET ip == NextLine.ip IN
         \/ cur'.mac = leases[ip]
         \/ steady.lease[ip] < LeaseRefresh]_vars
=============================================================================
