# OSHotspot in TLA+

OSHotspot turns a Linux machine into a Wi-Fi hotspot with a web dashboard: shell
scripts start hostapd, dnsmasq and a firewall, a Python daemon turns the dnsmasq log
into events, a Python web server manages the hotspot and holds a captive portal.
This directory models the parts of it where several threads, processes or restarts
meet over shared state: what each promises, which of it holds, and why.

TLC checks small instances (`MC*.tla`, `MC*.cfg`); TLAPS proves the main safety
properties for every value of the constants (`*Proofs.tla`). `PROJECT.json` lists the
runs, the source lines each definition stands for, the mutants that show each property
can be broken by a plausible bug, the hazards and the findings.

    tlc -workers 2 -config MCAlertDigest.cfg MCAlertDigest
    tlapm AlertDigestProofs.tla

Source paths below are relative to `src/`.

## 1. The system

| part | state | operations | runs as |
|---|---|---|---|
| **E-mail digest** `events/alert.py` | `_alert_buffer`, `_alert_timer`, `config.conf` | `alert`, `_schedule_digest`, `_flush_digest`, timer threads | threads of the dashboard and of the collector |
| **Captive portal** `web/server/captive.py`, `handler.py` (`/api/captive/*`), `scripts/firewall.sh captive_*` | `/run` list of MACs, JSON files of sessions and codes, kernel rules, `_server_instance` | login, logout, revoke a client or a code, create codes, the sweep, restoration at start, switching the portal | one thread per request, one sweeper thread, shell subprocesses |
| **Live stream** `events/live_bus.py`, `web/server/live_stream.py`, `static/js/live.js` | subscribers' buffers, the ring in SQLite, each stream's cursor, the tab's last event id | `publish`, `drain`, `stream`, reconnection | publishers in two processes, one server thread per tab |
| **Accounts** `web/server/auth_db.py`, `auth.py`, `handler.py` (`/api/auth/*`, `/api/users/*`) | tables `users`, `sessions` | login and lockout, first setup, create, delete, role, password reset, logout, expiry | one thread per request |
| **Event collector** `events/tailer.py`, `db.py`, `parser.py`, `classify.py` | log offset file, events and devices tables, open sessions, flood windows, seen hashes | `run_once`, `handle_event`, `reconcile_mac`, `sweep_connected` | one daemon |
| **Login throttles** `auth_db.py:203-279`, `captive.py:313-325,476-565` | failures, end of the ban and last failure of each address, in memory | check, count, report, clear, drop | request threads |
| **Process watchdog** `src/oshotspot-watchdog.c`, `scripts/monitor.sh` | pid files, grace file | `check_process`, `watchdog_check`, `watchdog_monitor` | a C process |
| **Life cycle** `oshotspot`, `start.sh`, `stop.sh`, `repair.sh`, `utils.sh`, `oshotspot.service` | pid files, generated configurations, interface, rules | start, stop, repair | scripts of root |
| **Dashboard start and inactivity stop** `web/serve.py`, `main.py`, `settings.py`, `auth.py` | activity file, `INACTIVITY_TIMEOUT`, the killer process | main loop, `spawn_watchdog`, shutdown | the dashboard and one subprocess |
| **SPAN analyzer** `events/span_analyzer.py` | counts per second, ports per window, addresses of ARP replies, times of the last alerts | capture loop, start, stop | one thread |
| **Deny list** `handler.py` | `deny_maclist.conf`, the list hostapd read | kick, unblock | request threads, scripts |
| **Domain policy, DNS blocking** `handler.py`, `classify.py`, `reload-dns-blocking.sh` | table `forbidden_domains`, generated dnsmasq files, the list dnsmasq read | add, remove, reload | request threads, scripts |
| **Firewall outside the portal** `scripts/firewall.sh` | nft table or iptables chains | setup, cleanup, isolation, bandwidth | scripts |
| **Scan, generator** `oshotspot-scan.c`, `oshotspot-gen.c` | none | choice of band and channel; templates | C programs run once |
| **Configuration, parsers, VPN, notifications, pages, reports, packaging** | files and a table, each written by one operation | edit, show | request threads, browser, operator |

How they meet:

* The collector and the dashboard are two processes over one SQLite file. The
  collector's events reach a browser only through the ring of the live stream; the
  dashboard's go to its own subscribers' buffers and to the ring.
* `alert()` is called from both; each process has its own digest.
* The portal's request threads, the sweeper, `start.sh` and the administrator's
  requests read and rewrite the same files with no lock between a read and the write
  that depends on it; `firewall.sh` reads the list of MACs again for its rules.
* `start.sh` and the dashboard's start both rebuild the portal's rules.
* The watchdog and `stop.sh`/`start.sh` share pid files, not a lock; requests of the
  dashboard run these scripts beside each other.
* hostapd and dnsmasq read their lists only when they start, whoever starts them.
* The throttle of the dashboard reports a ban to the digest under its own lock.

What makes it hard: read-compute-write over files and tables without a lock; timers
whose cancellation may come too late; two clocks for one promise (sweep period and
expiry); reconnections that resume from an id; restarts that find some state in files,
some in `/run`, some only in memory; and errors that are swallowed.

For each part the properties that make it correct:

* digest: an accepted alert is sent or discarded, once, in bounded time;
* portal: who is on the list has a session, a grant and a rule, and conversely; a code
  serves one device; what is revoked or expired ends and does not come back;
* live stream: no hole in a tab's feed, no going back, no thread that stays, nothing
  old in a new tab;
* accounts: the setup is never undone, a lock stands and escalates, a session belongs
  to an account, an id is given once;
* collector: each log line counts once through restarts, each unknown device is
  reported once, a flood is reported once per burst;
* throttles: a ban lasts, no guess goes uncounted, every login is answered;
* watchdog and life cycle: a stop leaves no access point, an acknowledged start serves,
  what crashes comes back;
* deny list and domain policy: what was blocked stays blocked, what was released comes
  back, through every restart;
* SPAN analyzer: no false alarm, no storm of alarms, no flood or scan unreported (TCP
  scans are, section 5);
* inactivity stop: never while in use, always after the current timeout.

## 2. Modules

| module | what it is |
|---|---|
| `AlertDelivery` | what the digest promises about one alert: the abstract specification |
| `AlertDigest` | the digest; implements `AlertDelivery` |
| `CaptivePortal` | the portal's stores and the threads over them |
| `LiveStream` | publishers, ring, server threads, browser tabs |
| `AuthUsers` | accounts, sessions and the lockout, one step per SQL statement |
| `Collector` | the collector, the log it reads, its caches and tables |
| `LoginThrottle` | the two tables of wrong guesses |
| `Hotspot` | the scripts, the watchdog, the three daemons and the deny list |
| `DnsBlocking` | forbidden domains, the reload and dnsmasq |
| `SpanDetector` | the detectors of the SPAN analyzer |
| `AlertDigestProofs`, `CaptivePortalProofs`, `LiveStreamProofs`, `AuthUsersProofs`, `CollectorProofs`, `HotspotProofs`, `DnsBlockingProofs` | theorems |
| `RateProofs` | theorems about `LoginThrottle` and `SpanDetector`: two components that count what an address does, over the same lemmas about numbers, clocks and sets |
| `MC...` | symmetry sets and definitions that a `.cfg` cannot write |

Definitions whose comment starts with "Mutant" are altered forms of the definition
that follows them. No specification uses them; `PROJECT.json` names, for each property,
the one that breaks it.

### AlertDigest

`buffer`, `current` are `_alert_buffer` and `_alert_timer`. They change only under
`_timer_lock`, so a locked block is one action: `Buffer` (`alert`, append and test of
the length), `Schedule` (`_schedule_digest`), `Flush` (`_flush_digest` up to the end of
its block). Between them a caller is in `pc`, and a `threading.Timer` is `armed`, then
runs `Flush` and `Send` like a caller. `cancel()` stops an armed timer and does nothing
to one that already fired: this is the operator `AfterCancel`. `Send` reads the
configuration again and may fail; either way the batch is gone. `Restart` loses the
buffer, since timers are daemon threads.

A timer object is a member of `Timers`, used again once dead; two suffice for two
callers because a third could only exist while two flushes are still running. Time is
relative: `left` of each timer and `age` of each alert. `prompt` (chosen at the start)
says that code between two blocks takes no time: only the two bounds on waiting assume
it, every other property is checked with both values.

### CaptivePortal

`macs`, `sessions`, `codes` are the three files, `rules` and `enforced` the accept rules
and the final drop. Each thread runs the program of its `job` through `pc`. One read or
one write of one file is one action, and what a thread computed from a read waits in
`outMacs`, `outSessions`, `outCodes` until it writes: that is the lost update the code
allows. A firewall command is a shell subprocess that reads the list again, in two steps
(`FlushRules`, `FillRules`), either of which the caller's limit of ten seconds may cut short
for good (`TimeOut`). `RestartDashboard`, `Reboot`, `RestartHotspot`, `SwitchOff`,
`SwitchOn` keep exactly what survives: `/run` and the rules do not survive a reboot, the
JSON files do. The first two come between any two steps of a request or a sweep.
`SwitchOff` and `SwitchOn` run no firewall command because
`run_script("firewall.sh captive_setup")` looks for a file of that whole name
(`handler.py:1178,1184`). `grant`, `disconnected`, `halfway` and `botched` are history: whom
the last login or revocation let in, whom the administrator disconnected, whose request died
with the dashboard, whether a command was cut short and no setup has ended since.

`overlap`, constant in a behaviour, says whether a thread may begin while another is in
progress. `Serial` (no overlap, all threads at rest) guards the properties that need it;
with overlap they fail, as section 5 shows. They also name, case by case, what a death
or a cut command leaves behind: `StoresAgree` says that nothing else disagrees.
`FIREWALL` is `Backend`; the runs use nft.

### LiveStream

An event is a number. `Deliver` and `Insert` are the two halves of `publish`;
`InsertLocked` is an insertion that finds the database locked. A server thread goes
through `ReadLatest`, `ResolveCursor` (the two queries of `_resolve_ring_cursor`), then
loops over `TakeBuffer`, `Poll`, `WriteRow`, `Heartbeat`; a write to a tab that is gone
ends it. The tab has a `link`, a `lastId` and what it has `shown`; `Drop` breaks its
connection, `Connect` sends `lastId` as `Last-Event-ID`, `Renew` is the new EventSource
of `live.js` after five errors, which has none. A query of the ring that fails answers 0
or nothing (`Queried`), and `ResumeFrom` has both of the source's tests of a header:
older than where a replay starts, and farther than `Slack` beyond the newest row.
`since`, `skipped` and `blind` are history: the row after which the tab's EventSource
reads, which only a fresh connection sets; the rows its reconnections give up because
they are too old or too many; and whether the thread's `latest_id()` failed.

### AuthUsers

`role`, `failed`, `lockedUntil`, `lastUser` are the table `users` (an id from
AUTOINCREMENT), `sessions` the other table. A request is a thread; each of its
statements is one action, with what it read in `target`, `asked`, `seen`. `ReadUser`,
`ClearLock`, `WrongPassword` / `RightPassword`, `RecordFailure`, `CreateSession` are a
login: the failure is written a second after the count was read. `Count` and `SetRole`
or `Delete` are the check for the last superadmin and what depends on it. A session may
outlive its account: SQLite does not enforce REFERENCES here. `overlap` is as in
`CaptivePortal`. `wrong` is history: the wrong passwords since the last right one.

### Collector

`log` is the file dnsmasq writes, `saved` pygtail's offset, `pos` the lines this process has
taken. `RunOnce` starts a pass at the saved offset, `SkipLine` and `TakeLine` are
`handle_event` up to the choice by event type, and `EndOfFile` is the only place where the
offset is saved. A query then takes one commit (`PolicyAlert`, `DropNoise`, `UpdateSession`,
`BumpPrior`, `NewSession`) and goes through `CheckFlood`; an acknowledgement takes two
(`HandleAck`, `FlagDevice`). `Crash` comes between any two of them and loses `seen`,
`times` and both caches; `Restart` takes a new `start_epoch`. A failed statement is
`DropQuery`, `DropFlood`, `DropDevice` where `run_once` catches it, `LoseBump` and
`MissSession` where it is swallowed, and the second half of `LoadPolicy` where it empties
the policy lists.

The text of a line, hence its hash, is the record: dnsmasq stamps seconds, so two equal
queries of one second are one text. A name stands for a domain with its category;
forbidden and watched lists act alike here and are one; a policy read fails for all lists
together. A cache keeps the seconds it still serves (`left`) rather than the time it was
read. `floods`, `quiet`, `device`, `steady` and `replayed` are history. The lines field of
a session row is history too: the lines that were added to it, against which
`request_count` is judged.

### LoginThrottle

`attempts` is `IP_LOGIN_ATTEMPTS` or `LOGIN_ATTEMPTS`; `door`, constant in a behaviour, says
which. `Check`, `RecordIpFailure` and `Reset` are the three calls under `_IP_LOGIN_LOCK`
(and the portal's blocks under `_ATTEMPT_LOCK`). The lock is a variable only while
`record_ip_failure` reports a ban with it: that is the label "alert", and `LockFree` guards
the three. `at` is the clock a call reads before it waits for the lock. The portal keeps
the entry it took at the start of the request: a request in `orphans` holds one that
another request's cleaning has dropped from the table, so what it writes is lost. The rest
is history: `since` the wrong guesses since the last ban or success that are to be counted,
`astray` those that orphans made, `banned` the end of the last ban as announced, `late` the
requests that were past the check when it began, `ended` whose success ended it early.

### Hotspot

`procs` counts the live processes of each daemon, `managed` are those whose pid file
names one (`is_running` removes a file that does not), `young` the collectors on their
way up: they are left in the background and write their pid file when Python has loaded
them (`WritePid`). A request runs one label per command of `stop.sh` and `start.sh` that
changes a process or the interface; a failure exits and leaves what is up. `ExitEarly`
is `set -e` at a command that changes neither (the firewall's cleanup, its set-up, the
portal's rules), and `ap0` may refuse to be deleted, which the scripts swallow
(`stuck`). A watchdog's pass is `Wake`, then for each daemon `Check` (the decision) and
`Restart` (the command); the signal of a script sets `term`, and a pass under way is
finished. `acl` is what hostapd read of `denyFile`; `Truncate` and `Rewrite` are the two
halves of the rewriting in `_unblock_client`. `kicked`, `freed`, `serving` and `silent`
are history: what the dashboard has acknowledged and nothing has taken back. `Apart`
names the sets of operations that an instance keeps from overlapping: changes of the
deny list, whose overlap loses one (section 5). Watchdogs and threads are numbered and
used again.

### DnsBlocking

`table` is `forbidden_domains`, `file` what the script wrote of it, `loaded` what
dnsmasq read when it started. One label per step of `reload-dns-blocking.sh`: read the
table, truncate, write, kill, remove the pid file, launch, check. Under `set -e` the
script ends where the database, the file or `dnsmasq --test` fails it, and `run_script`
kills it after 30 seconds (`Failure`); what failed it does not keep dnsmasq from
starting afterwards. A database that is not there has an empty table: nothing in the
repository deletes one. `Signal` is the SIGTERM by which a change of the portal's domain
replaces a failed script. `cut` says that the file was truncated and not written since.
`about` is the watchdog between its decision and its command. `Matches` is the
collector's meaning of a pattern, `Answered` dnsmasq's: the property relates the two.
`held` and `released` are history, and so is `short`: the dnsmasq that runs read a file
that was cut.

### SpanDetector

`count`, `ports`, `arp`, `last` are the locals of `analyze_span_packets`; `Handle` is
one turn of its loop, `Publish` its alerts. A TCP packet only raises the burst count:
the header is unpacked by a format of 14 bytes from a slice of 20
(`span_analyzer.py:332-333`), which raises, and line 420 swallows it. So what the source
goes on to do with TCP (SYN counts, the scan of TCP ports, HTTP and TLS names) is not in
the model, since it never runs. A packet is its source, its kind and its port or
address. `seen` and `alerts` are history, over which the properties count afresh. Its
names differ from those of `LoginThrottle` (`SpanSpec`, `clock`), since one module
proves theorems about both.

## 3. Runs

| run | checks | instance |
|---|---|---|
| `digest` | types; `DigestSafe`: no alert stranded, each in one place, one armed timer and it is the one `cancel` reaches, overflow claimed; wait bounded; `AlertDelivery` (safety and liveness) | 2 callers, 2 timers, 3 alerts, digest of 2, timeout 1 |
| `captive_serial` | types; `StoresAgree`: list, sessions, rules and grants agree; `VouchersHold`: a code serves one device, and stays revoked | 2 clients, 1 code, 3 requests of every kind, 1 sweeper, 1 restart anywhere, 1 command cut short, 2 switches, clock to 3 |
| `captive_overlap` | `StaleWritesHarmless`: one session per client, only clients that logged in; `TimeRunsOut`: an expired session is swept, and access ends (this one without overlap) | 2 clients, 1 code, 2 requests, 1 sweeper, clock to 3 |
| `live` | types; no hole but the rows a reconnection gives up; feed backwards only after a failed `latest_id()`; every ring event shown; no thread leaks | 2 publishers, 1 tab, 1 server thread, 3 events, 1 locked insertion or query, 1 drop, clock to 1 |
| `auth` | types; superadmin remains; lock and count agree; sessions have accounts; a lock stands | 2 threads, 2 accounts, two tiers, clock to 2 |
| `collector` | types; session rows apart; each device flagged once; `CountsExact`: each query counted once, floods exact; forbidden names alerted; attribution fresh | 2 devices, 1 address, 2 names, clock to 3, 2 to 4 lines with kills, failures and edits |
| `throttle` | types; `Throttled`: a ban lasts unless a success that was under way ends it, and what goes uncounted is bounded; every login answered | both throttles, 1 address, tiers of 2 and 3 failures, 2 requests at a time with 4 failures and the clock to 4, or 3 with 3 failures and the clock to 1 |
| `hotspot` | types; `DenyListHolds`; a stop leaves no access point; an acknowledged start serves; crashes are recovered from | 2 devices; 2 requests beside each other, 2 in turn with a failed command, 1 with 2 crashes, or 1 with a crash and a failed command beside 2 watchdogs |
| `dns` | types; `BlockListHolds`; dnsmasq comes back | 3 patterns over 3 names, 2 threads, a reload that fails, and 3 requests or 2 with 2 crashes |
| `span` | types; alerts sound; bursts, ping floods, UDP scans and ARP contradictions alerted | 4 mixes of up to 4 packets, 5 packets, 5 ticks, a second of 2 ticks |
| `captive_lost_session`, `hotspot_stop` | one documented promise each, refuted | as small as the counterexample allows |

Why the bounds are enough:

* digest: two callers are the least that race; with a digest of two and three alerts a
  buffer fills, overflows and fills again, and a late flush meets the next timer. Two
  timers cover an old one still flushing and a new one waiting. The wait bound is tight
  at timeout 1 and `AgeCap` 2, one above it.
* portal: a lost update takes two threads and one file, a stolen code two clients and
  one code. Three requests give login, revocation and a later login. One restart falls
  anywhere, in a request, a sweep or a restoration, and one firewall command is cut
  short anywhere; the portal is switched on again after a restart, since its one sweeper
  outlives the switch off. The clock reaches a login, its expiry and a time after. *
  live: `Keep` 2 and `Replay`, `Limit`, `Backlog`, `Slack` 1 make every limit bite with
  three events: a drain leaves rows, a buffer drops one, a trim removes one, a
  reconnection gives rows up, and one that finds the ring unreadable has a header beyond
  `Slack`. `Window` 0 makes a row of an earlier tick too old. One drop is a resume; a
  renewal after it is a fresh start. A second server thread, which serves a broken
  connection beside the new one, takes too long to be a run; the theorems cover it.
* accounts: two accounts and two threads are the least for two superadmins and a lost
  check. The tiers are (2 failures, 1 tick) and (3 failures, 2 ticks), so the clock to 2
  sees a lock taken and expired.
* collector: a behaviour has one of the budgets of `MCBudgets`: four lines undisturbed
  (a flood of two is reported and the list fills again, a session ends and another
  begins), three with one kill or failure (a line before, in and after it), two with an
  edit and a kill or failure. `ScanLimit` 1 makes the limit of the scan bite with two
  rows of one client. The lease table is any at the start, so that one address and one
  acknowledgement are a change of holder. With gap 2, window, refresh and cache life 1 and
  the clock to 3 every time test is met on both sides.
* throttle: one address is enough, since addresses meet only where old entries are dropped,
  which the model lets a request do to its own. Two requests see two tiers, a second lockout
  of the portal and a clock past the life of an entry, with a request under way when it is
  dropped; three see a guess that waits behind a report while another is under way.
* hotspot: two requests are the least that overlap, two watchdogs what a stop and a start
  leave behind while an old pass ends. Two devices, one of them perhaps blocked before: one
  stays blocked while the other is unblocked. Two crashes come in turn, the second after the
  first was recovered from or in its grace period. Each combination has a budget of its own:
  more actors at once take more than a run's time. `MaxYoung` 2 lets a pass find a collector
  that has no pid file yet and start another.
* dns: a name, its subdomain and a name without a dot; the pattern of the first with and
  without "*."; three requests add, remove and add again; with two crashes the watchdog
  or `start.sh` starts dnsmasq in any window of a reload that then fails or not. * span:
  thresholds of 1 and 2, two ports for a scan; mixes of UDP to three ports, of TCP, UDP
  and pings, of two addresses, of ARP; second, window and cool-down of two ticks, so
  that five packets straddle each. Floods of twice the threshold within a second that is
  not a calendar second fit in.

`CHECK_DEADLOCK FALSE` stands where the system may stop: in the live run, when all
events are out, an idle feed with a live connection has nothing left to do but wait; in
the hotspot runs and `dns` everything may be stopped and the requests of the bound used
up; in `span` the packets and the clock of the bounds end.

### Fairness

* digest: weak fairness of each thread's steps, of expired timers and of the clock: the
  threads are scheduled by the OS, `threading.Timer` fires. None for callers, for the
  configuration, for restarts.
* portal: weak fairness of each started thread, and of the sweeper, which is a loop with
  `sleep(5)` (`captive.py:305`). None for requests.
* live: weak fairness of each step of a server thread, strong for `TakeBuffer` and
  `Poll`: one iteration of the loop tries the buffer and then the ring
  (`live_stream.py:222-272`), so neither waits for ever while the other has work. None
  for publishers, for the browser, or for a broken connection.
* throttle: weak fairness of each request's own steps, the report among them (a mail server
  answers or its timeout ends the attempt); strong fairness of the steps under the lock: a
  thread that waits for a `threading.Lock` which is let go again and again obtains it. With
  weak fairness three threads could starve one. None for new requests or restarts.
* hotspot, dns: weak fairness of the watchdog's loop and of the end of the grace period; in
  `hotspot` of a collector that is on its way to its pid file, in `dns` of a script that is
  running. None for requests, crashes and failures.
* collector, span: none. The collector's properties are safety: that a line is read at all
  needs a daemon that is up, which is `CrashRecovers` of the hotspot.

## 4. Proofs

TLAPS checks all of these for every value of the constants under the assumptions named
in the modules (`CallersAssumption`, `PortalAssumption`, `LiveAssumption`,
`AuthAssumption` ...): names are distinct, bounds are naturals. The
few lemmas about least and greatest numbers and about quotients stand in each module that
needs them.

* **AlertDigest.** `TypeCorrect`, `TimerOwnership`, `NoAlertStranded`, `AlertsConserved`,
  `OverflowClaimed`, together `DigestIsSafe`; `DigestSizeBounded`, `Delivers` (the
  implementation of `AlertDelivery!SafeSpec`). No alert stranded is not inductive alone: a
  timer that fires must become a flusher, so the invariant also carries which labels
  callers and timers may have and that only `current` is armed. The overflow bound needs
  the set of alerts in the buffer to be finite, which the invariant carries with it.
  `WaitIsBounded`: with prompt threads no alert waits longer than `DigestMax` - 1 timeouts.
  Every alert restarts the timer, so the bound on an age is in terms of the buffer: one
  timeout for each alert in it, less what is left of the timer that waits, and a whole one
  less while a caller is on its way to restart it (`Waited`).
* **CaptivePortal.** `TypeCorrect`, `SessionsUnique`, `OnlyClientsEnter`, the last two
  together `StaleWritesAreHarmless`, with any overlap and any restarts. The type invariant
  needs `Control`: which job can be at which label, with a real client in `mac`. The other
  two range over the files and over what every thread is about to write: the file alone is
  not inductive, since a stale list may be written at any time.
  Without overlap, `VouchersAlwaysHold`, `ListedAlwaysHaveSessions`, `StoresAlwaysAgree` and
  `SweepAloneIsSafe`. Between two requests the stores agree; within one they do not, so the
  invariant `OneAtWork` names the thread at work and says for each job and label which of
  list, session, code and rule are written already and what the rest of the job will
  write (`Progress`). The part about the rules needs nftables. A disconnection by the
  administrator takes a client off the list and leaves its session, a death of the dashboard
  leaves any part of a job undone: the invariant carries who may be in these states, and
  `StoresAgree` names them. An overlap breaks it: `captive_lost_session` is the case.
* **LiveStream.** `TypeCorrect`, `FeedIsWhole`, `NeverBackwards`. Their invariant says:
  row ids are at most `lastRow` and name one row each (`RingOK`); a tab's connection
  belongs to a thread in use, and a thread serves one tab (`Linking`); the rows a thread
  has fetched are all the rows of the ring from its cursor to the last of them
  (`Fetched`); for the linked thread the tab's last id is its cursor, or the header it
  resumes from (`Feed`), unless its `latest_id()` failed, when the cursor may be behind. The
  whole feed follows because a drain takes the *oldest* rows after the cursor and ids are
  given in the order of insertion; `skipped` is exactly what lies between the header and a
  cursor that the limits moved on.
* **AuthUsers.** `TypeCorrect`, `LockMatchesCount`, `IdsStay` (an id is never given twice;
  no run repeats it) whatever overlaps; `SuperadminStays`, `SessionsOwned`, `LocksStand`
  without overlap. `Alone` states that without overlap at most one thread is in a request,
  and what it has already checked still holds when it writes; `Unused` that accounts beyond
  `lastUser` are blank. Counts of superadmins use the cardinality theorems of the library.
* **Collector.** `TypeCorrect`, `DevicesFlaggedOnce`, `SessionsStayApart`,
  `PolicyAlertsRaised`, `AttributionsFresh`, with kills, failures and edits. Every one
  rests on `Hand`: the line in hand is of the kind the handler is for. `DeviceInv` ties
  the counters of a device to its entry in the inventory. For the sessions: the log is
  in the order of its times (`Ordered`), a sleeping collector stands at its saved offset
  (`Placed`), no row is younger than a line still ahead (`RowsPast`), and of two rows of
  one client and name the later began after the earlier ended and in a later window
  (`RowsApart`). So a row is only ever extended forwards, and only the newest of its
  client and name: an older one that is within the gap would make the newest one open
  too, and an older one with the window of now would put the newest one in the future.
  `LeasesFresh` and `PolicyFresh` say that a snapshot which differs from the tables
  expires before the tables count as steady. `CountsAreExact` is `RequestsCounted` and
  `FloodsExact`. For the first, `CountInv`: while no pass was cut short, a row's counter
  is the number of its lines, all of them behind the collector, and no line is in two
  rows (`RowsCounted`); in an undisturbed run every query behind, and every text that
  will be skipped as seen, has a row that counts it or an equal one (`NoneMissed`). For
  the second, `FloodInv`: memory and reports hold only lines that `check_flood` has
  seen, none of them twice (`ListsChecked`, `ListsApart`), and what it dropped
  unreported is out of the window of now and of every line still to come, because the
  log is in the order of its times (`DropsOutdated`).
* **Hotspot.** `TypeCorrect`, `StopSilences`, `StartsServe` whatever overlaps, for any
  number of watchdogs and crashes; `DenyListStands` where `Apart` keeps the changes of
  the deny list from overlapping. After a stop that could delete `ap0` there is no
  interface (`SilentInv`), and a watchdog's hostapd needs one. `ServeInv` says at each
  label what an undisturbed start has done that no watchdog can undo. `DenyInv` has a
  part for the file, one for the list on the air and one for each request that edits:
  what it read before it emptied the file, and from which label on file and air agree
  with its answer. Every start of hostapd, whoever's, then either reads a good file or
  meets an unblock between its truncation of the file and its own stop of hostapd.
* **DnsBlocking.** `TypeCorrect` whatever overlaps; `BlockListStands` where `Apart`
  keeps reloads from overlapping. `Fair` says of a list of names that it blocks what is
  held and nothing that was released. The file is fair unless it is `cut`, and what
  dnsmasq loaded is fair unless it is `short`: a watchdog may start dnsmasq on the
  truncated file. Without a failure the reload that truncated it is then still before
  its kill (`CutIsBrief`), and after the kill whoever starts dnsmasq reads the new file.
* **LoginThrottle** (in `RateProofs`). `TypeCorrect`, `GuessesThrottled`: for both
  tables, any addresses, tiers and durations and any number of requests of an address at
  a time. What `Throttled` promises is a sum over history (the guesses since the last
  ban), so the invariant ties it to the table: it is at most the failures the entry has
  counted plus the wrong guesses that are on their way to be counted (`Accounted`),
  which needs that a request of the portal holds the table's entry unless it is among
  the orphans (`Holding`); what goes astray is at most one guess of each orphan. While a
  ban lasts, the guesses counted and those under way are fewer than the threads
  (`BansBite`), and whoever is past the check was so when it began, so a success that
  ends it is late. That the table still has the ban needs `BansInTable`: no ban reaches
  farther than the life of an entry, though the clock that set it may have been read
  before a wait. The tiers must not be empty and `FailLimit` is a modulus: the portal's
  count is taken modulo it.
* **SpanDetector** (in `RateProofs`). `SpanTypeCorrect`, `AlertsAreSound`,
  `FloodsAlwaysAlerted`: for any packets, thresholds, windows and cool-downs. The
  invariant says what the tables know of the packets themselves: a counter is the number
  of packets of its second, which is the last with any (`CountsKnown`); the sightings of
  ports are true, and none of the window is missing (`PortsKnown`); the address kept for
  an IP was claimed, and any other claim was reported (`ArpKnown`); the time of the last
  alert is that of an alert (`LastKnown`). `BurstsAlerted` and `ScansAlerted` say of
  each packet in the history that, if the packets of its second or window up to it are
  too many, there is an alert at its time or a cool-down before; the scans are those
  over UDP. A flood of more than twice the threshold within a second lies in two seconds
  of the clock, one of which has more than the threshold, and the last packet of that
  one gives the alert.

Only model-checked: liveness (`DeliveryLive`, `TimeRunsOut`, `EventuallyShown`, `NoLeak`,
`LoginsAnswered`, `CrashRecovers`, `DnsRecovers`), which is beyond this prover: it has
neither ENABLED nor a rule for fairness. Every safety property of a passing run is a
theorem. The theorems use no bound: `MaxTime`, `MaxUsers`, `MaxEvents`, `Budgets` and the
like are arbitrary naturals.

## 5. Where the code and its documentation disagree

Two have a run that must fail:

* `captive_lost_session`: the sweep writes back the list it loaded before several
  firewall subprocesses (`captive.py:223`); a login in between loses its session.
* `hotspot_stop`: the watchdog's signal handler only sets a flag
  (`oshotspot-watchdog.c:52-56`), so one in the middle of a pass restarts what `stop.sh`
  has killed, and a daemon runs after the hotspot was torn down "cleanly" (`stop.sh:9`).

Others are stated as properties of the modules without a run of their own; to see one
fail, check it with these constants:

| property | what is promised, and what happens | instance |
|---|---|---|
| `CaptivePortal!RevocationLasts` | "Revoke client captive portal MAC authentication" (`ARCHITECTURE.md:246`); the disconnection leaves the session (`handler.py:2624`), and the next start whitelists the client again (`captive.py:871`) | `captive_serial` |
| `LiveStream!LockedIsRetried` | "Insert with retry on 'database is locked' errors" (`live_bus.py:277`); the handler that closes the locked connection raises `UnboundLocalError` (`live_bus.py:261-266` assign `_ring_conn` without `global`), which is not retried; the event never reaches the ring | `live`, whose `MaxLocks` is 1 |
| `LiveStream!ReconnectUnaffected` | "Clients that are merely reconnecting mid-feed have a cursor inside the window and are unaffected" (`live_stream.py:187-188`); one that missed more than 50 rows, or was away for more than a minute, is moved on to where a fresh one would start, and never gets the rows between | `live` |
| `LiveStream!AlwaysForward` | "reconnect cursors are never poisoned" (`live_stream.py:97`); a `latest_id()` that fails answers 0 (`live_bus.py:354`), a header above 1000 is then taken for one from another ring (`live_stream.py:183`), and the tab is sent again what it saw | `live` |
| `LiveStream!PastStaysPast` | "a freshly-opened tab only catches up on events from the last minute" (`live_stream.py:160-162`); with no row younger than that the clamp is 0, which means no clamp (`live_bus.py:379`, `live_stream.py:172`) | `live` |
| `AuthUsers!LastSuperadminKept` | the last superadmin cannot be demoted (`handler.py:2513`); count and change are two statements (`handler.py:2519`), and two requests at once leave none | `auth` with overlap |
| `AuthUsers!TiersEscalate` | the tiers of the lockout escalate (`auth_db.py:354`); an expired lock resets the count (`auth_db.py:319`), so the higher tiers are never reached | `auth` |
| `LoginThrottle!BansStand` | a ban stands for the time it was announced for (`captive.py:547`, `auth_db.py:255`); a right password or code of a request that was past the check when it began clears the entry, ban and all (`auth_db.py:279`, `captive.py:563`) | `throttle` |
| `LoginThrottle!EveryGuessCounted` | each wrong code counts; one whose request's entry another request's cleaning has dropped (`captive.py:517`) is counted in an entry that is no longer in the table | `throttle` |
| `SpanDetector!TcpScansAlerted` | port scans are detected (`README.md:62`, `oshotspot-fuc.md:84`), SYN floods too; every TCP packet ends in `struct.error` at `span_analyzer.py:333` and line 420 goes on with the next, so no TCP scan and no SYN flood is ever reported, nor any HTTP or TLS name | `span` |

Seen while modelling:

* Digest: every alert restarts the 60-second timer (`alert.py:1164`), so "10 alerts or 60
  seconds, whichever comes first" (`alert.py:1181`) does not hold; `WaitBound`, nine
  timeouts, does. A digest may exceed the ten alerts of its comment by one per waiting
  caller (`DigestSizeBounded` is the true bound).
* Portal: with iptables a revoked client's accept rule stays (`firewall.sh:989`); a login in
  progress survives the revocation of its code (`handler.py:2865`); `client_ip` is undefined
  on the path of `captive.py:527`; two starts of the server check for an instance before
  they bind (`captive.py:859`), and the second clears the first one's.
* Accounts: two first-time setups at once create two superadmins (`handler.py:2209`); a
  login in progress leaves a session of a deleted account (`handler.py:2196`); a late
  failure may unlock an account (`auth_db.py:356`).
* Throttles: the dashboard computes a ban from a clock it read before it waited for the lock (`auth_db.py:239`), so the ban is shorter by the wait.
* Watchdog: the counts that `MAX_RESTARTS` limits are locals of one pass
  (`oshotspot-watchdog.c:162`), so the limit and its cool-down never apply. A pass that
  outlives a stop may start dnsmasq or a second collector behind it; one that outlives a
  stop and a start may take dnsmasq's ports, and the start fails. A pass between the
  launch of the collector and the moment it writes its pid file (`tailer.py:849-855`)
  starts a second one, and both read the log.
* Life cycle: a failed `iw dev ap0 del` is swallowed and "Interface removed" logged all the
  same (`utils.sh:282`); a failed firewall cleanup ends `stop.sh` before it (`stop.sh:104`).
* Deny list: `oshotspot-watchdog.c:200` and `handler.py:1045` speak of a reload by SIGHUP;
  the script restarts. A block beside an unblock is lost when the unblock writes back what
  it read (`handler.py:1327`; `DenyListHolds` with `Apart = {}`).
* Domain policy: two reloads beside each other may leave the older list, acknowledged
  (`BlockListHolds` with `Apart = {}`); a reload that a watchdog's start overtakes
  leaves dnsmasq without a pid file; an add whose reload failed answers 200 with
  `dns_reloaded` false (`handler.py:1656-1665`), and its repetition finds the row,
  answers 500 and reloads nothing. A dnsmasq that is started on the file a reload has
  truncated, and that reload then fails, answers from an empty list until the next
  reload. A pattern without a dot is accepted and not blocked, and one without "*."
  blocks the subdomains too, unlike `match_pattern`.
* Analyzer: "> 6 distinct ports" (`span_analyzer.py:298`, `369`) is `>= 6` in the code.
* Collector, re-reading: "duplicate lines are impossible" (`tailer.py:48-50`) and re-reads
  "harmless" (`tailer.py:657-659`, `670`), but after a kill in a pass the lines inside the
  grace period are read again and raise `request_count` a second time (`CountsExact`
  holds only while no pass is cut short). Lines written while the collector was down longer
  than the grace period are dropped (`tailer.py:527`).
* Collector, devices: "flagged", "then remembered so it is only flagged once"
  (`tailer.py:15-17`); the order is the other one (line 181), so a device whose report
  fails is never flagged.
* Collector, floods: "reported once per burst window" (`tailer.py:18-19`); the list is
  reset at each report (line 232), so a burst is reported at every further hundred
  queries. Equal queries of one second are one line to `_is_fresh` and count once, so a
  client that asks for one name is undercounted.
* Collector, policy: "keep the last good snapshot" (`classify.py:448`) is not reached, since
  `list_patterns` answers a failure with an empty list.
* Collector, sessions: after 200 newer rows of the client, or a failed search, a row is
  forked within the gap (`db.py:336`, `370`).

## 6. Not modelled

* Inside the portal, the accounts and the digest: the layout and transport of messages,
  passwords and cookies, pages and probes, the audit log, the torn write of a JSON file (one
  write is one step), the bind of the portal's server.
* Inside the collector: the live stream (its publishers are `LiveStream`'s), the
  throttle of bell notifications, connects and disconnects, `sweep_connected`, log
  rotation, the deletion of old events, a database that cannot be opened, the years
  `adjust_year` guesses.
* Inside the life cycle: the time limit of `run_script`, which kills the script where it
  is (`ExitEarly` ends it at the commands that `set -e` guards only); reuse of process
  ids; the firewall rules and generated files on the way.
* Inside the domain policy: `bulk_import`, the watched and noise lists, the sets of
  addresses for the firewall, application categories.
* Inside the analyzer: the parsing of packets with the DNS reports, and what follows the
  error of line 333 in the handling of TCP; the two capture threads that a slow stop may
  leave (`span_analyzer.py:441`).
* The inactivity stop and the dashboard's start are planned (section 7).
* Parsers, reports, the VPN wrapper, the pages, packaging: they read, format or run a tool
  once; a model would repeat their text.

## 7. Plan

In order of what matters most to a running hotspot.

1. Done: `AlertDigest` over `AlertDelivery`, `CaptivePortal`, `LiveStream`, `AuthUsers`,
   `Collector`, `LoginThrottle`, `Hotspot` with the deny list, `DnsBlocking`,
   `SpanDetector`.
2. Done: every safety property of the runs as a theorem, `StoresAgree` and `VouchersHold`
   of the portal, `WaitBound` of the digest, `CountsExact` of the collector, `Throttled` and
   the three properties of the analyzer the last of them.
3. For `LiveStream` an abstract specification of a feed (a tab sees a growing prefix of the
   rows after its start) that it implements.
4. `InactivityStop`: activity file, main loop, killer process. The dashboard never stops
   while in use and always stops after the timeout that is set.
5. `SessionFile`: torn writes of the portal's files; the start and stop of the analyzer.
6. Choice of band and channel (`oshotspot-scan.c`, `oshotspot-gen.c`) as functions against
   a reference definition.
