------------------------------ MODULE Hotspot ------------------------------
(***************************************************************************)
(* The life cycle of the hotspot: the requests of the dashboard that run   *)
(* stop.sh and start.sh (start, stop, restart or repair, and the two that  *)
(* change the deny list and restart to have it read), each in a thread of  *)
(* its own with no lock between them, and the watchdog of                  *)
(* src/oshotspot-watchdog.c, which restarts what crashed and may be in the *)
(* middle of a pass when a script tells it to go.                          *)
(*                                                                         *)
(* A pid file is abstracted to whether it names a live process: is_running *)
(* removes a file that does not.  Reuse of process ids is left out, and so *)
(* is the time limit of run_script.                                        *)
(***************************************************************************)
EXTENDS Integers, FiniteSets

CONSTANTS
    MaxYoung,   \* bound: no pass begins with so many collectors on their way up
    Macs,
    Listed,     \* bound: what may be on the deny list from before
    Apart,      \* sets of operations whose requests this instance keeps apart
    Budgets     \* bounds: what a behaviour may have of requests and watchdogs at
                \* once, of requests, crashes and failed commands: one of these

Daemons == {"hostapd", "dnsmasq", "tailer"}
Starting == {"start", "restart", "kick", "unblock"}
Ops == Starting \cup {"stop"}

ASSUME ApartAssumption == Macs # {} /\ Listed \subseteq Macs /\ Apart \subseteq SUBSET Ops
ASSUME BoundsAssumption ==
    /\ MaxYoung \in Nat
    /\ Budgets \subseteq [{"threads", "watchdogs", "ops", "crashes", "faults"} -> Nat]
    /\ \A b \in Budgets : b.watchdogs > 0

(* Threads and processes are alike: a new one has the lowest free number. *)
Threads == UNION {1..b.threads : b \in Budgets}
Watchdogs == UNION {1..b.watchdogs : b \in Budgets}

VARIABLES
    procs,      \* live processes of each daemon
    young,      \* how many of the collectors have yet to write their pid file
    managed,    \* the daemons whose pid file names a live process
    iface,      \* whether ap0 exists
    stuck,      \* history: the last attempt to delete ap0 failed
    radio,      \* whether a hostapd serves ap0
    acl,        \* the deny list that hostapd read when it started
    denyFile,   \* deny_maclist.conf
    grace,      \* /run/oshotspot-dnsmasq-started is younger than DNSMASQ_GRACE
    wd,         \* each watchdog: where it is, whether it is about to restart
                \* the daemon it looks at, whether it was told to end
    pc,         \* where each request is
    job,        \* its operation, its device, the list it read
    budget, ops, crashes, faults,   \* the bounds of this behaviour, what they count
    kicked,     \* history: devices blocked, and acknowledged, and since left so
    freed,      \* history: the same of devices unblocked
    clean,      \* history: requests that nothing has disturbed
    serving,    \* history: a start was acknowledged, and nothing came after
    silent      \* history: a stop was acknowledged, and no start came after

daemons  == <<procs, young, managed>>
system   == <<daemons, iface, stuck, radio, acl, grace>>
requests == <<pc, job>>
bounds   == <<budget, ops, crashes, faults>>
history  == <<kicked, freed, clean, serving, silent>>
vars == <<system, denyFile, wd, requests, bounds, history>>

NoJob == [op |-> "stop", mac |-> CHOOSE m \in Macs : TRUE, read |-> {}]
Off == [pc |-> "off", act |-> FALSE, term |-> FALSE]
Waiting == [Off EXCEPT !.pc = "wait"]

(* The machine has just booted, or the hotspot has been up for a while.  What is
   on the deny list was blocked before. *)
Init ==
    /\ denyFile \in SUBSET Listed /\ kicked = denyFile /\ freed = {}
    /\ serving \in BOOLEAN /\ iface = serving /\ radio = serving
    /\ acl = IF serving THEN denyFile ELSE {}
    /\ procs = [d \in Daemons |-> IF serving THEN 1 ELSE 0]
    /\ managed = IF serving THEN Daemons ELSE {}
    /\ young = 0 /\ stuck = FALSE
    /\ wd = [w \in Watchdogs |-> IF serving /\ w = 1 THEN Waiting ELSE Off]
    /\ grace = FALSE
    /\ pc = [t \in Threads |-> "idle"]
    /\ job = [t \in Threads |-> NoJob]
    /\ budget \in Budgets /\ ops = 0 /\ crashes = 0 /\ faults = 0
    /\ clean = {} /\ silent = FALSE
-----------------------------------------------------------------------------
(* Processes and the interface. *)

(* Mutant: a pid file is trusted though its process is gone. *)
KillTrusting(ds) ==
    /\ procs' = [d \in Daemons |-> IF d \in ds THEN 0 ELSE procs[d]]
    /\ young' = IF "tailer" \in ds THEN 0 ELSE young
    /\ managed' = managed

(* pkill, with what surrounds it: the kill by pid, the wait, the removal of the
   pid file.  One that comes up in between falls to the closing pkill. *)
Kill(ds) ==
    /\ procs' = [d \in Daemons |-> IF d \in ds THEN 0 ELSE procs[d]]
    /\ young' = IF "tailer" \in ds THEN 0 ELSE young
    /\ managed' = managed \ ds

(* A hostapd needs ap0 to itself and a dnsmasq its ports; nothing keeps a second
   collector from starting. *)
CanLaunch(d) ==
    \/ d = "tailer"
    \/ procs[d] = 0 /\ (d = "hostapd" => iface)

(* hostapd and dnsmasq return when their pid files are written; the collector is
   left behind in the background, and writes its own when Python has loaded it. *)
Launch(d) ==
    IF CanLaunch(d)
    THEN /\ procs' = [procs EXCEPT ![d] = @ + 1]
         /\ IF d = "tailer" THEN young' = young + 1 /\ managed' = managed
            ELSE young' = young /\ managed' = managed \cup {d}
         /\ IF d = "hostapd" THEN radio' = TRUE /\ acl' = denyFile
            ELSE UNCHANGED <<radio, acl>>
         /\ grace' = (grace \/ d = "dnsmasq")
    ELSE UNCHANGED <<daemons, radio, acl, grace>>

(* The collector's main: it writes its process id over whatever the file says. *)
WritePid ==
    /\ young > 0
    /\ young' = young - 1
    /\ managed' = managed \cup {"tailer"}
    /\ UNCHANGED <<procs, iface, stuck, radio, acl, grace, denyFile, wd, requests,
                   bounds, history>>

Young(d) == IF d = "tailer" THEN young ELSE 0

(* A daemon dies.  Of several collectors it may be one that no file names. *)
Crash(d) ==
    /\ procs[d] > 0
    /\ crashes < budget.crashes /\ crashes' = crashes + 1
    /\ procs' = [procs EXCEPT ![d] = @ - 1]
    /\ \/ procs[d] > Young(d) /\ young' = young /\ managed' = managed \ {d}
       \/ procs[d] > Young(d) + 1 /\ UNCHANGED <<young, managed>>
       \/ Young(d) > 0 /\ young' = young - 1 /\ managed' = managed
    /\ radio' = (radio /\ d # "hostapd")
    /\ clean' = {} /\ serving' = FALSE
    /\ UNCHANGED <<iface, stuck, acl, grace, denyFile, wd, requests, budget, ops,
                   faults, kicked, freed, silent>>

GraceEnds ==
    /\ grace
    /\ grace' = FALSE
    /\ UNCHANGED <<daemons, iface, stuck, radio, acl, denyFile, wd, requests, bounds,
                   history>>
-----------------------------------------------------------------------------
(* The watchdog.  The signal sets a flag: a pass under way is finished.  (So is
   one that falls due as the signal ends the sleep: it began a moment before.) *)

After(d) == CASE d = "hostapd" -> "dnsmasq" [] d = "dnsmasq" -> "tailer"
              [] d = "tailer" -> "wait"

(* The next daemon of the pass, or its end. *)
Past(v) == IF v.pc = "tailer" /\ v.term THEN Off
           ELSE [v EXCEPT !.pc = After(@), !.act = FALSE]

Wake(w) ==
    /\ wd[w].pc = "wait" /\ young < MaxYoung
    /\ wd' = [wd EXCEPT ![w].pc = "hostapd"]
    /\ UNCHANGED <<system, denyFile, requests, bounds, history>>

(* Mutant: a dnsmasq that needs no restart ends the pass, by an early return. *)
CheckGraced(w) ==
    /\ wd[w].pc \in Daemons /\ ~wd[w].act
    /\ LET d == wd[w].pc
           skip == d \in managed \/ (d = "dnsmasq" /\ grace)
           rest == IF d = "dnsmasq" THEN Past([wd[w] EXCEPT !.pc = "tailer"])
                   ELSE Past(wd[w])
       IN  wd' = [wd EXCEPT ![w] = IF skip THEN rest ELSE [@ EXCEPT !.act = TRUE]]
    /\ UNCHANGED <<system, denyFile, requests, bounds, history>>

(* check_process, up to its decision.  The count it compares with MAX_RESTARTS
   is zero at each pass. *)
Check(w) ==
    /\ wd[w].pc \in Daemons /\ ~wd[w].act
    /\ LET d == wd[w].pc
           skip == d \in managed \/ (d = "dnsmasq" /\ grace)
       IN  wd' = [wd EXCEPT ![w] = IF skip THEN Past(@)
                                   ELSE [@ EXCEPT !.act = TRUE]]
    /\ UNCHANGED <<system, denyFile, requests, bounds, history>>

(* ... and its restart. *)
Restart(w) ==
    /\ wd[w].act
    /\ Launch(wd[w].pc)
    /\ wd' = [wd EXCEPT ![w] = Past(@)]
    /\ UNCHANGED <<iface, stuck, denyFile, requests, bounds, history>>
-----------------------------------------------------------------------------
(* Requests. *)

Busy == {t \in Threads : pc[t] # "idle"}
Goto(t, label) == pc' = [pc EXCEPT ![t] = label]

FirstStep(op) == CASE op \in {"kick", "unblock"} -> "edit"
                   [] op = "start" -> "clear"
                   [] OTHER -> "stopHostapd"

Begin(t, op, m) ==
    /\ pc[t] = "idle" /\ t <= budget.threads /\ \A u \in 1..(t - 1) : pc[u] # "idle"
    /\ op \notin {"kick", "unblock"} => m = NoJob.mac
    /\ ops < budget.ops /\ ops' = ops + 1
    /\ \A u \in Busy : {op, job[u].op} \notin Apart
    /\ Goto(t, FirstStep(op))
    /\ job' = [job EXCEPT ![t] = [op |-> op, mac |-> m, read |-> {}]]
    /\ kicked' = IF op = "unblock" THEN kicked \ {m} ELSE kicked
    /\ freed' = IF op = "kick" THEN freed \ {m} ELSE freed
    /\ clean' = IF Busy = {} THEN {t} ELSE {}
    /\ serving' = FALSE
    /\ silent' = (silent /\ op = "stop")
    /\ UNCHANGED <<system, denyFile, wd, budget, crashes, faults>>

(* The request is answered. *)
End(t, ok) ==
    /\ Goto(t, "idle")
    /\ job' = [job EXCEPT ![t] = NoJob]
    /\ clean' = clean \ {t}
    /\ kicked' = IF ok /\ job[t].op = "kick" THEN kicked \cup {job[t].mac} ELSE kicked
    /\ freed' = IF ok /\ job[t].op = "unblock" THEN freed \cup {job[t].mac} ELSE freed
    /\ serving' = (serving \/ (ok /\ job[t].op \in Starting /\ t \in clean))
    /\ silent' = (silent \/ (ok /\ job[t].op = "stop" /\ Busy = {t}))

Onward(t, label) == Goto(t, label) /\ UNCHANGED <<job, history>>

(* _kick_client: the device is appended unless it is there. *)
Kick(t) ==
    /\ pc[t] = "edit" /\ job[t].op = "kick"
    /\ denyFile' = denyFile \cup {job[t].mac}
    /\ Onward(t, "stopHostapd")
    /\ UNCHANGED <<system, wd, bounds>>

(* Mutant: the file is opened for writing before it is read. *)
ReadListEmptied(t) ==
    /\ pc[t] = "edit" /\ job[t].op = "unblock"
    /\ job' = [job EXCEPT ![t].read = {}]
    /\ Goto(t, "truncate")
    /\ UNCHANGED <<system, denyFile, wd, bounds, history>>

(* _unblock_client: the list is read, the file emptied, what remains written. *)
ReadList(t) ==
    /\ pc[t] = "edit" /\ job[t].op = "unblock"
    /\ job' = [job EXCEPT ![t].read = denyFile \ {job[t].mac}]
    /\ Goto(t, "truncate")
    /\ UNCHANGED <<system, denyFile, wd, bounds, history>>

Truncate(t) ==
    /\ pc[t] = "truncate"
    /\ denyFile' = {}
    /\ Onward(t, "rewrite")
    /\ UNCHANGED <<system, wd, bounds>>

Rewrite(t) ==
    /\ pc[t] = "rewrite"
    /\ denyFile' = denyFile \cup job[t].read
    /\ Onward(t, "stopHostapd")
    /\ UNCHANGED <<system, wd, bounds>>
-----------------------------------------------------------------------------
(* stop.sh *)

StopHostapd(t) ==
    /\ pc[t] = "stopHostapd"
    /\ Kill({"hostapd"}) /\ radio' = FALSE
    /\ Onward(t, "stopWatchdog")
    /\ UNCHANGED <<iface, stuck, acl, grace, denyFile, wd, bounds>>

Told == [w \in Watchdogs |-> IF wd[w].pc \in Daemons THEN [wd[w] EXCEPT !.term = TRUE]
                             ELSE Off]

StopWatchdog(t) ==
    /\ pc[t] = "stopWatchdog"
    /\ wd' = Told
    /\ Onward(t, "stopTailer")
    /\ UNCHANGED <<system, denyFile, bounds>>

StopTailer(t) ==
    /\ pc[t] = "stopTailer"
    /\ Kill({"tailer"})
    /\ Onward(t, "stopDnsmasq")
    /\ UNCHANGED <<iface, stuck, radio, acl, grace, denyFile, wd, bounds>>

StopDnsmasq(t) ==
    /\ pc[t] = "stopDnsmasq"
    /\ Kill({"dnsmasq"})
    /\ Onward(t, "removeIface")
    /\ UNCHANGED <<iface, stuck, radio, acl, grace, denyFile, wd, bounds>>

(* Mutant: ap0 is left to the next start, which deletes it anyway. *)
LeaveIface(t) ==
    /\ pc[t] = "removeIface"
    /\ IF job[t].op = "stop" THEN End(t, TRUE) ELSE Onward(t, "clear")
    /\ UNCHANGED <<system, denyFile, wd, bounds>>

(* A command fails, in behaviours that may have it. *)
Fault == faults < budget.faults /\ faults' = faults + 1

(* `iw dev ap0 del`.  That it failed is swallowed. *)
DeleteIface ==
    \/ iface' = FALSE /\ stuck' = FALSE /\ faults' = faults
    \/ iface /\ Fault /\ iface' = TRUE /\ stuck' = TRUE

(* remove_ap_interface, the end of stop.sh.  The interface is first set down,
   which may fail in its turn. *)
RemoveIface(t) ==
    /\ pc[t] = "removeIface"
    /\ DeleteIface /\ radio' \in {FALSE, radio /\ iface'}
    /\ IF job[t].op = "stop" THEN End(t, TRUE) ELSE Onward(t, "clear")
    /\ UNCHANGED <<daemons, acl, grace, denyFile, wd, budget, ops, crashes>>

(* A command that nothing guards fails, and `set -e` ends the script there: in
   stop.sh the firewall's cleanup, in start.sh its set-up or a configuration, or the
   captive portal's rules.  What comes after a stop.sh does not ask how it ended. *)
ExitEarly(t) ==
    /\ Fault
    /\ \/ pc[t] = "removeIface" /\ job[t].op # "stop" /\ Onward(t, "clear")
       \/ pc[t] = "removeIface" /\ job[t].op = "stop" /\ End(t, FALSE)
       \/ pc[t] \in {"freeAp", "newTailer"} /\ End(t, FALSE)
    /\ UNCHANGED <<system, denyFile, wd, budget, ops, crashes>>
-----------------------------------------------------------------------------
(* start.sh: a failure exits, and leaves what is up as it is. *)

ClearIface(t) ==
    /\ pc[t] = "clear"
    /\ Kill({"hostapd", "dnsmasq"})
    /\ DeleteIface /\ radio' = FALSE
    /\ Onward(t, "addIface")
    /\ UNCHANGED <<acl, grace, denyFile, wd, budget, ops, crashes>>

AddIface(t) ==
    /\ pc[t] = "addIface"
    /\ iface' = TRUE
    /\ IF iface THEN End(t, FALSE) ELSE Onward(t, "freeAp")
    /\ UNCHANGED <<daemons, stuck, radio, acl, grace, denyFile, wd, bounds>>

(* start_hostapd: its predecessors are killed, ... *)
FreeAp(t) ==
    /\ pc[t] = "freeAp"
    /\ Kill({"hostapd"}) /\ radio' = FALSE
    /\ Onward(t, "launchHostapd")
    /\ UNCHANGED <<iface, stuck, acl, grace, denyFile, wd, bounds>>

LaunchHostapd(t) ==
    /\ pc[t] = "launchHostapd"
    /\ Launch("hostapd")
    /\ Onward(t, "checkHostapd")
    /\ UNCHANGED <<iface, stuck, denyFile, wd, bounds>>

(* ... and two seconds later some hostapd must be running. *)
CheckHostapd(t) ==
    /\ pc[t] = "checkHostapd"
    /\ IF "hostapd" \in managed THEN Onward(t, "freePorts") ELSE End(t, FALSE)
    /\ UNCHANGED <<system, denyFile, wd, bounds>>

(* start_dnsmasq *)
FreePorts(t) ==
    /\ pc[t] = "freePorts"
    /\ Kill({"dnsmasq"})
    /\ Onward(t, "launchDnsmasq")
    /\ UNCHANGED <<iface, stuck, radio, acl, grace, denyFile, wd, bounds>>

LaunchDnsmasq(t) ==
    /\ pc[t] = "launchDnsmasq"
    /\ Launch("dnsmasq")
    /\ IF CanLaunch("dnsmasq") THEN Onward(t, "newWatchdog") ELSE End(t, FALSE)
    /\ UNCHANGED <<iface, stuck, denyFile, wd, bounds>>

(* Mutant: the old watchdogs are told to end after the new one is started. *)
NewWatchdogFirst(t) ==
    /\ pc[t] = "newWatchdog"
    /\ wd' = Told
    /\ Onward(t, "newTailer")
    /\ UNCHANGED <<system, denyFile, bounds>>

(* The old watchdogs are told to end, and one is started. *)
NewWatchdog(t) ==
    /\ pc[t] = "newWatchdog"
    /\ \E w \in 1..budget.watchdogs :
          /\ wd[w] = Off /\ \A v \in 1..(w - 1) : wd[v] # Off
          /\ wd' = [Told EXCEPT ![w] = Waiting]
    /\ Onward(t, "newTailer")
    /\ UNCHANGED <<system, denyFile, bounds>>

(* The collectors are killed and one is started, in the background: the request
   is answered before there is a pid file. *)
NewTailer(t) ==
    /\ pc[t] = "newTailer"
    /\ procs' = [procs EXCEPT !["tailer"] = 1]
    /\ young' = 1 /\ managed' = managed \ {"tailer"}
    /\ End(t, TRUE)
    /\ UNCHANGED <<iface, stuck, radio, acl, grace, denyFile, wd, bounds>>
-----------------------------------------------------------------------------
Stop(t) == \/ StopHostapd(t) \/ StopWatchdog(t) \/ StopTailer(t)
           \/ StopDnsmasq(t) \/ RemoveIface(t) \/ ExitEarly(t)

Start(t) == \/ ClearIface(t) \/ AddIface(t) \/ FreeAp(t) \/ LaunchHostapd(t)
            \/ CheckHostapd(t) \/ FreePorts(t) \/ LaunchDnsmasq(t)
            \/ NewWatchdog(t) \/ NewTailer(t)

Serve(t) == \/ Kick(t) \/ ReadList(t) \/ Truncate(t) \/ Rewrite(t)
            \/ Stop(t) \/ Start(t)

Watch(w) == Wake(w) \/ Check(w) \/ Restart(w)

Next ==
    \/ \E d \in Daemons : Crash(d)
    \/ GraceEnds
    \/ WritePid
    \/ \E w \in Watchdogs : Watch(w)
    \/ \E t \in Threads : \/ \E op \in Ops, m \in Macs : Begin(t, op, m)
                          \/ Serve(t)

Spec == Init /\ [][Next]_vars

(* The watchdog runs, its sleeps end, and so does the grace period; a collector
   that is not killed comes to write its pid file. *)
Fairness == WF_vars(GraceEnds) /\ WF_vars(WritePid) /\ \A w \in Watchdogs : WF_vars(Watch(w))

FairSpec == Spec /\ Fairness
-----------------------------------------------------------------------------
(* Every variable has its type; a pid file that names a process has one. *)
TypeOK ==
    /\ procs \in [Daemons -> Nat] /\ young \in 0..procs["tailer"]
    /\ managed \subseteq {d \in Daemons : procs[d] > Young(d)}
    /\ {iface, stuck, radio, grace, serving, silent} \subseteq BOOLEAN
    /\ {acl, denyFile, kicked, freed} \subseteq SUBSET Macs
    /\ wd \in [Watchdogs -> [pc : {"off", "wait"} \cup Daemons,
                             act : BOOLEAN, term : BOOLEAN]]
    /\ clean \subseteq Threads
    /\ \A t \in Threads : /\ job[t].op \in Ops /\ job[t].mac \in Macs
                          /\ job[t].read \subseteq Macs
    /\ budget \in Budgets /\ {ops, crashes, faults} \subseteq Nat

(* The file is empty, or a hostapd that read it so has not been stopped yet. *)
Rewriting == \E t \in Threads : /\ job[t].op = "unblock"
                               /\ pc[t] \in {"rewrite", "stopHostapd"}

(* A device that was blocked, as the dashboard was told, stays off the air until
   it is unblocked, whatever restarts hostapd: the watchdog, a repair, or the block
   or unblock of another device.  Only between an unblock's truncation of the file
   and its stop of hostapd may a hostapd have read the file empty. *)
KickHolds == radio /\ ~Rewriting => kicked \subseteq acl

(* One that was unblocked may come back. *)
UnblockHolds == radio => freed \cap acl = {}

(* The deny list does what the dashboard was told. *)
DenyListHolds == KickHolds /\ UnblockHolds

(* After a stop that was acknowledged there is no access point, though a watchdog
   in the middle of a pass may start daemons again behind it; unless ap0 could not
   be deleted, which stop.sh does not tell. *)
StopSilencesAp == silent /\ ~stuck => ~iface /\ ~radio

Watched == \E w \in Watchdogs : wd[w].pc # "off" /\ ~wd[w].term

(* A start that was acknowledged, undisturbed, serves: the access point and DNS
   run under their pid files, a collector under its own or about to write it, and
   a watchdog that was not told to end looks after them. *)
StartServes ==
    serving => /\ radio /\ {"hostapd", "dnsmasq"} \subseteq managed
               /\ "tailer" \in managed \/ young > 0
               /\ Watched

(* stop.sh: "Tear down the WiFi hotspot cleanly." *)
StopStopsAll == silent => \A d \in Daemons : procs[d] = 0

(* What crashes under a watchdog comes back unless a request comes first: no pass,
   grace period or earlier failure makes the watchdog forget a daemon. *)
CrashRecovers ==
    (Watched /\ iface /\ Busy = {}) ~> ((\A d \in Daemons : procs[d] > 0) \/ Busy # {})
=============================================================================
