---------------------------- MODULE DnsBlocking ----------------------------
(***************************************************************************)
(* Forbidden domains: the dashboard edits the table, and                   *)
(* reload-dns-blocking.sh turns it into a file of dnsmasq directives and   *)
(* restarts dnsmasq, which reads the file only when it starts.  A change   *)
(* of the portal's own domain runs the same script, start.sh restarts      *)
(* dnsmasq too, dnsmasq may crash, and the watchdog starts what its pid    *)
(* file does not name, whoever is about to.                                *)
(*                                                                         *)
(* A pattern is a name with or without "*.", and the domains of the model  *)
(* are the names.  A reload may fail wherever the script can; what made it *)
(* fail does not keep dnsmasq from starting afterwards.                    *)
(***************************************************************************)
EXTENDS Integers, FiniteSets

CONSTANTS
    NThreads,   \* requests the dashboard serves at once
    Names,
    Sub,        \* <<d, n>>: d is a subdomain of n
    Blockable,  \* the names DOMAIN_RE accepts: those with a dot in them
    Patterns,
    Apart,      \* sets of operations whose requests this instance keeps apart
    Budgets     \* bounds: what a behaviour may have of [ops, crashes, faults]

Ops == {"add", "remove", "domain", "start"}

ASSUME PatternsAssumption ==
    /\ NThreads \in Nat
    /\ Sub \subseteq Names \X Names /\ Blockable \subseteq Names
    /\ Patterns \subseteq [of : Names, wild : BOOLEAN] /\ Patterns # {}
    /\ Apart \subseteq SUBSET Ops
    /\ Budgets \subseteq [{"ops", "crashes", "faults"} -> Nat]

Threads == 1..NThreads

VARIABLES
    table,      \* forbidden_domains
    file,       \* the names in dnsmasq-blocked.conf
    cut,        \* whether it was truncated and has not been written since
    up,         \* whether the dedicated dnsmasq runs
    loaded,     \* the names it read from the file when it started
    managed,    \* whether its pid file names a live process
    grace,      \* /run/oshotspot-dnsmasq-started is younger than DNSMASQ_GRACE
    about,      \* whether the watchdog has found it dead and is about to start it
    pc, job,    \* each request: where it is, its operation, pattern and snapshot
    budget, ops, crashes, faults,   \* the bounds of this behaviour
    held,       \* history: listed patterns a completed reload had read
    released,   \* history: patterns removed, and read as such by a reload
    short       \* history: dnsmasq read a file that was cut

dnsmasq  == <<up, loaded, managed, grace, short>>
requests == <<pc, job>>
bounds   == <<budget, ops, crashes, faults>>
history  == <<held, released>>
vars == <<table, file, cut, dnsmasq, about, requests, bounds, history>>

NoJob == [op |-> "start", pattern |-> CHOOSE p \in Patterns : TRUE, read |-> {}]

(* The hotspot has been up for a while, with what is forbidden blocked. *)
Init ==
    /\ table \in SUBSET Patterns /\ held = table /\ released = Patterns \ table
    /\ file = {p.of : p \in table} \cap Blockable /\ loaded = file
    /\ up = TRUE /\ managed = TRUE /\ grace = FALSE /\ about = FALSE
    /\ cut = FALSE /\ short = FALSE
    /\ pc = [t \in Threads |-> "idle"]
    /\ job = [t \in Threads |-> NoJob]
    /\ budget \in Budgets /\ ops = 0 /\ crashes = 0 /\ faults = 0
-----------------------------------------------------------------------------
(* match_pattern, for the collector's policy alerts. *)
Matches(d, p) == d = p.of \/ (p.wild /\ <<d, p.of>> \in Sub)

(* dnsmasq's address=/n/: n and every subdomain. *)
Answered(d, names) == d \in names \/ \E n \in names : <<d, n>> \in Sub

(* What the script writes for the rows it read: "*." is stripped, what is not a
   domain is skipped. *)
Directives(rows) == {p.of : p \in rows} \cap Blockable

(* dnsmasq is started: it needs its ports. *)
Launch ==
    IF up THEN UNCHANGED dnsmasq
    ELSE /\ up' = TRUE /\ managed' = TRUE /\ grace' = TRUE
         /\ loaded' = file /\ short' = cut

Crash ==
    /\ up
    /\ crashes < budget.crashes /\ crashes' = crashes + 1
    /\ up' = FALSE /\ managed' = FALSE
    /\ UNCHANGED <<table, file, cut, loaded, short, grace, about, requests, budget, ops,
                   faults, history>>

GraceEnds ==
    /\ grace
    /\ grace' = FALSE
    /\ UNCHANGED <<table, file, cut, up, loaded, short, managed, about, requests, bounds,
                   history>>

(* Mutant: restarts are counted, up to a limit, over the life of the watchdog. *)
WatchLimited ==
    /\ ~managed /\ ~grace /\ ~about /\ crashes < 1
    /\ about' = TRUE
    /\ UNCHANGED <<table, file, cut, dnsmasq, requests, bounds, history>>

(* check_process: its decision, ... *)
Watch ==
    /\ ~managed /\ ~grace /\ ~about
    /\ about' = TRUE
    /\ UNCHANGED <<table, file, cut, dnsmasq, requests, bounds, history>>

(* ... and its command. *)
WatchdogStart ==
    /\ about
    /\ about' = FALSE
    /\ Launch
    /\ UNCHANGED <<table, file, cut, requests, bounds, history>>
-----------------------------------------------------------------------------
(* Requests. *)
Busy == {t \in Threads : pc[t] # "idle"}
Goto(t, label) == pc' = [pc EXCEPT ![t] = label]
Onward(t, label) == Goto(t, label) /\ UNCHANGED <<job, history>>

Leave(t) == Goto(t, "idle") /\ job' = [job EXCEPT ![t] = NoJob]
Fail(t) == Leave(t) /\ UNCHANGED history

(* The operation's own change.  add_pattern and remove_pattern of what is there,
   or is not, answer "Operation failed" and reload nothing. *)
Accept(t, op, p) ==
    /\ job' = [job EXCEPT ![t] = [op |-> op, pattern |-> p, read |-> {}]]
    /\ Goto(t, IF op = "start" THEN "clear" ELSE "read")
    /\ table' = IF op = "add" THEN table \cup {p}
                ELSE IF op = "remove" THEN table \ {p} ELSE table

Begin(t, op, p) ==
    /\ pc[t] = "idle" /\ \A u \in 1..(t - 1) : pc[u] # "idle"
    /\ ops < budget.ops /\ ops' = ops + 1
    /\ \A u \in Busy : {op, job[u].op} \notin Apart
    /\ CASE op = "add" -> p \notin table
         [] op = "remove" -> p \in table
         [] OTHER -> p = NoJob.pattern
    /\ Accept(t, op, p)
    /\ held' = IF op = "remove" THEN held \ {p} ELSE held
    /\ released' = IF op = "add" THEN released \ {p} ELSE released
    /\ UNCHANGED <<file, cut, dnsmasq, about, budget, crashes, faults>>
-----------------------------------------------------------------------------
(* reload-dns-blocking.sh; under set -e a failure ends it. *)

(* A database that is not there has an empty table. *)
ReadTable(t) ==
    /\ pc[t] = "read"
    /\ job' = [job EXCEPT ![t].read = table]
    /\ Goto(t, "truncate")
    /\ UNCHANGED <<table, file, cut, dnsmasq, about, bounds, history>>

Failed(t) == IF job[t].op = "domain" THEN Onward(t, "signal") ELSE Fail(t)

Truncate(t) ==
    /\ pc[t] = "truncate"
    /\ file' = {} /\ cut' = TRUE
    /\ Onward(t, "write")
    /\ UNCHANGED <<table, dnsmasq, about, bounds>>

WriteFile(t) ==
    /\ pc[t] = "write"
    /\ file' = file \cup Directives(job[t].read) /\ cut' = FALSE
    /\ Onward(t, "kill")
    /\ UNCHANGED <<table, dnsmasq, about, bounds>>

(* The script ends where it is. *)
Break(t) ==
    /\ faults < budget.faults /\ faults' = faults + 1
    /\ Failed(t)
    /\ UNCHANGED <<table, file, cut, dnsmasq, about, budget, ops, crashes>>

(* The database cannot be read, ... *)
ReadFails(t) == pc[t] = "read" /\ Break(t)

(* ... the block file cannot be written, ... *)
WriteFails(t) == pc[t] = "write" /\ Break(t)

(* ... or dnsmasq --test refuses the configuration. *)
TestFails(t) == pc[t] = "kill" /\ Break(t)

(* run_script kills the shell after its timeout; a change of the portal's domain
   waits without one.  (What the shell has started goes on: the python that reads
   the table writes the file, so before that the timeout is a TestFails, and the
   request counts as busy until then.) *)
TimeOut(t) ==
    /\ pc[t] \in {"forget", "launch", "check"} /\ job[t].op # "domain"
    /\ Break(t)

(* Mutant: a dnsmasq that is already running is told to read its files again. *)
KillHup(t) ==
    /\ pc[t] = "kill"
    /\ IF managed THEN Onward(t, "check") /\ UNCHANGED dnsmasq
       ELSE /\ up' = FALSE
            /\ Onward(t, "launch")
            /\ UNCHANGED <<loaded, short, managed, grace>>
    /\ UNCHANGED <<table, file, cut, about, bounds>>

(* The dnsmasq of the pid file is killed and waited for; without one, pkill ends
   any other. *)
KillDnsmasq(t) ==
    /\ pc[t] = "kill"
    /\ up' = FALSE
    /\ managed' = FALSE
    /\ Onward(t, IF managed THEN "forget" ELSE "launch")
    /\ UNCHANGED <<table, file, cut, loaded, short, grace, about, bounds>>

(* remove_pid: of whatever has started meanwhile, too. *)
Forget(t) ==
    /\ pc[t] = "forget"
    /\ managed' = FALSE
    /\ Onward(t, "launch")
    /\ UNCHANGED <<table, file, cut, up, loaded, short, grace, about, bounds>>

LaunchDnsmasq(t) ==
    /\ pc[t] = "launch"
    /\ Launch
    /\ IF up THEN Failed(t) ELSE Onward(t, "check")
    /\ UNCHANGED <<table, file, cut, about, bounds>>

(* is_running: the reload, or the start, has succeeded. *)
CheckDnsmasq(t) ==
    /\ pc[t] = "check"
    /\ IF ~managed THEN Failed(t)
       ELSE /\ Leave(t)
            /\ IF job[t].op = "start" THEN UNCHANGED history
               ELSE /\ held' = held \cup (job[t].read \cap table)
                    /\ released' = released \cup ((Patterns \ job[t].read) \ table)
    /\ UNCHANGED <<table, file, cut, dnsmasq, about, bounds>>

(* Mutant: the pid file is trusted after the signal. *)
SignalTrusting(t) ==
    /\ pc[t] = "signal"
    /\ up' = FALSE
    /\ Fail(t)
    /\ UNCHANGED <<table, file, cut, loaded, short, managed, grace, about, bounds>>

(* _reload_captive_domain_dns, when the script failed: SIGTERM to the dnsmasq of
   the pid file, else pkill.  The watchdog is to start it again. *)
Signal(t) ==
    /\ pc[t] = "signal"
    /\ up' = FALSE /\ managed' = FALSE
    /\ Fail(t)
    /\ UNCHANGED <<table, file, cut, loaded, short, grace, about, bounds>>

(* start_dnsmasq of start.sh, up to the launch. *)
ClearDnsmasq(t) ==
    /\ pc[t] = "clear"
    /\ up' = FALSE /\ managed' = FALSE
    /\ Onward(t, "launch")
    /\ UNCHANGED <<table, file, cut, loaded, short, grace, about, bounds>>
-----------------------------------------------------------------------------
Script(t) == \/ ReadTable(t) \/ Truncate(t) \/ WriteFile(t) \/ KillDnsmasq(t)
             \/ Forget(t) \/ LaunchDnsmasq(t) \/ CheckDnsmasq(t) \/ Signal(t)
             \/ ClearDnsmasq(t)

Failure(t) == ReadFails(t) \/ WriteFails(t) \/ TestFails(t) \/ TimeOut(t)

Next ==
    \/ Crash \/ GraceEnds \/ Watch \/ WatchdogStart
    \/ \E t \in Threads : \/ \E op \in Ops, p \in Patterns : Begin(t, op, p)
                          \/ Script(t) \/ Failure(t)

Spec == Init /\ [][Next]_vars

(* The watchdog runs, and scripts are run to their end. *)
Fairness ==
    /\ WF_vars(GraceEnds) /\ WF_vars(Watch) /\ WF_vars(WatchdogStart)
    /\ \A t \in Threads : WF_vars(Script(t))

FairSpec == Spec /\ Fairness
-----------------------------------------------------------------------------
(* Every variable has its type; what dnsmasq is or was told to block is in some
   pattern. *)
TypeOK ==
    /\ table \subseteq Patterns
    /\ {file, loaded} \subseteq SUBSET Directives(Patterns)
    /\ {up, managed, grace, about, cut, short} \subseteq BOOLEAN
    /\ managed => up
    /\ pc \in [Threads -> {"idle", "read", "truncate", "write", "kill", "forget",
                           "launch", "check", "signal", "clear"}]
    /\ \A t \in Threads : /\ job[t].op \in Ops /\ job[t].pattern \in Patterns
                          /\ job[t].read \subseteq Patterns
    /\ budget \in Budgets /\ {ops, crashes, faults} \subseteq Nat
    /\ held \subseteq table /\ released \subseteq Patterns \ table

(* A reload is between its truncation of the file and its kill of dnsmasq. *)
Reloading == \E t \in Threads : pc[t] \in {"write", "kill"}

(* A domain that a forbidden pattern matches, in the sense of the collector's
   alerts, is answered with the null address once a reload has read the pattern,
   through crashes, restarts by the watchdog or start.sh, later reloads and
   failed ones, as long as the pattern is listed.  (A name without a dot is
   listed, and acknowledged, but no directive is written for it.) *)
BlockHolds ==
    up /\ ~short =>
        \A p \in held : p.of \in Blockable =>
            \A d \in Names : Matches(d, p) => Answered(d, loaded)

(* What was removed is answered again, unless another pattern has its name. *)
PermitHolds ==
    up /\ ~short => \A n \in loaded : \E p \in Patterns \ released : p.of = n

(* A dnsmasq that started on a truncated file is replaced by the reload that
   truncated it, unless something failed. *)
CutIsBrief == up /\ short => Reloading \/ faults > 0

(* The block list does what the dashboard was told. *)
BlockListHolds == BlockHolds /\ PermitHolds /\ CutIsBrief

(* Whatever kills dnsmasq, a crash, a script that fails half way or the signal to
   reread the portal's domain, something starts it again. *)
DnsRecovers == ~up ~> up
=============================================================================
