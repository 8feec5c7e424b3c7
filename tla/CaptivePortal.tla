--------------------------- MODULE CaptivePortal ---------------------------
(***************************************************************************)
(* The captive portal: web/server/captive.py, the /api/captive routes of   *)
(* web/server/handler.py and the captive_* commands of scripts/firewall.sh.*)
(*                                                                         *)
(* Four stores that no lock protects: the list of authenticated MACs under *)
(* /run, the JSON files of sessions and of voucher codes, and the rules of *)
(* the kernel firewall.  Every request is served by a thread of its own,   *)
(* and a background thread sweeps expired sessions and codes.  Each thread *)
(* reads a whole file, computes a new content and writes the whole file    *)
(* back: a read and the write after it are two steps, and other threads    *)
(* run in between.  What a thread is about to write is kept in out...[t].  *)
(* A firewall command is killed when it takes more than ten seconds, and   *)
(* the dashboard or the machine may die between any two steps.             *)
(*                                                                         *)
(* One read or one write of one file is one step: torn writes are left     *)
(* out.  A code is identified by its id, the millisecond of its creation:  *)
(* two creations within one are left out.  Only active codes are ever in   *)
(* the file.  Time counts ticks; the expiry 0 means never.                 *)
(***************************************************************************)
EXTENDS Integers, FiniteSets

CONSTANTS
    Macs,           \* clients
    Codes,          \* identities of voucher codes
    Permanent,      \* CAPTIVE_CODE, the shared permanent code
    NoCode,         \* no code (no grant)
    NoMac,          \* no MAC (an unbound code)
    Requests,       \* request threads; each serves one request
    Sweepers,       \* threads that run _sweep_expired_loop
    Duration,       \* duration_hours of a code, in ticks
    Lease,          \* CAPTIVE_LEASE_HOURS, in ticks; 0 is none
    Backend,        \* FIREWALL: "nft" or "iptables"
    Kinds,          \* the kinds of request that are sent
    Overlaps,       \* the values of overlap that are looked at
    MaxTime,        \* bound of the clock
    MaxRestarts,    \* bound on restarts of the dashboard and of the machine
    MaxToggles,     \* bound on switching the portal on and off
    MaxKills        \* bound on firewall commands that run out of time

ASSUME NameAssumption ==
    /\ Permanent \notin Codes /\ NoCode \notin Codes \cup {Permanent}
    /\ NoMac \notin Macs
    /\ Requests \cap Sweepers = {} /\ Sweepers # {}
ASSUME PortalAssumption ==
    /\ Duration \in Nat \ {0}
    /\ Lease \in Nat
    /\ Backend \in {"nft", "iptables"}
    /\ Kinds \subseteq {"login", "logout", "revoke", "revokeCode", "create"}
    /\ Overlaps \subseteq BOOLEAN
    /\ MaxTime \in Nat /\ MaxRestarts \in Nat /\ MaxToggles \in Nat
    /\ MaxKills \in Nat

VARIABLES
    macs,       \* AUTHENTICATED_MACS_FILE
    sessions,   \* CAPTIVE_SESSIONS_FILE
    codes,      \* CAPTIVE_CODES_FILE
    minted,     \* history: codes ever created
    rules,      \* MACs with an accept rule
    enforced,   \* the final drop rule is in place
    chained,    \* the captive chains of nft exist
    portalOn,   \* _server_instance is not None
    now,
    pc, job, mac, code, todo,           \* locals of each thread
    outMacs, outSessions, outCodes,     \* what it computed from what it read
    grant,      \* history: the code of the last login, until the client logs
                \* out or the administrator revokes it
    retired,    \* history: codes whose revocation was saved
    clients,    \* history: MACs that ever logged in
    disconnected,   \* history: MACs the administrator revoked, until the client
                    \* logs in again or out
    halfway,    \* history: MACs of requests that died with the dashboard
    botched,    \* history: a firewall command was cut short, and no setup of
                \* the rules has ended since
    overlap,    \* FALSE: a thread starts only when the others are at rest
                \* (constant in a behaviour)
    restarts, toggles, kills

firewall == <<rules, enforced, chained, botched>>
stores == <<macs, sessions, codes, firewall>>
locals == <<pc, job, mac, code, todo, outMacs, outSessions, outCodes>>
history == <<minted, grant, retired, clients, disconnected, halfway>>
setting == <<portalOn, overlap>>
vars == <<stores, locals, history, setting, now, restarts, toggles, kills>>

Threads == Requests \cup Sweepers

Session == [mac : Macs, code : Codes \cup {Permanent}, expires : Nat]
Voucher == [id : Codes, bound : Macs \cup {NoMac}, expires : Nat]

Never == 0
Expired(x) == x # Never /\ now > x

(* A code as the administrator creates it: unbound, its time not started. *)
Fresh(c) == [id |-> c, bound |-> NoMac, expires |-> Never]

(* _create_session: the smaller of lease and duration, if there is one. *)
ExpiryAfter(duration) ==
    LET limits == {Lease, duration} \ {0}
    IN  IF limits = {} THEN Never
        ELSE now + (CHOOSE d \in limits : \A e \in limits : d <= e)

Init ==
    /\ macs = {} /\ sessions = {} /\ rules = {}
    /\ enforced = TRUE /\ chained = TRUE /\ botched = FALSE
    /\ minted \in SUBSET Codes
    /\ codes = {Fresh(c) : c \in minted}
    /\ portalOn = TRUE
    /\ overlap \in Overlaps
    /\ now = 1
    /\ \E s \in Sweepers :
          pc = [t \in Threads |-> IF t = s THEN "asleep"
                                  ELSE IF t \in Sweepers THEN "off" ELSE "new"]
    /\ job = [t \in Threads |-> "none"]
    /\ mac = [t \in Threads |-> NoMac]
    /\ code = [t \in Threads |-> Permanent]
    /\ todo = [t \in Threads |-> {}]
    /\ outMacs = [t \in Threads |-> {}]
    /\ outSessions = [t \in Threads |-> {}]
    /\ outCodes = [t \in Threads |-> {}]
    /\ grant = [m \in Macs |-> NoCode]
    /\ retired = {} /\ clients = {} /\ disconnected = {} /\ halfway = {}
    /\ restarts = 0 /\ toggles = 0 /\ kills = 0

AtRest(t) == pc[t] \in {"new", "done", "off", "asleep"}
Quiet == \A t \in Threads : AtRest(t)
MayStart == overlap \/ Quiet
Serial == ~overlap /\ Quiet

Goto(t, label) == pc' = [pc EXCEPT ![t] = label]

(* Where a thread ends its work: the sweeper sleeps, a request is over. *)
RestLabel(t) == IF t \in Sweepers THEN "asleep" ELSE "done"
-----------------------------------------------------------------------------
(* Requests. *)

Begin(r, kind, m, c, label) ==
    /\ pc[r] = "new"
    /\ kind \in Kinds
    /\ MayStart
    /\ Goto(r, label)
    /\ job' = [job EXCEPT ![r] = kind]
    /\ mac' = [mac EXCEPT ![r] = m]
    /\ code' = [code EXCEPT ![r] = c]

(* Mutant: a bound code works on any device. *)
AcceptsAnyDevice(v, m) == ~Expired(v.expires)

(* _find_matching_temp_code: active, not expired, unbound or bound to m. *)
Accepts(v, m) == ~Expired(v.expires) /\ v.bound \in {NoMac, m}

(* do_POST /api/portal/login with a code that matches (the throttling of those
   that do not is another component). *)
Login(r, m, c) ==
    /\ portalOn
    /\ c # Permanent => \E v \in codes : v.id = c /\ Accepts(v, m)
    /\ Begin(r, "login", m, c, "readMacs")
    /\ grant' = [grant EXCEPT ![m] = c]
    /\ clients' = clients \cup {m}
    /\ disconnected' = disconnected \ {m}
    /\ UNCHANGED <<stores, minted, retired, halfway, todo, outMacs, outSessions, outCodes,
                   setting, now, restarts, toggles, kills>>

(* _handle_portal_logout. *)
Logout(r, m) ==
    /\ portalOn
    /\ Begin(r, "logout", m, Permanent, "readMacs")
    /\ grant' = [grant EXCEPT ![m] = NoCode]
    /\ disconnected' = disconnected \ {m}
    /\ UNCHANGED <<stores, minted, retired, clients, halfway, todo, outMacs, outSessions,
                   outCodes, setting, now, restarts, toggles, kills>>

(* _post_captive_revoke: the administrator disconnects a client. *)
Revoke(r, m) ==
    /\ Begin(r, "revoke", m, Permanent, "readMacs")
    /\ grant' = [grant EXCEPT ![m] = NoCode]
    /\ disconnected' = disconnected \cup {m}
    /\ UNCHANGED <<stores, minted, retired, clients, halfway, todo, outMacs, outSessions,
                   outCodes, setting, now, restarts, toggles, kills>>

(* _post_captive_code_revoke, up to the save: read the codes, find this one. *)
RevokeCode(r, c) ==
    \E v \in codes :
        /\ v.id = c
        /\ Begin(r, "revokeCode", v.bound, c, "writeCodes")
        /\ outCodes' = [outCodes EXCEPT ![r] = codes \ {v}]
        /\ UNCHANGED <<stores, history, todo, outMacs, outSessions,
                       setting, now, restarts, toggles, kills>>

(* _post_captive_code_create and _generate, up to the save: a batch of codes is
   appended to those just read. *)
CreateCodes(r, batch) ==
    /\ batch # {} /\ batch \cap minted = {}
    /\ Begin(r, "create", NoMac, Permanent, "writeCodes")
    /\ outCodes' = [outCodes EXCEPT ![r] = codes \cup {Fresh(c) : c \in batch}]
    /\ minted' = minted \cup batch
    /\ UNCHANGED <<stores, grant, retired, clients, disconnected, halfway, todo,
                   outMacs, outSessions, setting, now, restarts, toggles, kills>>
-----------------------------------------------------------------------------
(* add_authenticated_mac and revoke_authenticated_mac. *)

Adding(t) == job[t] \in {"login", "boot"}

(* get_authenticated_macs. *)
ReadMacs(t) ==
    /\ pc[t] = "readMacs"
    /\ outMacs' = [outMacs EXCEPT ![t] = IF Adding(t) THEN macs \cup {mac[t]}
                                                      ELSE macs \ {mac[t]}]
    /\ Goto(t, "writeMacs")
    /\ UNCHANGED <<stores, history, job, mac, code, todo, outSessions, outCodes,
                   setting, now, restarts, toggles, kills>>

WriteMacs(t) ==
    /\ pc[t] = "writeMacs"
    /\ macs' = outMacs[t]
    /\ outMacs' = [outMacs EXCEPT ![t] = {}]
    /\ Goto(t, IF Adding(t) THEN "whitelist" ELSE "flush")
    /\ UNCHANGED <<sessions, codes, firewall, history, job, mac, code,
                   todo, outSessions, outCodes, setting, now, restarts, toggles, kills>>

(* Where a thread goes when its MAC has been added or revoked. *)
AfterMac(t) == CASE job[t] \in {"login", "logout", "revokeCode"} -> "readSessions"
                 [] job[t] = "revoke" -> "done"
                 [] job[t] \in {"sweep", "boot"} -> "next"

(* A rule can be added: iptables has its chain, nft may have dropped its own. *)
HasChain == Backend = "iptables" \/ chained

(* firewall.sh captive_whitelist. *)
Whitelist(t) ==
    /\ pc[t] = "whitelist"
    /\ rules' = IF HasChain THEN rules \cup {mac[t]} ELSE rules
    /\ Goto(t, AfterMac(t))
    /\ UNCHANGED <<macs, sessions, codes, enforced, chained, botched, history, job, mac,
                   code, todo, outMacs, outSessions, outCodes,
                   setting, now, restarts, toggles, kills>>

(* Mutant: the captive chains are not flushed. *)
FlushRulesNot(t) ==
    /\ pc[t] = "flush"
    /\ Goto(t, "fill")
    /\ UNCHANGED <<stores, history, job, mac, code, todo, outMacs, outSessions,
                   outCodes, setting, now, restarts, toggles, kills>>

(* firewall.sh captive_revoke, the first half of captive_setup_firewall: nft
   drops its captive chains and adds them again; iptables deletes the blanket
   rules, of which the accept rules of single MACs are none. *)
FlushRules(t) ==
    /\ pc[t] = "flush"
    /\ rules' = IF Backend = "nft" THEN {} ELSE rules
    /\ enforced' = FALSE
    /\ chained' = TRUE
    /\ Goto(t, "fill")
    /\ UNCHANGED <<macs, sessions, codes, botched, history, job, mac, code, todo,
                   outMacs, outSessions, outCodes,
                   setting, now, restarts, toggles, kills>>

(* ... and the second: accept every MAC in the file, drop the rest. *)
FillRules(t) ==
    /\ pc[t] = "fill"
    /\ IF HasChain
          THEN rules' = rules \cup macs /\ enforced' = TRUE /\ botched' = FALSE
          ELSE UNCHANGED <<rules, enforced, botched>>
    /\ Goto(t, AfterMac(t))
    /\ UNCHANGED <<macs, sessions, codes, chained, history, job, mac, code, todo,
                   outMacs, outSessions, outCodes,
                   setting, now, restarts, toggles, kills>>

(* subprocess.run(..., timeout=10) kills the command where it is: before it has
   changed a rule, with the chains of nft dropped, or with some of the MACs in
   the file accepted and the rest not dropped.  add_authenticated_mac and
   revoke_authenticated_mac swallow the exception and their callers go on. *)
TimeOut(t) ==
    /\ kills < MaxKills
    /\ \/ /\ pc[t] \in {"whitelist", "flush"}
          /\ UNCHANGED <<rules, enforced, chained>>
       \/ /\ pc[t] = "flush" /\ Backend = "nft"
          /\ rules' = {} /\ enforced' = FALSE /\ chained' = FALSE
       \/ /\ pc[t] = "fill"
          /\ \E done \in SUBSET macs : rules' = IF HasChain THEN rules \cup done ELSE rules
          /\ UNCHANGED <<enforced, chained>>
    /\ botched' = TRUE
    /\ kills' = kills + 1
    /\ Goto(t, AfterMac(t))
    /\ UNCHANGED <<macs, sessions, codes, history, job, mac, code, todo,
                   outMacs, outSessions, outCodes, setting, now, restarts, toggles>>
-----------------------------------------------------------------------------
(* The session file. *)

(* Mutant: the former session of the client is not taken out. *)
OthersOfUnfiltered(m) == sessions

OthersOf(m) == {s \in sessions : s.mac # m}

(* load_sessions, and the list _create_session, the logout or the revocation of
   a code makes of it; the last two write only a list that changed. *)
ReadSessions(t) ==
    /\ pc[t] = "readSessions"
    /\ LET duration == IF code[t] = Permanent THEN 0 ELSE Duration
           kept == CASE job[t] = "login" ->
                            OthersOf(mac[t]) \cup
                            {[mac |-> mac[t], code |-> code[t],
                              expires |-> ExpiryAfter(duration)]}
                     [] job[t] = "logout" -> OthersOf(mac[t])
                     [] job[t] = "revokeCode" ->
                            {s \in OthersOf(mac[t]) : s.code # code[t]}
       IN  /\ outSessions' = [outSessions EXCEPT ![t] = kept]
           /\ Goto(t, IF job[t] = "login" \/ kept # sessions
                         THEN "writeSessions" ELSE "done")
    /\ UNCHANGED <<stores, history, job, mac, code, todo, outMacs, outCodes,
                   setting, now, restarts, toggles, kills>>

(* save_sessions. *)
WriteSessions(t) ==
    /\ pc[t] = "writeSessions"
    /\ sessions' = outSessions[t]
    /\ outSessions' = [outSessions EXCEPT ![t] = {}]
    /\ Goto(t, IF job[t] = "sweep" \/ (job[t] = "login" /\ code[t] # Permanent)
                  THEN "readCodes" ELSE "done")
    /\ UNCHANGED <<macs, codes, firewall, history, job, mac, code, todo,
                   outMacs, outCodes, setting, now, restarts, toggles, kills>>
-----------------------------------------------------------------------------
(* The code file. *)

(* Mutant: the code is bound to its own id. *)
ActivatedWrongField(v, m) ==
    [v EXCEPT !.bound = IF @ = NoMac THEN v.id ELSE @,
              !.expires = IF @ = Never THEN now + Duration ELSE @]

(* The first login with a code binds it and starts its time. *)
Activated(v, m) ==
    [v EXCEPT !.bound = IF @ = NoMac THEN m ELSE @,
              !.expires = IF @ = Never THEN now + Duration ELSE @]

(* load_captive_codes, and the list the login or the sweep makes of it; the
   sweep writes only a list that changed. *)
ReadCodes(t) ==
    /\ pc[t] = "readCodes"
    /\ LET kept == IF job[t] = "login"
                   THEN {IF v.id = code[t] THEN Activated(v, mac[t]) ELSE v :
                            v \in codes}
                   ELSE {v \in codes : ~Expired(v.expires)}
       IN  /\ outCodes' = [outCodes EXCEPT ![t] = kept]
           /\ Goto(t, IF job[t] = "login" \/ kept # codes
                         THEN "writeCodes" ELSE RestLabel(t))
    /\ UNCHANGED <<stores, history, job, mac, code, todo, outMacs, outSessions,
                   setting, now, restarts, toggles, kills>>

(* save_captive_codes. *)
WriteCodes(t) ==
    /\ pc[t] = "writeCodes"
    /\ codes' = outCodes[t]
    /\ outCodes' = [outCodes EXCEPT ![t] = {}]
    /\ retired' = IF job[t] = "revokeCode" THEN retired \cup {code[t]} ELSE retired
    /\ Goto(t, IF job[t] = "revokeCode"
                  THEN IF mac[t] # NoMac THEN "readMacs" ELSE "readSessions"
                  ELSE RestLabel(t))
    /\ UNCHANGED <<macs, sessions, firewall, minted, grant, clients, disconnected, halfway,
                   job, mac, code, todo, outMacs, outSessions, setting, now, restarts, toggles, kills>>
-----------------------------------------------------------------------------
(* The sweep, and the restoration of the whitelist at start. *)

MacsOf(list) == {s.mac : s \in list}

(* Mutant: the sweep goes straight to the codes. *)
SweepCodesOnly(s) ==
    /\ pc[s] = "asleep"
    /\ MayStart
    /\ Goto(s, "readCodes")
    /\ job' = [job EXCEPT ![s] = "sweep"]
    /\ UNCHANGED <<stores, history, mac, code, todo, outMacs, outSessions, outCodes,
                   setting, now, restarts, toggles, kills>>

(* cleanup_expired_sessions: load, and set aside those that are still active. *)
SweepSessions(s) ==
    /\ pc[s] = "asleep"
    /\ MayStart
    /\ LET dead == {x \in sessions : Expired(x.expires)}
       IN  /\ todo' = [todo EXCEPT ![s] = MacsOf(dead)]
           /\ outSessions' = [outSessions EXCEPT ![s] = sessions \ dead]
           /\ Goto(s, IF dead = {} THEN "readCodes" ELSE "next")
    /\ job' = [job EXCEPT ![s] = "sweep"]
    /\ UNCHANGED <<stores, history, mac, code, outMacs, outCodes,
                   setting, now, restarts, toggles, kills>>

(* start_captive_server: the sessions that have not expired are whitelisted
   again before the sweep begins. *)
Restore(s) ==
    /\ pc[s] = "restore"
    /\ todo' = [todo EXCEPT ![s] =
                   MacsOf({x \in sessions : ~Expired(x.expires)})]
    /\ Goto(s, "next")
    /\ job' = [job EXCEPT ![s] = "boot"]
    /\ UNCHANGED <<stores, history, mac, code, outMacs, outSessions, outCodes,
                   setting, now, restarts, toggles, kills>>

(* The loops of both over the list they loaded. *)
NextMac(s) ==
    /\ pc[s] = "next"
    /\ \/ \E m \in todo[s] :
             /\ mac' = [mac EXCEPT ![s] = m]
             /\ todo' = [todo EXCEPT ![s] = @ \ {m}]
             /\ Goto(s, "readMacs")
       \/ /\ todo[s] = {}
          /\ Goto(s, IF job[s] = "sweep" THEN "writeSessions" ELSE "asleep")
          /\ UNCHANGED <<mac, todo>>
    /\ UNCHANGED <<stores, history, job, code, outMacs, outSessions, outCodes,
                   setting, now, restarts, toggles, kills>>
-----------------------------------------------------------------------------
(* Starting and stopping. *)

(* Every thread has died; with the portal enabled s restores the whitelist. *)
OnlyThread(s) ==
    /\ pc' = [t \in Threads |->
                 IF t = s /\ portalOn THEN "restore"
                 ELSE IF t \in Sweepers THEN "off"
                 ELSE IF pc[t] = "new" THEN "new" ELSE "done"]
    /\ job' = [t \in Threads |-> "none"]
    /\ mac' = [t \in Threads |-> NoMac]
    /\ code' = [t \in Threads |-> Permanent]
    /\ todo' = [t \in Threads |-> {}]
    /\ outMacs' = [t \in Threads |-> {}]
    /\ outSessions' = [t \in Threads |-> {}]
    /\ outCodes' = [t \in Threads |-> {}]

(* The clients of the requests that die with it. *)
Interrupted == {mac[r] : r \in {u \in Requests : ~AtRest(u)}} \ {NoMac}

(* The dashboard exits (a signal, the inactivity limit, a crash) and starts
   again: its threads die where they are, and the firewall command of one with
   it; the files and the rules stay. *)
RestartDashboard(s) ==
    /\ restarts < MaxRestarts
    /\ restarts' = restarts + 1
    /\ halfway' = halfway \cup Interrupted
    /\ botched' = (botched \/ \E t \in Threads : pc[t] \in {"whitelist", "flush", "fill"})
    /\ OnlyThread(s)
    /\ UNCHANGED <<macs, sessions, codes, rules, enforced, chained, minted, grant, retired,
                   clients, disconnected, setting, now, toggles, kills>>

(* The machine reboots: /run and the rules are gone, start.sh runs
   firewall.sh captive_setup, if the portal is enabled, before the dashboard. *)
Reboot(s) ==
    /\ restarts < MaxRestarts
    /\ restarts' = restarts + 1
    /\ halfway' = halfway \cup Interrupted
    /\ macs' = {} /\ rules' = {} /\ enforced' = portalOn /\ chained' = portalOn
    /\ botched' = FALSE
    /\ OnlyThread(s)
    /\ UNCHANGED <<sessions, codes, minted, grant, retired, clients, disconnected,
                   setting, now, toggles, kills>>

(* _post_config with CAPTIVE_PORTAL switched off.  run_script takes the whole
   string "firewall.sh captive_teardown" for the name of a file and finds none:
   only the list of MACs is removed. *)
SwitchOff ==
    /\ portalOn /\ toggles < MaxToggles /\ MayStart
    /\ toggles' = toggles + 1
    /\ portalOn' = FALSE
    /\ macs' = {}
    /\ UNCHANGED <<sessions, codes, firewall, locals, history, overlap, now, restarts,
                   kills>>

(* ... and on again: run_script does not find "firewall.sh captive_setup"
   either; one more sweeper is started after the restoration. *)
SwitchOn(s) ==
    /\ ~portalOn /\ toggles < MaxToggles /\ MayStart
    /\ toggles' = toggles + 1
    /\ portalOn' = TRUE
    /\ pc[s] = "off"
    /\ Goto(s, "restore")
    /\ UNCHANGED <<stores, history, job, mac, code, todo, outMacs, outSessions,
                   outCodes, overlap, now, restarts, kills>>

(* stop.sh and start.sh.  The cleanup deletes the whole table of nft, but only
   the blanket rules of iptables; with the portal enabled captive_setup reads
   the list again, without it everything is forwarded. *)
RestartHotspot ==
    /\ restarts < MaxRestarts /\ MayStart
    /\ restarts' = restarts + 1
    /\ rules' = (IF Backend = "nft" THEN {} ELSE rules)
                    \cup (IF portalOn THEN macs ELSE {})
    /\ enforced' = portalOn /\ chained' = portalOn
    /\ botched' = FALSE
    /\ UNCHANGED <<macs, sessions, codes, locals, history, setting, now, toggles, kills>>

Tick ==
    /\ now < MaxTime
    /\ now' = now + 1
    /\ UNCHANGED <<stores, locals, history, setting, restarts, toggles, kills>>

Request(r) ==
    \/ \E m \in Macs : \/ \E c \in Codes \cup {Permanent} : Login(r, m, c)
                       \/ Logout(r, m)
                       \/ Revoke(r, m)
    \/ \E c \in Codes : RevokeCode(r, c)
    \/ \E batch \in SUBSET Codes : CreateCodes(r, batch)

FileStep(t) ==
    \/ ReadMacs(t) \/ WriteMacs(t)
    \/ Whitelist(t) \/ FlushRules(t) \/ FillRules(t) \/ TimeOut(t)
    \/ ReadSessions(t) \/ WriteSessions(t) \/ ReadCodes(t) \/ WriteCodes(t)

SweepStep(s) == SweepSessions(s) \/ Restore(s) \/ NextMac(s)

Next ==
    \/ \E r \in Requests : Request(r)
    \/ \E t \in Threads : FileStep(t)
    \/ \E s \in Sweepers : \/ SweepStep(s)
                           \/ RestartDashboard(s)
                           \/ Reboot(s)
                           \/ SwitchOn(s)
    \/ SwitchOff
    \/ RestartHotspot
    \/ Tick

Spec == Init /\ [][Next]_vars

(* A thread that has begun is scheduled until it ends, and the sweep wakes up
   again and again; nobody is bound to send a request. *)
Fairness ==
    /\ \A t \in Threads : WF_vars(FileStep(t))
    /\ \A s \in Sweepers : WF_vars(SweepStep(s))

FairSpec == Spec /\ Fairness
-----------------------------------------------------------------------------
(* Every variable has its type. *)
TypeOK ==
    /\ macs \in SUBSET Macs
    /\ sessions \in SUBSET Session
    /\ codes \in SUBSET Voucher
    /\ minted \in SUBSET Codes
    /\ rules \in SUBSET Macs
    /\ chained \in BOOLEAN /\ botched \in BOOLEAN
    /\ enforced \in BOOLEAN /\ portalOn \in BOOLEAN /\ overlap \in BOOLEAN
    /\ now \in Nat /\ restarts \in Nat /\ toggles \in Nat /\ kills \in Nat
    /\ pc \in [Threads -> {"new", "done", "off", "asleep", "restore", "next",
                           "readMacs", "writeMacs", "whitelist", "flush", "fill",
                           "readSessions", "writeSessions",
                           "readCodes", "writeCodes"}]
    /\ job \in [Threads -> {"none", "login", "logout", "revoke", "revokeCode",
                            "create", "sweep", "boot"}]
    /\ mac \in [Threads -> Macs \cup {NoMac}]
    /\ code \in [Threads -> Codes \cup {Permanent}]
    /\ todo \in [Threads -> SUBSET Macs]
    /\ outMacs \in [Threads -> SUBSET Macs]
    /\ outSessions \in [Threads -> SUBSET Session]
    /\ outCodes \in [Threads -> SUBSET Voucher]
    /\ grant \in [Macs -> Codes \cup {Permanent, NoCode}]
    /\ retired \in SUBSET Codes /\ clients \in SUBSET Macs
    /\ disconnected \in SUBSET Macs /\ halfway \in SUBSET Macs

(* However threads overlap, no list of sessions ever holds two for one client:
   neither the file nor what a thread is about to write over it.  (The status
   page shows, and the login replaces, "the" session of a client.) *)
OneSessionPerMac(list) == \A a, b \in list : a.mac = b.mac => a = b

OneSessionEach ==
    /\ OneSessionPerMac(sessions)
    /\ \A t \in Threads : OneSessionPerMac(outSessions[t])

(* However threads overlap and die, nobody gets past the portal, into the list
   or into the session file, without ever having logged in: a stale write can
   only bring back what was once true. *)
OnlyClients == \A t \in Threads :
    macs \cup rules \cup outMacs[t] \cup todo[t]
         \cup MacsOf(sessions) \cup MacsOf(outSessions[t]) \subseteq clients

(* A stale write is harmless: it makes no client twice, and none of nothing. *)
StaleWritesHarmless == OneSessionEach /\ OnlyClients

(* When requests do not overlap, a client in the list has a session, so the
   sweep will find it, unless a request of its own died halfway ... *)
ListedHasSession == Serial => macs \subseteq MacsOf(sessions) \cup halfway

(* ... a session that has not expired gives access, also after the restart of
   the dashboard or of the machine, in the middle of a request or not, to a
   client that was not disconnected ... *)
SessionHasAccess ==
    Serial /\ portalOn =>
        \A s \in sessions : ~Expired(s.expires) /\ grant[s.mac] # NoCode => s.mac \in macs

(* ... the rules accept exactly the clients in the list and drop the others,
   until the portal is switched from the dashboard (which runs no firewall
   command), and from the next revocation on when a command was cut short ... *)
RulesFollowList == Serial /\ ~botched /\ toggles = 0 => enforced /\ rules = macs

(* ... and nobody stays connected after a logout or a revocation, but a client
   whose request died halfway; and whom the administrator disconnected stays
   off the list until a restart (or the portal switch) restores its session. *)
ListIsGranted == Serial => \A m \in macs :
    \/ grant[m] # NoCode
    \/ m \in halfway
    \/ m \in disconnected /\ restarts + toggles > 0

(* The four stores agree whenever nothing is in progress. *)
StoresAgree ==
    ListedHasSession /\ SessionHasAccess /\ RulesFollowList /\ ListIsGranted

(* "Revoke client captive portal MAC authentication" (ARCHITECTURE.md:246): a
   promise the code breaks, since the revocation leaves the session in its file
   and start_captive_server puts the MAC of every session back on the list. *)
RevocationLasts == Serial => \A m \in macs \ halfway : grant[m] # NoCode

(* A voucher serves one device: the sessions opened with a code belong to the
   client it is bound to (but for a client whose login died before the bind). *)
VoucherOneDevice ==
    Serial => \A s \in sessions, v \in codes :
        s.code = v.id => v.bound = s.mac \/ s.mac \in halfway

(* "Revoke temporary access code and disconnect bound sessions"
   (ARCHITECTURE.md:245): no client that came in with a revoked code is left,
   but one whose login or revocation died halfway. *)
RevokedCodeDisconnects == Serial => \A m \in macs \ halfway : grant[m] \notin retired

(* A revoked code is gone for good. *)
RevokedCodeGone == Serial => \A v \in codes : v.id \notin retired

(* What a code is worth, from its creation to its revocation. *)
VouchersHold == VoucherOneDevice /\ RevokedCodeDisconnects /\ RevokedCodeGone

(* "Remove expired sessions and revoke their MACs" (captive.py:208): the sweep
   removes no session that has not expired. *)
SweepRemovesExpired ==
    [][\A s \in Sweepers : WriteSessions(s) =>
           \A x \in sessions \ sessions' : Expired(x.expires)]_vars

(* An expired session is removed in the end, whatever stale list a request
   writes in between. *)
ExpiredIsSwept == \A m \in Macs :
    (\E s \in sessions : s.mac = m /\ Expired(s.expires))
        ~> (\A s \in sessions : s.mac = m => ~Expired(s.expires))

(* When requests do not overlap, a client whose time is over loses access, unless
   the command that takes its rule out is cut short. *)
AccessEnds == \A m \in Macs :
    (~overlap /\ m \in rules /\ \A s \in sessions : s.mac = m => Expired(s.expires))
        ~> (\/ m \notin rules
            \/ \E s \in sessions : s.mac = m /\ ~Expired(s.expires)
            \/ botched)

(* Time runs out for everybody. *)
TimeRunsOut == ExpiredIsSwept /\ AccessEnds
=============================================================================
