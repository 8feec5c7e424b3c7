--------------------------- MODULE LoginThrottle ---------------------------
(***************************************************************************)
(* The two throttles of wrong guesses, each a table in the memory of the   *)
(* dashboard's process: IP_LOGIN_ATTEMPTS of web/server/auth_db.py, of     *)
(* the addresses that log in to the dashboard, and LOGIN_ATTEMPTS of       *)
(* web/server/captive.py, of the clients that enter codes in the portal.   *)
(* A behaviour is about one of the two.                                    *)
(*                                                                         *)
(* The dashboard looks an entry up each time, under its lock, with a clock *)
(* it read before it waited, and reports a ban to the e-mail digest        *)
(* without letting the lock go.  The portal takes an entry at the start of *)
(* a request and changes that one at the end, though the table may have    *)
(* dropped it meanwhile.  The addresses of the host itself, which the      *)
(* dashboard exempts, are left out.                                        *)
(***************************************************************************)
EXTENDS Integers, FiniteSets

CONSTANTS
    Addrs,          \* addresses of the dashboard's clients, MACs of the portal's
    Doors,          \* which throttles: a subset of {"dashboard", "portal"}
    Tiers,          \* IP_LOCKOUT_TIERS: pairs of a threshold and a duration
    FailLimit, LockoutStep, LockoutCap,     \* the portal's
    Ttl,            \* IP_ATTEMPT_TTL, ATTEMPT_ENTRY_TTL
    Budgets         \* bounds: what a behaviour may have of [threads, failures, time],
                    \* requests at a time, failures of an address and ticks

ASSUME ThrottleAssumption ==
    /\ Addrs # {} /\ Doors \subseteq {"dashboard", "portal"}
    /\ Tiers \subseteq (Nat \ {0}) \X (Nat \ {0}) /\ Tiers # {}
    /\ \A a, b \in Tiers : a[1] < b[1] => a[2] <= b[2]
    /\ \A a, b \in Tiers : a[1] = b[1] => a = b
    /\ FailLimit \in Nat \ {0} /\ {LockoutStep, LockoutCap, Ttl} \subseteq Nat \ {0}
    /\ LockoutCap <= Ttl /\ \A a \in Tiers : a[2] <= Ttl
    /\ Budgets \subseteq [{"threads", "failures", "time"} -> Nat]

(* Threads are alike: a new request is the one with the lowest free number. *)
Threads == UNION {1..b.threads : b \in Budgets}

VARIABLES
    door,       \* the throttle this behaviour is about
    budget,     \* its bounds
    attempts,   \* the table
    pc, addr,   \* where each request is, and the address it comes from
    at,         \* the clock it read on the way to the lock, or 0
    orphans,    \* the portal's requests whose entry the table has dropped
    now,
    since,      \* history: wrong guesses of an address since its last ban or success,
                \* or since its entry was dropped, that its requests are to count
    astray,     \* history: likewise, but those that orphans made
    banned,     \* history: when the last ban ends, as it was announced
    late,       \* history: the requests that were past the check when it began
    ended       \* history: whose success ended it early, a late request's or a new one's

request == <<pc, addr, at, orphans>>
history == <<since, astray, banned, late, ended>>
vars == <<door, budget, attempts, request, now, history>>

Entry == [failures : Nat, until : Nat, last : Nat]
NoEntry == [failures |-> -1, until |-> 0, last |-> 0]
NoAddr == CHOOSE a \in Addrs : TRUE
NewEntry(clock) == [failures |-> 0, until |-> 0, last |-> clock]

Init ==
    /\ door \in Doors /\ budget \in Budgets
    /\ attempts = [a \in Addrs |-> NoEntry]
    /\ pc = [t \in Threads |-> "idle"]
    /\ addr = [t \in Threads |-> NoAddr]
    /\ at = [t \in Threads |-> 0]
    /\ orphans = {}
    /\ now = 0
    /\ since = [a \in Addrs |-> 0] /\ astray = since
    /\ banned = since /\ late = {} /\ ended = [a \in Addrs |-> "no"]

Goto(t, label) ==
    /\ pc' = [pc EXCEPT ![t] = label] /\ addr' = addr
    /\ at' = [at EXCEPT ![t] = IF label = "record" /\ door = "dashboard" THEN now ELSE 0]

(* The request is answered. *)
Leave(t) ==
    /\ pc' = [pc EXCEPT ![t] = "idle"]
    /\ addr' = [addr EXCEPT ![t] = NoAddr]
    /\ at' = [at EXCEPT ![t] = 0]

Busy(a) == {t \in Threads : pc[t] # "idle" /\ addr[t] = a}

(* A ban runs that no success has ended. *)
Standing(a) == now < banned[a] /\ ended[a] = "no"

(* The requests that are past the check and not yet found wrong. *)
Past(a) == {t \in Threads : pc[t] \in {"verify", "reset"} /\ addr[t] = a}

(* _IP_LOGIN_LOCK, which outlasts a step only while its holder reports a ban.
   The portal's _ATTEMPT_LOCK never does. *)
LockFree == \A t \in Threads : pc[t] # "alert"
-----------------------------------------------------------------------------
(* Entries that nothing was added to for a while are dropped. *)

Stale(e, clock) == e # NoEntry /\ clock - e.last > Ttl

Dropped(as, clock) ==
    [a \in Addrs |-> IF a \in as /\ Stale(attempts[a], clock) THEN NoEntry
                     ELSE attempts[a]]

Found(table, a, clock) == IF table[a] = NoEntry THEN NewEntry(clock) ELSE table[a]

(* The guesses of an address are forgotten with its entry. *)
Remembered(guesses, table) ==
    [a \in Addrs |-> IF table[a] # attempts[a] THEN 0 ELSE guesses[a]]

(* The duration of the highest tier that n failures reach, or 0. *)
IpLockoutFor(n) ==
    LET reached == {tier \in Tiers : tier[1] <= n}
    IN  IF reached = {} THEN 0
        ELSE (CHOOSE top \in reached : \A tier \in reached : tier[1] <= top[1])[2]

(* _lockout_for, at every FailLimit-th failure. *)
LockoutFor(n) ==
    IF n % FailLimit # 0 THEN 0
    ELSE LET d == LockoutStep * (n \div FailLimit)
         IN  IF d < LockoutCap THEN d ELSE LockoutCap

Lockout(n) == IF door = "dashboard" THEN IpLockoutFor(n) ELSE LockoutFor(n)
-----------------------------------------------------------------------------
Begin(t, a) ==
    /\ pc[t] = "idle" /\ t <= budget.threads /\ \A u \in 1..(t - 1) : pc[u] # "idle"
    /\ attempts[a].failures + Cardinality(Busy(a)) < budget.failures
    /\ addr' = [addr EXCEPT ![t] = a]
    /\ pc' = [pc EXCEPT ![t] = "check"]
    /\ at' = [at EXCEPT ![t] = now]
    /\ UNCHANGED <<door, budget, attempts, orphans, now, history>>

(* check_ip_lockout drops the address's own entry.  The portal drops every
   stale one, and puts a new one into the table. *)
Check(t) ==
    /\ pc[t] = "check" /\ LockFree
    /\ LET a == addr[t]
           as == IF door = "dashboard" THEN {a} ELSE Addrs
           table == Dropped(as, at[t])
       IN  /\ attempts' = IF door = "dashboard" THEN table
                          ELSE [table EXCEPT ![a] = Found(table, a, at[t])]
           /\ IF at[t] < table[a].until THEN Leave(t) ELSE Goto(t, "verify")
           /\ orphans' = IF door = "dashboard" THEN {}
                         ELSE orphans \cup {u \in Threads :
                                  /\ pc[u] \in {"verify", "record", "reset"}
                                  /\ Stale(attempts[addr[u]], at[t])}
           /\ since' = Remembered(since, table) /\ astray' = Remembered(astray, table)
    /\ UNCHANGED <<door, budget, now, banned, late, ended>>

(* A wrong password or code.  One for an entry that the table has dropped goes
   astray: the request will count it in the entry that nobody looks at. *)
Wrong(t) ==
    /\ pc[t] = "verify"
    /\ Goto(t, "record")
    /\ IF t \in orphans
       THEN astray' = [astray EXCEPT ![addr[t]] = @ + 1] /\ since' = since
       ELSE since' = [since EXCEPT ![addr[t]] = @ + 1] /\ astray' = astray
    /\ late' = late \ {t}
    /\ UNCHANGED <<door, budget, attempts, orphans, now, banned, ended>>

(* A right one. *)
Right(t) ==
    /\ pc[t] = "verify"
    /\ Goto(t, "reset")
    /\ UNCHANGED <<door, budget, attempts, orphans, now, history>>

(* The account is locked: its password is not looked at. *)
Refuse(t) ==
    /\ pc[t] = "verify" /\ door = "dashboard"
    /\ Leave(t)
    /\ late' = late \ {t}
    /\ UNCHANGED <<door, budget, attempts, orphans, now, since, astray, banned, ended>>

(* Mutant: a failure that sets no ban writes none. *)
FailedUnbanned(e, clock) ==
    LET n == e.failures + 1
    IN  [failures |-> n, last |-> clock,
         until |-> IF Lockout(n) > 0 THEN clock + Lockout(n) ELSE 0]

(* The entry e with one failure more. *)
Failed(e, clock) ==
    LET n == e.failures + 1
    IN  [failures |-> n, last |-> clock,
         until |-> IF Lockout(n) > 0 THEN clock + Lockout(n) ELSE e.until]

(* The failure of t's address makes its entry e in this table. *)
Count(t, table, e) ==
    LET ban == Lockout(e.failures) > 0
    IN  /\ attempts' = [table EXCEPT ![addr[t]] = e]
        /\ since' = [Remembered(since, table) EXCEPT ![addr[t]] = IF ban THEN 0 ELSE @]
        /\ astray' = [Remembered(astray, table) EXCEPT ![addr[t]] = IF ban THEN 0 ELSE @]
        /\ IF ban THEN /\ banned' = [banned EXCEPT ![addr[t]] = e.until]
                       /\ late' = late \cup Past(addr[t])
                       /\ ended' = [ended EXCEPT ![addr[t]] = "no"]
           ELSE UNCHANGED <<banned, late, ended>>
        /\ IF ban /\ door = "dashboard" THEN Goto(t, "alert") ELSE Leave(t)
        /\ orphans' = orphans

(* record_ip_failure, up to its report ... *)
RecordIpFailure(t) ==
    /\ door = "dashboard" /\ pc[t] = "record" /\ LockFree
    /\ \E table \in {Dropped(Addrs, at[t])} :
          \E e \in {Failed(Found(table, addr[t], at[t]), at[t])} : Count(t, table, e)
    /\ UNCHANGED <<door, budget, now>>

(* Mutant: an error of the report leaves the lock taken. *)
AlertFails(t) ==
    /\ pc[t] = "alert"
    /\ UNCHANGED vars

(* ... and the report: the digest may be sent in this thread. *)
Alert(t) ==
    /\ pc[t] = "alert"
    /\ Leave(t)
    /\ UNCHANGED <<door, budget, attempts, orphans, now, history>>

(* The portal's failure, a second after the code was found wrong. *)
RecordAttempt(t) ==
    /\ door = "portal" /\ pc[t] = "record"
    /\ IF t \in orphans
       THEN /\ Leave(t) /\ orphans' = orphans \ {t}
            /\ UNCHANGED <<attempts, history>>
       ELSE Count(t, attempts, Failed(attempts[addr[t]], now))
    /\ UNCHANGED <<door, budget, now>>

(* Mutant: a success takes back the failures of one tier. *)
ResetTier(t) ==
    /\ pc[t] = "reset" /\ LockFree
    /\ Leave(t)
    /\ attempts' = [attempts EXCEPT ![addr[t]].failures = @ - FailLimit]
    /\ orphans' = orphans \ {t} /\ late' = late \ {t}
    /\ UNCHANGED <<door, budget, now, since, astray, banned, ended>>

(* A success clears what was counted: reset_ip_failures, or the entry the portal
   took. *)
Reset(t) ==
    /\ pc[t] = "reset" /\ LockFree
    /\ Leave(t)
    /\ LET a == addr[t]
           clear(f) == [f EXCEPT ![a] = 0]
       IN  IF t \in orphans THEN UNCHANGED <<attempts, since, astray, ended>>
           ELSE /\ attempts' = [attempts EXCEPT ![a] =
                                   IF door = "dashboard" THEN NoEntry ELSE NewEntry(now)]
                /\ since' = clear(since) /\ astray' = clear(astray)
                /\ ended' = IF Standing(a)
                            THEN [ended EXCEPT ![a] = IF t \in late THEN "late" ELSE "new"]
                            ELSE ended
    /\ orphans' = orphans \ {t} /\ late' = late \ {t}
    /\ UNCHANGED <<door, budget, now, banned>>

(* A restart of the dashboard forgets both tables. *)
Restart ==
    /\ attempts' = [a \in Addrs |-> NoEntry]
    /\ pc' = [t \in Threads |-> "idle"] /\ addr' = [t \in Threads |-> NoAddr]
    /\ at' = [t \in Threads |-> 0] /\ orphans' = {}
    /\ since' = [a \in Addrs |-> 0] /\ astray' = since'
    /\ banned' = since' /\ late' = {} /\ ended' = [a \in Addrs |-> "no"]
    /\ UNCHANGED <<door, budget, now>>

Tick ==
    /\ now < budget.time
    /\ now' = now + 1
    /\ UNCHANGED <<door, budget, attempts, request, history>>

Locking(t) == Check(t) \/ RecordIpFailure(t) \/ Reset(t)
Working(t) == Wrong(t) \/ Right(t) \/ Refuse(t) \/ Alert(t) \/ RecordAttempt(t)

Next ==
    \/ \E t \in Threads : \/ \E a \in Addrs : Begin(t, a)
                          \/ Locking(t) \/ Working(t)
    \/ Restart
    \/ Tick

Spec == Init /\ [][Next]_vars

(* Threads run, a mail server answers or is given up, and a lock that is let go
   again and again is obtained. *)
Fairness == \A t \in Threads : WF_vars(Working(t)) /\ SF_vars(Locking(t))

FairSpec == Spec /\ Fairness
-----------------------------------------------------------------------------
(* Every variable has its type. *)
TypeOK ==
    /\ door \in Doors /\ budget \in Budgets
    /\ attempts \in [Addrs -> Entry \cup {NoEntry}]
    /\ pc \in [Threads -> {"idle", "check", "verify", "record", "alert", "reset"}]
    /\ addr \in [Threads -> Addrs] /\ at \in [Threads -> 0..now]
    /\ orphans \subseteq {t \in Threads : pc[t] \in {"verify", "record", "reset"}}
    /\ now \in Nat
    /\ since \in [Addrs -> Nat] /\ astray \in [Addrs -> Nat]
    /\ banned \in [Addrs -> Nat] /\ late \subseteq {t \in Threads : pc[t] \in {"verify", "reset"}}
    /\ ended \in [Addrs -> {"no", "late", "new"}]

(* A ban lasts as long as was announced, from the clock that its request read, unless
   a success ends it: no failure that sets none and no dropping of old entries
   does.  And a success ends it only of a request that was past the check when the
   ban began; while it lasts, no other request's guess is looked at. *)
BansHold == \A a \in Addrs :
    /\ ended[a] # "new"
    /\ Standing(a) => /\ attempts[a].until >= banned[a]
                      /\ since[a] + astray[a] <= budget.threads - 1

FirstTier == CHOOSE n \in {tier[1] : tier \in Tiers} : \A tier \in Tiers : n <= tier[1]
Limit == IF door = "dashboard" THEN FirstTier ELSE FailLimit

(* However requests overlap, the guesses that go uncounted are bounded.  Of those
   since its last ban or success, or since its entry was dropped, an address has
   fewer than the limit and what is under way, and one for each request that was
   under way when the entry was dropped; at the dashboard, once it was banned,
   nothing but what is under way. *)
GuessesCounted == \A a \in Addrs :
    /\ since[a] < Limit + budget.threads
    /\ astray[a] <= IF door = "dashboard" THEN 0 ELSE budget.threads
    /\ door = "dashboard" /\ attempts[a].failures >= Limit
           => since[a] <= budget.threads

Throttled == BansHold /\ GuessesCounted

(* The portal's words to a client, "Please wait ... seconds before trying again", and
   the alert's, "banned for ...", are that a ban stands for its time; but a success
   of a request that was under way when it began ends it. *)
BansStand == \A a \in Addrs : now < banned[a] => attempts[a].until >= banned[a]

(* Every wrong code is counted: not so by a request of the portal whose entry was
   dropped while it ran. *)
EveryGuessCounted == \A a \in Addrs : astray[a] = 0

(* Every login is answered, though bans are reported under the lock that every
   other login needs. *)
LoginsAnswered == \A t \in Threads : pc[t] # "idle" ~> pc[t] = "idle"
=============================================================================
