----------------------------- MODULE AuthUsers -----------------------------
(***************************************************************************)
(* The accounts of the dashboard: web/server/auth_db.py and the handlers of *)
(* web/server/handler.py that log in, set up, manage users and log out.    *)
(*                                                                         *)
(* Requests run on threads of one process over one SQLite database.  Each  *)
(* statement is a step of its own: what a request read may have changed    *)
(* when it writes.  The failures per address are not modelled here.        *)
(* A password is right or wrong; hashing and the audit log are left out.   *)
(***************************************************************************)
EXTENDS Integers, FiniteSets

CONSTANTS
    Threads,        \* request threads
    Tiers,          \* LOCKOUT_TIERS: pairs of a threshold and a duration
    SessionExpiry,  \* SESSION_EXPIRY
    Overlaps,       \* whether requests may overlap: a subset of BOOLEAN
    MaxUsers,       \* bound on the accounts ever created
    MaxWrong,       \* bound on what wrong counts
    MaxTime         \* bound of the clock

ASSUME AuthAssumption ==
    /\ Tiers \subseteq (Nat \ {0}) \X (Nat \ {0})
    /\ SessionExpiry \in Nat
    /\ Overlaps \subseteq BOOLEAN
    /\ MaxUsers \in Nat /\ MaxWrong \in Nat /\ MaxTime \in Nat

VARIABLES
    role,       \* the role of each account; "none" when there is no such row
    lastUser,   \* the last account id (AUTOINCREMENT)
    failed,     \* failed_login_attempts
    lockedUntil,\* locked_until; 0 is NULL
    sessions,   \* the sessions table
    wrong,      \* history: wrong passwords since the last right one
    now,
    overlap,    \* whether requests overlap
    pc,         \* where each thread is
    target,     \* the account the request is about
    asked,      \* the role the request asks for
    seen        \* failed_login_attempts as the login read it

table == <<role, lastUser, failed, lockedUntil, sessions>>
request == <<target, asked, seen>>
vars == <<table, wrong, now, overlap, pc, request>>

Ids == 1..MaxUsers
Roles == {"admin", "superadmin"}
Session == [user : Ids, expires : Nat]

Init ==
    /\ role = [i \in Ids |-> "none"] /\ lastUser = 0
    /\ failed = [i \in Ids |-> 0] /\ lockedUntil = [i \in Ids |-> 0]
    /\ wrong = [i \in Ids |-> 0]
    /\ sessions = {}
    /\ now = 0 /\ overlap \in Overlaps
    /\ pc = [t \in Threads |-> "idle"]
    /\ target = [t \in Threads |-> 0]
    /\ asked = [t \in Threads |-> "none"]
    /\ seen = [t \in Threads |-> 0]

Exists(i) == role[i] # "none"
Superadmins == {i \in Ids : role[i] = "superadmin"}
Quiet == \A t \in Threads : pc[t] = "idle"
MayBegin(t) == pc[t] = "idle" /\ (overlap \/ Quiet)
Goto(t, label) == pc' = [pc EXCEPT ![t] = label]

(* The end of a request forgets its locals. *)
Reply(t) ==
    /\ Goto(t, "idle")
    /\ target' = [target EXCEPT ![t] = 0]
    /\ asked' = [asked EXCEPT ![t] = "none"]
    /\ seen' = [seen EXCEPT ![t] = 0]

(* The duration of the highest tier that n failures reach, or 0. *)
LockFor(n) ==
    LET reached == {tier \in Tiers : tier[1] <= n}
    IN  IF reached = {} THEN 0
        ELSE (CHOOSE top \in reached : \A tier \in reached : tier[1] <= top[1])[2]

-----------------------------------------------------------------------------
(* verify_password and _post_auth_login. *)

BeginLogin(t, i) ==
    /\ MayBegin(t)
    /\ Goto(t, "readUser")
    /\ target' = [target EXCEPT ![t] = i]
    /\ UNCHANGED <<table, wrong, now, overlap, asked, seen>>

(* Mutant: the lock is not looked at. *)
LockedOutNever(i) == FALSE

LockedOut(i) == lockedUntil[i] # 0 /\ now < lockedUntil[i]

(* The SELECT: an unknown account and a locked one end the request. *)
ReadUser(t) ==
    /\ pc[t] = "readUser"
    /\ LET i == target[t]
       IN  IF ~Exists(i) \/ LockedOut(i)
           THEN Reply(t)
           ELSE /\ seen' = [seen EXCEPT ![t] = failed[i]]
                /\ Goto(t, IF lockedUntil[i] # 0 THEN "clearLock" ELSE "verify")
                /\ UNCHANGED <<target, asked>>
    /\ UNCHANGED <<table, wrong, now, overlap>>

(* Mutant: the count of an expired lock is kept. *)
ClearLockOnly(t) ==
    /\ pc[t] = "clearLock"
    /\ lockedUntil' = [lockedUntil EXCEPT ![target[t]] = 0]
    /\ Goto(t, "verify")
    /\ UNCHANGED <<role, lastUser, failed, sessions, wrong, now, overlap, request>>

(* A lock that has expired is cleared, and the count with it. *)
ClearLock(t) ==
    /\ pc[t] = "clearLock"
    /\ lockedUntil' = [lockedUntil EXCEPT ![target[t]] = 0]
    /\ failed' = [failed EXCEPT ![target[t]] = 0]
    /\ seen' = [seen EXCEPT ![t] = 0]
    /\ Goto(t, "verify")
    /\ UNCHANGED <<role, lastUser, sessions, wrong, now, overlap,
                   target, asked>>

(* A wrong password is recorded after a delay of a second. *)
WrongPassword(t) ==
    /\ pc[t] = "verify"
    /\ wrong' = [wrong EXCEPT ![target[t]] = IF @ < MaxWrong THEN @ + 1 ELSE @]
    /\ Goto(t, "recordFailure")
    /\ UNCHANGED <<table, now, overlap, request>>

(* _record_failed_login: the count is the one the login read, plus one.  Below
   the first tier it writes NULL into locked_until. *)
RecordFailure(t) ==
    /\ pc[t] = "recordFailure"
    /\ LET i == target[t]
           lock == LockFor(seen[t] + 1)
       IN  IF Exists(i)
           THEN /\ failed' = [failed EXCEPT ![i] = seen[t] + 1]
                /\ lockedUntil' = [lockedUntil EXCEPT ![i] =
                                      IF lock > 0 THEN now + lock ELSE 0]
           ELSE UNCHANGED <<failed, lockedUntil>>
    /\ Reply(t)
    /\ UNCHANGED <<role, lastUser, sessions, wrong, now, overlap>>

(* A right password resets the account's count and lock. *)
RightPassword(t) ==
    /\ pc[t] = "verify"
    /\ LET i == target[t]
       IN  /\ failed' = [failed EXCEPT ![i] = 0]
           /\ lockedUntil' = [lockedUntil EXCEPT ![i] = 0]
           /\ wrong' = [wrong EXCEPT ![i] = 0]
    /\ Goto(t, "createSession")
    /\ UNCHANGED <<role, lastUser, sessions, now, overlap, request>>

(* create_session; the REFERENCES clause of the table is not enforced. *)
CreateSession(t) ==
    /\ pc[t] = "createSession"
    /\ sessions' = sessions \cup {[user |-> target[t], expires |-> now + SessionExpiry]}
    /\ Reply(t)
    /\ UNCHANGED <<role, lastUser, failed, lockedUntil, wrong, now, overlap>>
-----------------------------------------------------------------------------
(* Accounts. *)

(* The id of the next account. *)
NextUser == lastUser + 1

Insert(r) ==
    /\ NextUser \in Ids
    /\ role' = [role EXCEPT ![NextUser] = r]
    /\ lastUser' = IF NextUser > lastUser THEN NextUser ELSE lastUser
    /\ failed' = [failed EXCEPT ![NextUser] = 0]
    /\ lockedUntil' = [lockedUntil EXCEPT ![NextUser] = 0]

(* _post_auth_setup: needs_setup, then create_user, then a session. *)
BeginSetup(t) ==
    /\ MayBegin(t)
    /\ \A i \in Ids : ~Exists(i)
    /\ Goto(t, "setup")
    /\ UNCHANGED <<table, wrong, now, overlap, request>>

(* Mutant: the new account's id is not taken over. *)
SetupNoId(t) ==
    /\ pc[t] = "setup"
    /\ Insert("superadmin")
    /\ Goto(t, "createSession")
    /\ UNCHANGED <<sessions, wrong, now, overlap, request>>

Setup(t) ==
    /\ pc[t] = "setup"
    /\ Insert("superadmin")
    /\ target' = [target EXCEPT ![t] = NextUser]
    /\ Goto(t, "createSession")
    /\ UNCHANGED <<sessions, wrong, now, overlap, asked, seen>>

(* check_session_role("superadmin"), with the session of an account. *)
Authorised(s) == s \in sessions /\ now <= s.expires /\ role[s.user] = "superadmin"

(* The start of a request that manages users.  It asks for a role, or for
   "none" (deletion) which is refused for one's own account. *)
BeginManage(t, s, i, r) ==
    /\ MayBegin(t) /\ Authorised(s)
    /\ r = "none" => i # s.user
    /\ target' = [target EXCEPT ![t] = i]
    /\ asked' = [asked EXCEPT ![t] = r]
    /\ Goto(t, IF r = "superadmin" THEN "setRole" ELSE "count")
    /\ UNCHANGED <<table, wrong, now, overlap, seen>>

(* Mutant: the limit is off by one. *)
LastSuperadminNone(i) == role[i] = "superadmin" /\ Cardinality(Superadmins) < 1

(* The last superadmin is neither demoted nor deleted. *)
LastSuperadmin(i) == role[i] = "superadmin" /\ Cardinality(Superadmins) <= 1

Count(t) ==
    /\ pc[t] = "count"
    /\ IF (asked[t] = "none" /\ ~Exists(target[t])) \/ LastSuperadmin(target[t])
       THEN Reply(t)
       ELSE Goto(t, IF asked[t] = "none" THEN "delete" ELSE "setRole")
            /\ UNCHANGED request
    /\ UNCHANGED <<table, wrong, now, overlap>>

(* set_user_role. *)
SetRole(t) ==
    /\ pc[t] = "setRole"
    /\ role' = IF Exists(target[t]) THEN [role EXCEPT ![target[t]] = asked[t]] ELSE role
    /\ Reply(t)
    /\ UNCHANGED <<lastUser, failed, lockedUntil, sessions, wrong, now,
                   overlap>>

(* Mutant: the sessions are forgotten. *)
SessionsOfNone(i) == {}

SessionsOf(i) == {s \in sessions : s.user = i}

(* delete_user, the two DELETEs of one transaction. *)
Delete(t) ==
    /\ pc[t] = "delete"
    /\ role' = [role EXCEPT ![target[t]] = "none"]
    /\ failed' = [failed EXCEPT ![target[t]] = 0]
    /\ lockedUntil' = [lockedUntil EXCEPT ![target[t]] = 0]
    /\ sessions' = sessions \ SessionsOf(target[t])
    /\ Reply(t)
    /\ UNCHANGED <<lastUser, wrong, now, overlap>>

(* _post_create_user: one INSERT after the check. *)
CreateUser(t, s, r) ==
    /\ MayBegin(t) /\ Authorised(s)
    /\ Insert(r)
    /\ UNCHANGED <<sessions, wrong, now, overlap, pc, request>>

(* _post_reset_user_password clears count and lock; sessions remain. *)
ResetPassword(t, s, i) ==
    /\ MayBegin(t) /\ Authorised(s) /\ Exists(i)
    /\ failed' = [failed EXCEPT ![i] = 0]
    /\ lockedUntil' = [lockedUntil EXCEPT ![i] = 0]
    /\ UNCHANGED <<role, lastUser, sessions, wrong, now, overlap, pc, request>>
-----------------------------------------------------------------------------
(* Sessions end by logging out, by their expiry, which any request that carries
   them finds out, and at the start of the dashboard. *)

Logout(t, s) ==
    /\ MayBegin(t) /\ s \in sessions
    /\ sessions' = sessions \ {s}
    /\ UNCHANGED <<role, lastUser, failed, lockedUntil, wrong, now, overlap,
                   pc, request>>

Unexpired == {s \in sessions : now <= s.expires}

Expire(s) ==
    /\ s \in sessions \ Unexpired
    /\ sessions' = sessions \ {s}
    /\ UNCHANGED <<role, lastUser, failed, lockedUntil, wrong, now, overlap,
                   pc, request>>

(* A restart of the dashboard ends its threads. *)
Restart ==
    /\ sessions' = Unexpired
    /\ pc' = [t \in Threads |-> "idle"]
    /\ target' = [t \in Threads |-> 0]
    /\ asked' = [t \in Threads |-> "none"] /\ seen' = [t \in Threads |-> 0]
    /\ UNCHANGED <<role, lastUser, failed, lockedUntil, wrong, now, overlap>>

Tick ==
    /\ now < MaxTime
    /\ now' = now + 1
    /\ UNCHANGED <<table, wrong, overlap, pc, request>>

LoginStep(t) ==
    \/ ReadUser(t) \/ ClearLock(t) \/ WrongPassword(t) \/ RecordFailure(t)
    \/ RightPassword(t) \/ CreateSession(t)

ManageStep(t) == Setup(t) \/ Count(t) \/ SetRole(t) \/ Delete(t)

Manage(t) == \E s \in sessions :
    \/ \E i \in Ids, r \in Roles \cup {"none"} : BeginManage(t, s, i, r)
    \/ \E r \in Roles : CreateUser(t, s, r)
    \/ \E i \in Ids : ResetPassword(t, s, i)
    \/ Logout(t, s)

Next ==
    \/ \E t \in Threads :
          \/ \E i \in Ids : BeginLogin(t, i)
          \/ LoginStep(t)
          \/ BeginSetup(t)
          \/ ManageStep(t)
          \/ Manage(t)
    \/ \E s \in sessions : Expire(s)
    \/ Restart
    \/ Tick

Spec == Init /\ [][Next]_vars
-----------------------------------------------------------------------------
(* Every variable has its type. *)
TypeOK ==
    /\ role \in [Ids -> Roles \cup {"none"}] /\ lastUser \in 0..MaxUsers
    /\ failed \in [Ids -> Nat] /\ lockedUntil \in [Ids -> Nat] /\ wrong \in [Ids -> Nat]
    /\ sessions \in SUBSET Session
    /\ now \in Nat /\ overlap \in BOOLEAN
    /\ pc \in [Threads -> {"idle", "readUser", "clearLock", "verify", "recordFailure",
                           "createSession", "setup", "count", "setRole", "delete"}]
    /\ target \in [Threads -> Ids \cup {0}]
    /\ asked \in [Threads -> Roles \cup {"none"}]
    /\ seen \in [Threads -> Nat]

(* While requests do not overlap there is always a superadmin after the setup. *)
SuperadminRemains == ~overlap /\ lastUser > 0 => Superadmins # {}

(* "Prevent demoting the last superadmin" (handler.py:2513), "Prevents deleting
   the last superadmin" (auth_db.py:407), whatever overlaps. *)
LastSuperadminKept == lastUser > 0 => Superadmins # {}

(* Whatever overlaps, an id is never given out again: a session, or a request in
   progress, that outlives its account does not pass to another one. *)
IdsNotReused ==
    [][\A i \in Ids : i <= lastUser /\ ~Exists(i) => role'[i] = "none"]_vars

(* Whatever overlaps, an account has its first tier's failures exactly while it
   has a lock: neither write leaves one without the other. *)
LockWithCount == \A i \in Ids :
    lockedUntil[i] # 0 <=> LockFor(failed[i]) > 0

(* While requests do not overlap, a lock stands until it expires, unless the
   account's password is reset or the account is deleted. *)
LockStands ==
    [][\A i \in Ids : ~overlap /\ lockedUntil[i] > now =>
          \/ lockedUntil'[i] = lockedUntil[i]
          \/ role'[i] = "none"
          \/ \E t \in Threads, s \in sessions : ResetPassword(t, s, i)]_vars

(* While requests do not overlap, every session is of an account. *)
SessionsHaveUsers == ~overlap => \A s \in sessions : Exists(s.user)

(* "5 failures -> 60s, 10 -> 10min, 15 -> 30min, 20+ -> 1h"
   (oshotspot-fuc.md:108): the lock grows with the failures in a row. *)
TiersEscalate ==
    [][\A t \in Threads : RecordFailure(t) /\ ~overlap /\ Exists(target[t]) =>
          lockedUntil'[target[t]] >= now + LockFor(wrong[target[t]])]_vars
=============================================================================
