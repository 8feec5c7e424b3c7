-------------------------- MODULE AuthUsersProofs --------------------------
(***************************************************************************)
(* What TLAPS proves of the dashboard's accounts, for any number of        *)
(* threads, accounts and lockout tiers, with any number of restarts.       *)
(***************************************************************************)
EXTENDS AuthUsers, FiniteSetTheorems, WellFoundedInduction, TLAPS
-----------------------------------------------------------------------------
(* Facts about sets of numbers. *)

(* A set of naturals has a least element. *)
LEMMA LeastExists ==
    ASSUME NEW S, S \subseteq Nat, S # {}
    PROVE  \E i \in S : \A j \in S : i <= j
<1> DEFINE R == OpToRel(<, Nat)
<1>1. IsWellFoundedOn(R, Nat)
  BY NatLessThanWellFounded
<1>2. PICK i \in S : \A j \in S : <<j, i>> \notin R
  BY <1>1, WFMin
<1>3. \A a, b \in Nat : a < b => <<a, b>> \in R
  BY DEF OpToRel
<1>4. \A j \in S : ~(j < i)
  <2> HIDE DEF R
  <2> QED BY <1>2, <1>3, Zenon
<1>5. \A j \in S : i <= j
  BY <1>4
<1>6. QED
  BY <1>5

(* A bounded set of naturals has a greatest element. *)
LEMMA GreatestExists ==
    ASSUME NEW S, S \subseteq Nat, S # {}, NEW n \in Nat, \A i \in S : i <= n
    PROVE  \E i \in S : \A j \in S : j <= i
<1> DEFINE T == {n - i : i \in S}
<1>1. T \subseteq Nat /\ T # {}
  <2>1. \A i \in S : n - i \in Nat
    OBVIOUS
  <2>2. QED BY <2>1
<1>2. PICK k \in T : \A j \in T : k <= j
  <2> HIDE DEF T
  <2> QED BY <1>1, LeastExists
<1>3. PICK i \in S : k = n - i
  BY <1>2
<1>4. \A j \in S : n - i <= n - j
  BY <1>2, <1>3
<1>5. QED
  BY <1>4

USE AuthAssumption
-----------------------------------------------------------------------------
(* The inductive invariant. *)

(* What the locals of a thread hold at each point of a request. *)
Control == \A t \in Threads :
    /\ pc[t] \in {"readUser", "clearLock", "verify", "recordFailure",
                  "createSession", "count", "setRole", "delete"} => target[t] \in Ids
    /\ pc[t] = "setRole" => asked[t] \in Roles

(* Ids beyond the last one are unused, and never were locked. *)
Unused == \A i \in Ids : i > lastUser => ~Exists(i) /\ lockedUntil[i] = 0

(* Without overlap one request runs at a time, and what it read still holds. *)
Alone == ~overlap => \A t \in Threads :
    /\ \A u \in Threads : pc[t] # "idle" /\ pc[u] # "idle" => t = u
    /\ pc[t] \in {"clearLock", "verify", "recordFailure"} =>
          Exists(target[t]) /\ ~(now < lockedUntil[target[t]])
    /\ pc[t] = "createSession" => Exists(target[t])
    /\ pc[t] = "setRole" /\ asked[t] = "admin" => ~LastSuperadmin(target[t])
    /\ pc[t] = "delete" => ~LastSuperadmin(target[t])

IInv ==
    /\ TypeOK /\ Control /\ Unused /\ Alone
    /\ LockWithCount /\ SuperadminRemains /\ SessionsHaveUsers
-----------------------------------------------------------------------------
(* Facts about the tiers and about counting superadmins. *)

(* Every failure count has a lock duration, which is a number. *)
LEMMA LockForType == ASSUME NEW n \in Nat PROVE LockFor(n) \in Nat
<1> DEFINE reached == {tier \in Tiers : tier[1] <= n}
           counts == {tier[1] : tier \in reached}
<1>1. CASE reached = {}
  BY <1>1 DEF LockFor
<1>2. CASE reached # {}
  <2>1. counts \subseteq Nat /\ counts # {} /\ \A k \in counts : k <= n
    BY <1>2
  <2>2. PICK k \in counts : \A j \in counts : j <= k
    <3> HIDE DEF counts
    <3> QED BY <2>1, GreatestExists
  <2>3. \E top \in reached : \A tier \in reached : tier[1] <= top[1]
    BY <2>2
  <2>4. (CHOOSE top \in reached : \A tier \in reached : tier[1] <= top[1]) \in reached
    BY <2>3
  <2>5. \A tier \in reached : tier[2] \in Nat
    OBVIOUS
  <2>6. QED
    BY <1>2, <2>4, <2>5 DEF LockFor
<1>3. QED
  BY <1>1, <1>2

(* No failure, no lock. *)
LEMMA NoFailureNoLock == LockFor(0) = 0
<1>1. {tier \in Tiers : tier[1] <= 0} = {}
  OBVIOUS
<1>2. QED
  BY <1>1 DEF LockFor

(* Who is not the last superadmin leaves another one. *)
LEMMA AnotherSuperadmin ==
    ASSUME NEW i \in Ids, ~LastSuperadmin(i), Superadmins # {}
    PROVE  \E j \in Superadmins : j # i
<1>1. SUFFICES ASSUME Superadmins \subseteq {i} PROVE FALSE
  OBVIOUS
<1>2. role[i] = "superadmin"
  BY <1>1 DEF Superadmins
<1>3. /\ Cardinality(Superadmins) <= Cardinality({i}) /\ Cardinality({i}) = 1
      /\ Cardinality(Superadmins) \in Nat
  BY <1>1, FS_Singleton, FS_Subset, FS_CardinalityType
<1>4. QED
  BY <1>2, <1>3 DEF LastSuperadmin
(* Without overlap the other threads are idle, so after a step of one thread
   only what that thread holds has to be seen to. *)
LEMMA AloneAfter ==
    ASSUME TypeOK, Alone, NEW t \in Threads,
           overlap' = overlap,
           ~overlap => pc[t] # "idle" \/ Quiet,
           \A u \in Threads : u # t => pc'[u] = pc[u],
           ~overlap =>
              /\ pc'[t] \in {"clearLock", "verify", "recordFailure"} =>
                    Exists(target[t])' /\ ~(now' < lockedUntil'[target'[t]])
              /\ pc'[t] = "createSession" => Exists(target[t])'
              /\ pc'[t] = "setRole" /\ asked'[t] = "admin" => ~LastSuperadmin(target[t])'
              /\ pc'[t] = "delete" => ~LastSuperadmin(target[t])'
    PROVE  Alone'
<1>1. SUFFICES ASSUME ~overlap PROVE Alone'
  BY DEF Alone
<1>2. \A u \in Threads : u # t => pc[u] = "idle" /\ pc'[u] = "idle"
  BY <1>1 DEF Alone, Quiet
<1>3. QED
  BY <1>1, <1>2 DEF Alone
-----------------------------------------------------------------------------
(* Every step preserves the invariant. *)

(* A login begins. *)
LEMMA BeginLoginStep ==
    ASSUME IInv, NEW t \in Threads, NEW i \in Ids, BeginLogin(t, i)
    PROVE  IInv'
<1> USE DEF IInv
<1>TypeOK. TypeOK'
  BY DEF BeginLogin, MayBegin, table, request, Goto, TypeOK, Control, Session,
     Roles
<1>Control. Control'
  BY DEF BeginLogin, MayBegin, table, request, Goto, TypeOK, Control, Roles, Ids
<1>Unused. Unused'
  BY DEF BeginLogin, MayBegin, table, request, Goto, TypeOK, Control, Unused,
     Alone, Exists, Roles, Ids
<1>Alone. Alone'
  BY DEF BeginLogin, MayBegin, table, request, Goto, TypeOK, Control, Unused,
     Alone, Exists, Roles, Quiet, MayBegin, LastSuperadmin, Superadmins
<1>LockWithCount. LockWithCount'
  BY DEF BeginLogin, MayBegin, table, request, Goto, TypeOK, Control,
     LockWithCount
<1>SuperadminRemains. SuperadminRemains'
  BY DEF BeginLogin, MayBegin, table, request, Goto, TypeOK, SuperadminRemains,
     Superadmins
<1>SessionsHaveUsers. SessionsHaveUsers'
  BY DEF BeginLogin, MayBegin, table, request, Goto, TypeOK, Control, Alone,
     SessionsHaveUsers, Exists, Session
<1>. QED
  BY <1>TypeOK, <1>Control, <1>Unused, <1>Alone,
     <1>LockWithCount, <1>SuperadminRemains, <1>SessionsHaveUsers

(* The login reads the account. *)
LEMMA ReadUserStep ==
    ASSUME IInv, NEW t \in Threads, ReadUser(t)
    PROVE  IInv'
<1> USE DEF IInv
<1>TypeOK. TypeOK'
  BY DEF ReadUser, Reply, LockedOut, table, request, Goto, TypeOK, Control,
     Session, Roles
<1>Control. Control'
  BY SMTT(60) DEF ReadUser, Reply, LockedOut, table, request, Goto, TypeOK, Control,
     Roles, Ids
<1>Unused. Unused'
  BY DEF ReadUser, Reply, LockedOut, table, request, Goto, TypeOK, Control,
     Unused, Alone, Exists, Roles, Ids
<1>Alone. Alone'
  BY DEF ReadUser, Reply, LockedOut, table, request, Goto, TypeOK, Control,
     Unused, Alone, Exists, Roles, Quiet, MayBegin, LastSuperadmin, Superadmins
<1>LockWithCount. LockWithCount'
  BY DEF ReadUser, Reply, LockedOut, table, request, Goto, TypeOK, Control,
     LockWithCount
<1>SuperadminRemains. SuperadminRemains'
  BY DEF ReadUser, Reply, LockedOut, table, request, Goto, TypeOK,
     SuperadminRemains, Superadmins
<1>SessionsHaveUsers. SessionsHaveUsers'
  BY DEF ReadUser, Reply, LockedOut, table, request, Goto, TypeOK, Control,
     Alone, SessionsHaveUsers, Exists, Session
<1>. QED
  BY <1>TypeOK, <1>Control, <1>Unused, <1>Alone,
     <1>LockWithCount, <1>SuperadminRemains, <1>SessionsHaveUsers

(* An expired lock is cleared with its count. *)
LEMMA ClearLockStep ==
    ASSUME IInv, NEW t \in Threads, ClearLock(t)
    PROVE  IInv'
<1> USE DEF IInv
<1>TypeOK. TypeOK'
  BY DEF ClearLock, table, request, Goto, TypeOK, Control, Session, Roles
<1>Control. Control'
  BY DEF ClearLock, table, request, Goto, TypeOK, Control, Roles, Ids
<1>Unused. Unused'
  BY DEF ClearLock, table, request, Goto, TypeOK, Control, Unused, Alone,
     Exists, Roles, Ids
<1>Alone. Alone'
  <2>1. /\ pc' = [pc EXCEPT ![t] = "verify"] /\ pc[t] = "clearLock"
        /\ lockedUntil' = [lockedUntil EXCEPT ![target[t]] = 0]
        /\ UNCHANGED <<role, overlap, now, target, asked>>
        /\ DOMAIN pc = Threads /\ DOMAIN lockedUntil = Ids /\ now \in Nat
    BY DEF ClearLock, Goto, TypeOK
  <2>2. \A i \in Ids : (Exists(i) <=> Exists(i)') /\ (LastSuperadmin(i) <=> LastSuperadmin(i)')
    BY <2>1 DEF Exists, LastSuperadmin, Superadmins
  <2>3. \A u \in Threads : ~overlap /\ u # t => pc'[u] = "idle"
    BY <2>1 DEF Alone
  <2>4. ~overlap => /\ Exists(target[t])' /\ ~(now < lockedUntil[target[t]])'
    BY <2>1 DEF Alone, Exists, Control
  <2>5. QED
    BY <2>1, <2>3, <2>4 DEF Alone
<1>LockWithCount. LockWithCount'
  BY NoFailureNoLock DEF ClearLock, Goto, TypeOK, Control, LockWithCount
<1>SuperadminRemains. SuperadminRemains'
  BY DEF ClearLock, table, request, Goto, TypeOK, SuperadminRemains, Superadmins
<1>SessionsHaveUsers. SessionsHaveUsers'
  BY DEF ClearLock, table, request, Goto, TypeOK, Control, Alone,
     SessionsHaveUsers, Exists, Session
<1>. QED
  BY <1>TypeOK, <1>Control, <1>Unused, <1>Alone,
     <1>LockWithCount, <1>SuperadminRemains, <1>SessionsHaveUsers

(* A wrong password is found. *)
LEMMA WrongPasswordStep ==
    ASSUME IInv, NEW t \in Threads, WrongPassword(t)
    PROVE  IInv'
<1> USE DEF IInv
<1>TypeOK. TypeOK'
  BY DEF WrongPassword, table, request, Goto, TypeOK, Control, Session, Roles
<1>Control. Control'
  BY DEF WrongPassword, table, request, Goto, TypeOK, Control, Roles, Ids
<1>Unused. Unused'
  BY DEF WrongPassword, table, request, Goto, TypeOK, Control, Unused, Alone,
     Exists, Roles, Ids
<1>Alone. Alone'
  <2>1. ~overlap => Exists(target[t])' /\ ~(now' < lockedUntil'[target'[t]])
    BY DEF WrongPassword, table, request, Alone, Exists
  <2>2. pc'[t] = "recordFailure" /\ \A u \in Threads : u # t => pc'[u] = pc[u]
    BY DEF WrongPassword, Goto, TypeOK
  <2>3. overlap' = overlap /\ pc[t] # "idle"
    BY DEF WrongPassword
  <2>4. QED
    BY <2>1, <2>2, <2>3, AloneAfter
<1>LockWithCount. LockWithCount'
  BY DEF WrongPassword, table, request, Goto, TypeOK, Control, LockWithCount
<1>SuperadminRemains. SuperadminRemains'
  BY DEF WrongPassword, table, request, Goto, TypeOK, SuperadminRemains,
     Superadmins
<1>SessionsHaveUsers. SessionsHaveUsers'
  BY DEF WrongPassword, table, request, Goto, TypeOK, Control, Alone,
     SessionsHaveUsers, Exists, Session
<1>. QED
  BY <1>TypeOK, <1>Control, <1>Unused, <1>Alone,
     <1>LockWithCount, <1>SuperadminRemains, <1>SessionsHaveUsers

(* The failure is recorded, count and lock together. *)
LEMMA RecordFailureStep ==
    ASSUME IInv, NEW t \in Threads, RecordFailure(t)
    PROVE  IInv'
<1> USE DEF IInv
<1>1. LockFor(seen[t] + 1) \in Nat
  BY LockForType DEF TypeOK
<1>TypeOK. TypeOK'
  BY <1>1 DEF RecordFailure, Reply, Goto, TypeOK, Control, Session, Roles
<1>Control. Control'
  BY DEF RecordFailure, Reply, table, request, Goto, TypeOK, Control, Roles, Ids
<1>Unused. Unused'
  BY SMTT(60) DEF RecordFailure, Reply, table, request, Goto, TypeOK, Control, Unused,
     Alone, Exists, Roles, Ids
<1>Alone. Alone'
  <2>1. pc'[t] = "idle" /\ \A u \in Threads : u # t => pc'[u] = pc[u]
    BY DEF RecordFailure, Reply, Goto, TypeOK
  <2>2. overlap' = overlap /\ pc[t] # "idle"
    BY DEF RecordFailure
  <2>3. QED
    BY <2>1, <2>2, AloneAfter
<1>LockWithCount. LockWithCount'
  <2> DEFINE i == target[t]
             lock == LockFor(seen[t] + 1)
  <2>1. CASE Exists(i)
    <3>1. /\ failed' = [failed EXCEPT ![i] = seen[t] + 1]
          /\ lockedUntil' = [lockedUntil EXCEPT ![i] = IF lock > 0 THEN now + lock ELSE 0]
          /\ i \in Ids /\ now \in Nat
      BY <2>1 DEF RecordFailure, TypeOK, Control
    <3>2. lockedUntil'[i] # 0 <=> LockFor(failed'[i]) > 0
      BY <1>1, <3>1 DEF TypeOK
    <3>3. QED
      BY <3>1, <3>2 DEF LockWithCount, TypeOK
  <2>2. CASE ~Exists(i)
    BY <2>2 DEF RecordFailure, LockWithCount
  <2>3. QED BY <2>1, <2>2
<1>SuperadminRemains. SuperadminRemains'
  BY DEF RecordFailure, Reply, table, request, Goto, TypeOK, SuperadminRemains,
     Superadmins
<1>SessionsHaveUsers. SessionsHaveUsers'
  BY DEF RecordFailure, Reply, table, request, Goto, TypeOK, Control, Alone,
     SessionsHaveUsers, Exists, Session
<1>. QED
  BY <1>TypeOK, <1>Control, <1>Unused, <1>Alone,
     <1>LockWithCount, <1>SuperadminRemains, <1>SessionsHaveUsers

(* A right password clears lock and count. *)
LEMMA RightPasswordStep ==
    ASSUME IInv, NEW t \in Threads, RightPassword(t)
    PROVE  IInv'
<1> USE DEF IInv
<1>TypeOK. TypeOK'
  BY DEF RightPassword, table, request, Goto, TypeOK, Control, Session, Roles
<1>Control. Control'
  BY DEF RightPassword, table, request, Goto, TypeOK, Control, Roles, Ids
<1>Unused. Unused'
  BY DEF RightPassword, table, request, Goto, TypeOK, Control, Unused, Alone,
     Exists, Roles, Ids
<1>Alone. Alone'
  <2>1. /\ pc' = [pc EXCEPT ![t] = "createSession"] /\ pc[t] = "verify"
        /\ UNCHANGED <<role, overlap, target>> /\ DOMAIN pc = Threads
    BY DEF RightPassword, Goto, TypeOK, request
  <2>2. \A u \in Threads : ~overlap /\ u # t => pc'[u] = "idle"
    BY <2>1 DEF Alone
  <2>3. ~overlap => Exists(target[t])'
    BY <2>1 DEF Alone, Exists
  <2>4. QED
    BY <2>1, <2>2, <2>3 DEF Alone
<1>LockWithCount. LockWithCount'
  BY NoFailureNoLock DEF RightPassword, Goto, TypeOK, Control, LockWithCount
<1>SuperadminRemains. SuperadminRemains'
  BY DEF RightPassword, table, request, Goto, TypeOK, SuperadminRemains,
     Superadmins
<1>SessionsHaveUsers. SessionsHaveUsers'
  BY DEF RightPassword, table, request, Goto, TypeOK, Control, Alone,
     SessionsHaveUsers, Exists, Session
<1>. QED
  BY <1>TypeOK, <1>Control, <1>Unused, <1>Alone,
     <1>LockWithCount, <1>SuperadminRemains, <1>SessionsHaveUsers

(* A session is opened for the account of the request. *)
LEMMA CreateSessionStep ==
    ASSUME IInv, NEW t \in Threads, CreateSession(t)
    PROVE  IInv'
<1> USE DEF IInv
<1>TypeOK. TypeOK'
  BY DEF CreateSession, Reply, table, request, Goto, TypeOK, Control, Session,
     Roles
<1>Control. Control'
  BY DEF CreateSession, Reply, table, request, Goto, TypeOK, Control, Roles, Ids
<1>Unused. Unused'
  BY DEF CreateSession, Reply, table, request, Goto, TypeOK, Control, Unused,
     Alone, Exists, Roles, Ids
<1>Alone. Alone'
  <2>1. pc'[t] = "idle" /\ \A u \in Threads : u # t => pc'[u] = pc[u]
    BY DEF CreateSession, Reply, Goto, TypeOK
  <2>2. overlap' = overlap /\ pc[t] # "idle"
    BY DEF CreateSession
  <2>3. QED
    BY <2>1, <2>2, AloneAfter
<1>LockWithCount. LockWithCount'
  BY DEF CreateSession, Reply, table, request, Goto, TypeOK, Control,
     LockWithCount
<1>SuperadminRemains. SuperadminRemains'
  BY DEF CreateSession, Reply, table, request, Goto, TypeOK, SuperadminRemains,
     Superadmins
<1>SessionsHaveUsers. SessionsHaveUsers'
  BY DEF CreateSession, Reply, table, request, Goto, TypeOK, Control, Alone,
     SessionsHaveUsers, Exists, Session
<1>. QED
  BY <1>TypeOK, <1>Control, <1>Unused, <1>Alone,
     <1>LockWithCount, <1>SuperadminRemains, <1>SessionsHaveUsers

(* The setup begins. *)
LEMMA BeginSetupStep ==
    ASSUME IInv, NEW t \in Threads, BeginSetup(t)
    PROVE  IInv'
<1> USE DEF IInv
<1>TypeOK. TypeOK'
  BY DEF BeginSetup, MayBegin, table, request, Goto, TypeOK, Control, Session,
     Roles
<1>Control. Control'
  BY DEF BeginSetup, MayBegin, table, request, Goto, TypeOK, Control, Roles, Ids
<1>Unused. Unused'
  BY DEF BeginSetup, MayBegin, table, request, Goto, TypeOK, Control, Unused,
     Alone, Exists, Roles, Ids
<1>Alone. Alone'
  BY DEF BeginSetup, MayBegin, table, request, Goto, TypeOK, Control, Unused,
     Alone, Exists, Roles, Quiet, MayBegin, LastSuperadmin, Superadmins
<1>LockWithCount. LockWithCount'
  BY DEF BeginSetup, MayBegin, table, request, Goto, TypeOK, Control,
     LockWithCount
<1>SuperadminRemains. SuperadminRemains'
  BY DEF BeginSetup, MayBegin, table, request, Goto, TypeOK, SuperadminRemains,
     Superadmins
<1>SessionsHaveUsers. SessionsHaveUsers'
  BY DEF BeginSetup, MayBegin, table, request, Goto, TypeOK, Control, Alone,
     SessionsHaveUsers, Exists, Session
<1>. QED
  BY <1>TypeOK, <1>Control, <1>Unused, <1>Alone,
     <1>LockWithCount, <1>SuperadminRemains, <1>SessionsHaveUsers

(* The setup inserts a superadmin. *)
LEMMA SetupStep ==
    ASSUME IInv, NEW t \in Threads, Setup(t)
    PROVE  IInv'
<1> USE DEF IInv
<1>1. /\ NextUser \in Ids /\ lastUser' = lastUser + 1 /\ NextUser = lastUser + 1
      /\ lastUser \in Nat /\ role' = [role EXCEPT ![NextUser] = "superadmin"]
      /\ UNCHANGED <<sessions, now, overlap>>
  BY DEF Setup, Insert, NextUser, TypeOK
<1>TypeOK. TypeOK'
  BY <1>1 DEF Setup, Insert, Goto, TypeOK, Ids, Roles
<1>Control. Control'
  BY DEF Setup, Insert, NextUser, table, request, Goto, TypeOK, Control, Roles,
     Ids
<1>Unused. Unused'
  BY DEF Setup, Insert, NextUser, table, request, Goto, TypeOK, Control, Unused,
     Alone, Exists, Roles, Ids
<1>Alone. Alone'
  <2> SUFFICES ASSUME ~overlap PROVE Alone'
    BY <1>1 DEF Alone
  <2>1. /\ pc' = [pc EXCEPT ![t] = "createSession"] /\ pc[t] = "setup"
        /\ target' = [target EXCEPT ![t] = NextUser]
        /\ target \in [Threads -> Ids \cup {0}] /\ DOMAIN pc = Threads
    BY DEF Setup, Goto, TypeOK
  <2>2. \A u \in Threads : u # t => pc'[u] = "idle"
    BY <2>1 DEF Alone
  <2>3. pc'[t] = "createSession" /\ target'[t] = NextUser
    BY <2>1
  <2>4. role'[NextUser] = "superadmin"
    BY <1>1 DEF TypeOK
  <2>5. QED
    BY <2>2, <2>3, <2>4 DEF Alone, Exists
<1>LockWithCount. LockWithCount'
  BY NoFailureNoLock DEF Setup, Insert, TypeOK, LockWithCount
<1>SuperadminRemains. SuperadminRemains'
  BY <1>1 DEF TypeOK, SuperadminRemains, Superadmins
<1>SessionsHaveUsers. SessionsHaveUsers'
  BY <1>1 DEF TypeOK, SessionsHaveUsers, Exists, Session
<1>. QED
  BY <1>TypeOK, <1>Control, <1>Unused, <1>Alone,
     <1>LockWithCount, <1>SuperadminRemains, <1>SessionsHaveUsers

(* A request to manage users begins. *)
LEMMA BeginManageStep ==
    ASSUME IInv, NEW t \in Threads, NEW s \in sessions, NEW i \in Ids,
           NEW r \in Roles \cup {"none"}, BeginManage(t, s, i, r)
    PROVE  IInv'
<1> USE DEF IInv
<1>TypeOK. TypeOK'
  BY DEF BeginManage, MayBegin, table, request, Goto, TypeOK, Control, Session,
     Roles
<1>Control. Control'
  BY DEF BeginManage, MayBegin, table, request, Goto, TypeOK, Control, Roles,
     Ids
<1>Unused. Unused'
  BY DEF BeginManage, MayBegin, table, request, Goto, TypeOK, Control, Unused,
     Alone, Exists, Roles, Ids
<1>Alone. Alone'
  <2>1. pc'[t] \in {"count", "setRole"} /\ \A u \in Threads : u # t => pc'[u] = pc[u]
    BY DEF BeginManage, Goto, TypeOK
  <2>2. pc'[t] = "setRole" => asked'[t] # "admin"
    BY DEF BeginManage, Goto, TypeOK
  <2>3. overlap' = overlap /\ (overlap \/ Quiet)
    BY DEF BeginManage, MayBegin
  <2>4. QED
    BY <2>1, <2>2, <2>3, AloneAfter
<1>LockWithCount. LockWithCount'
  BY DEF BeginManage, MayBegin, table, request, Goto, TypeOK, Control,
     LockWithCount
<1>SuperadminRemains. SuperadminRemains'
  BY DEF BeginManage, MayBegin, table, request, Goto, TypeOK, SuperadminRemains,
     Superadmins
<1>SessionsHaveUsers. SessionsHaveUsers'
  BY DEF BeginManage, MayBegin, table, request, Goto, TypeOK, Control, Alone,
     SessionsHaveUsers, Exists, Session
<1>. QED
  BY <1>TypeOK, <1>Control, <1>Unused, <1>Alone,
     <1>LockWithCount, <1>SuperadminRemains, <1>SessionsHaveUsers

(* The superadmins are counted. *)
LEMMA CountStep ==
    ASSUME IInv, NEW t \in Threads, Count(t)
    PROVE  IInv'
<1> USE DEF IInv
<1>TypeOK. TypeOK'
  BY DEF Count, Reply, table, request, Goto, TypeOK, Control, Session, Roles
<1>Control. Control'
  BY SMTT(60) DEF Count, Reply, table, request, Goto, TypeOK, Control, Roles, Ids
<1>Unused. Unused'
  BY DEF Count, Reply, table, request, Goto, TypeOK, Control, Unused, Alone,
     Exists, Roles, Ids
<1>Alone. Alone'
  <2>1. /\ pc'[t] \in {"idle", "setRole", "delete"}
        /\ \A u \in Threads : u # t => pc'[u] = pc[u]
    BY DEF Count, Reply, Goto, TypeOK
  <2>2. pc'[t] # "idle" => ~LastSuperadmin(target[t])'
    BY DEF Count, Reply, Goto, TypeOK, table, request, LastSuperadmin, Superadmins
  <2>3. overlap' = overlap /\ pc[t] # "idle"
    BY DEF Count
  <2>4. QED
    BY <2>1, <2>2, <2>3, AloneAfter
<1>LockWithCount. LockWithCount'
  BY DEF Count, Reply, table, request, Goto, TypeOK, Control, LockWithCount
<1>SuperadminRemains. SuperadminRemains'
  BY DEF Count, Reply, table, request, Goto, TypeOK, SuperadminRemains,
     Superadmins
<1>SessionsHaveUsers. SessionsHaveUsers'
  BY DEF Count, Reply, table, request, Goto, TypeOK, Control, Alone,
     SessionsHaveUsers, Exists, Session
<1>. QED
  BY <1>TypeOK, <1>Control, <1>Unused, <1>Alone,
     <1>LockWithCount, <1>SuperadminRemains, <1>SessionsHaveUsers

(* A role is set; a superadmin remains. *)
LEMMA SetRoleStep ==
    ASSUME IInv, NEW t \in Threads, SetRole(t)
    PROVE  IInv'
<1> USE DEF IInv
<1>1. target[t] \in Ids /\ asked[t] \in Roles
  BY DEF SetRole, Control
<1>TypeOK. TypeOK'
  BY <1>1 DEF SetRole, Reply, Goto, TypeOK, Roles
<1>Control. Control'
  BY DEF SetRole, Reply, table, request, Goto, TypeOK, Control, Roles, Ids
<1>Unused. Unused'
  BY <1>1 DEF SetRole, TypeOK, Unused, Exists, Roles
<1>Alone. Alone'
  <2>1. pc'[t] = "idle" /\ \A u \in Threads : u # t => pc'[u] = pc[u]
    BY DEF SetRole, Reply, Goto, TypeOK
  <2>2. overlap' = overlap /\ pc[t] # "idle"
    BY DEF SetRole
  <2>3. QED
    BY <2>1, <2>2, AloneAfter
<1>LockWithCount. LockWithCount'
  BY DEF SetRole, Reply, table, request, Goto, TypeOK, Control, LockWithCount
<1>SuperadminRemains. SuperadminRemains'
  <2> SUFFICES ASSUME ~overlap, lastUser > 0, Exists(target[t])
               PROVE  Superadmins' # {}
    BY DEF SetRole, SuperadminRemains, Superadmins
  <2>1. role' = [role EXCEPT ![target[t]] = asked[t]] /\ Superadmins # {}
    BY DEF SetRole, SuperadminRemains
  <2>2. CASE asked[t] = "superadmin"
    BY <1>1, <2>1, <2>2 DEF Superadmins, TypeOK
  <2>3. CASE asked[t] = "admin"
    <3>1. PICK j \in Superadmins : j # target[t]
      BY <1>1, <2>1, <2>3, AnotherSuperadmin DEF SetRole, Alone
    <3>2. role'[j] = "superadmin" /\ j \in Ids
      BY <2>1, <3>1 DEF Superadmins, TypeOK
    <3>3. QED BY <3>2 DEF Superadmins
  <2>4. QED BY <1>1, <2>2, <2>3 DEF Roles
<1>SessionsHaveUsers. SessionsHaveUsers'
  BY <1>1 DEF SetRole, TypeOK, SessionsHaveUsers, Exists, Session, Roles
<1>. QED
  BY <1>TypeOK, <1>Control, <1>Unused, <1>Alone,
     <1>LockWithCount, <1>SuperadminRemains, <1>SessionsHaveUsers

(* An account is deleted with its sessions; a superadmin remains. *)
LEMMA DeleteStep ==
    ASSUME IInv, NEW t \in Threads, Delete(t)
    PROVE  IInv'
<1> USE DEF IInv
<1>1. target[t] \in Ids
  BY DEF Delete, Control
<1>TypeOK. TypeOK'
  BY DEF Delete, Reply, SessionsOf, table, request, Goto, TypeOK, Control,
     Session, Roles
<1>Control. Control'
  BY DEF Delete, Reply, SessionsOf, table, request, Goto, TypeOK, Control,
     Roles, Ids
<1>Unused. Unused'
  BY DEF Delete, Reply, SessionsOf, table, request, Goto, TypeOK, Control,
     Unused, Alone, Exists, Roles, Ids
<1>Alone. Alone'
  <2>1. pc'[t] = "idle" /\ \A u \in Threads : u # t => pc'[u] = pc[u]
    BY DEF Delete, Reply, Goto, TypeOK
  <2>2. overlap' = overlap /\ pc[t] # "idle"
    BY DEF Delete
  <2>3. QED
    BY <2>1, <2>2, AloneAfter
<1>LockWithCount. LockWithCount'
  BY NoFailureNoLock DEF Delete, TypeOK, LockWithCount
<1>SuperadminRemains. SuperadminRemains'
  <2> SUFFICES ASSUME ~overlap, lastUser > 0
               PROVE  Superadmins' # {}
    BY DEF Delete, SuperadminRemains
  <2>1. role' = [role EXCEPT ![target[t]] = "none"] /\ Superadmins # {}
    BY DEF Delete, SuperadminRemains
  <2>2. PICK j \in Superadmins : j # target[t]
    BY <1>1, <2>1, AnotherSuperadmin DEF Delete, Alone
  <2>3. role'[j] = "superadmin" /\ j \in Ids
    BY <2>1, <2>2 DEF Superadmins, TypeOK
  <2>4. QED BY <2>3 DEF Superadmins
<1>SessionsHaveUsers. SessionsHaveUsers'
  BY <1>1 DEF Delete, SessionsOf, TypeOK, SessionsHaveUsers, Exists, Session
<1>. QED
  BY <1>TypeOK, <1>Control, <1>Unused, <1>Alone,
     <1>LockWithCount, <1>SuperadminRemains, <1>SessionsHaveUsers

(* An account is created under an unused id. *)
LEMMA CreateUserStep ==
    ASSUME IInv, NEW t \in Threads, NEW s \in sessions, NEW r \in Roles, CreateUser(t, s, r)
    PROVE  IInv'
<1> USE DEF IInv
<1>1. /\ NextUser \in Ids /\ lastUser' = lastUser + 1 /\ NextUser = lastUser + 1
      /\ lastUser \in Nat /\ role' = [role EXCEPT ![NextUser] = r]
      /\ UNCHANGED <<sessions, now, overlap, pc, target, asked>>
      /\ ~Exists(NextUser)
  BY DEF CreateUser, Insert, NextUser, TypeOK, Unused, request
<1>2. pc[t] = "idle" /\ (~overlap => \A u \in Threads : pc[u] = "idle")
  BY DEF CreateUser, MayBegin, Quiet
<1>TypeOK. TypeOK'
  <2>1. role' \in [Ids -> Roles \cup {"none"}] /\ lastUser' \in 0..MaxUsers
    BY <1>1 DEF TypeOK, Ids
  <2>2. failed' \in [Ids -> Nat] /\ lockedUntil' \in [Ids -> Nat]
    BY DEF CreateUser, Insert, TypeOK
  <2>3. UNCHANGED <<sessions, wrong, now, overlap, pc, request>>
    BY DEF CreateUser
  <2>4. QED
    BY <2>1, <2>2, <2>3 DEF TypeOK, request
<1>Control. Control'
  BY DEF CreateUser, Insert, NextUser, table, request, Goto, TypeOK, Control,
     Roles, Ids
<1>Unused. Unused'
  BY DEF CreateUser, Insert, NextUser, table, request, Goto, TypeOK, Control,
     Unused, Alone, Exists, Roles, Ids
<1>Alone. Alone'
  BY <1>1, <1>2 DEF Alone
<1>LockWithCount. LockWithCount'
  BY NoFailureNoLock DEF CreateUser, Insert, TypeOK, LockWithCount
<1>SuperadminRemains. SuperadminRemains'
  <2> SUFFICES ASSUME ~overlap
               PROVE  Superadmins' # {}
    BY <1>1 DEF SuperadminRemains
  <2>1. s.user \in Ids /\ role[s.user] = "superadmin"
    BY DEF CreateUser, Authorised, TypeOK, Session
  <2>2. role'[s.user] = "superadmin"
    BY <1>1, <2>1 DEF Exists, TypeOK
  <2>3. QED BY <2>1, <2>2 DEF Superadmins
<1>SessionsHaveUsers. SessionsHaveUsers'
  BY <1>1 DEF TypeOK, SessionsHaveUsers, Exists, Session, Roles
<1>. QED
  BY <1>TypeOK, <1>Control, <1>Unused, <1>Alone,
     <1>LockWithCount, <1>SuperadminRemains, <1>SessionsHaveUsers

(* A password reset clears lock and count. *)
LEMMA ResetPasswordStep ==
    ASSUME IInv, NEW t \in Threads, NEW s \in sessions, NEW i \in Ids, ResetPassword(t, s, i)
    PROVE  IInv'
<1> USE DEF IInv
<1>TypeOK. TypeOK'
  BY DEF ResetPassword, MayBegin, Quiet, table, request, Goto, TypeOK, Control,
     Session, Roles
<1>Control. Control'
  BY DEF ResetPassword, MayBegin, Quiet, table, request, Goto, TypeOK, Control,
     Roles, Ids
<1>Unused. Unused'
  BY DEF ResetPassword, MayBegin, Quiet, table, request, Goto, TypeOK, Control,
     Unused, Alone, Exists, Roles, Ids
<1>Alone. Alone'
  BY DEF ResetPassword, MayBegin, Quiet, table, request, Goto, TypeOK, Control,
     Unused, Alone, Exists, Roles, Quiet, MayBegin, LastSuperadmin, Superadmins
<1>LockWithCount. LockWithCount'
  BY NoFailureNoLock DEF ResetPassword, TypeOK, LockWithCount
<1>SuperadminRemains. SuperadminRemains'
  BY DEF ResetPassword, MayBegin, Quiet, table, request, Goto, TypeOK,
     SuperadminRemains, Superadmins
<1>SessionsHaveUsers. SessionsHaveUsers'
  BY DEF ResetPassword, MayBegin, Quiet, table, request, Goto, TypeOK, Control,
     Alone, SessionsHaveUsers, Exists, Session
<1>. QED
  BY <1>TypeOK, <1>Control, <1>Unused, <1>Alone,
     <1>LockWithCount, <1>SuperadminRemains, <1>SessionsHaveUsers

(* A session ends. *)
LEMMA LogoutStep ==
    ASSUME IInv, NEW t \in Threads, NEW s \in sessions, Logout(t, s)
    PROVE  IInv'
<1> USE DEF IInv
<1>TypeOK. TypeOK'
  BY DEF Logout, MayBegin, Quiet, table, request, Goto, TypeOK, Control,
     Session, Roles
<1>Control. Control'
  BY DEF Logout, MayBegin, Quiet, table, request, Goto, TypeOK, Control, Roles,
     Ids
<1>Unused. Unused'
  BY DEF Logout, MayBegin, Quiet, table, request, Goto, TypeOK, Control, Unused,
     Alone, Exists, Roles, Ids
<1>Alone. Alone'
  BY DEF Logout, MayBegin, Quiet, table, request, Goto, TypeOK, Control, Unused,
     Alone, Exists, Roles, Quiet, MayBegin, LastSuperadmin, Superadmins
<1>LockWithCount. LockWithCount'
  BY DEF Logout, MayBegin, Quiet, table, request, Goto, TypeOK, Control,
     LockWithCount
<1>SuperadminRemains. SuperadminRemains'
  BY DEF Logout, MayBegin, Quiet, table, request, Goto, TypeOK,
     SuperadminRemains, Superadmins
<1>SessionsHaveUsers. SessionsHaveUsers'
  BY DEF Logout, MayBegin, Quiet, table, request, Goto, TypeOK, Control, Alone,
     SessionsHaveUsers, Exists, Session
<1>. QED
  BY <1>TypeOK, <1>Control, <1>Unused, <1>Alone,
     <1>LockWithCount, <1>SuperadminRemains, <1>SessionsHaveUsers

(* An expired session is dropped. *)
LEMMA ExpireStep ==
    ASSUME IInv, NEW s \in sessions, Expire(s)
    PROVE  IInv'
<1> USE DEF IInv
<1>TypeOK. TypeOK'
  BY DEF Expire, table, request, Goto, TypeOK, Control, Session, Roles
<1>Control. Control'
  BY DEF Expire, table, request, Goto, TypeOK, Control, Roles, Ids
<1>Unused. Unused'
  BY DEF Expire, table, request, Goto, TypeOK, Control, Unused, Alone, Exists,
     Roles, Ids
<1>Alone. Alone'
  BY DEF Expire, table, request, Goto, TypeOK, Control, Unused, Alone, Exists,
     Roles, Quiet, MayBegin, LastSuperadmin, Superadmins
<1>LockWithCount. LockWithCount'
  BY DEF Expire, table, request, Goto, TypeOK, Control, LockWithCount
<1>SuperadminRemains. SuperadminRemains'
  BY DEF Expire, table, request, Goto, TypeOK, SuperadminRemains, Superadmins
<1>SessionsHaveUsers. SessionsHaveUsers'
  BY DEF Expire, table, request, Goto, TypeOK, Control, Alone,
     SessionsHaveUsers, Exists, Session
<1>. QED
  BY <1>TypeOK, <1>Control, <1>Unused, <1>Alone,
     <1>LockWithCount, <1>SuperadminRemains, <1>SessionsHaveUsers

(* A restart ends every request. *)
LEMMA RestartStep ==
    ASSUME IInv, Restart
    PROVE  IInv'
<1> USE DEF IInv
<1>TypeOK. TypeOK'
  BY DEF Restart, Unexpired, table, request, Goto, TypeOK, Control, Session,
     Roles
<1>Control. Control'
  BY DEF Restart, Unexpired, table, request, Goto, TypeOK, Control, Roles, Ids
<1>Unused. Unused'
  BY DEF Restart, Unexpired, table, request, Goto, TypeOK, Control, Unused,
     Alone, Exists, Roles, Ids
<1>Alone. Alone'
  BY DEF Restart, Unexpired, table, request, Goto, TypeOK, Control, Unused,
     Alone, Exists, Roles, Quiet, MayBegin, LastSuperadmin, Superadmins
<1>LockWithCount. LockWithCount'
  BY DEF Restart, Unexpired, table, request, Goto, TypeOK, Control,
     LockWithCount
<1>SuperadminRemains. SuperadminRemains'
  BY DEF Restart, Unexpired, table, request, Goto, TypeOK, SuperadminRemains,
     Superadmins
<1>SessionsHaveUsers. SessionsHaveUsers'
  BY DEF Restart, Unexpired, table, request, Goto, TypeOK, Control, Alone,
     SessionsHaveUsers, Exists, Session
<1>. QED
  BY <1>TypeOK, <1>Control, <1>Unused, <1>Alone,
     <1>LockWithCount, <1>SuperadminRemains, <1>SessionsHaveUsers

(* Time moves. *)
LEMMA TickStep ==
    ASSUME IInv, Tick
    PROVE  IInv'
<1> USE DEF IInv
<1>TypeOK. TypeOK'
  BY DEF Tick, table, request, Goto, TypeOK, Control, Session, Roles
<1>Control. Control'
  BY DEF Tick, table, request, Goto, TypeOK, Control, Roles, Ids
<1>Unused. Unused'
  BY DEF Tick, table, request, Goto, TypeOK, Control, Unused, Alone, Exists,
     Roles, Ids
<1>Alone. Alone'
  BY DEF Tick, table, request, Goto, TypeOK, Control, Unused, Alone, Exists,
     Roles, Quiet, MayBegin, LastSuperadmin, Superadmins
<1>LockWithCount. LockWithCount'
  BY DEF Tick, table, request, Goto, TypeOK, Control, LockWithCount
<1>SuperadminRemains. SuperadminRemains'
  BY DEF Tick, table, request, Goto, TypeOK, SuperadminRemains, Superadmins
<1>SessionsHaveUsers. SessionsHaveUsers'
  BY DEF Tick, table, request, Goto, TypeOK, Control, Alone, SessionsHaveUsers,
     Exists, Session
<1>. QED
  BY <1>TypeOK, <1>Control, <1>Unused, <1>Alone,
     <1>LockWithCount, <1>SuperadminRemains, <1>SessionsHaveUsers

(* The invariant holds at first, ... *)
LEMMA InitHolds == Init => IInv
<1> SUFFICES ASSUME Init PROVE IInv
  OBVIOUS
<1>1. TypeOK /\ Control /\ Unused /\ Alone /\ SuperadminRemains /\ SessionsHaveUsers
  BY DEF Init, TypeOK, Control, Unused, Alone, SuperadminRemains,
     SessionsHaveUsers, Exists, Roles, Ids
<1>2. LockWithCount
  BY NoFailureNoLock DEF Init, LockWithCount
<1>3. QED
  BY <1>1, <1>2 DEF IInv

(* ... is kept by every step, ... *)
LEMMA NextHolds == IInv /\ [Next]_vars => IInv'
<1> SUFFICES ASSUME IInv, [Next]_vars PROVE IInv'
  OBVIOUS
<1>1. ASSUME NEW t \in Threads, (\E i \in Ids : BeginLogin(t, i)) \/ LoginStep(t)
      PROVE  IInv'
  BY <1>1, BeginLoginStep, ReadUserStep, ClearLockStep, WrongPasswordStep,
     RecordFailureStep, RightPasswordStep, CreateSessionStep DEF LoginStep
<1>2. ASSUME NEW t \in Threads, BeginSetup(t) \/ ManageStep(t)
      PROVE  IInv'
  BY <1>2, BeginSetupStep, SetupStep, CountStep, SetRoleStep, DeleteStep DEF
     ManageStep
<1>3. ASSUME NEW t \in Threads, Manage(t)
      PROVE  IInv'
  BY <1>3, BeginManageStep, CreateUserStep, ResetPasswordStep, LogoutStep DEF
     Manage
<1>4. ASSUME NEW s \in sessions, Expire(s)
      PROVE  IInv'
  BY <1>4, ExpireStep
<1>5. CASE Restart \/ Tick
  BY <1>5, RestartStep, TickStep
<1>6. CASE UNCHANGED vars
  <2> USE <1>6 DEF vars, table, request, IInv
  <2>1. TypeOK' /\ Control' /\ Unused'
    BY DEF TypeOK, Control, Unused, Exists
  <2>2. Alone' /\ SuperadminRemains'
    BY DEF Alone, SuperadminRemains, LastSuperadmin, Superadmins, Exists
  <2>3. LockWithCount' /\ SessionsHaveUsers'
    BY DEF LockWithCount, SessionsHaveUsers, Exists
  <2>4. QED BY <2>1, <2>2, <2>3
<1>7. QED
  BY <1>1, <1>2, <1>3, <1>4, <1>5, <1>6 DEF Next

(* ... and so holds always. *)
LEMMA Inductive == Spec => []IInv
BY InitHolds, NextHolds, PTL DEF Spec

(* The tables and the locals of every request have their types. *)
THEOREM TypeCorrect == Spec => []TypeOK
<1>1. IInv => TypeOK
  BY DEF IInv
<1>2. QED
  BY <1>1, Inductive, PTL

(* While requests do not overlap, a superadmin remains after the setup. *)
THEOREM SuperadminStays == Spec => []SuperadminRemains
<1>1. IInv => SuperadminRemains
  BY DEF IInv
<1>2. QED
  BY <1>1, Inductive, PTL

(* Whatever overlaps, an account is locked exactly when its count is at a tier. *)
THEOREM LockMatchesCount == Spec => []LockWithCount
<1>1. IInv => LockWithCount
  BY DEF IInv
<1>2. QED
  BY <1>1, Inductive, PTL

(* While requests do not overlap, every session is of an account. *)
THEOREM SessionsOwned == Spec => []SessionsHaveUsers
<1>1. IInv => SessionsHaveUsers
  BY DEF IInv
<1>2. QED
  BY <1>1, Inductive, PTL

(* One step gives no used id to a new account. *)
LEMMA UnusedStep ==
    ASSUME IInv, [Next]_vars, NEW i \in Ids, i <= lastUser, ~Exists(i)
    PROVE  role'[i] = "none"
<1>1. role \in [Ids -> Roles \cup {"none"}] /\ lastUser \in Nat /\ role[i] = "none"
  BY DEF IInv, TypeOK, Exists
<1>2. CASE role' = role
  BY <1>1, <1>2
<1>3. ASSUME NEW r, Insert(r)
      PROVE  role'[i] = "none"
  <2>1. i # NextUser
    BY <1>1 DEF NextUser, Ids
  <2>2. QED
    BY <1>1, <1>3, <2>1 DEF Insert
<1>4. ASSUME NEW t \in Threads, SetRole(t) \/ Delete(t)
      PROVE  role'[i] = "none"
  BY <1>1, <1>4 DEF SetRole, Delete, Exists
<1>5. QED
  BY <1>2, <1>3, <1>4 DEF Next, LoginStep, ManageStep, Manage, BeginLogin,
     ReadUser,
     ClearLock, WrongPassword, RecordFailure, RightPassword, CreateSession,
     BeginSetup, Setup, BeginManage, Count, CreateUser, ResetPassword, Logout,
     Expire, Restart, Tick, vars, table

(* An id is never given out again, so no session or request in progress passes
   from a deleted account to a new one. *)
THEOREM IdsStay == Spec => IdsNotReused
<1>1. IInv /\ [Next]_vars =>
        [\A i \in Ids : i <= lastUser /\ ~Exists(i) => role'[i] = "none"]_vars
  BY UnusedStep
<1>2. QED
  BY <1>1, Inductive, PTL DEF Spec, IdsNotReused

(* One step does not lift a lock while requests do not overlap. *)
LEMMA LockStep ==
    ASSUME IInv, [Next]_vars, NEW i \in Ids, ~overlap, lockedUntil[i] > now
    PROVE  \/ lockedUntil'[i] = lockedUntil[i]
           \/ role'[i] = "none"
           \/ \E t \in Threads, s \in sessions : ResetPassword(t, s, i)
<1>1. /\ lockedUntil \in [Ids -> Nat] /\ now \in Nat /\ lastUser \in Nat
      /\ role \in [Ids -> Roles \cup {"none"}]
  BY DEF IInv, TypeOK
<1>2. CASE lockedUntil' = lockedUntil
  BY <1>2
<1>3. ASSUME NEW t \in Threads, ClearLock(t) \/ RecordFailure(t) \/ RightPassword(t)
      PROVE  lockedUntil'[i] = lockedUntil[i]
  <2>1. target[t] # i
    BY <1>1, <1>3 DEF IInv, Alone, ClearLock, RecordFailure, RightPassword
  <2>2. QED
    BY <1>1, <1>3, <2>1 DEF ClearLock, RecordFailure, RightPassword
<1>4. ASSUME NEW r, Insert(r)
      PROVE  lockedUntil'[i] = lockedUntil[i]
  <2>1. CASE i = NextUser
    <3>1. lockedUntil[i] = 0
      BY <1>1, <2>1 DEF IInv, Unused, NextUser
    <3>2. QED BY <1>1, <3>1
  <2>2. CASE i # NextUser
    BY <1>1, <1>4, <2>2 DEF Insert
  <2>3. QED BY <2>1, <2>2
<1>5. ASSUME NEW t \in Threads, Delete(t)
      PROVE  lockedUntil'[i] = lockedUntil[i] \/ role'[i] = "none"
  BY <1>1, <1>5 DEF Delete
<1>6. ASSUME NEW t \in Threads, NEW s \in sessions, NEW j \in Ids, ResetPassword(t, s, j)
      PROVE  \/ lockedUntil'[i] = lockedUntil[i]
             \/ \E u \in Threads, q \in sessions : ResetPassword(u, q, i)
  <2>1. CASE j = i
    BY <1>6, <2>1
  <2>2. CASE j # i
    BY <1>1, <1>6, <2>2 DEF ResetPassword
  <2>3. QED BY <2>1, <2>2
<1>7. QED
  BY <1>2, <1>3, <1>4, <1>5, <1>6 DEF Next, LoginStep, ManageStep, Manage,
     BeginLogin,
     ReadUser, WrongPassword, CreateSession, BeginSetup, Setup, BeginManage, Count,
     SetRole, CreateUser, Logout, Expire, Restart, Tick, vars, table

(* While requests do not overlap, a lock stands until it expires or the password
   is reset or the account deleted. *)
THEOREM LocksStand == Spec => LockStands
<1>1. IInv /\ [Next]_vars =>
        [\A i \in Ids : ~overlap /\ lockedUntil[i] > now =>
            \/ lockedUntil'[i] = lockedUntil[i]
            \/ role'[i] = "none"
            \/ \E t \in Threads, s \in sessions : ResetPassword(t, s, i)]_vars
  BY LockStep
<1>2. QED
  BY <1>1, Inductive, PTL DEF Spec, LockStands
=============================================================================
