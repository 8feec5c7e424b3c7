------------------------ MODULE CaptivePortalProofs ------------------------
(***************************************************************************)
(* What TLAPS proves of the captive portal, for any clients, codes and     *)
(* threads, overlapping or not, with any number of restarts.               *)
(***************************************************************************)
EXTENDS CaptivePortal, TLAPS

USE NameAssumption, PortalAssumption DEF firewall, HasChain

-----------------------------------------------------------------------------
(* What the locals of a thread hold at each point of its program. *)
Control == \A t \in Threads :
    /\ pc[t] \in {"readMacs", "writeMacs", "whitelist", "flush", "fill"} =>
           job[t] \in {"login", "logout", "revoke", "revokeCode", "sweep", "boot"}
    /\ pc[t] \in {"readMacs", "writeMacs", "whitelist"} => mac[t] \in Macs
    /\ pc[t] = "whitelist" => Adding(t)
    /\ pc[t] = "next" => job[t] \in {"sweep", "boot"}
    /\ pc[t] = "readSessions" => job[t] \in {"login", "logout", "revokeCode"}
    /\ job[t] = "login" => mac[t] \in Macs
    /\ job[t] = "revokeCode" => code[t] \in Codes

WellFormed == TypeOK /\ Control

(* The expiry of a new session is a time, or never. *)
LEMMA ExpiryType ==
    ASSUME now \in Nat, NEW d \in Nat
    PROVE  ExpiryAfter(d) \in Nat
<1> DEFINE limits == {Lease, d} \ {0}
<1>1. CASE limits = {}
  BY <1>1 DEF ExpiryAfter, Never
<1>2. CASE limits # {}
  <2>1. \E x \in limits : \A y \in limits : x <= y
    BY <1>2
  <2>2. (CHOOSE x \in limits : \A y \in limits : x <= y) \in limits
    BY <2>1
  <2> DEFINE least == CHOOSE x \in limits : \A y \in limits : x <= y
  <2>3. ExpiryAfter(d) = now + least
    BY <1>2 DEF ExpiryAfter
  <2>4. least \in Nat
    BY <2>2
  <2> HIDE DEF least
  <2>5. QED
    BY <2>3, <2>4
<1>3. QED
  BY <1>1, <1>2

(* Activating a voucher yields a voucher. *)
LEMMA ActivatedType ==
    ASSUME now \in Nat, NEW v \in Voucher, NEW m \in Macs
    PROVE  Activated(v, m) \in Voucher /\ Activated(v, m).id = v.id
<1>1. PICK i \in Codes, b \in Macs \cup {NoMac}, e \in Nat :
          v = [id |-> i, bound |-> b, expires |-> e]
  BY DEF Voucher
<1> DEFINE b2 == IF b = NoMac THEN m ELSE b
           e2 == IF e = 0 THEN now + Duration ELSE e
<1>2. Activated(v, m) = [id |-> i, bound |-> b2, expires |-> e2]
  <2>1. /\ Activated(v, m) = [v EXCEPT !.bound = IF @ = NoMac THEN m ELSE @,
                                       !.expires = IF @ = 0 THEN now + Duration
                                                            ELSE @]
        /\ v.id = i /\ v.bound = b /\ v.expires = e
    BY <1>1 DEF Activated, Never
  <2>2. Activated(v, m) = [v EXCEPT !.bound = b2, !.expires = e2]
    BY <2>1
  <2> HIDE DEF b2, e2
  <2>3. QED
    BY <1>1, <2>2
<1>3. QED
  BY <1>1, <1>2 DEF Voucher

(* Every step keeps the types and the discipline of the locals. *)
LEMMA WellFormedStep == WellFormed /\ [Next]_vars => WellFormed'
<1> SUFFICES ASSUME WellFormed, [Next]_vars PROVE WellFormed'
  OBVIOUS
<1> USE DEF WellFormed, TypeOK, Control, Threads, Adding
<1>1. ASSUME NEW r \in Requests, NEW m \in Macs, NEW c \in Codes \cup {Permanent},
             Login(r, m, c)
       PROVE  WellFormed'
  <2>1. TypeOK'
    BY <1>1 DEF Login, Begin, Goto, stores, setting
  <2>2. Control'
    BY <1>1 DEF Login, Begin, Goto, stores, setting
  <2>3. QED
    BY <2>1, <2>2
<1>2. ASSUME NEW r \in Requests, NEW m \in Macs, Logout(r, m)
       PROVE  WellFormed'
  <2>1. TypeOK'
    BY <1>2 DEF Logout, Begin, Goto, stores, setting
  <2>2. Control'
    BY <1>2 DEF Logout, Begin, Goto, stores, setting
  <2>3. QED
    BY <2>1, <2>2
<1>3. ASSUME NEW r \in Requests, NEW m \in Macs, Revoke(r, m)
       PROVE  WellFormed'
  <2>1. TypeOK'
    BY <1>3 DEF Revoke, Begin, Goto, stores, setting
  <2>2. Control'
    BY <1>3 DEF Revoke, Begin, Goto, stores, setting
  <2>3. QED
    BY <2>1, <2>2
<1>4. ASSUME NEW r \in Requests, NEW c \in Codes, RevokeCode(r, c)
       PROVE  WellFormed'
  <2>1. TypeOK'
    BY <1>4 DEF RevokeCode, Begin, Goto, stores, history, Voucher, setting
  <2>2. Control'
    BY <1>4 DEF RevokeCode, Begin, Goto, stores, history, Voucher, setting
  <2>3. QED
    BY <2>1, <2>2
<1>5. ASSUME NEW r \in Requests, NEW b \in SUBSET Codes, CreateCodes(r, b)
       PROVE  WellFormed'
  <2>1. TypeOK'
    BY <1>5 DEF CreateCodes, Begin, Goto, stores, Fresh, Voucher, Never, setting
  <2>2. Control'
    BY <1>5 DEF CreateCodes, Begin, Goto, stores, Fresh, Voucher, Never, setting
  <2>3. QED
    BY <2>1, <2>2
<1>6. ASSUME NEW t \in Threads, ReadMacs(t)
       PROVE  WellFormed'
  <2>1. TypeOK'
    BY <1>6 DEF ReadMacs, Goto, stores, history, setting
  <2>2. Control'
    BY <1>6 DEF ReadMacs, Goto, stores, history, setting
  <2>3. QED
    BY <2>1, <2>2
<1>7. ASSUME NEW t \in Threads, WriteMacs(t)
       PROVE  WellFormed'
  <2>1. TypeOK'
    BY <1>7 DEF WriteMacs, Goto, history, setting
  <2>2. Control'
    BY <1>7 DEF WriteMacs, Goto, history, setting
  <2>3. QED
    BY <2>1, <2>2
<1>8. ASSUME NEW t \in Threads, Whitelist(t)
       PROVE  WellFormed'
  <2>1. TypeOK'
    BY <1>8 DEF Whitelist, Goto, AfterMac, history, setting
  <2>2. Control'
    BY <1>8 DEF Whitelist, Goto, AfterMac, history, setting
  <2>3. QED
    BY <2>1, <2>2
<1>9. ASSUME NEW t \in Threads, FlushRules(t)
       PROVE  WellFormed'
  <2>1. TypeOK'
    BY <1>9 DEF FlushRules, Goto, history, setting
  <2>2. Control'
    BY <1>9 DEF FlushRules, Goto, history, setting
  <2>3. QED
    BY <2>1, <2>2
<1>10. ASSUME NEW t \in Threads, FillRules(t)
       PROVE  WellFormed'
  <2>1. TypeOK'
    BY <1>10 DEF FillRules, Goto, AfterMac, history, setting
  <2>2. Control'
    BY <1>10 DEF FillRules, Goto, AfterMac, history, setting
  <2>3. QED
    BY <2>1, <2>2
<1>11. ASSUME NEW t \in Threads, ReadSessions(t)
       PROVE  WellFormed'
  <2>1. TypeOK'
    BY <1>11, ExpiryType DEF ReadSessions, Goto, stores, history, OthersOf, Session, setting
  <2>2. Control'
    BY <1>11, ExpiryType DEF ReadSessions, Goto, stores, history, OthersOf, Session, setting
  <2>3. QED
    BY <2>1, <2>2
<1>12. ASSUME NEW t \in Threads, WriteSessions(t)
       PROVE  WellFormed'
  <2>1. TypeOK'
    BY <1>12 DEF WriteSessions, Goto, history, setting
  <2>2. Control'
    BY <1>12 DEF WriteSessions, Goto, history, setting
  <2>3. QED
    BY <2>1, <2>2
<1>13. ASSUME NEW t \in Threads, ReadCodes(t)
       PROVE  WellFormed'
  <2>1. TypeOK'
    BY <1>13, ActivatedType DEF ReadCodes, Goto, RestLabel, stores, history, setting
  <2>2. Control'
    BY <1>13, ActivatedType DEF ReadCodes, Goto, RestLabel, stores, history, setting
  <2>3. QED
    BY <2>1, <2>2
<1>14. ASSUME NEW t \in Threads, WriteCodes(t)
       PROVE  WellFormed'
  <2>1. TypeOK'
    BY <1>14 DEF WriteCodes, Goto, RestLabel, setting
  <2>2. Control'
    BY <1>14 DEF WriteCodes, Goto, RestLabel, setting
  <2>3. QED
    BY <2>1, <2>2
<1>15. ASSUME NEW s \in Sweepers, SweepSessions(s)
       PROVE  WellFormed'
  <2>1. TypeOK'
    BY <1>15 DEF SweepSessions, Goto, MacsOf, stores, history, Session, setting
  <2>2. Control'
    BY <1>15 DEF SweepSessions, Goto, MacsOf, stores, history, Session, setting
  <2>3. QED
    BY <2>1, <2>2
<1>16. ASSUME NEW s \in Sweepers, Restore(s)
       PROVE  WellFormed'
  <2>1. TypeOK'
    BY <1>16 DEF Restore, Goto, MacsOf, stores, history, Session, setting
  <2>2. Control'
    BY <1>16 DEF Restore, Goto, MacsOf, stores, history, Session, setting
  <2>3. QED
    BY <2>1, <2>2
<1>17. ASSUME NEW s \in Sweepers, NextMac(s)
       PROVE  WellFormed'
  <2>1. TypeOK'
    BY <1>17 DEF NextMac, Goto, stores, history, setting
  <2>2. Control'
    BY <1>17 DEF NextMac, Goto, stores, history, setting
  <2>3. QED
    BY <2>1, <2>2
<1>18. ASSUME NEW s \in Sweepers, RestartDashboard(s)
       PROVE  WellFormed'
  <2>1. TypeOK'
    BY <1>18 DEF RestartDashboard, OnlyThread, Interrupted, setting
  <2>2. Control'
    BY <1>18 DEF RestartDashboard, OnlyThread, stores, history, setting
  <2>3. QED
    BY <2>1, <2>2
<1>19. ASSUME NEW s \in Sweepers, Reboot(s)
       PROVE  WellFormed'
  <2>1. TypeOK'
    <3>1. chained' \in BOOLEAN /\ botched' \in BOOLEAN /\ enforced' \in BOOLEAN
      BY <1>19 DEF Reboot, setting
    <3>2. QED
      BY <3>1, <1>19 DEF Reboot, OnlyThread, Interrupted, setting
  <2>2. Control'
    BY <1>19 DEF Reboot, OnlyThread, history, setting
  <2>3. QED
    BY <2>1, <2>2
<1>20. ASSUME NEW s \in Sweepers, SwitchOn(s)
       PROVE  WellFormed'
  <2>1. TypeOK'
    BY <1>20 DEF SwitchOn, Goto, stores, history
  <2>2. Control'
    BY <1>20 DEF SwitchOn, Goto, stores, history
  <2>3. QED
    BY <2>1, <2>2
<1>21. CASE SwitchOff
  <2>1. TypeOK'
    <3>1. portalOn' \in BOOLEAN
      BY <1>21, Zenon DEF SwitchOff
    <3>2. macs' \in SUBSET Macs
      BY <1>21 DEF SwitchOff
    <3>3. toggles' \in Nat
      BY <1>21 DEF SwitchOff
    <3>4. UNCHANGED <<sessions, codes, firewall, locals, history, overlap, now,
                      restarts, kills>>
      BY <1>21 DEF SwitchOff
    <3>5. /\ enforced' \in BOOLEAN /\ overlap' \in BOOLEAN
          /\ chained' \in BOOLEAN /\ botched' \in BOOLEAN
      BY <3>4
    <3>6. QED
      BY <3>1, <3>2, <3>3, <3>4, <3>5 DEF locals, history
  <2>2. Control'
    BY <1>21 DEF SwitchOff, locals, history
  <2>3. QED
    BY <2>1, <2>2
<1>22. CASE RestartHotspot
  <2>1. TypeOK'
    <3>1. chained' \in BOOLEAN /\ botched' \in BOOLEAN /\ enforced' \in BOOLEAN
      BY <1>22 DEF RestartHotspot, setting
    <3>2. QED
      BY <3>1, <1>22 DEF RestartHotspot, locals, history, setting
  <2>2. Control'
    BY <1>22 DEF RestartHotspot, locals, history, setting
  <2>3. QED
    BY <2>1, <2>2
<1>23. CASE Tick
  <2>1. TypeOK'
    BY <1>23 DEF Tick, stores, locals, history, setting
  <2>2. Control'
    BY <1>23 DEF Tick, stores, locals, history, setting
  <2>3. QED
    BY <2>1, <2>2
<1>24. CASE UNCHANGED vars
  <2>1. TypeOK'
    BY <1>24 DEF vars, stores, locals, history, setting
  <2>2. Control'
    BY <1>24 DEF vars, stores, locals, history, setting
  <2>3. QED
    BY <2>1, <2>2
<1>25. ASSUME NEW t \in Threads, TimeOut(t)
       PROVE  WellFormed'
  <2>1. TypeOK'
    <3>1. chained' \in BOOLEAN /\ botched' \in BOOLEAN /\ enforced' \in BOOLEAN
      BY <1>25 DEF TimeOut
    <3>2. QED
      BY <3>1, <1>25 DEF TimeOut, Goto, AfterMac, history, setting
  <2>2. Control'
    BY <1>25 DEF TimeOut, Goto, AfterMac, history, setting
  <2>3. QED
    BY <2>1, <2>2
<1>26. QED
  BY <1>1, <1>2, <1>3, <1>4, <1>5, <1>6, <1>7, <1>8,
     <1>9, <1>10, <1>11, <1>12, <1>13, <1>14, <1>15, <1>16,
     <1>17, <1>18, <1>19, <1>20, <1>21, <1>22, <1>23, <1>24, <1>25
     DEF Next, Request, FileStep, SweepStep

(* At first the stores are empty, but for the codes, and no thread is at work. *)
LEMMA WellFormedInit == Init => WellFormed
<1> SUFFICES ASSUME Init PROVE WellFormed
  OBVIOUS
<1>1. chained \in BOOLEAN /\ botched \in BOOLEAN /\ enforced \in BOOLEAN
  BY DEF Init
<1>2. portalOn \in BOOLEAN /\ overlap \in BOOLEAN
  BY DEF Init
<1>3. TypeOK
  BY <1>1, <1>2 DEF Init, TypeOK, Threads, Fresh, Voucher, Never
<1>4. Control
  BY DEF Init, Control, Threads, Adding
<1>5. QED
  BY <1>3, <1>4 DEF WellFormed

(* However requests and sweeps overlap and the dashboard and the machine
   restart, every file, and all a thread holds, has its type: TypeOK. *)
THEOREM TypeCorrect == Spec => []TypeOK
<1>1. Init => WellFormed
  BY WellFormedInit
<1>2. QED
  BY <1>1, WellFormedStep, PTL DEF Spec, WellFormed

-----------------------------------------------------------------------------
(* Every list a thread computes is a part of one it
   read, and a login puts its client's session in after taking the old one out.
   No step makes a second session of one client. *)
LEMMA OneSessionEachStep == WellFormed /\ OneSessionEach /\ [Next]_vars => OneSessionEach'
<1> SUFFICES ASSUME WellFormed, OneSessionEach, [Next]_vars PROVE OneSessionEach'
  OBVIOUS
<1> USE DEF OneSessionEach, OneSessionPerMac, Threads
<1>1. ASSUME NEW r \in Requests, NEW m \in Macs, NEW c \in Codes \cup {Permanent},
             Login(r, m, c)
       PROVE  OneSessionEach'
  BY <1>1 DEF Login, Begin, Goto, stores, setting
<1>2. ASSUME NEW r \in Requests, NEW m \in Macs, Logout(r, m)
       PROVE  OneSessionEach'
  BY <1>2 DEF Logout, Begin, Goto, stores, setting
<1>3. ASSUME NEW r \in Requests, NEW m \in Macs, Revoke(r, m)
       PROVE  OneSessionEach'
  BY <1>3 DEF Revoke, Begin, Goto, stores, setting
<1>4. ASSUME NEW r \in Requests, NEW c \in Codes, RevokeCode(r, c)
       PROVE  OneSessionEach'
  BY <1>4 DEF RevokeCode, Begin, Goto, stores, history, Voucher, setting
<1>5. ASSUME NEW r \in Requests, NEW b \in SUBSET Codes, CreateCodes(r, b)
       PROVE  OneSessionEach'
  BY <1>5 DEF CreateCodes, Begin, Goto, stores, Fresh, Voucher, Never, setting
<1>6. ASSUME NEW t \in Threads, ReadMacs(t)
       PROVE  OneSessionEach'
  BY <1>6 DEF ReadMacs, Goto, stores, history, setting
<1>7. ASSUME NEW t \in Threads, WriteMacs(t)
       PROVE  OneSessionEach'
  BY <1>7 DEF WriteMacs, Goto, history, setting
<1>8. ASSUME NEW t \in Threads, Whitelist(t)
       PROVE  OneSessionEach'
  BY <1>8 DEF Whitelist, Goto, AfterMac, history, setting
<1>9. ASSUME NEW t \in Threads, FlushRules(t)
       PROVE  OneSessionEach'
  BY <1>9 DEF FlushRules, Goto, history, setting
<1>10. ASSUME NEW t \in Threads, FillRules(t)
       PROVE  OneSessionEach'
  BY <1>10 DEF FillRules, Goto, AfterMac, history, setting
<1>11. ASSUME NEW t \in Threads, ReadSessions(t)
       PROVE  OneSessionEach'
  <2> DEFINE duration == IF code[t] = Permanent THEN 0 ELSE Duration
             entry == [mac |-> mac[t], code |-> code[t],
                       expires |-> ExpiryAfter(duration)]
  <2>1. /\ \/ outSessions'[t] = OthersOf(mac[t]) \cup {entry}
           \/ outSessions'[t] \subseteq OthersOf(mac[t])
        /\ \A u \in Threads \ {t} : outSessions'[u] = outSessions[u]
        /\ UNCHANGED sessions
    BY <1>11 DEF ReadSessions, WellFormed, TypeOK, Control, stores, history
  <2>2. entry.mac = mac[t] /\ \A x \in OthersOf(mac[t]) : x \in sessions /\ x.mac # mac[t]
    BY DEF OthersOf
  <2> HIDE DEF entry
  <2>3. OneSessionPerMac(outSessions'[t])
    BY <2>1, <2>2
  <2>4. QED
    BY <2>1, <2>3
<1>12. ASSUME NEW t \in Threads, WriteSessions(t)
       PROVE  OneSessionEach'
  BY <1>12 DEF WriteSessions, Goto, history, setting, WellFormed, TypeOK
<1>13. ASSUME NEW t \in Threads, ReadCodes(t)
       PROVE  OneSessionEach'
  BY <1>13, ActivatedType DEF ReadCodes, Goto, RestLabel, stores, history, setting
<1>14. ASSUME NEW t \in Threads, WriteCodes(t)
       PROVE  OneSessionEach'
  BY <1>14 DEF WriteCodes, Goto, RestLabel, setting
<1>15. ASSUME NEW s \in Sweepers, SweepSessions(s)
       PROVE  OneSessionEach'
  BY <1>15
     DEF SweepSessions, Goto, MacsOf, stores, history, Session, setting, WellFormed, TypeOK
<1>16. ASSUME NEW s \in Sweepers, Restore(s)
       PROVE  OneSessionEach'
  BY <1>16 DEF Restore, Goto, MacsOf, stores, history, Session, setting
<1>17. ASSUME NEW s \in Sweepers, NextMac(s)
       PROVE  OneSessionEach'
  BY <1>17 DEF NextMac, Goto, stores, history, setting
<1>18. ASSUME NEW s \in Sweepers, RestartDashboard(s)
       PROVE  OneSessionEach'
  BY <1>18 DEF RestartDashboard, OnlyThread, stores, history, setting
<1>19. ASSUME NEW s \in Sweepers, Reboot(s)
       PROVE  OneSessionEach'
  BY <1>19 DEF Reboot, OnlyThread, history, setting
<1>20. ASSUME NEW s \in Sweepers, SwitchOn(s)
       PROVE  OneSessionEach'
  BY <1>20 DEF SwitchOn, Goto, stores, history
<1>21. CASE SwitchOff
  BY <1>21 DEF SwitchOff, locals, history
<1>22. CASE RestartHotspot
  BY <1>22 DEF RestartHotspot, locals, history, setting
<1>23. CASE Tick
  BY <1>23 DEF Tick, stores, locals, history, setting
<1>24. CASE UNCHANGED vars
  BY <1>24 DEF vars, stores, locals, history, setting
<1>25. ASSUME NEW t \in Threads, TimeOut(t)
       PROVE  OneSessionEach'
  BY <1>25 DEF TimeOut, Goto, AfterMac, history, setting
<1>26. QED
  BY <1>1, <1>2, <1>3, <1>4, <1>5, <1>6, <1>7, <1>8,
     <1>9, <1>10, <1>11, <1>12, <1>13, <1>14, <1>15, <1>16,
     <1>17, <1>18, <1>19, <1>20, <1>21, <1>22, <1>23, <1>24, <1>25
     DEF Next, Request, FileStep, SweepStep

(* Whatever stale lists overlapping threads write over each other, there is
   never a second session of one client, in the file or in what a thread is
   about to write: OneSessionEach. *)
THEOREM SessionsUnique == Spec => []OneSessionEach
<1>1. Init => WellFormed
  BY WellFormedInit
<1>2. Init => OneSessionEach
  BY DEF Init, OneSessionEach, OneSessionPerMac, Threads
<1>3. QED
  BY <1>1, <1>2, WellFormedStep, OneSessionEachStep, PTL DEF Spec

-----------------------------------------------------------------------------
(* A thread that is about to put a client on the list serves one that logged in. *)
Serving == \A t \in Threads :
    /\ job[t] = "login" => mac[t] \in clients
    /\ Adding(t) /\ pc[t] \in {"readMacs", "writeMacs", "whitelist"} =>
           mac[t] \in clients

Served == OnlyClients /\ Serving

(* No step lets in a client that never logged in. *)
LEMMA ServedStep == WellFormed /\ Served /\ [Next]_vars => Served'
<1> SUFFICES ASSUME WellFormed, Served, [Next]_vars PROVE Served'
  OBVIOUS
<1> USE DEF Served, OnlyClients, Serving, Threads, MacsOf, Adding
<1>1. ASSUME NEW r \in Requests, NEW m \in Macs, NEW c \in Codes \cup {Permanent},
             Login(r, m, c)
       PROVE  Served'
  BY <1>1 DEF Login, Begin, Goto, stores, setting, WellFormed, TypeOK
<1>2. ASSUME NEW r \in Requests, NEW m \in Macs, Logout(r, m)
       PROVE  Served'
  BY <1>2 DEF Logout, Begin, Goto, stores, setting, WellFormed, TypeOK
<1>3. ASSUME NEW r \in Requests, NEW m \in Macs, Revoke(r, m)
       PROVE  Served'
  BY <1>3 DEF Revoke, Begin, Goto, stores, setting, WellFormed, TypeOK
<1>4. ASSUME NEW r \in Requests, NEW c \in Codes, RevokeCode(r, c)
       PROVE  Served'
  BY <1>4 DEF RevokeCode, Begin, Goto, stores, history, Voucher, setting, WellFormed, TypeOK
<1>5. ASSUME NEW r \in Requests, NEW b \in SUBSET Codes, CreateCodes(r, b)
       PROVE  Served'
  BY <1>5
     DEF CreateCodes, Begin, Goto, stores, Fresh, Voucher, Never, setting, WellFormed,
         TypeOK
<1>6. ASSUME NEW t \in Threads, ReadMacs(t)
       PROVE  Served'
  BY <1>6 DEF ReadMacs, Goto, stores, history, setting, WellFormed, TypeOK
<1>7. ASSUME NEW t \in Threads, WriteMacs(t)
       PROVE  Served'
  BY <1>7 DEF WriteMacs, Goto, history, setting, WellFormed, TypeOK
<1>8. ASSUME NEW t \in Threads, Whitelist(t)
       PROVE  Served'
  BY <1>8 DEF Whitelist, Goto, AfterMac, history, setting, WellFormed, TypeOK, Control
<1>9. ASSUME NEW t \in Threads, FlushRules(t)
       PROVE  Served'
  BY <1>9 DEF FlushRules, Goto, history, setting, WellFormed, TypeOK, Control
<1>10. ASSUME NEW t \in Threads, FillRules(t)
       PROVE  Served'
  BY <1>10 DEF FillRules, Goto, AfterMac, history, setting, WellFormed, TypeOK, Control
<1>11. ASSUME NEW t \in Threads, ReadSessions(t)
       PROVE  Served'
  BY <1>11
     DEF ReadSessions, Goto, stores, history, OthersOf, Session, setting, WellFormed,
         TypeOK, Control
<1>12. ASSUME NEW t \in Threads, WriteSessions(t)
       PROVE  Served'
  BY <1>12 DEF WriteSessions, Goto, history, setting, WellFormed, TypeOK
<1>13. ASSUME NEW t \in Threads, ReadCodes(t)
       PROVE  Served'
  BY <1>13 DEF ReadCodes, Goto, RestLabel, stores, history, setting, WellFormed, TypeOK
<1>14. ASSUME NEW t \in Threads, WriteCodes(t)
       PROVE  Served'
  BY <1>14 DEF WriteCodes, Goto, RestLabel, setting, WellFormed, TypeOK
<1>15. ASSUME NEW s \in Sweepers, SweepSessions(s)
       PROVE  Served'
  BY <1>15
     DEF SweepSessions, Goto, MacsOf, stores, history, Session, setting, WellFormed, TypeOK
<1>16. ASSUME NEW s \in Sweepers, Restore(s)
       PROVE  Served'
  BY <1>16 DEF Restore, Goto, MacsOf, stores, history, Session, setting, WellFormed, TypeOK
<1>17. ASSUME NEW s \in Sweepers, NextMac(s)
       PROVE  Served'
  BY <1>17 DEF NextMac, Goto, stores, history, setting, WellFormed, TypeOK, Control
<1>18. ASSUME NEW s \in Sweepers, RestartDashboard(s)
       PROVE  Served'
  BY <1>18 DEF RestartDashboard, OnlyThread, stores, history, setting
<1>19. ASSUME NEW s \in Sweepers, Reboot(s)
       PROVE  Served'
  BY <1>19 DEF Reboot, OnlyThread, history, setting
<1>20. ASSUME NEW s \in Sweepers, SwitchOn(s)
       PROVE  Served'
  BY <1>20 DEF SwitchOn, Goto, stores, history, WellFormed, TypeOK
<1>21. CASE SwitchOff
  BY <1>21 DEF SwitchOff, locals, history
<1>22. CASE RestartHotspot
  BY <1>22 DEF RestartHotspot, locals, history, setting
<1>23. CASE Tick
  BY <1>23 DEF Tick, stores, locals, history, setting
<1>24. CASE UNCHANGED vars
  BY <1>24 DEF vars, stores, locals, history, setting
<1>25. ASSUME NEW t \in Threads, TimeOut(t)
       PROVE  Served'
  BY <1>25 DEF TimeOut, Goto, AfterMac, history, setting, WellFormed, TypeOK, Control
<1>26. QED
  BY <1>1, <1>2, <1>3, <1>4, <1>5, <1>6, <1>7, <1>8,
     <1>9, <1>10, <1>11, <1>12, <1>13, <1>14, <1>15, <1>16,
     <1>17, <1>18, <1>19, <1>20, <1>21, <1>22, <1>23, <1>24, <1>25
     DEF Next, Request, FileStep, SweepStep

(* Whatever overlaps, dies or restarts, only a client that logged in once is on
   the list, accepted by the firewall or in the session file: OnlyClients. *)
THEOREM OnlyClientsEnter == Spec => []OnlyClients
<1>1. Init => WellFormed
  BY WellFormedInit
<1>2. Init => Served
  BY DEF Init, Served, OnlyClients, Serving, MacsOf, Adding, Threads
<1>3. QED
  BY <1>1, <1>2, WellFormedStep, ServedStep, PTL DEF Spec, Served

(* A stale write makes no client twice, and none of nothing. *)
THEOREM StaleWritesAreHarmless == Spec => []StaleWritesHarmless
<1>1. OneSessionEach /\ OnlyClients => StaleWritesHarmless
  BY DEF StaleWritesHarmless
<1>2. QED
  BY <1>1, SessionsUnique, OnlyClientsEnter, PTL

-----------------------------------------------------------------------------
(* While nothing overlaps, one thread t is at work at most.  The facts below say
   for each place of its program what it has already written and what is left. *)
Doing(t, jobs, labels) == job[t] \in jobs /\ pc[t] \in labels

FileLabels == {"readMacs", "writeMacs", "whitelist", "flush", "fill",
               "readSessions", "writeSessions", "readCodes", "writeCodes"}

(* Which thread can be where. *)
Places(t) ==
    /\ pc[t] \in {"flush", "fill"} => job[t] \in {"logout", "revoke", "revokeCode", "sweep"}
    /\ pc[t] = "writeSessions" => job[t] \in {"login", "logout", "revokeCode", "sweep"}
    /\ pc[t] = "readCodes" => job[t] \in {"login", "sweep"}
    /\ pc[t] = "writeCodes" => job[t] \in {"login", "sweep", "revokeCode", "create"}
    /\ Doing(t, {"login"}, {"readCodes", "writeCodes"}) => code[t] # Permanent
    /\ Doing(t, {"logout"}, FileLabels) => mac[t] \in Macs
    /\ pc[t] \in FileLabels /\ t \in Requests => job[t] \notin {"sweep", "boot"}
    /\ t \in Sweepers /\ pc[t] \in FileLabels => job[t] \in {"sweep", "boot"}

(* What it is about to write over the list of MACs and over the sessions. *)
Writing(t) ==
    /\ pc[t] = "writeMacs" =>
           outMacs[t] = IF Adding(t) THEN macs \cup {mac[t]} ELSE macs \ {mac[t]}
    /\ Doing(t, {"login"}, {"writeSessions"}) =>
           \E new \in outSessions[t] :
               /\ new.mac = mac[t] /\ new.code = code[t]
               /\ outSessions[t] = OthersOf(mac[t]) \cup {new}
    /\ Doing(t, {"logout"}, {"writeSessions"}) => outSessions[t] = OthersOf(mac[t])
    /\ Doing(t, {"revokeCode"}, {"writeSessions"}) =>
           outSessions[t] = {s \in OthersOf(mac[t]) : s.code # code[t]}

(* ... and over the codes. *)
WritingCodes(t) ==
    /\ Doing(t, {"login"}, {"writeCodes"}) =>
           /\ \A v \in codes : v.id # code[t] => v \in outCodes[t]
           /\ \A w \in outCodes[t] : \E v \in codes :
                 /\ v.id = w.id
                 /\ v.id # code[t] => w = v
                 /\ v.id = code[t] => w.bound = IF v.bound = NoMac THEN mac[t] ELSE v.bound
           /\ \A w, x \in outCodes[t] : w.id = x.id => w = x
    /\ Doing(t, {"sweep"}, {"writeCodes"}) => outCodes[t] \subseteq codes
    /\ Doing(t, {"revokeCode"}, {"writeCodes"}) =>
           \E v \in codes : /\ v.id = code[t] /\ v.bound = mac[t]
                            /\ outCodes[t] = codes \ {v}
    /\ Doing(t, {"create"}, {"writeCodes"}) =>
           \E batch \in SUBSET minted :
               /\ outCodes[t] = codes \cup {Fresh(c) : c \in batch}
               /\ \A c \in batch : /\ \A v \in codes : v.id # c
                                   /\ \A s \in sessions : s.code # c
                                   /\ c \notin retired

Sweeping == {"next", "readMacs", "writeMacs", "flush", "fill", "writeSessions"}

(* The sessions a sweep takes out have expired, and their clients are taken off
   the list one by one before. *)
SweepingOut(t) == Doing(t, {"sweep"}, Sweeping) =>
    /\ outSessions[t] \subseteq sessions
    /\ \A x \in sessions \ outSessions[t] :
          /\ Expired(x.expires)
          /\ x.mac \in macs => \/ x.mac \in todo[t]
                               \/ pc[t] \in {"readMacs", "writeMacs"} /\ x.mac = mac[t]
    /\ \A m \in todo[t] : \E x \in sessions \ outSessions[t] : x.mac = m
    /\ pc[t] \in {"readMacs", "writeMacs"} =>
          \E x \in sessions \ outSessions[t] : x.mac = mac[t]
    /\ pc[t] = "writeSessions" => todo[t] = {}

(* The restoration puts on the list who has a session. *)
PutBack == {"next", "readMacs", "writeMacs", "whitelist"}

PuttingBack(t) == Doing(t, {"boot"}, PutBack) =>
    /\ \A m \in todo[t] : \E s \in sessions : s.mac = m
    /\ pc[t] # "next" => \E s \in sessions : s.mac = mac[t]

MacAdded == {"whitelist", "readSessions", "writeSessions"}
MacRemoved == {"flush", "fill", "readSessions", "writeSessions"}

(* A client is on the list before its session is in the file, and off the list
   before its session is out of the file. *)
Listed(t) ==
    /\ \A m \in macs :
          \/ \E s \in sessions : s.mac = m
          \/ Doing(t, {"login"}, MacAdded) /\ m = mac[t]
          \/ m \in halfway
    /\ Doing(t, {"login"}, MacAdded) => mac[t] \in macs
    /\ Doing(t, {"boot"}, {"whitelist"}) => mac[t] \in macs
    /\ Doing(t, {"logout", "revokeCode"}, MacRemoved) => mac[t] \notin macs

(* Who has a session that has not expired is on the list, or about to be put
   there, or about to lose the session, or has been disconnected. *)
Admitted(t) == portalOn => \A s \in sessions :
    \/ Expired(s.expires)
    \/ s.mac \in macs
    \/ grant[s.mac] = NoCode
    \/ pc[t] = "restore"
    \/ Doing(t, {"boot"}, PutBack) /\ s.mac \in todo[t]
    \/ Doing(t, {"login", "boot"}, {"readMacs", "writeMacs"}) /\ s.mac = mac[t]
    \/ Doing(t, {"logout", "revokeCode"}, MacRemoved) /\ s.mac = mac[t]

(* What the rules accept while they are being changed, if no command is cut
   short. *)
Enforced(t) == toggles = 0 =>
    /\ portalOn
    /\ enforced => chained
    /\ pc[t] = "fill" => rules \subseteq macs /\ chained
    /\ ~botched /\ pc[t] = "whitelist" => enforced /\ rules \cup {mac[t]} = macs
    /\ ~botched /\ pc[t] \notin {"flush", "fill", "whitelist"} => enforced /\ rules = macs

BeforeSession == {"readMacs", "writeMacs", "whitelist", "readSessions", "writeSessions"}

(* A session is of the code its client came in with last. *)
Held(t) ==
    /\ Doing(t, {"login"}, FileLabels) => grant[mac[t]] = code[t]
    /\ Doing(t, {"logout", "revoke"}, FileLabels) => grant[mac[t]] = NoCode
    /\ \A s \in sessions :
          \/ grant[s.mac] \in {s.code, NoCode}
          \/ Doing(t, {"login"}, BeforeSession) /\ s.mac = mac[t]
          \/ s.mac \in halfway

(* A session without a code is that of a client that is logging out, that the
   administrator disconnected, or whose request died halfway. *)
Open(t) == \A s \in sessions : grant[s.mac] = NoCode =>
    \/ Doing(t, {"logout"}, FileLabels) /\ s.mac = mac[t]
    \/ s.mac \in disconnected \cup halfway

(* Until something restarts nobody is put back on the list: who is on it has a
   code, or is being taken off. *)
Gone(t) == restarts = 0 /\ toggles = 0 =>
    /\ pc[t] # "restore" /\ ~Doing(t, {"boot"}, PutBack)
    /\ \A m \in macs : grant[m] = NoCode =>
          Doing(t, {"logout", "revoke"}, {"readMacs", "writeMacs"}) /\ m = mac[t]

(* The vouchers: known, each once, none revoked. *)
Minted ==
    /\ retired \subseteq minted
    /\ \A v \in codes : v.id \in minted \ retired
    /\ \A v, w \in codes : v.id = w.id => v = w
    /\ \A s \in sessions : s.code \in minted \cup {Permanent}

(* A login comes with a code that is the client's, or about to be. *)
Presented(t) == Doing(t, {"login"}, FileLabels) =>
    /\ code[t] \in (minted \ retired) \cup {Permanent}
    /\ \A v \in codes : v.id = code[t] => v.bound \in {NoMac, mac[t]}

(* The sessions of a voucher are its client's ... *)
Bound(t) == \A s \in sessions, v \in codes : s.code = v.id =>
    \/ v.bound = s.mac
    \/ /\ Doing(t, {"login"}, {"readCodes", "writeCodes"})
       /\ s.mac = mac[t] /\ v.id = code[t]
    \/ s.mac \in halfway

AfterCodes == {"readMacs", "writeMacs", "flush", "fill", "readSessions", "writeSessions"}

(* ... and go with it. *)
Revoked(t) ==
    /\ Doing(t, {"revokeCode"}, AfterCodes) =>
           \A s \in sessions : s.code = code[t] => s.mac = mac[t] \/ s.mac \in halfway
    /\ \A s \in sessions : s.code \in retired =>
           \/ Doing(t, {"revokeCode"}, AfterCodes) /\ s.code = code[t]
           \/ s.mac \in halfway

Progress(t) ==
    /\ Places(t) /\ Writing(t) /\ WritingCodes(t) /\ SweepingOut(t) /\ PuttingBack(t)
    /\ Listed(t) /\ Held(t) /\ Minted /\ Presented(t) /\ Bound(t) /\ Revoked(t)
    /\ Admitted(t) /\ Open(t) /\ Gone(t)
    /\ Backend = "nft" => Enforced(t)

OneAtWork == ~overlap => \E t \in Threads :
    /\ \A u \in Threads \ {t} : AtRest(u)
    /\ Progress(t)

(* A login begins with a code that the client may use. *)
LEMMA LoginKeeps ==
    ASSUME WellFormed, OneSessionEach, NEW t \in Requests, NEW m \in Macs,
           NEW c \in Codes \cup {Permanent}, Progress(t), Quiet, Login(t, m, c)
    PROVE  Progress(t)'
<1> USE DEF WellFormed, TypeOK, Threads, Progress, Doing, AtRest, Adding
<1>1. Places(t)'
  BY DEF Login, Places, Begin, Goto, stores, setting, FileLabels
<1>2. Writing(t)'
  BY DEF Login, Writing, Begin, Goto, stores, setting, OthersOf
<1>3. WritingCodes(t)'
  BY DEF Login, WritingCodes, Begin, Goto, stores, setting
<1>4. SweepingOut(t)'
  BY DEF Login, SweepingOut, Begin, Goto, stores, setting, Sweeping, Expired
<1>5. PuttingBack(t)'
  BY DEF Login, PuttingBack, Begin, Goto, stores, setting, PutBack
<1>6. Listed(t)'
  BY DEF Login, Listed, Begin, Goto, stores, setting, MacAdded, MacRemoved
<1>7. Held(t)'
  BY DEF Login, Held, Begin, Goto, stores, setting, BeforeSession, FileLabels
<1>8. Minted'
  BY DEF Login, Minted, Begin, Goto, stores, setting
<1>9. Presented(t)'
  BY DEF Login, Presented, Begin, Goto, stores, setting, FileLabels, Minted, Accepts
<1>10. Bound(t)'
  BY DEF Login, Bound, Begin, Goto, stores, setting
<1>11. Revoked(t)'
  BY DEF Login, Revoked, Begin, Goto, stores, setting, AfterCodes
<1>12. Admitted(t)'
  BY DEF Login, Admitted, Begin, Goto, stores, setting, Expired, PutBack, MacRemoved
<1>13. Open(t)'
  BY DEF Login, Open, Begin, Goto, stores, setting, FileLabels
<1>14. Backend = "nft" => Enforced(t)'
  BY DEF Login, Enforced, Begin, Goto, stores, setting
<1>15. Gone(t)'
  BY DEF Login, Gone, PutBack, Held, FileLabels, Begin, Goto, stores, setting
<1>16. QED
  BY <1>1, <1>2, <1>3, <1>4, <1>5, <1>6, <1>7, <1>8, <1>9, <1>10, <1>11, <1>12, <1>13, <1>14,
     <1>15

(* A logout begins: its client is without a code from now on. *)
LEMMA LogoutKeeps ==
    ASSUME WellFormed, OneSessionEach, NEW t \in Requests, NEW m \in Macs, Progress(t),
           Quiet, Logout(t, m)
    PROVE  Progress(t)'
<1> USE DEF WellFormed, TypeOK, Threads, Progress, Doing, AtRest, Adding
<1>1. Places(t)'
  BY DEF Logout, Places, Begin, Goto, stores, setting, FileLabels
<1>2. Writing(t)'
  BY DEF Logout, Writing, Begin, Goto, stores, setting, OthersOf
<1>3. WritingCodes(t)'
  BY DEF Logout, WritingCodes, Begin, Goto, stores, setting
<1>4. SweepingOut(t)'
  BY DEF Logout, SweepingOut, Begin, Goto, stores, setting, Sweeping, Expired
<1>5. PuttingBack(t)'
  BY DEF Logout, PuttingBack, Begin, Goto, stores, setting, PutBack
<1>6. Listed(t)'
  BY DEF Logout, Listed, Begin, Goto, stores, setting, MacAdded, MacRemoved
<1>7. Held(t)'
  BY DEF Logout, Held, Begin, Goto, stores, setting, BeforeSession, FileLabels
<1>8. Minted'
  BY DEF Logout, Minted, Begin, Goto, stores, setting
<1>9. Presented(t)'
  BY DEF Logout, Presented, Begin, Goto, stores, setting, FileLabels
<1>10. Bound(t)'
  BY DEF Logout, Bound, Begin, Goto, stores, setting
<1>11. Revoked(t)'
  BY DEF Logout, Revoked, Begin, Goto, stores, setting, AfterCodes
<1>12. Admitted(t)'
  BY DEF Logout, Admitted, Begin, Goto, stores, setting, Expired, PutBack, MacRemoved
<1>13. Open(t)'
  BY DEF Logout, Open, Begin, Goto, stores, setting, FileLabels
<1>14. Backend = "nft" => Enforced(t)'
  BY DEF Logout, Enforced, Begin, Goto, stores, setting
<1>15. Gone(t)'
  BY DEF Logout, Gone, PutBack, Held, FileLabels, Begin, Goto, stores, setting
<1>16. QED
  BY <1>1, <1>2, <1>3, <1>4, <1>5, <1>6, <1>7, <1>8, <1>9, <1>10, <1>11, <1>12, <1>13, <1>14,
     <1>15

(* The administrator begins to disconnect a client. *)
LEMMA RevokeKeeps ==
    ASSUME WellFormed, OneSessionEach, NEW t \in Requests, NEW m \in Macs, Progress(t),
           Quiet, Revoke(t, m)
    PROVE  Progress(t)'
<1> USE DEF WellFormed, TypeOK, Threads, Progress, Doing, AtRest, Adding
<1>1. Places(t)'
  BY DEF Revoke, Places, Begin, Goto, stores, setting, FileLabels
<1>2. Writing(t)'
  BY DEF Revoke, Writing, Begin, Goto, stores, setting, OthersOf
<1>3. WritingCodes(t)'
  BY DEF Revoke, WritingCodes, Begin, Goto, stores, setting
<1>4. SweepingOut(t)'
  BY DEF Revoke, SweepingOut, Begin, Goto, stores, setting, Sweeping, Expired
<1>5. PuttingBack(t)'
  BY DEF Revoke, PuttingBack, Begin, Goto, stores, setting, PutBack
<1>6. Listed(t)'
  BY DEF Revoke, Listed, Begin, Goto, stores, setting, MacAdded, MacRemoved
<1>7. Held(t)'
  BY DEF Revoke, Held, Begin, Goto, stores, setting, BeforeSession, FileLabels
<1>8. Minted'
  BY DEF Revoke, Minted, Begin, Goto, stores, setting
<1>9. Presented(t)'
  BY DEF Revoke, Presented, Begin, Goto, stores, setting, FileLabels
<1>10. Bound(t)'
  BY DEF Revoke, Bound, Begin, Goto, stores, setting
<1>11. Revoked(t)'
  BY DEF Revoke, Revoked, Begin, Goto, stores, setting, AfterCodes
<1>12. Admitted(t)'
  BY DEF Revoke, Admitted, Begin, Goto, stores, setting, Expired, PutBack, MacRemoved
<1>13. Open(t)'
  BY DEF Revoke, Open, Begin, Goto, stores, setting, FileLabels
<1>14. Backend = "nft" => Enforced(t)'
  BY DEF Revoke, Enforced, Begin, Goto, stores, setting
<1>15. Gone(t)'
  BY DEF Revoke, Gone, PutBack, Held, FileLabels, Begin, Goto, stores, setting
<1>16. QED
  BY <1>1, <1>2, <1>3, <1>4, <1>5, <1>6, <1>7, <1>8, <1>9, <1>10, <1>11, <1>12, <1>13, <1>14,
     <1>15

(* A revocation begins with the code as it is in the file. *)
LEMMA RevokeCodeKeeps ==
    ASSUME WellFormed, OneSessionEach, NEW t \in Requests, NEW c \in Codes, Progress(t),
           Quiet, RevokeCode(t, c)
    PROVE  Progress(t)'
<1> USE DEF WellFormed, TypeOK, Threads, Progress, Doing, AtRest, Adding
<1>1. Places(t)'
  BY DEF RevokeCode, Places, Begin, Goto, stores, history, setting, FileLabels
<1>2. Writing(t)'
  BY DEF RevokeCode, Writing, Begin, Goto, stores, history, setting, OthersOf
<1>3. WritingCodes(t)'
  BY DEF RevokeCode, WritingCodes, Begin, Goto, stores, history, setting
<1>4. SweepingOut(t)'
  BY DEF RevokeCode, SweepingOut, Begin, Goto, stores, history, setting, Sweeping, Expired
<1>5. PuttingBack(t)'
  BY DEF RevokeCode, PuttingBack, Begin, Goto, stores, history, setting, PutBack
<1>6. Listed(t)'
  BY DEF RevokeCode, Listed, Begin, Goto, stores, history, setting, MacAdded, MacRemoved
<1>7. Held(t)'
  BY DEF RevokeCode, Held, Begin, Goto, stores, history, setting, BeforeSession, FileLabels
<1>8. Minted'
  BY DEF RevokeCode, Minted, Begin, Goto, stores, history, setting
<1>9. Presented(t)'
  BY DEF RevokeCode, Presented, Begin, Goto, stores, history, setting, FileLabels
<1>10. Bound(t)'
  BY DEF RevokeCode, Bound, Begin, Goto, stores, history, setting
<1>11. Revoked(t)'
  BY DEF RevokeCode, Revoked, Begin, Goto, stores, history, setting, AfterCodes
<1>12. Admitted(t)'
  BY DEF RevokeCode, Admitted, Begin, Goto, stores, history, setting, Expired, PutBack,
         MacRemoved
<1>13. Open(t)'
  BY DEF RevokeCode, Open, Begin, Goto, stores, history, setting, FileLabels
<1>14. Backend = "nft" => Enforced(t)'
  BY DEF RevokeCode, Enforced, Begin, Goto, stores, history, setting
<1>15. Gone(t)'
  BY DEF RevokeCode, Gone, PutBack, Held, FileLabels, Begin, Goto, stores, history, setting
<1>16. QED
  BY <1>1, <1>2, <1>3, <1>4, <1>5, <1>6, <1>7, <1>8, <1>9, <1>10, <1>11, <1>12, <1>13, <1>14,
     <1>15

(* New codes are on no session and were never revoked. *)
LEMMA CreateCodesKeeps ==
    ASSUME WellFormed, OneSessionEach, NEW t \in Requests, NEW b \in SUBSET Codes,
           Progress(t), Quiet, CreateCodes(t, b)
    PROVE  Progress(t)'
<1> USE DEF WellFormed, TypeOK, Threads, Progress, Doing, AtRest, Adding
<1>1. Places(t)'
  BY DEF CreateCodes, Places, Begin, Goto, stores, setting, FileLabels
<1>2. Writing(t)'
  BY DEF CreateCodes, Writing, Begin, Goto, stores, setting, OthersOf
<1>3. WritingCodes(t)'
  <2>1. /\ job'[t] = "create" /\ pc'[t] = "writeCodes"
        /\ b \in SUBSET minted'
        /\ outCodes'[t] = codes \cup {Fresh(c) : c \in b}
        /\ \A c \in b : c \notin minted /\ c # Permanent
        /\ UNCHANGED <<codes, sessions, retired>>
    BY DEF CreateCodes, Begin, Goto, stores, setting
  <2>2. \A c \in b :
            /\ \A v \in codes : v.id # c
            /\ \A s \in sessions : s.code # c
            /\ c \notin retired
    BY <2>1 DEF Minted
  <2>3. \E batch \in SUBSET minted' :
           /\ outCodes'[t] = codes' \cup {Fresh(c) : c \in batch}
           /\ \A c \in batch : /\ \A v \in codes' : v.id # c
                               /\ \A s \in sessions' : s.code # c
                               /\ c \notin retired'
    BY <2>1, <2>2, Zenon
  <2>4. QED
    BY <2>1, <2>3 DEF WritingCodes
<1>4. SweepingOut(t)'
  BY DEF CreateCodes, SweepingOut, Begin, Goto, stores, setting, Sweeping, Expired
<1>5. PuttingBack(t)'
  BY DEF CreateCodes, PuttingBack, Begin, Goto, stores, setting, PutBack
<1>6. Listed(t)'
  BY DEF CreateCodes, Listed, Begin, Goto, stores, setting, MacAdded, MacRemoved
<1>7. Held(t)'
  BY DEF CreateCodes, Held, Begin, Goto, stores, setting, BeforeSession, FileLabels
<1>8. Minted'
  BY DEF CreateCodes, Minted, Begin, Goto, stores, setting
<1>9. Presented(t)'
  BY DEF CreateCodes, Presented, Begin, Goto, stores, setting, FileLabels
<1>10. Bound(t)'
  BY DEF CreateCodes, Bound, Begin, Goto, stores, setting
<1>11. Revoked(t)'
  BY DEF CreateCodes, Revoked, Begin, Goto, stores, setting, AfterCodes
<1>12. Admitted(t)'
  BY DEF CreateCodes, Admitted, Begin, Goto, stores, setting, Expired, PutBack, MacRemoved
<1>13. Open(t)'
  BY DEF CreateCodes, Open, Begin, Goto, stores, setting, FileLabels
<1>14. Backend = "nft" => Enforced(t)'
  BY DEF CreateCodes, Enforced, Begin, Goto, stores, setting
<1>15. Gone(t)'
  BY DEF CreateCodes, Gone, PutBack, Held, FileLabels, Begin, Goto, stores, setting
<1>16. QED
  BY <1>1, <1>2, <1>3, <1>4, <1>5, <1>6, <1>7, <1>8, <1>9, <1>10, <1>11, <1>12, <1>13, <1>14,
     <1>15

(* The list that is read is the one in the file when it is written. *)
LEMMA ReadMacsKeeps ==
    ASSUME WellFormed, OneSessionEach, NEW t \in Threads, Progress(t), ReadMacs(t)
    PROVE  Progress(t)'
<1> USE DEF WellFormed, TypeOK, Threads, Progress, Doing, AtRest, Adding
<1>1. Places(t)'
  BY DEF ReadMacs, Places, Goto, stores, history, setting, FileLabels
<1>2. Writing(t)'
  BY DEF ReadMacs, Writing, Goto, stores, history, setting, OthersOf
<1>3. WritingCodes(t)'
  BY DEF ReadMacs, WritingCodes, Goto, stores, history, setting
<1>4. SweepingOut(t)'
  BY DEF ReadMacs, SweepingOut, Goto, stores, history, setting, Sweeping, Expired
<1>5. PuttingBack(t)'
  BY DEF ReadMacs, PuttingBack, Goto, stores, history, setting, PutBack
<1>6. Listed(t)'
  BY DEF ReadMacs, Listed, Goto, stores, history, setting, MacAdded, MacRemoved
<1>7. Held(t)'
  BY DEF ReadMacs, Held, Goto, stores, history, setting, BeforeSession, FileLabels
<1>8. Minted'
  BY DEF ReadMacs, Minted, Goto, stores, history, setting
<1>9. Presented(t)'
  BY DEF ReadMacs, Presented, Goto, stores, history, setting, FileLabels
<1>10. Bound(t)'
  BY DEF ReadMacs, Bound, Goto, stores, history, setting
<1>11. Revoked(t)'
  BY DEF ReadMacs, Revoked, Goto, stores, history, setting, AfterCodes
<1>12. Admitted(t)'
  BY DEF ReadMacs, Admitted, Goto, stores, history, setting, Expired, PutBack, MacRemoved
<1>13. Open(t)'
  BY DEF ReadMacs, Open, Goto, stores, history, setting, FileLabels
<1>14. Backend = "nft" => Enforced(t)'
  BY DEF ReadMacs, Enforced, Goto, stores, history, setting
<1>15. Gone(t)'
  BY DEF ReadMacs, Gone, PutBack, Held, FileLabels, Goto, stores, history, setting
<1>16. QED
  BY <1>1, <1>2, <1>3, <1>4, <1>5, <1>6, <1>7, <1>8, <1>9, <1>10, <1>11, <1>12, <1>13, <1>14,
     <1>15

(* The client of a login or of a restoration is on the list now, the others are off it. *)
LEMMA WriteMacsKeeps ==
    ASSUME WellFormed, OneSessionEach, NEW t \in Threads, Progress(t), WriteMacs(t)
    PROVE  Progress(t)'
<1> USE DEF WellFormed, TypeOK, Threads, Progress, Doing, AtRest, Adding
<1>0. /\ pc[t] = "writeMacs"
      /\ macs' = IF Adding(t) THEN macs \cup {mac[t]} ELSE macs \ {mac[t]}
      /\ pc'[t] = IF Adding(t) THEN "whitelist" ELSE "flush"
      /\ job[t] \in {"login", "logout", "revoke", "revokeCode", "sweep", "boot"}
      /\ UNCHANGED <<codes, minted, grant, retired, disconnected, halfway, chained,
                     botched, portalOn, now, toggles, restarts, sessions, rules, enforced,
                     job, mac, code, todo, outSessions, outCodes>>
  BY DEF WriteMacs, Writing, Control, history, setting, Goto
<1>1. Places(t)'
  BY <1>0 DEF Places, FileLabels
<1>2. Writing(t)'
  BY <1>0 DEF Writing, OthersOf
<1>3. WritingCodes(t)'
  BY <1>0 DEF WritingCodes
<1>4. SweepingOut(t)'
  BY <1>0 DEF SweepingOut, Sweeping, Expired
<1>5. PuttingBack(t)'
  BY <1>0 DEF PuttingBack, PutBack
<1>6. Listed(t)'
  BY <1>0 DEF Listed, MacAdded, MacRemoved, PuttingBack, PutBack
<1>7. Held(t)'
  BY <1>0 DEF Held, BeforeSession, FileLabels
<1>8. Minted'
  BY <1>0 DEF Minted
<1>9. Presented(t)'
  BY <1>0 DEF Presented, FileLabels
<1>10. Bound(t)'
  BY <1>0 DEF Bound
<1>11. Revoked(t)'
  BY <1>0 DEF Revoked, AfterCodes
<1>12. Admitted(t)'
  <2>1. CASE job[t] = "login"
    BY <1>0, <2>1 DEF Admitted, Expired, PutBack, MacRemoved, FileLabels
  <2>2. CASE job[t] = "boot"
    BY <1>0, <2>2 DEF Admitted, Expired, PutBack, MacRemoved, FileLabels
  <2>3. CASE job[t] = "logout"
    BY <1>0, <2>3 DEF Admitted, Expired, PutBack, MacRemoved, FileLabels
  <2>4. CASE job[t] = "revoke"
    BY <1>0, <2>4 DEF Admitted, Expired, PutBack, MacRemoved, FileLabels, Held
  <2>5. CASE job[t] = "revokeCode"
    BY <1>0, <2>5 DEF Admitted, Expired, PutBack, MacRemoved, FileLabels
  <2>6. CASE job[t] = "sweep"
    BY <1>0, <2>6
       DEF Admitted, Expired, PutBack, MacRemoved, FileLabels, SweepingOut, Sweeping,
           OneSessionEach, OneSessionPerMac
  <2>7. QED
    BY <1>0, <2>1, <2>2, <2>3, <2>4, <2>5, <2>6
<1>13. Open(t)'
  BY <1>0 DEF Open, FileLabels
<1>14. Backend = "nft" => Enforced(t)'
  BY <1>0 DEF Enforced
<1>15. Gone(t)'
  BY <1>0 DEF Gone, PutBack, Held, FileLabels
<1>16. QED
  BY <1>1, <1>2, <1>3, <1>4, <1>5, <1>6, <1>7, <1>8, <1>9, <1>10, <1>11, <1>12, <1>13, <1>14,
     <1>15

(* The rules follow the list again. *)
LEMMA WhitelistKeeps ==
    ASSUME WellFormed, OneSessionEach, NEW t \in Threads, Progress(t), Whitelist(t)
    PROVE  Progress(t)'
<1> USE DEF WellFormed, TypeOK, Threads, Progress, Doing, AtRest, Adding
<1>0. /\ pc[t] = "whitelist"
      /\ \/ job[t] = "login" /\ pc'[t] = "readSessions"
         \/ job[t] = "boot" /\ pc'[t] = "next"
      /\ rules' = IF HasChain THEN rules \cup {mac[t]} ELSE rules
      /\ UNCHANGED <<codes, minted, grant, retired, disconnected, halfway, chained,
                     botched, portalOn, now, toggles, restarts, macs, sessions, enforced,
                     job, mac, code, todo, outMacs, outSessions, outCodes>>
  BY DEF Whitelist, AfterMac, Control, history, setting, Goto
<1>1. Places(t)'
  BY <1>0 DEF Places, FileLabels
<1>2. Writing(t)'
  BY <1>0 DEF Writing, OthersOf
<1>3. WritingCodes(t)'
  BY <1>0 DEF WritingCodes
<1>4. SweepingOut(t)'
  BY <1>0 DEF SweepingOut, Sweeping, Expired
<1>5. PuttingBack(t)'
  BY <1>0 DEF PuttingBack, PutBack
<1>6. Listed(t)'
  BY <1>0 DEF Listed, MacAdded, MacRemoved
<1>7. Held(t)'
  BY <1>0 DEF Held, BeforeSession, FileLabels
<1>8. Minted'
  BY <1>0 DEF Minted
<1>9. Presented(t)'
  BY <1>0 DEF Presented, FileLabels
<1>10. Bound(t)'
  BY <1>0 DEF Bound
<1>11. Revoked(t)'
  BY <1>0 DEF Revoked, AfterCodes
<1>12. Admitted(t)'
  BY <1>0 DEF Admitted, Expired, PutBack, MacRemoved
<1>13. Open(t)'
  BY <1>0 DEF Open, FileLabels
<1>14. Backend = "nft" => Enforced(t)'
  BY <1>0 DEF Enforced
<1>15. Gone(t)'
  BY <1>0 DEF Gone, PutBack, Held, FileLabels
<1>16. QED
  BY <1>1, <1>2, <1>3, <1>4, <1>5, <1>6, <1>7, <1>8, <1>9, <1>10, <1>11, <1>12, <1>13, <1>14,
     <1>15

(* No rule is left, or (iptables) the accept rules as they were. *)
LEMMA FlushRulesKeeps ==
    ASSUME WellFormed, OneSessionEach, NEW t \in Threads, Progress(t), FlushRules(t)
    PROVE  Progress(t)'
<1> USE DEF WellFormed, TypeOK, Threads, Progress, Doing, AtRest, Adding
<1>1. Places(t)'
  BY DEF FlushRules, Places, Goto, history, setting, FileLabels
<1>2. Writing(t)'
  BY DEF FlushRules, Writing, Goto, history, setting, OthersOf
<1>3. WritingCodes(t)'
  BY DEF FlushRules, WritingCodes, Goto, history, setting
<1>4. SweepingOut(t)'
  BY DEF FlushRules, SweepingOut, Goto, history, setting, Sweeping, Expired
<1>5. PuttingBack(t)'
  BY DEF FlushRules, PuttingBack, Goto, history, setting, PutBack
<1>6. Listed(t)'
  BY DEF FlushRules, Listed, Goto, history, setting, MacAdded, MacRemoved
<1>7. Held(t)'
  BY DEF FlushRules, Held, Goto, history, setting, BeforeSession, FileLabels
<1>8. Minted'
  BY DEF FlushRules, Minted, Goto, history, setting
<1>9. Presented(t)'
  BY DEF FlushRules, Presented, Goto, history, setting, FileLabels
<1>10. Bound(t)'
  BY DEF FlushRules, Bound, Goto, history, setting
<1>11. Revoked(t)'
  BY DEF FlushRules, Revoked, Goto, history, setting, AfterCodes
<1>12. Admitted(t)'
  BY DEF FlushRules, Admitted, Goto, history, setting, Expired, PutBack, MacRemoved
<1>13. Open(t)'
  BY DEF FlushRules, Open, Goto, history, setting, FileLabels
<1>14. Backend = "nft" => Enforced(t)'
  BY DEF FlushRules, Enforced, Goto, history, setting
<1>15. Gone(t)'
  BY DEF FlushRules, Gone, PutBack, Held, FileLabels, Goto, history, setting
<1>16. QED
  BY <1>1, <1>2, <1>3, <1>4, <1>5, <1>6, <1>7, <1>8, <1>9, <1>10, <1>11, <1>12, <1>13, <1>14,
     <1>15

(* The rules are those of the list again. *)
LEMMA FillRulesKeeps ==
    ASSUME WellFormed, OneSessionEach, NEW t \in Threads, Progress(t), FillRules(t)
    PROVE  Progress(t)'
<1> USE DEF WellFormed, TypeOK, Threads, Progress, Doing, AtRest, Adding
<1>0. /\ pc[t] = "fill"
      /\ \/ job[t] \in {"logout", "revokeCode"} /\ pc'[t] = "readSessions"
         \/ job[t] = "revoke" /\ pc'[t] = "done"
         \/ job[t] = "sweep" /\ pc'[t] = "next"
      /\ IF HasChain
            THEN rules' = rules \cup macs /\ enforced' = TRUE /\ botched' = FALSE
            ELSE UNCHANGED <<rules, enforced, botched>>
      /\ UNCHANGED <<codes, minted, grant, retired, disconnected, halfway, chained,
                     portalOn, now, toggles, restarts, macs, sessions, job, mac, code,
                     todo, outMacs, outSessions, outCodes>>
  BY DEF FillRules, AfterMac, Places, history, setting, Goto
<1>1. Places(t)'
  BY <1>0 DEF Places, FileLabels
<1>2. Writing(t)'
  BY <1>0 DEF Writing, OthersOf
<1>3. WritingCodes(t)'
  BY <1>0 DEF WritingCodes
<1>4. SweepingOut(t)'
  BY <1>0 DEF SweepingOut, Sweeping, Expired
<1>5. PuttingBack(t)'
  BY <1>0 DEF PuttingBack, PutBack
<1>6. Listed(t)'
  BY <1>0 DEF Listed, MacAdded, MacRemoved
<1>7. Held(t)'
  BY <1>0 DEF Held, BeforeSession, FileLabels
<1>8. Minted'
  BY <1>0 DEF Minted
<1>9. Presented(t)'
  BY <1>0 DEF Presented, FileLabels
<1>10. Bound(t)'
  BY <1>0 DEF Bound
<1>11. Revoked(t)'
  BY <1>0 DEF Revoked, AfterCodes
<1>12. Admitted(t)'
  BY <1>0 DEF Admitted, Expired, PutBack, MacRemoved
<1>13. Open(t)'
  BY <1>0 DEF Open, FileLabels
<1>14. Backend = "nft" => Enforced(t)'
  BY <1>0 DEF Enforced
<1>15. Gone(t)'
  BY <1>0 DEF Gone, PutBack, Held, FileLabels
<1>16. QED
  BY <1>1, <1>2, <1>3, <1>4, <1>5, <1>6, <1>7, <1>8, <1>9, <1>10, <1>11, <1>12, <1>13, <1>14,
     <1>15

(* A command that is cut short leaves the rules as they are, or without the chains, or
   with some of the list accepted: no more is said of them until a setup ends. *)
LEMMA TimeOutKeeps ==
    ASSUME WellFormed, OneSessionEach, NEW t \in Threads, Progress(t), TimeOut(t)
    PROVE  Progress(t)'
<1> USE DEF WellFormed, TypeOK, Threads, Progress, Doing, AtRest, Adding
<1>0. /\ pc[t] \in {"whitelist", "flush", "fill"}
      /\ \/ /\ job[t] \in {"login", "logout", "revokeCode"} /\ pc'[t] = "readSessions"
            /\ job[t] = "login" => pc[t] = "whitelist"
            /\ job[t] # "login" => pc[t] \in {"flush", "fill"}
         \/ job[t] = "revoke" /\ pc'[t] = "done"
         \/ job[t] = "sweep" /\ pc'[t] = "next" /\ pc[t] \in {"flush", "fill"}
         \/ job[t] = "boot" /\ pc'[t] = "next" /\ pc[t] = "whitelist"
      /\ Backend = "nft" /\ enforced' => enforced /\ chained' = chained
      /\ botched' = TRUE
      /\ UNCHANGED <<codes, minted, grant, retired, disconnected, halfway, portalOn, now,
                     toggles, restarts, macs, sessions, job, mac, code, todo, outMacs,
                     outSessions, outCodes>>
  BY DEF TimeOut, AfterMac, Places, Control, history, setting, Goto
<1>1. Places(t)'
  BY <1>0 DEF Places, FileLabels
<1>2. Writing(t)'
  BY <1>0 DEF Writing, OthersOf
<1>3. WritingCodes(t)'
  BY <1>0 DEF WritingCodes
<1>4. SweepingOut(t)'
  BY <1>0 DEF SweepingOut, Sweeping, Expired
<1>5. PuttingBack(t)'
  BY <1>0 DEF PuttingBack, PutBack
<1>6. Listed(t)'
  BY <1>0 DEF Listed, MacAdded, MacRemoved
<1>7. Held(t)'
  BY <1>0 DEF Held, BeforeSession, FileLabels
<1>8. Minted'
  BY <1>0 DEF Minted
<1>9. Presented(t)'
  BY <1>0 DEF Presented, FileLabels
<1>10. Bound(t)'
  BY <1>0 DEF Bound
<1>11. Revoked(t)'
  BY <1>0 DEF Revoked, AfterCodes
<1>12. Admitted(t)'
  BY <1>0 DEF Admitted, Expired, PutBack, MacRemoved
<1>13. Open(t)'
  BY <1>0 DEF Open, FileLabels
<1>14. Backend = "nft" => Enforced(t)'
  BY <1>0 DEF Enforced
<1>15. Gone(t)'
  BY <1>0 DEF Gone, PutBack, Held, FileLabels
<1>16. QED
  BY <1>1, <1>2, <1>3, <1>4, <1>5, <1>6, <1>7, <1>8, <1>9, <1>10, <1>11, <1>12, <1>13, <1>14,
     <1>15

(* The sessions that are to be written differ from the file in the one client. *)
LEMMA ReadSessionsKeeps ==
    ASSUME WellFormed, OneSessionEach, NEW t \in Threads, Progress(t), ReadSessions(t)
    PROVE  Progress(t)'
<1> USE DEF WellFormed, TypeOK, Threads, Progress, Doing, AtRest, Adding
<1>0. /\ pc[t] = "readSessions"
      /\ \/ /\ job[t] = "login" /\ pc'[t] = "writeSessions"
            /\ \E new : /\ new.mac = mac[t] /\ new.code = code[t]
                        /\ outSessions'[t] = OthersOf(mac[t]) \cup {new}
         \/ /\ job[t] = "logout" /\ outSessions'[t] = OthersOf(mac[t])
            /\ \/ pc'[t] = "writeSessions"
               \/ pc'[t] = "done" /\ OthersOf(mac[t]) = sessions
         \/ /\ job[t] = "revokeCode"
            /\ outSessions'[t] = {s \in OthersOf(mac[t]) : s.code # code[t]}
            /\ \/ pc'[t] = "writeSessions"
               \/ pc'[t] = "done" /\ outSessions'[t] = sessions
      /\ UNCHANGED <<codes, minted, grant, retired, disconnected, halfway, chained,
                     botched, portalOn, now, toggles, restarts, macs, sessions, rules,
                     enforced, job, mac, code, todo, outMacs, outCodes>>

  <2> DEFINE duration == IF code[t] = Permanent THEN 0 ELSE Duration
             new == [mac |-> mac[t], code |-> code[t], expires |-> ExpiryAfter(duration)]
  <2>1. new.mac = mac[t] /\ new.code = code[t]
    OBVIOUS
  <2>2. job[t] = "login" => /\ pc'[t] = "writeSessions"
                            /\ outSessions'[t] = OthersOf(mac[t]) \cup {new}
    BY DEF ReadSessions, Goto
  <2>3. job[t] = "logout" =>
            /\ outSessions'[t] = OthersOf(mac[t])
            /\ \/ pc'[t] = "writeSessions"
               \/ pc'[t] = "done" /\ OthersOf(mac[t]) = sessions
    BY DEF ReadSessions, Goto
  <2>4. job[t] = "revokeCode" =>
            /\ outSessions'[t] = {s \in OthersOf(mac[t]) : s.code # code[t]}
            /\ \/ pc'[t] = "writeSessions"
               \/ pc'[t] = "done" /\ outSessions'[t] = sessions
    BY DEF ReadSessions, Goto
  <2>5. /\ pc[t] = "readSessions" /\ job[t] \in {"login", "logout", "revokeCode"}
        /\ UNCHANGED <<codes, minted, grant, retired, disconnected, halfway, chained,
                       botched, portalOn, now, toggles, restarts, macs, sessions, rules,
                       enforced, job, mac, code, todo, outMacs, outCodes>>
    BY DEF ReadSessions, Control, stores, history, setting, Goto
  <2> HIDE DEF new
  <2>6. QED
    BY <2>1, <2>2, <2>3, <2>4, <2>5
<1>1. Places(t)'
  BY <1>0 DEF Places, FileLabels, OthersOf
<1>2. Writing(t)'
  BY <1>0 DEF Writing, OthersOf, OthersOf
<1>3. WritingCodes(t)'
  BY <1>0 DEF WritingCodes, OthersOf
<1>4. SweepingOut(t)'
  BY <1>0 DEF SweepingOut, Sweeping, Expired, OthersOf
<1>5. PuttingBack(t)'
  BY <1>0 DEF PuttingBack, PutBack, OthersOf
<1>6. Listed(t)'
  BY <1>0 DEF Listed, MacAdded, MacRemoved, OthersOf
<1>7. Held(t)'
  BY <1>0 DEF Held, BeforeSession, FileLabels, OthersOf
<1>8. Minted'
  BY <1>0 DEF Minted, OthersOf
<1>9. Presented(t)'
  BY <1>0 DEF Presented, FileLabels, OthersOf
<1>10. Bound(t)'
  BY <1>0 DEF Bound, OthersOf
<1>11. Revoked(t)'
  BY <1>0 DEF Revoked, AfterCodes, OthersOf
<1>12. Admitted(t)'
  BY <1>0 DEF Admitted, Expired, PutBack, MacRemoved, OthersOf
<1>13. Open(t)'
  BY <1>0 DEF Open, FileLabels, OthersOf
<1>14. Backend = "nft" => Enforced(t)'
  BY <1>0 DEF Enforced, OthersOf
<1>15. Gone(t)'
  BY <1>0 DEF Gone, PutBack, Held, FileLabels, OthersOf
<1>16. QED
  BY <1>1, <1>2, <1>3, <1>4, <1>5, <1>6, <1>7, <1>8, <1>9, <1>10, <1>11, <1>12, <1>13, <1>14,
     <1>15

(* Sessions and list agree again: of a login, a logout, a revocation or a sweep. *)
LEMMA WriteSessionsKeeps ==
    ASSUME WellFormed, OneSessionEach, NEW t \in Threads, Progress(t), WriteSessions(t)
    PROVE  Progress(t)'
<1> USE DEF WellFormed, TypeOK, Threads, Progress, Doing, AtRest, Adding
<1>0. /\ pc[t] = "writeSessions"
      /\ \/ /\ job[t] = "login"
            /\ pc'[t] = IF code[t] # Permanent THEN "readCodes" ELSE "done"
            /\ \E new : /\ new.mac = mac[t] /\ new.code = code[t]
                        /\ sessions' = OthersOf(mac[t]) \cup {new}
         \/ job[t] = "logout" /\ pc'[t] = "done" /\ sessions' = OthersOf(mac[t])
         \/ /\ job[t] = "revokeCode" /\ pc'[t] = "done"
            /\ sessions' = {s \in OthersOf(mac[t]) : s.code # code[t]}
         \/ /\ job[t] = "sweep" /\ pc'[t] = "readCodes"
            /\ sessions' \subseteq sessions /\ todo[t] = {}
            /\ \A x \in sessions \ sessions' : x.mac \notin macs
      /\ UNCHANGED <<codes, minted, grant, retired, disconnected, halfway, chained,
                     botched, portalOn, now, toggles, restarts, macs, rules, enforced,
                     job, mac, code, todo, outMacs, outCodes>>
  BY DEF WriteSessions, Places, Writing, SweepingOut, Sweeping, history, setting, Goto
<1>1. Places(t)'
  BY <1>0 DEF Places, FileLabels, OthersOf
<1>2. Writing(t)'
  BY <1>0 DEF Writing, OthersOf, OthersOf
<1>3. WritingCodes(t)'
  BY <1>0 DEF WritingCodes, OthersOf
<1>4. SweepingOut(t)'
  BY <1>0 DEF SweepingOut, Sweeping, Expired, OthersOf
<1>5. PuttingBack(t)'
  BY <1>0 DEF PuttingBack, PutBack, OthersOf
<1>6. Listed(t)'
  <2>1. CASE job[t] = "login"
    BY <1>0, <2>1 DEF Listed, MacAdded, MacRemoved, OthersOf
  <2>2. CASE job[t] = "logout"
    BY <1>0, <2>2 DEF Listed, MacAdded, MacRemoved, OthersOf
  <2>3. CASE job[t] = "revokeCode"
    BY <1>0, <2>3 DEF Listed, MacAdded, MacRemoved, OthersOf, Revoked, AfterCodes
  <2>4. CASE job[t] = "sweep"
    BY <1>0, <2>4 DEF Listed, MacAdded, MacRemoved, OthersOf
  <2>5. QED
    BY <1>0, <2>1, <2>2, <2>3, <2>4
<1>7. Held(t)'
  BY <1>0 DEF Held, BeforeSession, FileLabels, OthersOf
<1>8. Minted'
  <2>1. CASE job[t] = "login"
    BY <1>0, <2>1 DEF Minted, OthersOf, Presented, FileLabels
  <2>2. CASE job[t] = "logout"
    BY <1>0, <2>2 DEF Minted, OthersOf
  <2>3. CASE job[t] = "revokeCode"
    BY <1>0, <2>3 DEF Minted, OthersOf
  <2>4. CASE job[t] = "sweep"
    BY <1>0, <2>4 DEF Minted, OthersOf
  <2>5. QED
    BY <1>0, <2>1, <2>2, <2>3, <2>4
<1>9. Presented(t)'
  BY <1>0 DEF Presented, FileLabels, OthersOf
<1>10. Bound(t)'
  <2>1. CASE job[t] = "login"
    BY <1>0, <2>1 DEF Bound, OthersOf, Voucher, Presented, FileLabels
  <2>2. CASE job[t] = "logout"
    BY <1>0, <2>2 DEF Bound, OthersOf
  <2>3. CASE job[t] = "revokeCode"
    BY <1>0, <2>3 DEF Bound, OthersOf
  <2>4. CASE job[t] = "sweep"
    BY <1>0, <2>4 DEF Bound, OthersOf
  <2>5. QED
    BY <1>0, <2>1, <2>2, <2>3, <2>4
<1>11. Revoked(t)'
  <2>1. CASE job[t] = "login"
    BY <1>0, <2>1 DEF Revoked, AfterCodes, OthersOf, Presented, FileLabels
  <2>2. CASE job[t] = "logout"
    BY <1>0, <2>2 DEF Revoked, AfterCodes, OthersOf
  <2>3. CASE job[t] = "revokeCode"
    BY <1>0, <2>3 DEF Revoked, AfterCodes, OthersOf
  <2>4. CASE job[t] = "sweep"
    BY <1>0, <2>4 DEF Revoked, AfterCodes, OthersOf
  <2>5. QED
    BY <1>0, <2>1, <2>2, <2>3, <2>4
<1>12. Admitted(t)'
  <2>1. CASE job[t] = "login"
    BY <1>0, <2>1 DEF Admitted, Expired, PutBack, MacRemoved, OthersOf, Listed, MacAdded
  <2>2. CASE job[t] = "logout"
    BY <1>0, <2>2 DEF Admitted, Expired, PutBack, MacRemoved, OthersOf, Listed
  <2>3. CASE job[t] = "revokeCode"
    BY <1>0, <2>3 DEF Admitted, Expired, PutBack, MacRemoved, OthersOf
  <2>4. CASE job[t] = "sweep"
    BY <1>0, <2>4 DEF Admitted, Expired, PutBack, MacRemoved, OthersOf
  <2>5. QED
    BY <1>0, <2>1, <2>2, <2>3, <2>4
<1>13. Open(t)'
  <2>1. CASE job[t] = "login"
    BY <1>0, <2>1 DEF Open, FileLabels, OthersOf, Held, BeforeSession
  <2>2. CASE job[t] = "logout"
    BY <1>0, <2>2 DEF Open, FileLabels, OthersOf
  <2>3. CASE job[t] = "revokeCode"
    BY <1>0, <2>3 DEF Open, FileLabels, OthersOf
  <2>4. CASE job[t] = "sweep"
    BY <1>0, <2>4 DEF Open, FileLabels, OthersOf
  <2>5. QED
    BY <1>0, <2>1, <2>2, <2>3, <2>4
<1>14. Backend = "nft" => Enforced(t)'
  BY <1>0 DEF Enforced, OthersOf
<1>15. Gone(t)'
  BY <1>0 DEF Gone, PutBack, Held, FileLabels, OthersOf
<1>16. QED
  BY <1>1, <1>2, <1>3, <1>4, <1>5, <1>6, <1>7, <1>8, <1>9, <1>10, <1>11, <1>12, <1>13, <1>14,
     <1>15

(* The codes that are to be written are those in the file, but for the one that is bound. *)
LEMMA ReadCodesKeeps ==
    ASSUME WellFormed, OneSessionEach, NEW t \in Threads, Progress(t), ReadCodes(t)
    PROVE  Progress(t)'
<1> USE DEF WellFormed, TypeOK, Threads, Progress, Doing, AtRest, Adding
<1>1. Places(t)'
  BY DEF ReadCodes, Places, RestLabel, Goto, stores, history, setting, FileLabels
<1>2. Writing(t)'
  BY DEF ReadCodes, Writing, RestLabel, Goto, stores, history, setting, OthersOf
<1>3. WritingCodes(t)'
  <2>1. CASE job[t] = "login"
    <3> DEFINE Bind(v) == IF v.id = code[t] THEN Activated(v, mac[t]) ELSE v
    <3>1. /\ job'[t] = "login" /\ outCodes'[t] = {Bind(v) : v \in codes}
          /\ UNCHANGED <<codes, code, mac>>
      BY <2>1 DEF ReadCodes, Goto, stores, history
    <3>2. \A v \in codes :
             /\ Bind(v).id = v.id
             /\ v.id # code[t] => Bind(v) = v
             /\ v.id = code[t] =>
                   Bind(v).bound = IF v.bound = NoMac THEN mac[t] ELSE v.bound
      BY <2>1, ActivatedType DEF Control, Activated, Voucher
    <3> HIDE DEF Bind
    <3>3. \A v, w \in codes : v.id = w.id => v = w
      BY DEF Minted
    <3>4. QED
      BY <3>1, <3>2, <3>3 DEF WritingCodes
  <2>2. CASE job[t] = "sweep"
    BY <2>2 DEF ReadCodes, WritingCodes, RestLabel, Goto, stores, history
  <2>3. QED
    BY <2>1, <2>2 DEF Places, ReadCodes
<1>4. SweepingOut(t)'
  BY DEF ReadCodes, SweepingOut, RestLabel, Goto, stores, history, setting, Sweeping,
         Expired
<1>5. PuttingBack(t)'
  BY DEF ReadCodes, PuttingBack, RestLabel, Goto, stores, history, setting, PutBack
<1>6. Listed(t)'
  BY DEF ReadCodes, Listed, RestLabel, Goto, stores, history, setting, MacAdded, MacRemoved
<1>7. Held(t)'
  BY DEF ReadCodes, Held, RestLabel, Goto, stores, history, setting, BeforeSession,
         FileLabels
<1>8. Minted'
  BY DEF ReadCodes, Minted, RestLabel, Goto, stores, history, setting
<1>9. Presented(t)'
  BY DEF ReadCodes, Presented, RestLabel, Goto, stores, history, setting, FileLabels
<1>10. Bound(t)'
  BY DEF ReadCodes, Bound, RestLabel, Goto, stores, history, setting
<1>11. Revoked(t)'
  BY DEF ReadCodes, Revoked, RestLabel, Goto, stores, history, setting, AfterCodes
<1>12. Admitted(t)'
  BY DEF ReadCodes, Admitted, RestLabel, Goto, stores, history, setting, Expired, PutBack,
         MacRemoved
<1>13. Open(t)'
  BY DEF ReadCodes, Open, RestLabel, Goto, stores, history, setting, FileLabels, Places
<1>14. Backend = "nft" => Enforced(t)'
  BY DEF ReadCodes, Enforced, RestLabel, Goto, stores, history, setting
<1>15. Gone(t)'
  BY DEF ReadCodes, Gone, PutBack, Held, FileLabels, RestLabel, Goto, stores, history, setting
<1>16. QED
  BY <1>1, <1>2, <1>3, <1>4, <1>5, <1>6, <1>7, <1>8, <1>9, <1>10, <1>11, <1>12, <1>13, <1>14,
     <1>15

(* A login has bound its code; a revoked code is gone, its sessions are next. *)
LEMMA WriteCodesKeeps ==
    ASSUME WellFormed, OneSessionEach, NEW t \in Threads, Progress(t), WriteCodes(t)
    PROVE  Progress(t)'
<1> USE DEF WellFormed, TypeOK, Threads, Progress, Doing, AtRest, Adding
<1>0. /\ pc[t] = "writeCodes" /\ codes' = outCodes[t]
      /\ job[t] \in {"login", "sweep", "revokeCode", "create"}
      /\ retired' = IF job[t] = "revokeCode" THEN retired \cup {code[t]} ELSE retired
      /\ IF job[t] = "revokeCode"
            THEN pc'[t] = IF mac[t] # NoMac THEN "readMacs" ELSE "readSessions"
            ELSE pc'[t] \in {"asleep", "done"}
      /\ job[t] = "revokeCode" => code[t] \in Codes
      /\ UNCHANGED <<macs, sessions, rules, enforced, minted, grant, disconnected,
                     halfway, chained, botched, portalOn, now, toggles, restarts, job,
                     mac, code, todo, outMacs, outSessions>>
  BY DEF WriteCodes, RestLabel, Control, Places, history, setting, Goto
<1>1. Places(t)'
  BY <1>0 DEF Places, FileLabels, WritingCodes
<1>2. Writing(t)'
  BY <1>0 DEF Writing, OthersOf, WritingCodes
<1>3. WritingCodes(t)'
  BY <1>0 DEF WritingCodes, WritingCodes
<1>4. SweepingOut(t)'
  BY <1>0 DEF SweepingOut, Sweeping, Expired, WritingCodes
<1>5. PuttingBack(t)'
  BY <1>0 DEF PuttingBack, PutBack, WritingCodes
<1>6. Listed(t)'
  BY <1>0 DEF Listed, MacAdded, MacRemoved, WritingCodes
<1>7. Held(t)'
  BY <1>0 DEF Held, BeforeSession, FileLabels, WritingCodes
<1>8. Minted'
  <2>1. CASE job[t] = "login"
    BY <1>0, <2>1 DEF Minted, WritingCodes
  <2>2. CASE job[t] = "sweep"
    BY <1>0, <2>2 DEF Minted, WritingCodes
  <2>3. CASE job[t] = "revokeCode"
    BY <1>0, <2>3 DEF Minted, WritingCodes
  <2>4. CASE job[t] = "create"
    BY <1>0, <2>4 DEF Minted, WritingCodes, Fresh, Voucher
  <2>5. QED
    BY <1>0, <2>1, <2>2, <2>3, <2>4
<1>9. Presented(t)'
  BY <1>0 DEF Presented, FileLabels, WritingCodes
<1>10. Bound(t)'
  <2>1. CASE job[t] = "login"
    <3> SUFFICES ASSUME NEW s \in sessions, NEW w \in codes', s.code = w.id
                 PROVE  w.bound = s.mac \/ s.mac \in halfway
      BY <1>0 DEF Bound
    <3>1. PICK v \in codes :
             /\ v.id = w.id
             /\ v.id # code[t] => w = v
             /\ v.id = code[t] =>
                   w.bound = IF v.bound = NoMac THEN mac[t] ELSE v.bound
      BY <1>0, <2>1 DEF WritingCodes
    <3>2. \/ v.bound = s.mac
          \/ s.mac = mac[t] /\ v.id = code[t]
          \/ s.mac \in halfway
      <4>1. Bound(t) /\ s.code = v.id
        BY <3>1
      <4>2. QED
        BY <4>1, Zenon DEF Bound
    <3>3. v.id = code[t] => v.bound \in {NoMac, mac[t]}
      BY <1>0, <2>1 DEF Presented, FileLabels
    <3>4. s.mac # NoMac
      BY DEF Session
    <3>5. CASE v.id = code[t]
      BY <3>1, <3>2, <3>3, <3>4, <3>5
    <3>6. CASE v.id # code[t]
      BY <3>1, <3>2, <3>6
    <3>7. QED
      BY <3>5, <3>6
  <2>2. CASE job[t] = "sweep"
    BY <1>0, <2>2 DEF Bound, WritingCodes
  <2>3. CASE job[t] = "revokeCode"
    BY <1>0, <2>3 DEF Bound, WritingCodes
  <2>4. CASE job[t] = "create"
    BY <1>0, <2>4 DEF Bound, WritingCodes, Fresh, Voucher
  <2>5. QED
    BY <1>0, <2>1, <2>2, <2>3, <2>4
<1>11. Revoked(t)'
  <2>1. CASE job[t] = "login"
    BY <1>0, <2>1 DEF Revoked, AfterCodes, WritingCodes
  <2>2. CASE job[t] = "sweep"
    BY <1>0, <2>2 DEF Revoked, AfterCodes, WritingCodes
  <2>3. CASE job[t] = "revokeCode"
    BY <1>0, <2>3 DEF Revoked, AfterCodes, WritingCodes, Bound
  <2>4. CASE job[t] = "create"
    BY <1>0, <2>4 DEF Revoked, AfterCodes, WritingCodes
  <2>5. QED
    BY <1>0, <2>1, <2>2, <2>3, <2>4
<1>12. Admitted(t)'
  BY <1>0 DEF Admitted, Expired, PutBack, MacRemoved, WritingCodes
<1>13. Open(t)'
  <2>1. CASE job[t] = "login"
    BY <1>0, <2>1 DEF Open, FileLabels, WritingCodes
  <2>2. CASE job[t] = "sweep"
    BY <1>0, <2>2 DEF Open, FileLabels, WritingCodes
  <2>3. CASE job[t] = "revokeCode"
    BY <1>0, <2>3 DEF Open, FileLabels, WritingCodes
  <2>4. CASE job[t] = "create"
    BY <1>0, <2>4 DEF Open, FileLabels, WritingCodes
  <2>5. QED
    BY <1>0, <2>1, <2>2, <2>3, <2>4
<1>14. Backend = "nft" => Enforced(t)'
  BY <1>0 DEF Enforced, WritingCodes
<1>15. Gone(t)'
  BY <1>0 DEF Gone, PutBack, Held, FileLabels, WritingCodes
<1>16. QED
  BY <1>1, <1>2, <1>3, <1>4, <1>5, <1>6, <1>7, <1>8, <1>9, <1>10, <1>11, <1>12, <1>13, <1>14,
     <1>15

(* The sessions that are set aside have expired. *)
LEMMA SweepSessionsKeeps ==
    ASSUME WellFormed, OneSessionEach, NEW t \in Sweepers, Progress(t), Quiet,
           SweepSessions(t)
    PROVE  Progress(t)'
<1> USE DEF WellFormed, TypeOK, Threads, Progress, Doing, AtRest, Adding
<1>1. Places(t)'
  BY DEF SweepSessions, Places, MacsOf, Goto, stores, history, setting, FileLabels
<1>2. Writing(t)'
  BY DEF SweepSessions, Writing, MacsOf, Goto, stores, history, setting, OthersOf
<1>3. WritingCodes(t)'
  BY DEF SweepSessions, WritingCodes, MacsOf, Goto, stores, history, setting
<1>4. SweepingOut(t)'
  BY DEF SweepSessions, SweepingOut, MacsOf, Goto, stores, history, setting, Sweeping,
         Expired
<1>5. PuttingBack(t)'
  BY DEF SweepSessions, PuttingBack, MacsOf, Goto, stores, history, setting, PutBack
<1>6. Listed(t)'
  BY DEF SweepSessions, Listed, MacsOf, Goto, stores, history, setting, MacAdded, MacRemoved
<1>7. Held(t)'
  BY DEF SweepSessions, Held, MacsOf, Goto, stores, history, setting, BeforeSession,
         FileLabels
<1>8. Minted'
  BY DEF SweepSessions, Minted, MacsOf, Goto, stores, history, setting
<1>9. Presented(t)'
  BY DEF SweepSessions, Presented, MacsOf, Goto, stores, history, setting, FileLabels
<1>10. Bound(t)'
  BY DEF SweepSessions, Bound, MacsOf, Goto, stores, history, setting
<1>11. Revoked(t)'
  BY DEF SweepSessions, Revoked, MacsOf, Goto, stores, history, setting, AfterCodes
<1>12. Admitted(t)'
  BY DEF SweepSessions, Admitted, MacsOf, Goto, stores, history, setting, Expired, PutBack,
         MacRemoved
<1>13. Open(t)'
  BY DEF SweepSessions, Open, MacsOf, Goto, stores, history, setting, FileLabels
<1>14. Backend = "nft" => Enforced(t)'
  BY DEF SweepSessions, Enforced, MacsOf, Goto, stores, history, setting
<1>15. Gone(t)'
  BY DEF SweepSessions, Gone, PutBack, Held, FileLabels, MacsOf, Goto, stores, history, setting
<1>16. QED
  BY <1>1, <1>2, <1>3, <1>4, <1>5, <1>6, <1>7, <1>8, <1>9, <1>10, <1>11, <1>12, <1>13, <1>14,
     <1>15

(* The clients that are to be put back have sessions. *)
LEMMA RestoreKeeps ==
    ASSUME WellFormed, OneSessionEach, NEW t \in Sweepers, Progress(t), Restore(t)
    PROVE  Progress(t)'
<1> USE DEF WellFormed, TypeOK, Threads, Progress, Doing, AtRest, Adding
<1>1. Places(t)'
  BY DEF Restore, Places, MacsOf, Goto, stores, history, setting, FileLabels
<1>2. Writing(t)'
  BY DEF Restore, Writing, MacsOf, Goto, stores, history, setting, OthersOf
<1>3. WritingCodes(t)'
  BY DEF Restore, WritingCodes, MacsOf, Goto, stores, history, setting
<1>4. SweepingOut(t)'
  BY DEF Restore, SweepingOut, MacsOf, Goto, stores, history, setting, Sweeping, Expired
<1>5. PuttingBack(t)'
  BY DEF Restore, PuttingBack, MacsOf, Goto, stores, history, setting, PutBack
<1>6. Listed(t)'
  BY DEF Restore, Listed, MacsOf, Goto, stores, history, setting, MacAdded, MacRemoved
<1>7. Held(t)'
  BY DEF Restore, Held, MacsOf, Goto, stores, history, setting, BeforeSession, FileLabels
<1>8. Minted'
  BY DEF Restore, Minted, MacsOf, Goto, stores, history, setting
<1>9. Presented(t)'
  BY DEF Restore, Presented, MacsOf, Goto, stores, history, setting, FileLabels
<1>10. Bound(t)'
  BY DEF Restore, Bound, MacsOf, Goto, stores, history, setting
<1>11. Revoked(t)'
  BY DEF Restore, Revoked, MacsOf, Goto, stores, history, setting, AfterCodes
<1>12. Admitted(t)'
  BY DEF Restore, Admitted, MacsOf, Goto, stores, history, setting, Expired, PutBack,
         MacRemoved
<1>13. Open(t)'
  BY DEF Restore, Open, MacsOf, Goto, stores, history, setting, FileLabels
<1>14. Backend = "nft" => Enforced(t)'
  BY DEF Restore, Enforced, MacsOf, Goto, stores, history, setting
<1>15. Gone(t)'
  BY DEF Restore, Gone, PutBack, Held, FileLabels, MacsOf, Goto, stores, history, setting
<1>16. QED
  BY <1>1, <1>2, <1>3, <1>4, <1>5, <1>6, <1>7, <1>8, <1>9, <1>10, <1>11, <1>12, <1>13, <1>14,
     <1>15

(* One client of a sweep or of a restoration, or the end of either. *)
LEMMA NextMacKeeps ==
    ASSUME WellFormed, OneSessionEach, NEW t \in Sweepers, Progress(t), NextMac(t)
    PROVE  Progress(t)'
<1> USE DEF WellFormed, TypeOK, Threads, Progress, Doing, AtRest, Adding
<1>0. /\ pc[t] = "next" /\ job[t] \in {"sweep", "boot"}
      /\ \/ /\ pc'[t] = "readMacs"
            /\ \E m \in todo[t] : mac'[t] = m /\ todo'[t] = todo[t] \ {m}
         \/ /\ todo[t] = {}
            /\ pc'[t] = IF job[t] = "sweep" THEN "writeSessions" ELSE "asleep"
            /\ UNCHANGED <<mac, todo>>
      /\ UNCHANGED <<codes, minted, grant, retired, disconnected, halfway, chained,
                     botched, portalOn, now, toggles, restarts, macs, sessions, rules,
                     enforced, job, code, outMacs, outSessions, outCodes>>
  BY DEF NextMac, Control, stores, history, setting, Goto
<1>1. Places(t)'
  BY <1>0 DEF Places, FileLabels
<1>2. Writing(t)'
  BY <1>0 DEF Writing, OthersOf
<1>3. WritingCodes(t)'
  BY <1>0 DEF WritingCodes
<1>4. SweepingOut(t)'
  BY <1>0 DEF SweepingOut, Sweeping, Expired
<1>5. PuttingBack(t)'
  BY <1>0 DEF PuttingBack, PutBack
<1>6. Listed(t)'
  BY <1>0 DEF Listed, MacAdded, MacRemoved
<1>7. Held(t)'
  BY <1>0 DEF Held, BeforeSession, FileLabels
<1>8. Minted'
  BY <1>0 DEF Minted
<1>9. Presented(t)'
  BY <1>0 DEF Presented, FileLabels
<1>10. Bound(t)'
  BY <1>0 DEF Bound
<1>11. Revoked(t)'
  BY <1>0 DEF Revoked, AfterCodes
<1>12. Admitted(t)'
  BY <1>0 DEF Admitted, Expired, PutBack, MacRemoved
<1>13. Open(t)'
  BY <1>0 DEF Open, FileLabels
<1>14. Backend = "nft" => Enforced(t)'
  BY <1>0 DEF Enforced
<1>15. Gone(t)'
  BY <1>0 DEF Gone, PutBack, Held, FileLabels
<1>16. QED
  BY <1>1, <1>2, <1>3, <1>4, <1>5, <1>6, <1>7, <1>8, <1>9, <1>10, <1>11, <1>12, <1>13, <1>14,
     <1>15

(* Files and rules outlive the dashboard, what a thread had left to do does not; with
   the portal on a restoration is next. *)
LEMMA RestartDashboardKeeps ==
    ASSUME WellFormed, OneSessionEach, NEW t \in Threads, NEW u \in Sweepers, Progress(t),
           \A v \in Threads \ {t} : AtRest(v), RestartDashboard(u)
    PROVE  Progress(u)'
<1> USE DEF WellFormed, TypeOK, Threads, Progress, Doing, AtRest, Adding
<1>0. /\ pc'[u] \in {"restore", "off"} /\ (portalOn => pc'[u] = "restore")
      /\ job'[u] = "none"
      /\ pc[t] \in FileLabels /\ t \in Requests /\ mac[t] # NoMac => mac[t] \in halfway'
      /\ halfway \subseteq halfway'
      /\ botched' = (botched \/ pc[t] \in {"whitelist", "flush", "fill"})
      /\ restarts' > 0
      /\ UNCHANGED <<codes, minted, grant, retired, disconnected, portalOn, now, toggles,
                     macs, sessions, rules, enforced, chained>>
  BY DEF RestartDashboard, OnlyThread, Interrupted, FileLabels, setting
<1>a. /\ mac[t] \in Macs => mac[t] # NoMac
      /\ Doing(t, {"login", "logout", "revokeCode"}, FileLabels) => t \in Requests
  BY DEF Places, FileLabels
<1>b. Doing(t, {"login", "logout", "revokeCode"}, FileLabels) /\ mac[t] \in Macs =>
          mac[t] \in halfway'
  BY <1>0, <1>a
<1>c. \A s \in sessions :
          /\ s.mac \in halfway => s.mac \in halfway'
          /\ Doing(t, {"login", "logout", "revokeCode"}, FileLabels) /\ s.mac = mac[t] =>
                s.mac \in halfway'
  BY <1>0, <1>b DEF Session
<1>1. Places(u)'
  BY <1>0 DEF Places, FileLabels
<1>2. Writing(u)'
  BY <1>0 DEF Writing, OthersOf
<1>3. WritingCodes(u)'
  BY <1>0 DEF WritingCodes
<1>4. SweepingOut(u)'
  BY <1>0 DEF SweepingOut, Sweeping, Expired
<1>5. PuttingBack(u)'
  BY <1>0 DEF PuttingBack, PutBack
<1>6. Listed(u)'
  BY <1>0, <1>b DEF FileLabels, Listed, MacAdded, MacRemoved
<1>7. Held(u)'
  BY <1>0, <1>c DEF Held, BeforeSession, FileLabels
<1>8. Minted'
  BY <1>0 DEF Minted
<1>9. Presented(u)'
  BY <1>0 DEF Presented, FileLabels
<1>10. Bound(u)'
  BY <1>0, <1>c DEF FileLabels, Bound
<1>11. Revoked(u)'
  BY <1>0, <1>c DEF FileLabels, Revoked, AfterCodes
<1>12. Admitted(u)'
  BY <1>0 DEF Admitted, Expired, PutBack, MacRemoved
<1>13. Open(u)'
  BY <1>0, <1>c DEF Open, FileLabels
<1>14. Backend = "nft" => Enforced(u)'
  BY <1>0 DEF Enforced
<1>15. Gone(u)'
  BY <1>0 DEF Gone, PutBack, Held, FileLabels
<1>16. QED
  BY <1>1, <1>2, <1>3, <1>4, <1>5, <1>6, <1>7, <1>8, <1>9, <1>10, <1>11, <1>12, <1>13, <1>14,
     <1>15

(* An empty list agrees with no rules, and a restoration is next. *)
LEMMA RebootKeeps ==
    ASSUME WellFormed, OneSessionEach, NEW t \in Threads, NEW u \in Sweepers, Progress(t),
           \A v \in Threads \ {t} : AtRest(v), Reboot(u)
    PROVE  Progress(u)'
<1> USE DEF WellFormed, TypeOK, Threads, Progress, Doing, AtRest, Adding
<1>0. /\ pc'[u] \in {"restore", "off"} /\ (portalOn => pc'[u] = "restore")
      /\ job'[u] = "none"
      /\ pc[t] \in FileLabels /\ t \in Requests /\ mac[t] # NoMac => mac[t] \in halfway'
      /\ halfway \subseteq halfway'
      /\ macs' = {} /\ rules' = {} /\ enforced' = portalOn /\ chained' = portalOn
      /\ botched' = FALSE
      /\ restarts' > 0
      /\ UNCHANGED <<codes, minted, grant, retired, disconnected, portalOn, now, toggles,
                     sessions>>
  BY DEF Reboot, OnlyThread, Interrupted, FileLabels, setting
<1>a. /\ mac[t] \in Macs => mac[t] # NoMac
      /\ Doing(t, {"login", "logout", "revokeCode"}, FileLabels) => t \in Requests
  BY DEF Places, FileLabels
<1>b. Doing(t, {"login", "logout", "revokeCode"}, FileLabels) /\ mac[t] \in Macs =>
          mac[t] \in halfway'
  BY <1>0, <1>a
<1>c. \A s \in sessions :
          /\ s.mac \in halfway => s.mac \in halfway'
          /\ Doing(t, {"login", "logout", "revokeCode"}, FileLabels) /\ s.mac = mac[t] =>
                s.mac \in halfway'
  BY <1>0, <1>b DEF Session
<1>1. Places(u)'
  BY <1>0 DEF Places, FileLabels
<1>2. Writing(u)'
  BY <1>0 DEF Writing, OthersOf
<1>3. WritingCodes(u)'
  BY <1>0 DEF WritingCodes
<1>4. SweepingOut(u)'
  BY <1>0 DEF SweepingOut, Sweeping, Expired
<1>5. PuttingBack(u)'
  BY <1>0 DEF PuttingBack, PutBack
<1>6. Listed(u)'
  BY <1>0, <1>b DEF FileLabels, Listed, MacAdded, MacRemoved
<1>7. Held(u)'
  BY <1>0, <1>c DEF Held, BeforeSession, FileLabels
<1>8. Minted'
  BY <1>0 DEF Minted
<1>9. Presented(u)'
  BY <1>0 DEF Presented, FileLabels
<1>10. Bound(u)'
  BY <1>0, <1>c DEF FileLabels, Bound
<1>11. Revoked(u)'
  BY <1>0, <1>c DEF FileLabels, Revoked, AfterCodes
<1>12. Admitted(u)'
  BY <1>0 DEF Admitted, Expired, PutBack, MacRemoved
<1>13. Open(u)'
  BY <1>0, <1>c DEF Open, FileLabels
<1>14. Backend = "nft" => Enforced(u)'
  BY <1>0 DEF Enforced
<1>15. Gone(u)'
  BY <1>0 DEF Gone, PutBack, Held, FileLabels
<1>16. QED
  BY <1>1, <1>2, <1>3, <1>4, <1>5, <1>6, <1>7, <1>8, <1>9, <1>10, <1>11, <1>12, <1>13, <1>14,
     <1>15

(* The portal is switched on: a restoration is next. *)
LEMMA SwitchOnKeeps ==
    ASSUME WellFormed, OneSessionEach, NEW t \in Sweepers, Progress(t), Quiet, SwitchOn(t)
    PROVE  Progress(t)'
<1> USE DEF WellFormed, TypeOK, Threads, Progress, Doing, AtRest, Adding
<1>0. /\ pc'[t] = "restore" /\ toggles' = toggles + 1
      /\ UNCHANGED <<macs, sessions, codes, firewall, minted, grant, retired,
                     disconnected, halfway, now, restarts, job>>
  BY DEF SwitchOn, Goto, stores, history
<1>1. Places(t)'
  BY <1>0 DEF Places, FileLabels, Quiet
<1>2. Writing(t)'
  BY <1>0 DEF Writing, OthersOf, Quiet
<1>3. WritingCodes(t)'
  BY <1>0 DEF WritingCodes, Quiet
<1>4. SweepingOut(t)'
  BY <1>0 DEF SweepingOut, Sweeping, Expired, Quiet
<1>5. PuttingBack(t)'
  BY <1>0 DEF PuttingBack, PutBack, Quiet
<1>6. Listed(t)'
  BY <1>0 DEF Listed, MacAdded, MacRemoved, Quiet
<1>7. Held(t)'
  BY <1>0 DEF Held, BeforeSession, FileLabels, Quiet
<1>8. Minted'
  BY <1>0 DEF Minted, Quiet
<1>9. Presented(t)'
  BY <1>0 DEF Presented, FileLabels, Quiet
<1>10. Bound(t)'
  BY <1>0 DEF Bound, Quiet
<1>11. Revoked(t)'
  BY <1>0 DEF Revoked, AfterCodes, Quiet
<1>12. Admitted(t)'
  BY <1>0 DEF Admitted, Expired, PutBack, MacRemoved, Quiet
<1>13. Open(t)'
  BY <1>0 DEF Open, FileLabels, Quiet
<1>14. Backend = "nft" => Enforced(t)'
  BY <1>0 DEF Enforced, Quiet
<1>15. Gone(t)'
  BY <1>0 DEF Gone, PutBack, Held, FileLabels, Quiet
<1>16. QED
  BY <1>1, <1>2, <1>3, <1>4, <1>5, <1>6, <1>7, <1>8, <1>9, <1>10, <1>11, <1>12, <1>13, <1>14,
     <1>15

(* The portal is switched off: nobody needs to be on the list. *)
LEMMA SwitchOffKeeps ==
    ASSUME WellFormed, OneSessionEach, NEW t \in Threads, Progress(t), Quiet, SwitchOff
    PROVE  Progress(t)'
<1> USE DEF WellFormed, TypeOK, Threads, Progress, Doing, AtRest, Adding
<1>0. /\ macs' = {} /\ portalOn' = FALSE /\ toggles' = toggles + 1
      /\ UNCHANGED <<sessions, codes, firewall, minted, grant, retired, disconnected,
                     halfway, now, restarts, pc, job, mac, code>>
  BY DEF SwitchOff, locals, history
<1>1. Places(t)'
  BY <1>0 DEF Places, FileLabels, Quiet
<1>2. Writing(t)'
  BY <1>0 DEF Writing, OthersOf, Quiet
<1>3. WritingCodes(t)'
  BY <1>0 DEF WritingCodes, Quiet
<1>4. SweepingOut(t)'
  BY <1>0 DEF SweepingOut, Sweeping, Expired, Quiet
<1>5. PuttingBack(t)'
  BY <1>0 DEF PuttingBack, PutBack, Quiet
<1>6. Listed(t)'
  BY <1>0 DEF Listed, MacAdded, MacRemoved, Quiet
<1>7. Held(t)'
  BY <1>0 DEF Held, BeforeSession, FileLabels, Quiet
<1>8. Minted'
  BY <1>0 DEF Minted, Quiet
<1>9. Presented(t)'
  BY <1>0 DEF Presented, FileLabels, Quiet
<1>10. Bound(t)'
  BY <1>0 DEF Bound, Quiet
<1>11. Revoked(t)'
  BY <1>0 DEF Revoked, AfterCodes, Quiet
<1>12. Admitted(t)'
  BY <1>0 DEF Admitted, Expired, PutBack, MacRemoved, Quiet
<1>13. Open(t)'
  BY <1>0 DEF Open, FileLabels, Quiet
<1>14. Backend = "nft" => Enforced(t)'
  BY <1>0 DEF Enforced, Quiet
<1>15. Gone(t)'
  BY <1>0 DEF Gone, PutBack, Held, FileLabels, Quiet
<1>16. QED
  BY <1>1, <1>2, <1>3, <1>4, <1>5, <1>6, <1>7, <1>8, <1>9, <1>10, <1>11, <1>12, <1>13, <1>14,
     <1>15

(* The rules are those of the list. *)
LEMMA RestartHotspotKeeps ==
    ASSUME WellFormed, OneSessionEach, NEW t \in Threads, Progress(t), Quiet, RestartHotspot
    PROVE  Progress(t)'
<1> USE DEF WellFormed, TypeOK, Threads, Progress, Doing, AtRest, Adding
<1>1. Places(t)'
  BY DEF RestartHotspot, Places, history, setting, locals, FileLabels, Quiet
<1>2. Writing(t)'
  BY DEF RestartHotspot, Writing, history, setting, locals, OthersOf, Quiet
<1>3. WritingCodes(t)'
  BY DEF RestartHotspot, WritingCodes, history, setting, locals, Quiet
<1>4. SweepingOut(t)'
  BY DEF RestartHotspot, SweepingOut, history, setting, locals, Sweeping, Expired, Quiet
<1>5. PuttingBack(t)'
  BY DEF RestartHotspot, PuttingBack, history, setting, locals, PutBack, Quiet
<1>6. Listed(t)'
  BY DEF RestartHotspot, Listed, history, setting, locals, MacAdded, MacRemoved, Quiet
<1>7. Held(t)'
  BY DEF RestartHotspot, Held, history, setting, locals, BeforeSession, FileLabels, Quiet
<1>8. Minted'
  BY DEF RestartHotspot, Minted, history, setting, locals, Quiet
<1>9. Presented(t)'
  BY DEF RestartHotspot, Presented, history, setting, locals, FileLabels, Quiet
<1>10. Bound(t)'
  BY DEF RestartHotspot, Bound, history, setting, locals, Quiet
<1>11. Revoked(t)'
  BY DEF RestartHotspot, Revoked, history, setting, locals, AfterCodes, Quiet
<1>12. Admitted(t)'
  BY DEF RestartHotspot, Admitted, history, setting, locals, Expired, PutBack, MacRemoved,
         Quiet
<1>13. Open(t)'
  BY DEF RestartHotspot, Open, history, setting, locals, FileLabels, Quiet
<1>14. Backend = "nft" => Enforced(t)'
  BY DEF RestartHotspot, Enforced, history, setting, locals, Quiet
<1>15. Gone(t)'
  BY DEF RestartHotspot, Gone, PutBack, Held, FileLabels, history, setting, locals, Quiet
<1>16. QED
  BY <1>1, <1>2, <1>3, <1>4, <1>5, <1>6, <1>7, <1>8, <1>9, <1>10, <1>11, <1>12, <1>13, <1>14,
     <1>15

(* Expired sessions stay expired. *)
LEMMA TickKeeps ==
    ASSUME WellFormed, OneSessionEach, NEW t \in Threads, Progress(t), Tick
    PROVE  Progress(t)'
<1> USE DEF WellFormed, TypeOK, Threads, Progress, Doing, AtRest, Adding
<1>0. /\ \A x \in sessions : Expired(x.expires) => Expired(x.expires)'
      /\ UNCHANGED <<stores, locals, history, setting, toggles, restarts>>

  <2>1. now' = now + 1 /\ UNCHANGED <<stores, locals, history, setting, toggles,
                                      restarts>>
    BY DEF Tick
  <2>2. \A x \in sessions : x.expires \in Nat
    BY DEF Session
  <2>3. \A e \in Nat : Expired(e) => Expired(e)'
    BY <2>1 DEF Expired
  <2>4. QED
    BY <2>1, <2>2, <2>3
<1>1. Places(t)'
  BY <1>0 DEF Places, FileLabels, stores, locals, history, setting
<1>2. Writing(t)'
  BY <1>0 DEF Writing, OthersOf, stores, locals, history, setting
<1>3. WritingCodes(t)'
  BY <1>0 DEF WritingCodes, stores, locals, history, setting
<1>4. SweepingOut(t)'
  BY <1>0 DEF SweepingOut, Sweeping, stores, locals, history, setting
<1>5. PuttingBack(t)'
  BY <1>0 DEF PuttingBack, PutBack, stores, locals, history, setting
<1>6. Listed(t)'
  BY <1>0 DEF Listed, MacAdded, MacRemoved, stores, locals, history, setting
<1>7. Held(t)'
  BY <1>0 DEF Held, BeforeSession, FileLabels, stores, locals, history, setting
<1>8. Minted'
  BY <1>0 DEF Minted, stores, locals, history, setting
<1>9. Presented(t)'
  BY <1>0 DEF Presented, FileLabels, stores, locals, history, setting
<1>10. Bound(t)'
  BY <1>0 DEF Bound, stores, locals, history, setting
<1>11. Revoked(t)'
  BY <1>0 DEF Revoked, AfterCodes, stores, locals, history, setting
<1>12. Admitted(t)'
  BY <1>0 DEF Admitted, PutBack, MacRemoved, stores, locals, history, setting
<1>13. Open(t)'
  BY <1>0 DEF Open, FileLabels, stores, locals, history, setting
<1>14. Backend = "nft" => Enforced(t)'
  BY <1>0 DEF Enforced, stores, locals, history, setting
<1>15. Gone(t)'
  BY <1>0 DEF Gone, PutBack, Held, FileLabels, stores, locals, history, setting
<1>16. QED
  BY <1>1, <1>2, <1>3, <1>4, <1>5, <1>6, <1>7, <1>8, <1>9, <1>10, <1>11, <1>12, <1>13, <1>14,
     <1>15

(* When nothing is in progress any thread may be taken for the one at work. *)
LEMMA RestAnywhere ==
    ASSUME Quiet, NEW t \in Threads, NEW u \in Threads, Progress(t)
    PROVE  Progress(u)
<1> USE DEF Quiet, AtRest, Doing, Progress
<1>1. Places(u)
  BY DEF Places, FileLabels
<1>2. Writing(u)
  BY DEF Writing, OthersOf
<1>3. WritingCodes(u)
  BY DEF WritingCodes
<1>4. SweepingOut(u)
  BY DEF SweepingOut, Sweeping, Expired
<1>5. PuttingBack(u)
  BY DEF PuttingBack, PutBack
<1>6. Listed(u)
  BY DEF Listed, MacAdded, MacRemoved
<1>7. Held(u)
  BY DEF Held, BeforeSession, FileLabels
<1>8. Minted
  BY DEF Minted
<1>9. Presented(u)
  BY DEF Presented, FileLabels
<1>10. Bound(u)
  BY DEF Bound
<1>11. Revoked(u)
  BY DEF Revoked, AfterCodes
<1>12. Admitted(u)
  BY DEF Admitted, Expired, PutBack, MacRemoved
<1>13. Open(u)
  BY DEF Open, FileLabels
<1>14. Backend = "nft" => Enforced(u)
  BY DEF Enforced
<1>15. Gone(u)
  BY DEF Gone, PutBack, Held, FileLabels
<1>16. QED
  BY <1>1, <1>2, <1>3, <1>4, <1>5, <1>6, <1>7, <1>8, <1>9, <1>10, <1>11, <1>12, <1>13, <1>14,
     <1>15

Working(t) == (\A u \in Threads \ {t} : AtRest(u)) /\ Progress(t)

(* Whether threads overlap is fixed in a behaviour. *)
LEMMA OverlapConstant == [Next]_vars => UNCHANGED overlap
BY DEF Next, Request, FileStep, SweepStep, Login, Logout, Revoke, RevokeCode,
       CreateCodes, ReadMacs, WriteMacs, Whitelist, FlushRules, FillRules, TimeOut,
       ReadSessions, WriteSessions, ReadCodes, WriteCodes, SweepSessions, Restore,
       NextMac, RestartDashboard, Reboot, SwitchOn, SwitchOff, RestartHotspot, Tick,
       setting, vars

(* No step disturbs what the thread at work has done: the next one to begin
   finds the stores in agreement. *)
LEMMA OneAtWorkStep ==
    WellFormed /\ OneSessionEach /\ OneAtWork /\ [Next]_vars => OneAtWork'
<1> SUFFICES ASSUME WellFormed, OneSessionEach, OneAtWork, [Next]_vars, ~overlap'
             PROVE  \E t \in Threads : Working(t)'
  BY DEF OneAtWork, Working
<1>1. UNCHANGED overlap
  BY OverlapConstant
<1>2. PICK t \in Threads : Working(t)
  BY <1>1 DEF OneAtWork, Working
<1>3. MayStart => \A u \in Threads : Quiet /\ Progress(u)
  BY <1>1, <1>2, RestAnywhere DEF MayStart, Working
<1> USE DEF Working, Threads
<1>4. ASSUME NEW u \in Requests, NEW m \in Macs, NEW c \in Codes \cup {Permanent},
             Login(u, m, c)
       PROVE  Working(u)'
  <2>1. Quiet /\ Progress(u)
    BY <1>3, <1>4 DEF Login, Begin
  <2>2. Progress(u)'
    BY <2>1, <1>4, LoginKeeps
  <2>3. QED
    BY <2>1, <2>2, <1>4 DEF Login, Begin, Goto, Quiet, AtRest, WellFormed, TypeOK
<1>5. ASSUME NEW u \in Requests, NEW m \in Macs, Logout(u, m)
       PROVE  Working(u)'
  <2>1. Quiet /\ Progress(u)
    BY <1>3, <1>5 DEF Logout, Begin
  <2>2. Progress(u)'
    BY <2>1, <1>5, LogoutKeeps
  <2>3. QED
    BY <2>1, <2>2, <1>5 DEF Logout, Begin, Goto, Quiet, AtRest, WellFormed, TypeOK
<1>6. ASSUME NEW u \in Requests, NEW m \in Macs, Revoke(u, m)
       PROVE  Working(u)'
  <2>1. Quiet /\ Progress(u)
    BY <1>3, <1>6 DEF Revoke, Begin
  <2>2. Progress(u)'
    BY <2>1, <1>6, RevokeKeeps
  <2>3. QED
    BY <2>1, <2>2, <1>6 DEF Revoke, Begin, Goto, Quiet, AtRest, WellFormed, TypeOK
<1>7. ASSUME NEW u \in Requests, NEW c \in Codes, RevokeCode(u, c)
       PROVE  Working(u)'
  <2>1. Quiet /\ Progress(u)
    BY <1>3, <1>7 DEF RevokeCode, Begin
  <2>2. Progress(u)'
    BY <2>1, <1>7, RevokeCodeKeeps
  <2>3. QED
    BY <2>1, <2>2, <1>7 DEF RevokeCode, Begin, Goto, Quiet, AtRest, WellFormed, TypeOK
<1>8. ASSUME NEW u \in Requests, NEW b \in SUBSET Codes, CreateCodes(u, b)
       PROVE  Working(u)'
  <2>1. Quiet /\ Progress(u)
    BY <1>3, <1>8 DEF CreateCodes, Begin
  <2>2. Progress(u)'
    BY <2>1, <1>8, CreateCodesKeeps
  <2>3. QED
    BY <2>1, <2>2, <1>8 DEF CreateCodes, Begin, Goto, Quiet, AtRest, WellFormed, TypeOK
<1>9. ASSUME NEW u \in Threads, ReadMacs(u)
       PROVE  Working(u)'
  <2>1. t = u
    BY <1>2, <1>9 DEF ReadMacs, AtRest
  <2>2. Progress(u)'
    BY <1>2, <2>1, <1>9, ReadMacsKeeps
  <2>3. QED
    BY <1>2, <2>1, <2>2, <1>9 DEF ReadMacs, Goto, AtRest, WellFormed, TypeOK
<1>10. ASSUME NEW u \in Threads, WriteMacs(u)
       PROVE  Working(u)'
  <2>1. t = u
    BY <1>2, <1>10 DEF WriteMacs, AtRest
  <2>2. Progress(u)'
    BY <1>2, <2>1, <1>10, WriteMacsKeeps
  <2>3. QED
    BY <1>2, <2>1, <2>2, <1>10 DEF WriteMacs, Goto, AtRest, WellFormed, TypeOK
<1>11. ASSUME NEW u \in Threads, Whitelist(u)
       PROVE  Working(u)'
  <2>1. t = u
    BY <1>2, <1>11 DEF Whitelist, AtRest
  <2>2. Progress(u)'
    BY <1>2, <2>1, <1>11, WhitelistKeeps
  <2>3. QED
    BY <1>2, <2>1, <2>2, <1>11 DEF Whitelist, Goto, AtRest, WellFormed, TypeOK
<1>12. ASSUME NEW u \in Threads, FlushRules(u)
       PROVE  Working(u)'
  <2>1. t = u
    BY <1>2, <1>12 DEF FlushRules, AtRest
  <2>2. Progress(u)'
    BY <1>2, <2>1, <1>12, FlushRulesKeeps
  <2>3. QED
    BY <1>2, <2>1, <2>2, <1>12 DEF FlushRules, Goto, AtRest, WellFormed, TypeOK
<1>13. ASSUME NEW u \in Threads, FillRules(u)
       PROVE  Working(u)'
  <2>1. t = u
    BY <1>2, <1>13 DEF FillRules, AtRest
  <2>2. Progress(u)'
    BY <1>2, <2>1, <1>13, FillRulesKeeps
  <2>3. QED
    BY <1>2, <2>1, <2>2, <1>13 DEF FillRules, Goto, AtRest, WellFormed, TypeOK
<1>14. ASSUME NEW u \in Threads, ReadSessions(u)
       PROVE  Working(u)'
  <2>1. t = u
    BY <1>2, <1>14 DEF ReadSessions, AtRest
  <2>2. Progress(u)'
    BY <1>2, <2>1, <1>14, ReadSessionsKeeps
  <2>3. QED
    BY <1>2, <2>1, <2>2, <1>14 DEF ReadSessions, Goto, AtRest, WellFormed, TypeOK
<1>15. ASSUME NEW u \in Threads, WriteSessions(u)
       PROVE  Working(u)'
  <2>1. t = u
    BY <1>2, <1>15 DEF WriteSessions, AtRest
  <2>2. Progress(u)'
    BY <1>2, <2>1, <1>15, WriteSessionsKeeps
  <2>3. QED
    BY <1>2, <2>1, <2>2, <1>15 DEF WriteSessions, Goto, AtRest, WellFormed, TypeOK
<1>16. ASSUME NEW u \in Threads, ReadCodes(u)
       PROVE  Working(u)'
  <2>1. t = u
    BY <1>2, <1>16 DEF ReadCodes, AtRest
  <2>2. Progress(u)'
    BY <1>2, <2>1, <1>16, ReadCodesKeeps
  <2>3. QED
    BY <1>2, <2>1, <2>2, <1>16 DEF ReadCodes, Goto, AtRest, WellFormed, TypeOK
<1>17. ASSUME NEW u \in Threads, WriteCodes(u)
       PROVE  Working(u)'
  <2>1. t = u
    BY <1>2, <1>17 DEF WriteCodes, AtRest
  <2>2. Progress(u)'
    BY <1>2, <2>1, <1>17, WriteCodesKeeps
  <2>3. QED
    BY <1>2, <2>1, <2>2, <1>17 DEF WriteCodes, Goto, AtRest, WellFormed, TypeOK
<1>18. ASSUME NEW u \in Sweepers, SweepSessions(u)
       PROVE  Working(u)'
  <2>1. Quiet /\ Progress(u)
    BY <1>3, <1>18 DEF SweepSessions
  <2>2. Progress(u)'
    BY <2>1, <1>18, SweepSessionsKeeps
  <2>3. QED
    BY <2>1, <2>2, <1>18 DEF SweepSessions, Goto, Quiet, AtRest, WellFormed, TypeOK
<1>19. ASSUME NEW u \in Sweepers, Restore(u)
       PROVE  Working(u)'
  <2>1. t = u
    BY <1>2, <1>19 DEF Restore, AtRest
  <2>2. Progress(u)'
    BY <1>2, <2>1, <1>19, RestoreKeeps
  <2>3. QED
    BY <1>2, <2>1, <2>2, <1>19 DEF Restore, Goto, AtRest, WellFormed, TypeOK
<1>20. ASSUME NEW u \in Sweepers, NextMac(u)
       PROVE  Working(u)'
  <2>1. t = u
    BY <1>2, <1>20 DEF NextMac, AtRest
  <2>2. Progress(u)'
    BY <1>2, <2>1, <1>20, NextMacKeeps
  <2>3. QED
    BY <1>2, <2>1, <2>2, <1>20 DEF NextMac, Goto, AtRest, WellFormed, TypeOK
<1>21. ASSUME NEW u \in Sweepers, RestartDashboard(u)
       PROVE  Working(u)'
  <2>1. Progress(u)'
    BY <1>2, <1>21, RestartDashboardKeeps
  <2>2. \A v \in Threads \ {u} : AtRest(v)'
    BY <1>21 DEF RestartDashboard, OnlyThread, AtRest
  <2>3. QED
    BY <2>1, <2>2
<1>22. ASSUME NEW u \in Sweepers, Reboot(u)
       PROVE  Working(u)'
  <2>1. Progress(u)'
    BY <1>2, <1>22, RebootKeeps
  <2>2. \A v \in Threads \ {u} : AtRest(v)'
    BY <1>22 DEF Reboot, OnlyThread, AtRest
  <2>3. QED
    BY <2>1, <2>2
<1>23. ASSUME NEW u \in Sweepers, SwitchOn(u)
       PROVE  Working(u)'
  <2>1. Quiet /\ Progress(u)
    BY <1>3, <1>23 DEF SwitchOn
  <2>2. Progress(u)'
    BY <2>1, <1>23, SwitchOnKeeps
  <2>3. QED
    BY <2>1, <2>2, <1>23 DEF SwitchOn, Goto, Quiet, AtRest, WellFormed, TypeOK
<1>24. CASE SwitchOff
  <2>1. Quiet /\ Progress(t)
    BY <1>3, <1>24 DEF SwitchOff
  <2>2. Progress(t)'
    BY <2>1, <1>24, SwitchOffKeeps
  <2>3. QED
    BY <1>2, <2>2, <1>24 DEF SwitchOff, AtRest, locals
<1>25. CASE RestartHotspot
  <2>1. Quiet /\ Progress(t)
    BY <1>3, <1>25 DEF RestartHotspot
  <2>2. Progress(t)'
    BY <2>1, <1>25, RestartHotspotKeeps
  <2>3. QED
    BY <1>2, <2>2, <1>25 DEF RestartHotspot, AtRest, locals
<1>26. CASE Tick
  <2>1. Progress(t)'
    BY <1>2, <1>26, TickKeeps
  <2>2. QED
    BY <1>2, <2>1, <1>26 DEF Tick, AtRest, locals
<1>27. CASE UNCHANGED vars
  <2>1. UNCHANGED <<stores, locals, history, setting, now, toggles, restarts>>
    BY <1>27 DEF vars
  <2>2. Progress(t)'
    <3> USE DEF Progress, Doing, stores, locals, history, setting
    <3>1. Places(t)'
      BY <1>2, <2>1 DEF Places, FileLabels
    <3>2. Writing(t)'
      BY <1>2, <2>1 DEF Writing, OthersOf, Adding, OthersOf
    <3>3. WritingCodes(t)'
      BY <1>2, <2>1 DEF WritingCodes
    <3>4. SweepingOut(t)'
      BY <1>2, <2>1 DEF SweepingOut, Sweeping, Expired
    <3>5. PuttingBack(t)'
      BY <1>2, <2>1 DEF PuttingBack, PutBack
    <3>6. Listed(t)'
      BY <1>2, <2>1 DEF Listed, MacAdded, MacRemoved
    <3>7. Held(t)'
      BY <1>2, <2>1 DEF Held, BeforeSession, FileLabels
    <3>8. Minted'
      BY <1>2, <2>1 DEF Minted
    <3>9. Presented(t)'
      BY <1>2, <2>1 DEF Presented, FileLabels
    <3>10. Bound(t)'
      BY <1>2, <2>1 DEF Bound
    <3>11. Revoked(t)'
      BY <1>2, <2>1 DEF Revoked, AfterCodes
    <3>12. Admitted(t)'
      BY <1>2, <2>1 DEF Admitted, Expired, PutBack, MacRemoved
    <3>13. Open(t)'
      BY <1>2, <2>1 DEF Open, FileLabels
    <3>14. Backend = "nft" => Enforced(t)'
      BY <1>2, <2>1 DEF Enforced
    <3>15. Gone(t)'
      BY <1>2, <2>1 DEF Gone, PutBack, Held, FileLabels
    <3>16. QED
      BY <3>1, <3>2, <3>3, <3>4, <3>5, <3>6, <3>7, <3>8, <3>9, <3>10, <3>11, <3>12, <3>13,
         <3>14,
     <3>15
  <2>3. QED
    BY <1>2, <2>1, <2>2 DEF AtRest, locals
<1>28. ASSUME NEW u \in Threads, TimeOut(u)
       PROVE  Working(u)'
  <2>1. t = u
    BY <1>2, <1>28 DEF TimeOut, AtRest
  <2>2. Progress(u)'
    BY <1>2, <2>1, <1>28, TimeOutKeeps
  <2>3. QED
    BY <1>2, <2>1, <2>2, <1>28 DEF TimeOut, Goto, AtRest, WellFormed, TypeOK
<1>29. QED
  BY <1>2, <1>4, <1>5, <1>6, <1>7, <1>8, <1>9, <1>10, <1>11, <1>12, <1>13, <1>14, <1>15,
     <1>16, <1>17, <1>18, <1>19, <1>20, <1>21, <1>22, <1>23, <1>24, <1>25, <1>26, <1>27,
     <1>28
     DEF Next, Request, FileStep, SweepStep


(* Nothing is in progress at first, and nothing is in the stores. *)
LEMMA OneAtWorkInit == Init => OneAtWork
<1> SUFFICES ASSUME Init PROVE OneAtWork
  OBVIOUS
<1>1. PICK s \in Sweepers :
          pc = [t \in Threads |-> IF t = s THEN "asleep"
                                  ELSE IF t \in Sweepers THEN "off" ELSE "new"]
  BY DEF Init
<1>2. \A t \in Threads : AtRest(t) /\ job[t] = "none" /\ pc[t] \in {"asleep", "off", "new"}
  BY <1>1 DEF Init, AtRest
<1>3. s \in Threads
  BY DEF Threads
<1>4. Minted
  BY DEF Init, Minted, Fresh
<1>5. Progress(s)
  <2>1. Places(s) /\ Writing(s) /\ WritingCodes(s) /\ SweepingOut(s) /\ PuttingBack(s)
    BY <1>2, <1>3
       DEF Places, Writing, WritingCodes, SweepingOut, PuttingBack, Doing, FileLabels
  <2>2. Listed(s) /\ Held(s) /\ Presented(s) /\ Bound(s) /\ Revoked(s)
    BY <1>2, <1>3 DEF Init, Listed, Held, Presented, Bound, Revoked, Doing
  <2>3. Admitted(s) /\ Open(s) /\ Gone(s) /\ Enforced(s)
    BY <1>2, <1>3 DEF Init, Admitted, Open, Gone, Doing, Enforced
  <2>4. QED
    BY <1>4, <2>1, <2>2, <2>3 DEF Progress
<1>6. QED
  BY <1>2, <1>3, <1>5 DEF OneAtWork

(* The whole invariant of the portal. *)
Orderly == WellFormed /\ OneSessionEach /\ OneAtWork

LEMMA OrderlyAlways == Spec => []Orderly
<1>1. Init => Orderly
  <2>1. Init => WellFormed
    BY WellFormedInit
  <2>2. Init => OneSessionEach
    BY DEF Init, OneSessionEach, OneSessionPerMac, Threads
  <2>3. QED
    BY <2>1, <2>2, OneAtWorkInit DEF Orderly
<1>2. Orderly /\ [Next]_vars => Orderly'
  BY WellFormedStep, OneSessionEachStep, OneAtWorkStep DEF Orderly
<1>3. QED
  BY <1>1, <1>2, PTL DEF Spec

(* What is in the stores when nothing is in progress. *)
LEMMA AtRestFacts ==
    ASSUME Orderly, Serial
    PROVE  /\ \A m \in macs : m \in halfway \/ \E s \in sessions : s.mac = m
           /\ \A s \in sessions :
                 \/ grant[s.mac] \in {s.code, NoCode} /\ s.code \notin retired
                 \/ s.mac \in halfway
           /\ \A s \in sessions, v \in codes :
                 s.code = v.id => v.bound = s.mac \/ s.mac \in halfway
           /\ \A v \in codes : v.id \notin retired
           /\ \A s \in sessions :
                 grant[s.mac] = NoCode => s.mac \in disconnected \cup halfway
           /\ restarts = 0 /\ toggles = 0 => \A m \in macs : grant[m] # NoCode
           /\ portalOn => \A s \in sessions :
                 Expired(s.expires) \/ grant[s.mac] = NoCode \/ s.mac \in macs
           /\ Backend = "nft" /\ toggles = 0 /\ ~botched => enforced /\ rules = macs
<1>1. PICK t \in Threads : Progress(t) /\ AtRest(t)
  BY DEF Orderly, OneAtWork, Serial, Quiet
<1> USE DEF Progress, AtRest, Doing
<1>2. \A m \in macs : m \in halfway \/ \E s \in sessions : s.mac = m
  BY <1>1 DEF Listed, MacAdded
<1>3. \A s \in sessions : grant[s.mac] \in {s.code, NoCode} \/ s.mac \in halfway
  BY <1>1 DEF Held, BeforeSession
<1>4. \A s \in sessions : s.code \notin retired \/ s.mac \in halfway
  BY <1>1 DEF Revoked, AfterCodes
<1>5. \A s \in sessions, v \in codes :
          s.code = v.id => v.bound = s.mac \/ s.mac \in halfway
  BY <1>1 DEF Bound
<1>6. \A v \in codes : v.id \notin retired
  BY <1>1 DEF Minted
<1>7. \A s \in sessions : grant[s.mac] = NoCode => s.mac \in disconnected \cup halfway
  BY <1>1 DEF Open, FileLabels
<1>8. restarts = 0 /\ toggles = 0 => \A m \in macs : grant[m] # NoCode
  BY <1>1 DEF Gone
<1>9. portalOn => \A s \in sessions :
          Expired(s.expires) \/ grant[s.mac] = NoCode \/ s.mac \in macs
  BY <1>1 DEF Admitted, MacRemoved, PutBack
<1>10. Backend = "nft" /\ toggles = 0 /\ ~botched => enforced /\ rules = macs
  BY <1>1 DEF Enforced
<1>11. QED
  BY <1>2, <1>3, <1>4, <1>5, <1>6, <1>7, <1>8, <1>9, <1>10

(* Requests that do not overlap: a voucher serves one device from its creation
   to its revocation, and nobody that came in with it is left afterwards, with
   either firewall, whatever the administrator does and whenever the dashboard
   dies, but for a client whose own request died with it: VouchersHold. *)
THEOREM VouchersAlwaysHold == Spec => []VouchersHold
<1>1. Orderly => VouchersHold
  <2> SUFFICES ASSUME Orderly, Serial
               PROVE  /\ \A s \in sessions, v \in codes :
                            s.code = v.id => v.bound = s.mac \/ s.mac \in halfway
                      /\ \A m \in macs \ halfway : grant[m] \notin retired
                      /\ \A v \in codes : v.id \notin retired
    BY DEF VouchersHold, VoucherOneDevice, RevokedCodeDisconnects, RevokedCodeGone
  <2>1. NoCode \notin retired
    BY DEF Orderly, WellFormed, TypeOK
  <2>2. QED
    BY <2>1, AtRestFacts
<1>2. QED
  BY <1>1, OrderlyAlways, PTL

(* ... and with either firewall, and whatever the administrator does, a client on
   the list has a session, which the sweep will find, unless its own request died
   with the dashboard: ListedHasSession. *)
THEOREM ListedAlwaysHaveSessions == Spec => []ListedHasSession
<1>1. Orderly => ListedHasSession
  BY AtRestFacts DEF ListedHasSession, MacsOf
<1>2. QED
  BY <1>1, OrderlyAlways, PTL

(* ... and with nft list, sessions, rules and grants agree whenever nothing is in
   progress, whatever the administrator does, wherever the dashboard or the machine
   dies and whichever firewall command is cut short: StoresAgree. *)
THEOREM StoresAlwaysAgree ==
    ASSUME Backend = "nft"
    PROVE  Spec => []StoresAgree
<1>1. Orderly => StoresAgree
  <2> SUFFICES ASSUME Orderly, Serial
               PROVE  /\ macs \subseteq MacsOf(sessions) \cup halfway
                      /\ portalOn => \A s \in sessions :
                            ~Expired(s.expires) /\ grant[s.mac] # NoCode => s.mac \in macs
                      /\ ~botched /\ toggles = 0 => enforced /\ rules = macs
                      /\ \A m \in macs :
                            \/ grant[m] # NoCode
                            \/ m \in halfway
                            \/ m \in disconnected /\ restarts + toggles > 0
    BY DEF StoresAgree, ListedHasSession, SessionHasAccess, RulesFollowList, ListIsGranted
  <2>1. restarts \in Nat /\ toggles \in Nat
    BY DEF Orderly, WellFormed, TypeOK
  <2>2. QED
    BY <2>1, AtRestFacts DEF MacsOf
<1>2. QED
  BY <1>1, OrderlyAlways, PTL

(* ... and where requests do not overlap the sweep takes out no session that has
   not expired (where they do it may lose one, see the run captive_lost_session):
   SweepRemovesExpired. *)
THEOREM SweepAloneIsSafe ==
    ASSUME Overlaps = {FALSE}
    PROVE  Spec => SweepRemovesExpired
<1> DEFINE Safe == \A s \in Sweepers : WriteSessions(s) =>
                       \A x \in sessions \ sessions' : Expired(x.expires)
<1>1. Init => ~overlap
  BY DEF Init
<1>2. ~overlap /\ [Next]_vars => (~overlap)'
  BY OverlapConstant
<1>3. ASSUME Orderly, ~overlap, [Next]_vars
       PROVE  [Safe]_vars
  <2> SUFFICES ASSUME NEW s \in Sweepers, WriteSessions(s), NEW x \in sessions \ sessions'
               PROVE  Expired(x.expires)
    OBVIOUS
  <2>1. PICK t \in Threads : (\A u \in Threads \ {t} : AtRest(u)) /\ Progress(t)
    BY <1>3 DEF Orderly, OneAtWork
  <2>2. s = t /\ pc[t] = "writeSessions" /\ sessions' = outSessions[t]
    BY <2>1 DEF WriteSessions, AtRest, Threads
  <2>3. job[t] = "sweep"
    BY <2>1, <2>2 DEF Progress, Places, FileLabels
  <2>4. SweepingOut(t)
    BY <2>1 DEF Progress
  <2>5. \A y \in sessions \ outSessions[t] : Expired(y.expires)
    BY <2>2, <2>3, <2>4 DEF SweepingOut, Doing, Sweeping
  <2>6. QED
    BY <2>2, <2>5
<1>4. QED
  BY <1>1, <1>2, <1>3, OrderlyAlways, PTL DEF Spec, SweepRemovesExpired
=============================================================================
