------------------------- MODULE DnsBlockingProofs -------------------------
(***************************************************************************)
(* What holds of the block list for any number of requests, names,         *)
(* patterns, crashes and failures.                                         *)
(***************************************************************************)
EXTENDS DnsBlocking, TLAPS

USE PatternsAssumption
-----------------------------------------------------------------------------
(* Types. *)
Changes == {"truncate", "write", "kill", "forget"}  \* a reload's own labels
Tail == {"launch", "check"}                         \* ... and those of start.sh too
Labels == {"idle", "read", "signal", "clear"} \cup Changes \cup Tail
Job == [op : Ops, pattern : Patterns, read : SUBSET Patterns]

Fits(label, op) ==
    /\ label \in {"read", "signal"} \cup Changes => op # "start"
    /\ label \in {"idle", "clear"} => op = "start"

ListOK ==
    /\ table \subseteq Patterns
    /\ file \subseteq Directives(Patterns) /\ cut \in BOOLEAN
    /\ held \subseteq table /\ released \subseteq Patterns \ table
DnsmasqOK ==
    /\ loaded \subseteq Directives(Patterns)
    /\ up \in BOOLEAN /\ managed \in BOOLEAN /\ grace \in BOOLEAN /\ about \in BOOLEAN
    /\ short \in BOOLEAN
    /\ managed => up
RequestsOK ==
    /\ pc \in [Threads -> Labels] /\ job \in [Threads -> Job]
    /\ \A t \in Threads : Fits(pc[t], job[t].op)
BoundsOK == budget \in Budgets /\ ops \in Nat /\ crashes \in Nat /\ faults \in Nat

TypeInv == ListOK /\ DnsmasqOK /\ RequestsOK /\ BoundsOK

(* A request at rest has a job like any other. *)
LEMMA NoJobType == NoJob \in Job /\ NoJob.op = "start"
BY DEF NoJob, Job, Ops

(* Fewer rows give fewer directives. *)
LEMMA DirectivesGrow ==
    ASSUME NEW rows, NEW more, rows \subseteq more
    PROVE  Directives(rows) \subseteq Directives(more)
BY DEF Directives

(* Starting dnsmasq keeps the types. *)
LEMMA LaunchType ==
    ASSUME DnsmasqOK, ListOK, Launch, about' \in BOOLEAN
    PROVE  DnsmasqOK'
BY DEF DnsmasqOK, ListOK, Launch, dnsmasq

(* A request goes on, ... *)
LEMMA OnwardType ==
    ASSUME RequestsOK, NEW t \in Threads, NEW label \in Labels, Fits(label, job[t].op),
           Onward(t, label)
    PROVE  RequestsOK'
BY DEF RequestsOK, Onward, Goto

(* ... or is answered. *)
LEMMA LeaveType ==
    ASSUME RequestsOK, NEW t \in Threads, Leave(t)
    PROVE  RequestsOK'
BY NoJobType DEF RequestsOK, Leave, Goto, Fits, Labels, Changes

(* A failure of the script ends the request, or has dnsmasq signalled. *)
LEMMA FailedType ==
    ASSUME RequestsOK, NEW t \in Threads, Failed(t)
    PROVE  RequestsOK' /\ UNCHANGED history
<1>1. CASE job[t].op = "domain"
  <2>1. Onward(t, "signal") /\ "signal" \in Labels /\ Fits("signal", job[t].op)
    BY <1>1 DEF Failed, Labels, Fits
  <2>2. QED
    BY <2>1, OnwardType DEF Onward
<1>2. CASE job[t].op # "domain"
  BY <1>2, LeaveType DEF Failed, Fail
<1>3. QED
  BY <1>1, <1>2

(* The type invariant holds at first, ... *)
LEMMA TypeInit == Init => TypeInv
<1> SUFFICES ASSUME Init PROVE TypeInv
  OBVIOUS
<1>1. ListOK /\ DnsmasqOK
  <2>1. file \subseteq Directives(Patterns)
    BY DEF Init, Directives
  <2>2. QED
    BY <2>1 DEF Init, ListOK, DnsmasqOK
<1>2. RequestsOK
  BY NoJobType DEF Init, RequestsOK, Fits, Labels, Changes
<1>3. BoundsOK
  BY DEF Init, BoundsOK
<1>4. QED
  BY <1>1, <1>2, <1>3 DEF TypeInv

(* ... and every step keeps it. *)
LEMMA TypeStep == TypeInv /\ [Next]_vars => TypeInv'
<1> SUFFICES ASSUME TypeInv, [Next]_vars PROVE TypeInv'
  OBVIOUS
<1> USE DEF TypeInv
<1>1. CASE UNCHANGED vars
  BY <1>1 DEF vars, dnsmasq, requests, bounds, history, ListOK, DnsmasqOK, RequestsOK,
              BoundsOK
<1>2. CASE Crash
  <2>1. ListOK' /\ RequestsOK'
    BY <1>2 DEF Crash, requests, history, ListOK, RequestsOK
  <2>2. DnsmasqOK'
    BY <1>2 DEF Crash, DnsmasqOK
  <2>3. BoundsOK'
    BY <1>2 DEF Crash, BoundsOK
  <2>4. QED
    BY <2>1, <2>2, <2>3
<1>3. CASE GraceEnds \/ Watch
  <2>1. ListOK' /\ RequestsOK' /\ BoundsOK'
    BY <1>3
       DEF GraceEnds, Watch, requests, bounds, history, ListOK, RequestsOK, BoundsOK
  <2>2. UNCHANGED <<loaded, up, managed, short>>
    BY <1>3 DEF GraceEnds, Watch, dnsmasq
  <2>3. grace' \in BOOLEAN /\ about' \in BOOLEAN
    BY <1>3 DEF GraceEnds, Watch, dnsmasq, DnsmasqOK
  <2>4. QED
    BY <2>1, <2>2, <2>3 DEF DnsmasqOK
<1>4. CASE WatchdogStart
  <2>1. DnsmasqOK'
    BY <1>4, LaunchType DEF WatchdogStart
  <2>2. QED
    BY <1>4, <2>1 DEF WatchdogStart, requests, bounds, history, ListOK, RequestsOK,
                      BoundsOK
<1>5. ASSUME NEW t \in Threads, NEW op \in Ops, NEW p \in Patterns, Begin(t, op, p)
      PROVE  TypeInv'
  <2>1. [op |-> op, pattern |-> p, read |-> {}] \in Job
    BY DEF Job
  <2>2. RequestsOK'
    BY <1>5, <2>1 DEF Begin, Accept, Goto, RequestsOK, Fits, Labels, Changes
  <2>3. ListOK'
    BY <1>5 DEF Begin, Accept, ListOK
  <2>4. BoundsOK'
    BY <1>5 DEF Begin, BoundsOK
  <2>5. QED
    BY <1>5, <2>2, <2>3, <2>4 DEF Begin, dnsmasq, DnsmasqOK
<1>6. ASSUME NEW t \in Threads, ReadTable(t)
      PROVE  TypeInv'
  <2>1. [job[t] EXCEPT !.read = table] \in Job
    BY DEF ListOK, RequestsOK, Job
  <2>2. RequestsOK'
    BY <1>6, <2>1 DEF ReadTable, Goto, RequestsOK, Fits, Labels, Changes
  <2>3. QED
    BY <1>6, <2>2 DEF ReadTable, dnsmasq, bounds, history, ListOK, DnsmasqOK, BoundsOK
<1>7. ASSUME NEW t \in Threads, Failure(t)
      PROVE  TypeInv'
  <2>1. Break(t)
    BY <1>7 DEF Failure, ReadFails, WriteFails, TestFails, TimeOut
  <2>2. RequestsOK' /\ UNCHANGED history
    BY <2>1, FailedType DEF Break
  <2>3. QED
    BY <2>1, <2>2 DEF Break, dnsmasq, history, ListOK, DnsmasqOK, BoundsOK
<1>8. ASSUME NEW t \in Threads, Truncate(t) \/ WriteFile(t)
      PROVE  TypeInv'
  <2>1. PICK label \in Labels : Onward(t, label) /\ Fits(label, job[t].op)
    BY <1>8 DEF Truncate, WriteFile, RequestsOK, Fits, Labels, Changes
  <2>2. RequestsOK'
    BY <2>1, OnwardType
  <2>3. job[t].read \subseteq Patterns
    BY DEF RequestsOK, Job
  <2>4. file' \subseteq Directives(Patterns)
    BY <1>8, <2>3, DirectivesGrow DEF Truncate, WriteFile, ListOK
  <2>5. ListOK'
    BY <1>8, <2>4 DEF Truncate, WriteFile, Onward, history, ListOK
  <2>6. QED
    BY <1>8, <2>2, <2>5 DEF Truncate, WriteFile, dnsmasq, bounds, DnsmasqOK, BoundsOK
<1>9. ASSUME NEW t \in Threads, KillDnsmasq(t) \/ Forget(t) \/ ClearDnsmasq(t)
      PROVE  TypeInv'
  <2>1. PICK label \in Labels : Onward(t, label) /\ Fits(label, job[t].op)
    BY <1>9
       DEF KillDnsmasq, Forget, ClearDnsmasq, RequestsOK, Fits, Labels, Changes, Tail
  <2>2. RequestsOK'
    BY <2>1, OnwardType
  <2>3. DnsmasqOK'
    BY <1>9 DEF KillDnsmasq, Forget, ClearDnsmasq, DnsmasqOK
  <2>4. QED
    BY <1>9, <2>1, <2>2, <2>3
       DEF KillDnsmasq, Forget, ClearDnsmasq, Onward, bounds, history, ListOK, BoundsOK
<1>10. ASSUME NEW t \in Threads, LaunchDnsmasq(t)
       PROVE  TypeInv'
  <2>1. RequestsOK' /\ UNCHANGED history
    <3>1. CASE up
      BY <1>10, <3>1, FailedType DEF LaunchDnsmasq
    <3>2. CASE ~up
      <4>1. Onward(t, "check") /\ "check" \in Labels /\ Fits("check", job[t].op)
        BY <1>10, <3>2 DEF LaunchDnsmasq, Labels, Tail, Fits, Changes
      <4>2. QED
        BY <4>1, OnwardType DEF Onward
    <3>3. QED
      BY <3>1, <3>2
  <2>2. DnsmasqOK'
    BY <1>10, LaunchType DEF LaunchDnsmasq, DnsmasqOK
  <2>3. QED
    BY <1>10, <2>1, <2>2 DEF LaunchDnsmasq, bounds, history, ListOK, BoundsOK
<1>11. ASSUME NEW t \in Threads, CheckDnsmasq(t)
       PROVE  TypeInv'
  <2>1. RequestsOK'
    <3>1. CASE ~managed
      BY <1>11, <3>1, FailedType DEF CheckDnsmasq
    <3>2. CASE managed
      BY <1>11, <3>2, LeaveType DEF CheckDnsmasq
    <3>3. QED
      BY <3>1, <3>2
  <2>2. held' \subseteq table /\ released' \subseteq Patterns \ table
    <3>1. CASE ~managed
      BY <1>11, <3>1, FailedType DEF CheckDnsmasq, history, ListOK
    <3>2. CASE managed
      BY <1>11, <3>2 DEF CheckDnsmasq, history, ListOK
    <3>3. QED
      BY <3>1, <3>2
  <2>3. QED
    BY <1>11, <2>1, <2>2 DEF CheckDnsmasq, dnsmasq, bounds, ListOK, DnsmasqOK, BoundsOK
<1>12. ASSUME NEW t \in Threads, Signal(t)
       PROVE  TypeInv'
  <2>1. RequestsOK' /\ UNCHANGED history
    BY <1>12, LeaveType DEF Signal, Fail
  <2>2. QED
    BY <1>12, <2>1 DEF Signal, bounds, history, ListOK, DnsmasqOK, BoundsOK
<1>13. QED
  BY <1>1, <1>2, <1>3, <1>4, <1>5, <1>6, <1>7, <1>8, <1>9, <1>10, <1>11, <1>12
     DEF Next, Script

(* Every variable has its type, a pid file names a live process only, and what is
   held is listed, whatever overlaps. *)
THEOREM TypeCorrect == Spec => []TypeOK
<1>1. TypeInv => TypeOK
  BY
     DEF TypeInv, ListOK, DnsmasqOK, RequestsOK, BoundsOK, TypeOK, Job, Labels, Changes,
         Tail
<1>2. QED
  BY <1>1, TypeInit, TypeStep, PTL DEF Spec
-----------------------------------------------------------------------------
(* The block list. *)

Reloads == {"add", "remove", "domain"}

(* Requests that reload come one at a time. *)
ReloadsApart == \A a, b \in Reloads : {a, b} \in Apart

ReloadsAlone == \A t, u \in Threads :
    t # u => job[t].op = "start" \/ job[u].op = "start"

(* A list of names that blocks what is held, and permits what was released. *)
Fair(names) ==
    /\ \A p \in held : p.of \in Blockable => p.of \in names
    /\ \A n \in names : \E p \in Patterns \ released : p.of = n

Emptied == \E t \in Threads : pc[t] = "write"

(* What a reload has done so far.  A dnsmasq that it finds running after the kill
   has read the new file. *)
ReloadInv(t) ==
    job[t].op # "start" =>
        /\ pc[t] \in Changes \cup Tail => job[t].read = table
        /\ pc[t] = "write" => file = {}
        /\ pc[t] \in {"kill", "forget"} \cup Tail => file = Directives(table)
        /\ pc[t] \in {"forget"} \cup Tail => (up => loaded = file)

ListInv ==
    /\ ReloadsAlone
    /\ ~cut => Fair(file)
    /\ cut => Emptied \/ faults > 0
    /\ up /\ ~short => Fair(loaded)
    /\ CutIsBrief
    /\ \A t \in Threads : ReloadInv(t)

(* The directives of the table are fair. *)
LEMMA TableFair ==
    ASSUME ListOK PROVE Fair(Directives(table))
BY DEF ListOK, Fair, Directives

(* dnsmasq comes and goes: what starts has read the file. *)
DnsmasqMoves ==
    \/ (up' => up) /\ UNCHANGED <<loaded, short>>
    \/ loaded' = file /\ short' = cut

LEMMA ListAir ==
    ASSUME ListInv, UNCHANGED <<table, file, cut, requests, faults, history>>,
           DnsmasqMoves
    PROVE  ListInv'
<1> USE DEF requests, history, DnsmasqMoves
<1>1. ReloadsAlone' /\ (Emptied' <=> Emptied) /\ (Reloading' <=> Reloading)
  BY DEF ListInv, ReloadsAlone, Emptied, Reloading
<1>2. (~cut => Fair(file))' /\ (cut => Emptied \/ faults > 0)'
  BY <1>1 DEF ListInv, Fair
<1>3. (up /\ ~short => Fair(loaded))'
  BY DEF ListInv, Fair
<1>4. CutIsBrief'
  BY <1>1 DEF ListInv, CutIsBrief, Emptied, Reloading
<1>5. ASSUME NEW t \in Threads PROVE ReloadInv(t)'
  BY DEF ListInv, ReloadInv
<1>6. QED
  BY <1>1, <1>2, <1>3, <1>4, <1>5 DEF ListInv

(* Beside a reload there are only starts. *)
LEMMA OthersStart ==
    ASSUME RequestsOK, ListInv, NEW t \in Threads, job[t].op # "start"
    PROVE  \A u \in Threads : u # t => /\ job[u].op = "start"
                                       /\ pc[u] \notin {"write", "kill"}
BY DEF RequestsOK, ListInv, ReloadsAlone, Fits, Changes

(* A request goes on, or ends; between the truncation and the kill, only by a
   failure. *)
LEMMA ListMove ==
    ASSUME RequestsOK, ListInv, NEW t \in Threads,
           NEW label, label \notin {"write", "kill"}, Goto(t, label),
           pc[t] \notin {"write", "kill"} \/ faults' > 0,
           faults' = faults \/ faults' > 0,
           \A u \in Threads : u # t => job'[u] = job[u],
           job'[t].op \in {job[t].op, "start"},
           UNCHANGED <<table, file, cut, history>>,
           DnsmasqMoves,
           ReloadInv(t)'
    PROVE  ListInv'
<1> USE DEF history, DnsmasqMoves
<1>1. \A u \in Threads : u # t => pc'[u] = pc[u]
  BY DEF Goto, RequestsOK
<1>2. pc'[t] = label
  BY DEF Goto, RequestsOK
<1>3. ReloadsAlone'
  BY DEF ListInv, ReloadsAlone
<1>4. ((Emptied' <=> Emptied) /\ (Reloading' <=> Reloading)) \/ faults' > 0
  BY <1>1, <1>2 DEF Emptied, Reloading
<1>5. (~cut => Fair(file))' /\ (cut => Emptied \/ faults > 0)'
  BY <1>4 DEF ListInv, Fair
<1>6. (up /\ ~short => Fair(loaded))' /\ CutIsBrief'
  <2>1. Emptied => Reloading
    BY DEF Emptied, Reloading
  <2>2. (up /\ ~short => Fair(loaded))'
    BY DEF ListInv, Fair
  <2>3. CutIsBrief'
    BY <1>4, <2>1 DEF ListInv, CutIsBrief
  <2>4. QED
    BY <2>2, <2>3
<1>7. ASSUME NEW u \in Threads PROVE ReloadInv(u)'
  <2>1. CASE u = t
    BY <2>1
  <2>2. CASE u # t
    <3>1. UNCHANGED <<pc[u], job[u], table, file>>
      BY <1>1, <2>2
    <3>2. QED
      BY <3>1 DEF ListInv, ReloadInv
  <2>3. QED
    BY <2>1, <2>2
<1>8. QED
  BY <1>3, <1>5, <1>6, <1>7 DEF ListInv

(* The end of a request, and what a failure of its script leads to. *)
LEMMA LeaveJob ==
    ASSUME RequestsOK, NEW t \in Threads, Leave(t)
    PROVE  /\ job'[t].op = "start"
           /\ \A u \in Threads : u # t => job'[u] = job[u]
BY NoJobType DEF Leave, RequestsOK

LEMMA ListFailed ==
    ASSUME RequestsOK, ListInv, NEW t \in Threads, Failed(t),
           pc[t] \notin {"write", "kill"} \/ faults' > 0,
           faults' = faults \/ faults' > 0,
           UNCHANGED <<table, file, cut>>, DnsmasqMoves
    PROVE  ListInv'
<1>1. CASE job[t].op = "domain"
  <2>1. Goto(t, "signal") /\ job' = job /\ UNCHANGED history
    BY <1>1 DEF Failed, Onward
  <2>2. pc'[t] = "signal"
    BY <2>1 DEF Goto, RequestsOK
  <2>3. ReloadInv(t)'
    BY <2>2 DEF ReloadInv, Changes, Tail
  <2>4. QED
    BY <2>1, <2>3, ListMove
<1>2. CASE job[t].op # "domain"
  <2>1. Leave(t) /\ Goto(t, "idle") /\ UNCHANGED history
    BY <1>2 DEF Failed, Fail, Leave
  <2>2. job'[t].op = "start" /\ \A u \in Threads : u # t => job'[u] = job[u]
    BY <2>1, LeaveJob
  <2>3. ReloadInv(t)'
    BY <2>2 DEF ReloadInv
  <2>4. QED
    BY <2>1, <2>2, <2>3, ListMove
<1>3. QED
  BY <1>1, <1>2

(* A request begins: one that reloads finds no other. *)
LEMMA ListBegin ==
    ASSUME ReloadsApart, TypeInv, ListInv,
           NEW t \in Threads, NEW op \in Ops, NEW p \in Patterns, Begin(t, op, p)
    PROVE  ListInv'
<1> USE DEF TypeInv
<1>1. \A u \in Threads : u # t => pc'[u] = pc[u] /\ job'[u] = job[u]
  BY DEF Begin, Accept, Goto, RequestsOK
<1>2. /\ job'[t] = [op |-> op, pattern |-> p, read |-> {}]
      /\ pc'[t] = IF op = "start" THEN "clear" ELSE "read"
  BY DEF Begin, Accept, Goto, RequestsOK
<1>3. /\ UNCHANGED <<file, cut, up, loaded, short, faults>> /\ pc[t] = "idle"
      /\ held' \subseteq held /\ released' \subseteq released
  BY DEF Begin, dnsmasq
<1>4. (Emptied' <=> Emptied) /\ (Reloading' <=> Reloading)
  BY <1>1, <1>2, <1>3 DEF Emptied, Reloading
<1>5. ASSUME NEW names, Fair(names) PROVE Fair(names)'
  BY <1>3, <1>5 DEF Fair
<1>6. /\ (~cut => Fair(file))' /\ (cut => Emptied \/ faults > 0)'
      /\ (up /\ ~short => Fair(loaded))' /\ CutIsBrief'
  BY <1>3, <1>4 DEF ListInv, Fair, CutIsBrief
<1>7. CASE op = "start"
  <2>1. ReloadsAlone'
    BY <1>1, <1>2, <1>7 DEF ListInv, ReloadsAlone
  <2>2. table' = table
    BY <1>7 DEF Begin, Accept
  <2>3. ASSUME NEW u \in Threads PROVE ReloadInv(u)'
    BY <1>1, <1>2, <1>3, <1>7, <2>2 DEF ListInv, ReloadInv
  <2>4. QED
    BY <1>6, <2>1, <2>3 DEF ListInv
<1>8. CASE op # "start"
  <2>1. ASSUME NEW u \in Threads, u # t PROVE job[u].op = "start"
    <3>1. CASE pc[u] = "idle"
      BY <3>1 DEF RequestsOK, Fits
    <3>2. CASE pc[u] # "idle"
      <4>1. {op, job[u].op} \notin Apart
        BY <3>2 DEF Begin, Busy
      <4>2. op \in Reloads /\ job[u].op \in Ops
        BY <1>8 DEF Reloads, Ops, RequestsOK, Job
      <4>3. QED
        BY <4>1, <4>2 DEF ReloadsApart, Reloads, Ops
    <3>3. QED
      BY <3>1, <3>2
  <2>2. ReloadsAlone'
    BY <1>1, <2>1 DEF ReloadsAlone
  <2>3. ASSUME NEW u \in Threads PROVE ReloadInv(u)'
    BY <1>1, <1>2, <1>8, <2>1 DEF ReloadInv, Changes, Tail
  <2>4. QED
    BY <1>6, <2>2, <2>3 DEF ListInv
<1>9. QED
  BY <1>7, <1>8

(* The reload's own steps on the file, and its kill. *)
LEMMA ListFile ==
    ASSUME TypeInv, ListInv, NEW t \in Threads,
           Truncate(t) \/ WriteFile(t) \/ KillDnsmasq(t)
    PROVE  ListInv'
<1> USE DEF TypeInv
<1>1. job[t].op # "start"
  BY DEF Truncate, WriteFile, KillDnsmasq, RequestsOK, Fits, Changes
<1>2. /\ UNCHANGED <<table, job, held, released, faults>>
      /\ \E label \in Labels : Goto(t, label)
  BY DEF Truncate, WriteFile, KillDnsmasq, Onward, history, bounds, Labels, Changes, Tail
<1>3. \A u \in Threads : u # t => /\ job[u].op = "start"
                                  /\ pc'[u] \notin {"write", "kill"}
  BY <1>1, <1>2, OthersStart DEF Goto, RequestsOK
<1>4. ReloadsAlone'
  BY <1>2 DEF ListInv, ReloadsAlone
<1>5. \A u \in Threads : u # t => ReloadInv(u)'
  BY <1>2, <1>3 DEF ReloadInv
<1>6. job[t].read = table
  BY <1>1 DEF Truncate, WriteFile, KillDnsmasq, ListInv, ReloadInv, Changes
<1>7. CASE Truncate(t)
  <2>1. pc'[t] = "write" /\ file' = {} /\ cut' /\ UNCHANGED <<up, loaded, short>>
    BY <1>7 DEF Truncate, Onward, Goto, RequestsOK, dnsmasq
  <2>2. Emptied' /\ CutIsBrief' /\ (up /\ ~short => Fair(loaded))'
    BY <1>2, <2>1 DEF ListInv, Fair, Emptied, Reloading, CutIsBrief
  <2>3. ReloadInv(t)'
    BY <1>2, <1>6, <2>1 DEF ReloadInv, Changes, Tail
  <2>4. QED
    BY <1>4, <1>5, <2>1, <2>2, <2>3 DEF ListInv
<1>8. CASE WriteFile(t)
  <2>1. /\ pc'[t] = "kill" /\ pc[t] = "write" /\ file' = file \cup Directives(table)
        /\ ~cut' /\ UNCHANGED <<up, loaded, short>>
    BY <1>6, <1>8 DEF WriteFile, Onward, Goto, RequestsOK, dnsmasq
  <2>2. file' = Directives(table)
    BY <1>1, <2>1 DEF ListInv, ReloadInv
  <2>3. CutIsBrief' /\ (up /\ ~short => Fair(loaded))'
    BY <1>2, <2>1 DEF ListInv, Fair, Reloading, CutIsBrief
  <2>4. ReloadInv(t)'
    BY <1>2, <1>6, <2>1, <2>2 DEF ReloadInv, Changes, Tail
  <2>5. Fair(file)'
    BY <1>2, <2>2, TableFair DEF Fair
  <2>6. QED
    BY <1>4, <1>5, <2>1, <2>3, <2>4, <2>5 DEF ListInv
<1>9. CASE KillDnsmasq(t)
  <2>1. /\ pc'[t] \in {"forget", "launch"} /\ pc[t] = "kill" /\ ~up'
        /\ UNCHANGED <<file, cut>>
    BY <1>9 DEF KillDnsmasq, Onward, Goto, RequestsOK
  <2>2. file = Directives(table)
    BY <1>1, <2>1 DEF ListInv, ReloadInv
  <2>3. ReloadInv(t)'
    BY <1>2, <1>6, <2>1, <2>2 DEF ReloadInv, Changes, Tail
  <2>4. Fair(file)'
    BY <1>2, <2>1, <2>2, TableFair DEF Fair
  <2>5. (cut => Emptied \/ faults > 0)'
    BY <1>2, <1>3, <2>1 DEF ListInv, Emptied, Goto, RequestsOK
  <2>6. QED
    BY <1>4, <1>5, <2>1, <2>3, <2>4, <2>5 DEF ListInv, CutIsBrief
<1>10. QED
  BY <1>7, <1>8, <1>9

(* A reload is acknowledged: the list that runs is the table's. *)
LEMMA ListDone ==
    ASSUME TypeInv, ListInv, NEW t \in Threads, CheckDnsmasq(t), managed,
           job[t].op # "start"
    PROVE  ListInv'
<1> USE DEF TypeInv
<1>1. /\ pc[t] = "check" /\ Leave(t)
      /\ UNCHANGED <<table, file, cut, up, loaded, short, faults>>
      /\ held' = held \cup (job[t].read \cap table)
      /\ released' = released \cup ((Patterns \ job[t].read) \ table)
  BY DEF CheckDnsmasq, dnsmasq, bounds
<1>2. job'[t].op = "start" /\ \A u \in Threads : u # t => job'[u] = job[u]
  BY <1>1, LeaveJob
<1>3. job[t].read = table /\ file = Directives(table) /\ (up => loaded = file)
  BY <1>1 DEF ListInv, ReloadInv, Tail
<1>4. held' \subseteq table /\ table \cap released' = {}
  BY <1>1 DEF ListOK
<1>5. Fair(file)' /\ (up => Fair(loaded))'
  BY <1>1, <1>3, <1>4 DEF Fair, Directives, ListOK
<1>6. \A u \in Threads : job'[u].op = "start"
  BY <1>2, OthersStart
<1>7. (Emptied' <=> Emptied) /\ (Reloading' <=> Reloading)
  BY <1>1 DEF Leave, Goto, RequestsOK, Emptied, Reloading
<1>8. (cut => Emptied \/ faults > 0)' /\ CutIsBrief'
  BY <1>1, <1>7 DEF ListInv, CutIsBrief
<1>9. QED
  BY <1>5, <1>6, <1>8 DEF ListInv, ReloadsAlone, ReloadInv

(* Every step keeps it. *)
LEMMA ListStep == ReloadsApart /\ TypeInv /\ ListInv /\ [Next]_vars => ListInv'
<1> SUFFICES ASSUME ReloadsApart, TypeInv, ListInv, [Next]_vars PROVE ListInv'
  OBVIOUS
<1> USE DEF TypeInv
<1>1. CASE UNCHANGED vars
  BY <1>1, ListAir DEF vars, dnsmasq, bounds, DnsmasqMoves
<1>2. CASE Crash \/ GraceEnds \/ Watch
  BY <1>2, ListAir DEF Crash, GraceEnds, Watch, dnsmasq, bounds, DnsmasqMoves
<1>3. CASE WatchdogStart
  BY <1>3, ListAir DEF WatchdogStart, Launch, dnsmasq, bounds, DnsmasqMoves
<1>4. ASSUME NEW t \in Threads, NEW op \in Ops, NEW p \in Patterns, Begin(t, op, p)
      PROVE  ListInv'
  BY <1>4, ListBegin
<1>5. ASSUME NEW t \in Threads, Truncate(t) \/ WriteFile(t) \/ KillDnsmasq(t)
      PROVE  ListInv'
  BY <1>5, ListFile
<1>6. ASSUME NEW t \in Threads, ReadTable(t)
      PROVE  ListInv'
  <2>1. /\ Goto(t, "truncate") /\ pc[t] = "read"
        /\ job' = [job EXCEPT ![t].read = table]
        /\ UNCHANGED <<table, file, cut, up, loaded, short, faults, history>>
    BY <1>6 DEF ReadTable, dnsmasq, bounds
  <2>2. /\ pc'[t] = "truncate" /\ job'[t].op = job[t].op /\ job'[t].read = table
        /\ \A u \in Threads : u # t => job'[u] = job[u]
    BY <2>1 DEF Goto, RequestsOK, Job
  <2>3. ReloadInv(t)'
    BY <2>1, <2>2 DEF ReloadInv, Tail
  <2>4. QED
    BY <2>1, <2>2, <2>3, ListMove DEF DnsmasqMoves
<1>7. ASSUME NEW t \in Threads, Failure(t)
      PROVE  ListInv'
  <2>1. Break(t)
    BY <1>7 DEF Failure, ReadFails, WriteFails, TestFails, TimeOut
  <2>2. /\ Failed(t) /\ faults' > 0
        /\ UNCHANGED <<table, file, cut, up, loaded, short>>
    BY <2>1 DEF Break, dnsmasq, BoundsOK
  <2>3. QED
    BY <2>2, ListFailed DEF DnsmasqMoves
<1>8. ASSUME NEW t \in Threads, Forget(t)
      PROVE  ListInv'
  <2>1. /\ Goto(t, "launch") /\ job' = job /\ pc[t] = "forget"
        /\ UNCHANGED <<table, file, cut, up, loaded, short, faults, history>>
    BY <1>8 DEF Forget, Onward, bounds
  <2>2. pc'[t] = "launch"
    BY <2>1 DEF Goto, RequestsOK
  <2>3. ReloadInv(t)'
    BY <2>1, <2>2 DEF ListInv, ReloadInv, Changes, Tail
  <2>4. QED
    BY <2>1, <2>3, ListMove DEF DnsmasqMoves
<1>9. ASSUME NEW t \in Threads, LaunchDnsmasq(t)
      PROVE  ListInv'
  <2>1. /\ pc[t] = "launch" /\ UNCHANGED <<table, file, cut, faults>>
        /\ IF up THEN UNCHANGED <<up, loaded, short>> /\ Failed(t)
           ELSE loaded' = file /\ short' = cut /\ Onward(t, "check")
    BY <1>9 DEF LaunchDnsmasq, Launch, dnsmasq, bounds
  <2>2. CASE up
    BY <2>1, <2>2, ListFailed DEF DnsmasqMoves
  <2>3. CASE ~up
    <3>1. Goto(t, "check") /\ job' = job /\ UNCHANGED history
      BY <2>1, <2>3 DEF Onward
    <3>2. pc'[t] = "check"
      BY <3>1 DEF Goto, RequestsOK
    <3>3. ReloadInv(t)'
      BY <2>1, <2>3, <3>1, <3>2 DEF ListInv, ReloadInv, Changes, Tail
    <3>4. QED
      BY <2>1, <2>3, <3>1, <3>3, ListMove DEF DnsmasqMoves
  <2>4. QED
    BY <2>2, <2>3
<1>10. ASSUME NEW t \in Threads, CheckDnsmasq(t)
       PROVE  ListInv'
  <2>1. pc[t] = "check" /\ UNCHANGED <<table, file, cut, up, loaded, short, faults>>
    BY <1>10 DEF CheckDnsmasq, dnsmasq, bounds
  <2>2. CASE ~managed
    BY <1>10, <2>1, <2>2, ListFailed DEF CheckDnsmasq, DnsmasqMoves
  <2>3. CASE managed /\ job[t].op # "start"
    BY <1>10, <2>3, ListDone
  <2>4. CASE managed /\ job[t].op = "start"
    <3>1. Leave(t) /\ Goto(t, "idle") /\ UNCHANGED history
      BY <1>10, <2>4 DEF CheckDnsmasq, Leave
    <3>2. job'[t].op = "start" /\ \A u \in Threads : u # t => job'[u] = job[u]
      BY <3>1, LeaveJob
    <3>3. ReloadInv(t)'
      BY <3>2 DEF ReloadInv
    <3>4. QED
      BY <2>1, <3>1, <3>2, <3>3, ListMove DEF DnsmasqMoves
  <2>5. QED
    BY <2>2, <2>3, <2>4
<1>11. ASSUME NEW t \in Threads, Signal(t)
       PROVE  ListInv'
  <2>1. /\ Leave(t) /\ Goto(t, "idle") /\ pc[t] = "signal" /\ ~up'
        /\ UNCHANGED <<table, file, cut, loaded, short, faults, history>>
    BY <1>11 DEF Signal, Fail, Leave, bounds
  <2>2. job'[t].op = "start" /\ \A u \in Threads : u # t => job'[u] = job[u]
    BY <2>1, LeaveJob
  <2>3. ReloadInv(t)'
    BY <2>2 DEF ReloadInv
  <2>4. QED
    BY <2>1, <2>2, <2>3, ListMove DEF DnsmasqMoves
<1>12. ASSUME NEW t \in Threads, ClearDnsmasq(t)
       PROVE  ListInv'
  <2>1. /\ Goto(t, "launch") /\ job' = job /\ pc[t] = "clear"
        /\ ~up' /\ UNCHANGED <<table, file, cut, loaded, short, faults, history>>
    BY <1>12 DEF ClearDnsmasq, Onward, bounds
  <2>2. ReloadInv(t)'
    BY <2>1 DEF ReloadInv, RequestsOK, Fits
  <2>3. QED
    BY <2>1, <2>2, ListMove DEF DnsmasqMoves
<1>13. QED
  BY <1>1, <1>2, <1>3, <1>4, <1>5, <1>6, <1>7, <1>8, <1>9, <1>10, <1>11, <1>12
     DEF Next, Script

(* What a completed reload blocked stays blocked while it is listed, and what it
   released is answered, through crashes, restarts and failed reloads, if reloads
   are kept apart. *)
THEOREM BlockListStands ==
    ASSUME ReloadsApart
    PROVE  Spec => []BlockListHolds
<1>1. Init => ListInv
  <2> SUFFICES ASSUME Init PROVE ListInv
    OBVIOUS
  <2>1. \A t \in Threads : job[t].op = "start" /\ pc[t] = "idle"
    BY NoJobType DEF Init
  <2>2. Fair(file) /\ loaded = file /\ ~cut /\ ~short
    BY DEF Init, Fair
  <2>3. QED
    BY <2>1, <2>2 DEF ListInv, ReloadsAlone, ReloadInv, CutIsBrief
<1>2. TypeInv /\ ListInv => BlockListHolds
  <2> SUFFICES ASSUME ListInv PROVE BlockListHolds
    OBVIOUS
  <2>1. BlockHolds
    <3> SUFFICES ASSUME up, ~short, NEW p \in held, p.of \in Blockable,
                        NEW d \in Names, Matches(d, p)
                 PROVE  Answered(d, loaded)
      BY DEF BlockHolds
    <3>1. p.of \in loaded
      BY DEF ListInv, Fair
    <3>2. QED
      BY <3>1 DEF Matches, Answered
  <2>2. PermitHolds
    BY DEF ListInv, PermitHolds, Fair
  <2>3. CutIsBrief
    BY DEF ListInv
  <2>4. QED
    BY <2>1, <2>2, <2>3 DEF BlockListHolds
<1>3. TypeInv /\ ListInv /\ [Next]_vars => ListInv'
  BY ListStep
<1>4. QED
  BY <1>1, <1>2, <1>3, TypeInit, TypeStep, PTL DEF Spec
=============================================================================
