--------------------------- MODULE HotspotProofs ---------------------------
(***************************************************************************)
(* What holds of the life cycle of the hotspot for any number of requests, *)
(* watchdogs, devices and crashes, whatever overlaps.                      *)
(***************************************************************************)
EXTENDS Hotspot, TLAPS

USE ApartAssumption, BoundsAssumption
-----------------------------------------------------------------------------
(* Types. *)
EditLabels == {"edit", "truncate", "rewrite"}
StopLabels == {"stopHostapd", "stopWatchdog", "stopTailer", "stopDnsmasq",
               "removeIface"}
StartLabels == {"clear", "addIface", "freeAp", "launchHostapd", "checkHostapd",
                "freePorts", "launchDnsmasq", "newWatchdog", "newTailer"}
Labels == {"idle"} \cup EditLabels \cup StopLabels \cup StartLabels
Job == [op : Ops, mac : Macs, read : SUBSET Macs]
Watchdog ==
    {v \in [pc : {"off", "wait"} \cup Daemons, act : BOOLEAN, term : BOOLEAN] :
        v.act => v.pc \in Daemons}

(* Where a request is says what it does. *)
Fits(label, j) ==
    /\ label = "idle" => j.op = "stop"
    /\ label = "edit" => j.op \in {"kick", "unblock"}
    /\ label \in {"truncate", "rewrite"} => j.op = "unblock"
    /\ label \in StartLabels => j.op \in Starting

SystemOK ==
    /\ procs \in [Daemons -> Nat] /\ young \in Nat /\ young <= procs["tailer"]
    /\ managed \subseteq {d \in Daemons : procs[d] > Young(d)}
    /\ iface \in BOOLEAN /\ stuck \in BOOLEAN /\ radio \in BOOLEAN /\ grace \in BOOLEAN
    /\ acl \subseteq Macs
WatchOK == wd \in [Watchdogs -> Watchdog]
RequestsOK ==
    /\ pc \in [Threads -> Labels] /\ job \in [Threads -> Job]
    /\ \A t \in Threads : Fits(pc[t], job[t])
HistoryOK ==
    /\ clean \subseteq Threads /\ kicked \subseteq Macs /\ freed \subseteq Macs
    /\ serving \in BOOLEAN /\ silent \in BOOLEAN
BoundsOK == budget \in Budgets /\ ops \in Nat /\ crashes \in Nat /\ faults \in Nat

TypeInv == SystemOK /\ WatchOK /\ RequestsOK /\ HistoryOK /\ BoundsOK
           /\ denyFile \subseteq Macs

(* A request at rest has a job like any other. *)
LEMMA NoJobType == NoJob \in Job /\ NoJob.op = "stop"
BY DEF NoJob, Job, Ops, Starting

(* Killing daemons keeps counts and pid files in step. *)
LEMMA KillType ==
    ASSUME SystemOK, NEW ds \in SUBSET Daemons, Kill(ds)
    PROVE  /\ procs' \in [Daemons -> Nat]
           /\ young' \in Nat /\ young' <= procs'["tailer"]
           /\ managed' \subseteq {d \in Daemons : procs'[d] > Young(d)'}
BY DEF SystemOK, Kill, Daemons, Young

(* So does starting one, or failing to. *)
LEMMA LaunchType ==
    ASSUME SystemOK, denyFile \subseteq Macs, NEW d \in Daemons, Launch(d),
           iface' = iface, stuck' = stuck
    PROVE  SystemOK'
<1>1. CASE CanLaunch(d)
  <2>1. /\ procs' \in [Daemons -> Nat]
        /\ young' \in Nat /\ young' <= procs'["tailer"]
        /\ managed' \subseteq {e \in Daemons : procs'[e] > Young(e)'}
    <3>1. procs' = [procs EXCEPT ![d] = @ + 1]
      BY <1>1 DEF Launch
    <3>2. CASE d = "tailer"
      <4>1. young' = young + 1 /\ managed' = managed
        BY <1>1, <3>2 DEF Launch
      <4>2. QED
        BY <3>1, <3>2, <4>1 DEF SystemOK, Young, Daemons
    <3>3. CASE d # "tailer"
      <4>1. young' = young /\ managed' = managed \cup {d}
        BY <1>1, <3>3 DEF Launch
      <4>2. QED
        BY <3>1, <3>3, <4>1 DEF SystemOK, Young, Daemons
    <3>4. QED
      BY <3>2, <3>3
  <2>2. radio' \in BOOLEAN /\ acl' \subseteq Macs
    BY <1>1 DEF SystemOK, Launch
  <2>3. grace' \in BOOLEAN
    BY <1>1 DEF SystemOK, Launch
  <2>4. QED
    BY <2>1, <2>2, <2>3 DEF SystemOK
<1>2. CASE ~CanLaunch(d)
  BY <1>2 DEF SystemOK, Launch, daemons, Young
<1>3. QED
  BY <1>1, <1>2

(* A watchdog that is done with a daemon goes on to the next, or ends. *)
LEMMA PastType ==
    ASSUME NEW v \in Watchdog, v.pc \in Daemons
    PROVE  Past(v) \in Watchdog
<1>1. After(v.pc) \in {"off", "wait"} \cup Daemons
  BY DEF After, Daemons
<1>2. QED
  BY <1>1 DEF Past, Watchdog, Off

(* Told watchdogs are off, or finish their pass. *)
LEMMA ToldType ==
    ASSUME WatchOK PROVE Told \in [Watchdogs -> Watchdog]
BY DEF WatchOK, Told, Watchdog, Off

(* A new watchdog has one of their numbers. *)
LEMMA NewIsWatchdog ==
    ASSUME BoundsOK, NEW t \in Threads, NewWatchdog(t)
    PROVE  \E w \in Watchdogs : wd' = [Told EXCEPT ![w] = Waiting]
<1>1. PICK w \in 1..budget.watchdogs : wd' = [Told EXCEPT ![w] = Waiting]
  BY DEF NewWatchdog
<1>2. w \in Watchdogs
  BY <1>1 DEF BoundsOK, Watchdogs
<1>3. QED
  BY <1>1, <1>2

(* Deleting the interface, or failing to. *)
LEMMA DeleteType ==
    ASSUME SystemOK, BoundsOK, DeleteIface, UNCHANGED <<budget, ops, crashes>>
    PROVE  iface' \in BOOLEAN /\ stuck' \in BOOLEAN /\ BoundsOK'
<1>1. iface' \in BOOLEAN /\ stuck' \in BOOLEAN
  BY DEF DeleteIface
<1>2. faults' = faults \/ faults' = faults + 1
  BY DEF DeleteIface, Fault
<1>3. QED
  BY <1>1, <1>2 DEF BoundsOK

(* A request goes on to a label that fits its job. *)
LEMMA OnwardType ==
    ASSUME RequestsOK, HistoryOK, NEW t \in Threads, NEW label \in Labels,
           Fits(label, job[t]), Onward(t, label)
    PROVE  RequestsOK' /\ HistoryOK'
BY DEF RequestsOK, HistoryOK, Onward, Goto, history

(* The end of a request. *)
LEMMA EndType ==
    ASSUME RequestsOK, HistoryOK, NEW t \in Threads, NEW ok \in BOOLEAN, End(t, ok)
    PROVE  RequestsOK' /\ HistoryOK'
<1>1. RequestsOK'
  BY NoJobType DEF RequestsOK, End, Goto, Fits, Labels, StartLabels
<1>2. job[t].mac \in Macs
  BY DEF RequestsOK, Job
<1>3. clean' \subseteq Threads /\ kicked' \subseteq Macs /\ freed' \subseteq Macs
  BY <1>2 DEF HistoryOK, End
<1>4. serving' \in BOOLEAN /\ silent' \in BOOLEAN
  BY DEF HistoryOK, End
<1>5. QED
  BY <1>1, <1>3, <1>4 DEF HistoryOK

(* The type invariant holds at first. *)
LEMMA TypeInit == Init => TypeInv
<1> SUFFICES ASSUME Init PROVE TypeInv
  OBVIOUS
<1>1. SystemOK
  <2>1. /\ procs \in [Daemons -> Nat] /\ young = 0 /\ young <= procs["tailer"]
        /\ managed \subseteq {d \in Daemons : procs[d] > Young(d)}
    BY DEF Init, Daemons, Young
  <2>2. iface \in BOOLEAN /\ stuck \in BOOLEAN /\ radio \in BOOLEAN /\ grace \in BOOLEAN
    BY DEF Init
  <2>3. acl \subseteq Macs
    BY DEF Init
  <2>4. QED
    BY <2>1, <2>2, <2>3 DEF SystemOK
<1>2. WatchOK
  <2>1. Waiting \in Watchdog /\ Off \in Watchdog
    BY DEF Waiting, Off, Watchdog
  <2>2. QED
    BY <2>1 DEF Init, WatchOK
<1>3. RequestsOK
  BY NoJobType DEF Init, RequestsOK, Fits, Labels, StartLabels
<1>4. HistoryOK /\ BoundsOK /\ denyFile \subseteq Macs
  BY DEF Init, HistoryOK, BoundsOK
<1>5. QED
  BY <1>1, <1>2, <1>3, <1>4 DEF TypeInv

(* Every step keeps it. *)
LEMMA TypeStep == TypeInv /\ [Next]_vars => TypeInv'
<1> SUFFICES ASSUME TypeInv, [Next]_vars PROVE TypeInv'
  OBVIOUS
<1> USE DEF TypeInv
<1>0. \A t \in Threads : job[t].op \in Ops /\ job[t].mac \in Macs
                           /\ job[t].read \subseteq Macs
  BY DEF RequestsOK, Job
<1>1. CASE UNCHANGED vars
  BY <1>1 DEF vars, system, daemons, requests, bounds, history, SystemOK, WatchOK,
              RequestsOK, HistoryOK, BoundsOK, Young
<1>2. ASSUME NEW d \in Daemons, Crash(d)
      PROVE  TypeInv'
  <2>1. /\ procs' \in [Daemons -> Nat]
        /\ young' \in Nat /\ young' <= procs'["tailer"]
        /\ managed' \subseteq {e \in Daemons : procs'[e] > Young(e)'}
    <3>1. procs' = [procs EXCEPT ![d] = @ - 1] /\ procs[d] > 0
      BY <1>2 DEF Crash
    <3>2. CASE Young(d) > 0 /\ young' = young - 1 /\ managed' = managed
      <4>1. d = "tailer" /\ young > 0
        BY <3>2 DEF Young
      <4>2. QED
        BY <3>1, <3>2, <4>1 DEF SystemOK, Young, Daemons
    <3>3. CASE procs[d] > Young(d) /\ young' = young /\ managed' = managed \ {d}
      BY <3>1, <3>3 DEF SystemOK, Young, Daemons
    <3>4. CASE procs[d] > Young(d) + 1 /\ UNCHANGED <<young, managed>>
      BY <3>1, <3>4 DEF SystemOK, Young, Daemons
    <3>5. QED
      BY <1>2, <3>2, <3>3, <3>4 DEF Crash
  <2>2. radio' \in BOOLEAN
    BY <1>2 DEF Crash, SystemOK
  <2>3. crashes' \in Nat
    BY <1>2 DEF Crash, BoundsOK
  <2>4. SystemOK'
    BY <1>2, <2>1, <2>2 DEF Crash, SystemOK
  <2>5. WatchOK' /\ RequestsOK' /\ HistoryOK'
    BY <1>2 DEF Crash, requests, WatchOK, RequestsOK, HistoryOK
  <2>6. QED
    BY <1>2, <2>3, <2>4, <2>5 DEF Crash, BoundsOK
<1>3. CASE GraceEnds \/ WritePid
  <2>1. SystemOK'
    <3>1. CASE GraceEnds
      BY <3>1 DEF GraceEnds, daemons, SystemOK, Young
    <3>2. CASE WritePid
      <4>1. /\ young' \in Nat /\ young' = young - 1 /\ procs' = procs
            /\ managed' = managed \cup {"tailer"}
        BY <3>2 DEF WritePid, SystemOK
      <4>2. managed' \subseteq {d \in Daemons : procs'[d] > Young(d)'}
        BY <4>1 DEF SystemOK, Young, Daemons
      <4>3. QED
        BY <3>2, <4>1, <4>2 DEF WritePid, SystemOK, Daemons
    <3>3. QED
      BY <1>3, <3>1, <3>2
  <2>2. QED
    BY <1>3, <2>1 DEF GraceEnds, WritePid, requests, bounds, history, WatchOK,
                      RequestsOK, HistoryOK, BoundsOK
<1>4. ASSUME NEW w \in Watchdogs, Wake(w)
      PROVE  TypeInv'
  <2>1. WatchOK'
    BY <1>4 DEF Wake, WatchOK, Watchdog, Daemons
  <2>2. QED
    BY <1>4, <2>1 DEF Wake, system, daemons, requests, bounds, history, SystemOK, Young,
                      RequestsOK, HistoryOK, BoundsOK
<1>5. ASSUME NEW w \in Watchdogs, Check(w)
      PROVE  TypeInv'
  <2>1. wd[w] \in Watchdog /\ wd[w].pc \in Daemons
    BY <1>5 DEF Check, WatchOK
  <2>2. Past(wd[w]) \in Watchdog /\ [wd[w] EXCEPT !.act = TRUE] \in Watchdog
    BY <2>1, PastType DEF Watchdog
  <2>3. WatchOK'
    BY <1>5, <2>2 DEF Check, WatchOK
  <2>4. QED
    BY <1>5, <2>3 DEF Check, system, daemons, requests, bounds, history, SystemOK, Young,
                      RequestsOK, HistoryOK, BoundsOK
<1>6. ASSUME NEW w \in Watchdogs, Restart(w)
      PROVE  TypeInv'
  <2>1. wd[w] \in Watchdog /\ wd[w].pc \in Daemons
    BY <1>6 DEF Restart, WatchOK, Watchdog
  <2>2. SystemOK'
    BY <1>6, <2>1, LaunchType DEF Restart, SystemOK
  <2>3. WatchOK'
    <3>1. Past(wd[w]) \in Watchdog
      BY <2>1, PastType
    <3>2. QED
      BY <1>6, <3>1 DEF Restart, WatchOK
  <2>4. QED
    BY <1>6, <2>2, <2>3 DEF Restart, requests, bounds, history, RequestsOK, HistoryOK,
                            BoundsOK
<1>7. ASSUME NEW t \in Threads, NEW op \in Ops, NEW m \in Macs, Begin(t, op, m)
      PROVE  TypeInv'
  <2>1. [op |-> op, mac |-> m, read |-> {}] \in Job
    BY DEF Job
  <2>2. /\ FirstStep(op) \in Labels
        /\ Fits(FirstStep(op), [op |-> op, mac |-> m, read |-> {}])
    BY DEF FirstStep, Ops, Starting, Fits, Labels, StartLabels, StopLabels, EditLabels
  <2>3. RequestsOK'
    BY <1>7, <2>1, <2>2 DEF Begin, Goto, RequestsOK
  <2>4. HistoryOK'
    BY <1>7 DEF Begin, HistoryOK
  <2>5. BoundsOK'
    BY <1>7 DEF Begin, BoundsOK
  <2>6. QED
    BY <1>7, <2>3, <2>4, <2>5 DEF Begin, system, daemons, SystemOK, WatchOK, Young
<1>8. ASSUME NEW t \in Threads, Kick(t)
      PROVE  TypeInv'
  <2>1. RequestsOK' /\ HistoryOK'
    <3>1. /\ "stopHostapd" \in Labels /\ Fits("stopHostapd", job[t])
          /\ Onward(t, "stopHostapd")
      BY <1>8, <1>0
         DEF Kick, RequestsOK, Fits, Labels, StartLabels, StopLabels, EditLabels
    <3>2. QED
      BY <3>1, OnwardType
  <2>2. QED
    BY <1>8, <1>0, <2>1 DEF BoundsOK, Kick, SystemOK, WatchOK, Young, bounds, system,
                            daemons
<1>9. ASSUME NEW t \in Threads, ReadList(t)
      PROVE  TypeInv'
  <2>1. RequestsOK'
    <3>1. [job[t] EXCEPT !.read = denyFile \ {job[t].mac}] \in Job
      BY DEF RequestsOK, Job
    <3>2. QED
      BY <1>9, <3>1
         DEF ReadList, Goto, RequestsOK, Fits, Labels, StartLabels, StopLabels,
             EditLabels
  <2>2. QED
    BY <1>9, <2>1 DEF ReadList, system, daemons, bounds, history, SystemOK, WatchOK,
                HistoryOK, BoundsOK, Young
<1>10. ASSUME NEW t \in Threads, Truncate(t)
      PROVE  TypeInv'
  <2>1. RequestsOK' /\ HistoryOK'
    <3>1. /\ "rewrite" \in Labels /\ Fits("rewrite", job[t])
          /\ Onward(t, "rewrite")
      BY <1>10, <1>0
         DEF Truncate, RequestsOK, Fits, Labels, StartLabels, StopLabels, EditLabels
    <3>2. QED
      BY <3>1, OnwardType
  <2>2. QED
    BY <1>10, <1>0, <2>1 DEF BoundsOK, SystemOK, Truncate, WatchOK, bounds, system, daemons,
                            Young
<1>11. ASSUME NEW t \in Threads, Rewrite(t)
      PROVE  TypeInv'
  <2>1. RequestsOK' /\ HistoryOK'
    <3>1. /\ "stopHostapd" \in Labels /\ Fits("stopHostapd", job[t])
          /\ Onward(t, "stopHostapd")
      BY <1>11, <1>0
         DEF Rewrite, RequestsOK, Fits, Labels, StartLabels, StopLabels, EditLabels
    <3>2. QED
      BY <3>1, OnwardType
  <2>2. QED
    BY <1>11, <1>0, <2>1 DEF BoundsOK, Rewrite, SystemOK, WatchOK, bounds, system, daemons,
                            Young
<1>12. ASSUME NEW t \in Threads, StopHostapd(t)
      PROVE  TypeInv'
  <2>1. RequestsOK' /\ HistoryOK'
    <3>1. /\ "stopWatchdog" \in Labels /\ Fits("stopWatchdog", job[t])
          /\ Onward(t, "stopWatchdog")
      BY <1>12, <1>0
         DEF StopHostapd, RequestsOK, Fits, Labels, StartLabels, StopLabels, EditLabels
    <3>2. QED
      BY <3>1, OnwardType
  <2>2. SystemOK'
    BY <1>12, KillType DEF StopHostapd, SystemOK, Daemons
  <2>3. QED
    BY <1>12, <1>0, <2>1, <2>2 DEF BoundsOK, StopHostapd, WatchOK, bounds
<1>13. ASSUME NEW t \in Threads, StopWatchdog(t)
      PROVE  TypeInv'
  <2>1. RequestsOK' /\ HistoryOK'
    <3>1. /\ "stopTailer" \in Labels /\ Fits("stopTailer", job[t])
          /\ Onward(t, "stopTailer")
      BY <1>13, <1>0
         DEF StopWatchdog, RequestsOK, Fits, Labels, StartLabels, StopLabels, EditLabels
    <3>2. QED
      BY <3>1, OnwardType
  <2>2. WatchOK'
    BY <1>13, ToldType DEF StopWatchdog, WatchOK
  <2>3. QED
    BY <1>13, <1>0, <2>1, <2>2 DEF BoundsOK, StopWatchdog, SystemOK, bounds, system, daemons,
                            Young
<1>14. ASSUME NEW t \in Threads, StopTailer(t)
      PROVE  TypeInv'
  <2>1. RequestsOK' /\ HistoryOK'
    <3>1. /\ "stopDnsmasq" \in Labels /\ Fits("stopDnsmasq", job[t])
          /\ Onward(t, "stopDnsmasq")
      BY <1>14, <1>0
         DEF StopTailer, RequestsOK, Fits, Labels, StartLabels, StopLabels, EditLabels
    <3>2. QED
      BY <3>1, OnwardType
  <2>2. SystemOK'
    BY <1>14, KillType DEF StopTailer, SystemOK, Daemons
  <2>3. QED
    BY <1>14, <1>0, <2>1, <2>2 DEF BoundsOK, StopTailer, WatchOK, bounds
<1>15. ASSUME NEW t \in Threads, StopDnsmasq(t)
      PROVE  TypeInv'
  <2>1. RequestsOK' /\ HistoryOK'
    <3>1. /\ "removeIface" \in Labels /\ Fits("removeIface", job[t])
          /\ Onward(t, "removeIface")
      BY <1>15, <1>0
         DEF StopDnsmasq, RequestsOK, Fits, Labels, StartLabels, StopLabels, EditLabels
    <3>2. QED
      BY <3>1, OnwardType
  <2>2. SystemOK'
    BY <1>15, KillType DEF StopDnsmasq, SystemOK, Daemons
  <2>3. QED
    BY <1>15, <1>0, <2>1, <2>2 DEF BoundsOK, StopDnsmasq, WatchOK, bounds
<1>16. ASSUME NEW t \in Threads, RemoveIface(t)
      PROVE  TypeInv'
  <2>1. RequestsOK' /\ HistoryOK'
    <3>1. CASE job[t].op # "stop"
      <4>1. /\ "clear" \in Labels /\ Fits("clear", job[t])
            /\ Onward(t, "clear")
        BY <1>16, <1>0, <3>1
           DEF RemoveIface, RequestsOK, Fits, Labels, StartLabels, StopLabels,
               EditLabels, Ops
      <4>2. QED
        BY <4>1, OnwardType
    <3>2. CASE ~(job[t].op # "stop")
      <4>1. End(t, TRUE)
        BY <1>16, <3>2 DEF RemoveIface
      <4>2. QED
        BY <4>1, EndType
    <3>3. QED
      BY <3>1, <3>2
  <2>2. SystemOK' /\ BoundsOK'
    <3>1. iface' \in BOOLEAN /\ stuck' \in BOOLEAN /\ BoundsOK'
      BY <1>16, DeleteType DEF RemoveIface
    <3>2. radio' \in BOOLEAN /\ UNCHANGED <<procs, young, managed, acl, grace>>
      BY <1>16, <3>1 DEF RemoveIface, daemons, SystemOK
    <3>3. QED
      BY <3>1, <3>2 DEF SystemOK, Young
  <2>3. QED
    BY <1>16, <2>1, <2>2 DEF RemoveIface, WatchOK
<1>17. ASSUME NEW t \in Threads, ClearIface(t)
      PROVE  TypeInv'
  <2>1. RequestsOK' /\ HistoryOK'
    <3>1. /\ "addIface" \in Labels /\ Fits("addIface", job[t])
          /\ Onward(t, "addIface")
      BY <1>17, <1>0
         DEF ClearIface, RequestsOK, Fits, Labels, StartLabels, StopLabels, EditLabels
    <3>2. QED
      BY <3>1, OnwardType
  <2>2. SystemOK' /\ BoundsOK'
    <3>1. /\ iface' \in BOOLEAN /\ stuck' \in BOOLEAN /\ radio' \in BOOLEAN
          /\ BoundsOK'
      BY <1>17, DeleteType DEF ClearIface
    <3>2. QED
      BY <1>17, <3>1, KillType DEF ClearIface, SystemOK, Daemons
  <2>3. QED
    BY <1>17, <2>1, <2>2 DEF ClearIface, WatchOK
<1>18. ASSUME NEW t \in Threads, AddIface(t)
      PROVE  TypeInv'
  <2>1. RequestsOK' /\ HistoryOK'
    <3>1. CASE ~iface
      <4>1. /\ "freeAp" \in Labels /\ Fits("freeAp", job[t])
            /\ Onward(t, "freeAp")
        BY <1>18, <1>0, <3>1
           DEF AddIface, RequestsOK, Fits, Labels, StartLabels, StopLabels, EditLabels,
               Ops
      <4>2. QED
        BY <4>1, OnwardType
    <3>2. CASE ~(~iface)
      <4>1. End(t, FALSE)
        BY <1>18, <3>2 DEF AddIface
      <4>2. QED
        BY <4>1, EndType
    <3>3. QED
      BY <3>1, <3>2
  <2>2. SystemOK'
    BY <1>18 DEF AddIface, daemons, SystemOK, Young
  <2>3. QED
    BY <1>18, <2>1, <2>2 DEF AddIface, bounds, BoundsOK, WatchOK
<1>19. ASSUME NEW t \in Threads, FreeAp(t)
      PROVE  TypeInv'
  <2>1. RequestsOK' /\ HistoryOK'
    <3>1. /\ "launchHostapd" \in Labels /\ Fits("launchHostapd", job[t])
          /\ Onward(t, "launchHostapd")
      BY <1>19, <1>0
         DEF FreeAp, RequestsOK, Fits, Labels, StartLabels, StopLabels, EditLabels
    <3>2. QED
      BY <3>1, OnwardType
  <2>2. SystemOK'
    BY <1>19, KillType DEF FreeAp, SystemOK, Daemons
  <2>3. QED
    BY <1>19, <1>0, <2>1, <2>2 DEF BoundsOK, FreeAp, WatchOK, bounds
<1>20. ASSUME NEW t \in Threads, LaunchHostapd(t)
      PROVE  TypeInv'
  <2>1. RequestsOK' /\ HistoryOK'
    <3>1. /\ "checkHostapd" \in Labels /\ Fits("checkHostapd", job[t])
          /\ Onward(t, "checkHostapd")
      BY <1>20, <1>0
         DEF LaunchHostapd, RequestsOK, Fits, Labels, StartLabels, StopLabels,
             EditLabels
    <3>2. QED
      BY <3>1, OnwardType
  <2>2. SystemOK'
    BY <1>20, LaunchType DEF LaunchHostapd, SystemOK, Daemons
  <2>3. QED
    BY <1>20, <1>0, <2>1, <2>2 DEF BoundsOK, LaunchHostapd, WatchOK, bounds
<1>21. ASSUME NEW t \in Threads, CheckHostapd(t)
      PROVE  TypeInv'
  <2>1. RequestsOK' /\ HistoryOK'
    <3>1. CASE "hostapd" \in managed
      <4>1. /\ "freePorts" \in Labels /\ Fits("freePorts", job[t])
            /\ Onward(t, "freePorts")
        BY <1>21, <1>0, <3>1
           DEF CheckHostapd, RequestsOK, Fits, Labels, StartLabels, StopLabels,
               EditLabels, Ops
      <4>2. QED
        BY <4>1, OnwardType
    <3>2. CASE ~("hostapd" \in managed)
      <4>1. End(t, FALSE)
        BY <1>21, <3>2 DEF CheckHostapd
      <4>2. QED
        BY <4>1, EndType
    <3>3. QED
      BY <3>1, <3>2
  <2>2. SystemOK'
    BY <1>21 DEF CheckHostapd, system, daemons, SystemOK, Young
  <2>3. QED
    BY <1>21, <2>1, <2>2 DEF CheckHostapd, bounds, BoundsOK, WatchOK
<1>22. ASSUME NEW t \in Threads, FreePorts(t)
      PROVE  TypeInv'
  <2>1. RequestsOK' /\ HistoryOK'
    <3>1. /\ "launchDnsmasq" \in Labels /\ Fits("launchDnsmasq", job[t])
          /\ Onward(t, "launchDnsmasq")
      BY <1>22, <1>0
         DEF FreePorts, RequestsOK, Fits, Labels, StartLabels, StopLabels, EditLabels
    <3>2. QED
      BY <3>1, OnwardType
  <2>2. SystemOK'
    BY <1>22, KillType DEF FreePorts, SystemOK, Daemons
  <2>3. QED
    BY <1>22, <1>0, <2>1, <2>2 DEF BoundsOK, FreePorts, WatchOK, bounds
<1>23. ASSUME NEW t \in Threads, LaunchDnsmasq(t)
      PROVE  TypeInv'
  <2>1. RequestsOK' /\ HistoryOK'
    <3>1. CASE CanLaunch("dnsmasq")
      <4>1. /\ "newWatchdog" \in Labels /\ Fits("newWatchdog", job[t])
            /\ Onward(t, "newWatchdog")
        BY <1>23, <1>0, <3>1
           DEF LaunchDnsmasq, RequestsOK, Fits, Labels, StartLabels, StopLabels,
               EditLabels, Ops
      <4>2. QED
        BY <4>1, OnwardType
    <3>2. CASE ~(CanLaunch("dnsmasq"))
      <4>1. End(t, FALSE)
        BY <1>23, <3>2 DEF LaunchDnsmasq
      <4>2. QED
        BY <4>1, EndType
    <3>3. QED
      BY <3>1, <3>2
  <2>2. SystemOK'
    BY <1>23, LaunchType DEF LaunchDnsmasq, SystemOK, Daemons
  <2>3. QED
    BY <1>23, <2>1, <2>2 DEF LaunchDnsmasq, bounds, BoundsOK, WatchOK
<1>24. ASSUME NEW t \in Threads, NewWatchdog(t)
      PROVE  TypeInv'
  <2>1. RequestsOK' /\ HistoryOK'
    <3>1. /\ "newTailer" \in Labels /\ Fits("newTailer", job[t])
          /\ Onward(t, "newTailer")
      BY <1>24, <1>0
         DEF NewWatchdog, RequestsOK, Fits, Labels, StartLabels, StopLabels, EditLabels
    <3>2. QED
      BY <3>1, OnwardType
  <2>2. WatchOK'
    <3>1. PICK w \in Watchdogs : wd' = [Told EXCEPT ![w] = Waiting]
      BY <1>24, NewIsWatchdog
    <3>2. Waiting \in Watchdog
      BY DEF Waiting, Off, Watchdog
    <3>3. QED
      BY <3>1, <3>2, ToldType DEF WatchOK
  <2>3. QED
    BY <1>24, <1>0, <2>1, <2>2 DEF BoundsOK, NewWatchdog, SystemOK, bounds, system, daemons,
                            Young
<1>25. ASSUME NEW t \in Threads, NewTailer(t)
      PROVE  TypeInv'
  <2>1. RequestsOK' /\ HistoryOK'
    BY <1>25, EndType DEF NewTailer
  <2>2. SystemOK'
    BY <1>25 DEF NewTailer, SystemOK, Daemons, Young
  <2>3. QED
    BY <1>25, <2>1, <2>2 DEF NewTailer, bounds, BoundsOK, WatchOK
<1>26. ASSUME NEW t \in Threads, ExitEarly(t)
      PROVE  TypeInv'
  <2>1. RequestsOK' /\ HistoryOK'
    <3>1. CASE \E ok \in BOOLEAN : End(t, ok)
      BY <3>1, EndType
    <3>2. CASE ~(\E ok \in BOOLEAN : End(t, ok))
      <4>1. Onward(t, "clear") /\ pc[t] = "removeIface" /\ job[t].op # "stop"
        BY <1>26, <3>2 DEF ExitEarly
      <4>2. "clear" \in Labels /\ Fits("clear", job[t])
        BY <1>0, <4>1 DEF Fits, Labels, StartLabels, Ops
      <4>3. QED
        BY <4>1, <4>2, OnwardType
    <3>3. QED
      BY <3>1, <3>2
  <2>2. QED
    BY <1>26, <2>1 DEF ExitEarly, Fault, system, daemons, SystemOK, Young, WatchOK,
                       BoundsOK
<1>27. QED
  BY <1>1, <1>2, <1>3, <1>4, <1>5, <1>6, <1>7, <1>8, <1>9, <1>10, <1>11, <1>12, <1>13,
     <1>14, <1>15, <1>16, <1>17, <1>18, <1>19, <1>20, <1>21, <1>22, <1>23, <1>24, <1>25,
     <1>26
     DEF Next, Watch, Serve, Stop, Start

(* Every variable has its type, whatever overlaps and whatever crashes: in
   particular every pid file names a live process. *)
THEOREM TypeCorrect == Spec => []TypeOK
<1>1. TypeInv => TypeOK
  BY
     DEF TypeInv, SystemOK, WatchOK, RequestsOK, HistoryOK, BoundsOK, TypeOK, Job,
         Watchdog
<1>2. Spec => []TypeInv
  BY TypeInit, TypeStep, PTL DEF Spec
<1>3. QED
  BY <1>1, <1>2, PTL
-----------------------------------------------------------------------------
(* After a stop. *)

(* While nothing but stops has come since a stop, there is no interface, unless it
   could not be deleted, and a watchdog's hostapd needs one. *)
SilentInv ==
    silent => /\ ~stuck => ~iface /\ ~radio
              /\ \A t \in Threads : pc[t] # "idle" => job[t].op = "stop"

(* A step of a request that brings nothing up keeps the silence. *)
LEMMA SilentOnward ==
    ASSUME RequestsOK, SilentInv, NEW t \in Threads, NEW label, Onward(t, label),
           pc[t] # "idle", iface' => iface, radio' => radio, UNCHANGED stuck
    PROVE  SilentInv'
BY DEF RequestsOK, SilentInv, Onward, Goto, history

(* No request that starts anything is under way in silence. *)
LEMMA SilentStart ==
    ASSUME RequestsOK, SilentInv, NEW t \in Threads, pc[t] \in StartLabels
    PROVE  ~silent /\ job[t].op # "stop"
BY DEF RequestsOK, Fits, SilentInv, StartLabels, Starting

(* Every step keeps it. *)
LEMMA SilentStep == TypeInv /\ SilentInv /\ [Next]_vars => SilentInv'
<1> SUFFICES ASSUME TypeInv, SilentInv, [Next]_vars PROVE SilentInv'
  OBVIOUS
<1> USE DEF TypeInv
<1>1. CASE UNCHANGED vars
  BY <1>1 DEF vars, system, daemons, requests, history, SilentInv
<1>2. ASSUME NEW d \in Daemons, Crash(d)
      PROVE  SilentInv'
  BY <1>2 DEF Crash, requests, SilentInv
<1>3. CASE GraceEnds \/ WritePid
  BY <1>3 DEF GraceEnds, WritePid, requests, history, SilentInv
<1>4. ASSUME NEW w \in Watchdogs, Wake(w) \/ Check(w)
      PROVE  SilentInv'
  BY <1>4 DEF Wake, Check, system, daemons, requests, history, SilentInv
<1>5. ASSUME NEW w \in Watchdogs, Restart(w)
      PROVE  SilentInv'
  BY <1>5 DEF Restart, Launch, CanLaunch, requests, history, SilentInv
<1>6. ASSUME NEW t \in Threads, NEW op \in Ops, NEW m \in Macs, Begin(t, op, m)
      PROVE  SilentInv'
  BY <1>6 DEF Begin, Goto, RequestsOK, system, daemons, SilentInv
<1>7. ASSUME NEW t \in Threads, Kick(t) \/ Truncate(t) \/ Rewrite(t) \/ StopWatchdog(t)
                                \/ FreePorts(t) \/ NewWatchdog(t)
      PROVE  SilentInv'
  <2>1. /\ \E label \in Labels : Onward(t, label)
        /\ pc[t] # "idle" /\ UNCHANGED <<iface, radio, stuck>>
    BY <1>7 DEF Kick, Truncate, Rewrite, StopWatchdog, FreePorts, NewWatchdog, system,
                Labels, StopLabels, StartLabels, EditLabels
  <2>2. QED
    BY <2>1, SilentOnward
<1>8. ASSUME NEW t \in Threads, ReadList(t)
      PROVE  SilentInv'
  BY <1>8 DEF ReadList, Goto, RequestsOK, Job, system, daemons, history, SilentInv
<1>9. ASSUME NEW t \in Threads, StopHostapd(t) \/ StopTailer(t) \/ StopDnsmasq(t)
                                \/ FreeAp(t)
      PROVE  SilentInv'
  <2>1. /\ \E label \in Labels : Onward(t, label)
        /\ pc[t] # "idle" /\ (iface' => iface) /\ (radio' => radio) /\ UNCHANGED stuck
    BY <1>9 DEF StopHostapd, StopTailer, StopDnsmasq, FreeAp,
                Labels, StopLabels, StartLabels, EditLabels
  <2>2. QED
    BY <2>1, SilentOnward
<1>10. ASSUME NEW t \in Threads, RemoveIface(t)
       PROVE  SilentInv'
  <2>1. ~stuck' => ~iface' /\ ~radio'
    BY <1>10 DEF RemoveIface, DeleteIface
  <2>2. \A u \in Threads : u # t => pc'[u] = pc[u] /\ job'[u] = job[u]
    BY <1>10 DEF RemoveIface, End, Onward, Goto, RequestsOK
  <2>3. CASE job[t].op = "stop"
    <3>1. End(t, TRUE)
      BY <1>10, <2>3 DEF RemoveIface
    <3>2. pc'[t] = "idle"
      BY <3>1 DEF End, Goto, RequestsOK
    <3>3. silent' = (silent \/ Busy = {t})
      BY <2>3, <3>1 DEF End
    <3>4. QED
      BY <2>1, <2>2, <3>2, <3>3 DEF Busy, SilentInv
  <2>4. CASE job[t].op # "stop"
    <3>1. ~silent /\ silent' = silent
      BY <1>10, <2>4 DEF RemoveIface, Onward, history, SilentInv
    <3>2. QED
      BY <3>1 DEF SilentInv
  <2>5. QED
    BY <2>3, <2>4
<1>11. ASSUME NEW t \in Threads, AddIface(t) \/ LaunchHostapd(t) \/ CheckHostapd(t)
                                 \/ LaunchDnsmasq(t) \/ NewTailer(t) \/ ClearIface(t)
       PROVE  SilentInv'
  <2>1. pc[t] \in StartLabels
    BY <1>11
       DEF AddIface, LaunchHostapd, CheckHostapd, LaunchDnsmasq, NewTailer, ClearIface,
           StartLabels
  <2>2. ~silent /\ job[t].op # "stop"
    BY <2>1, SilentStart
  <2>3. ~silent'
    BY <1>11, <2>2 DEF AddIface, LaunchHostapd, CheckHostapd, LaunchDnsmasq, NewTailer,
                       ClearIface, Onward, End, history
  <2>4. QED
    BY <2>3 DEF SilentInv
<1>12. ASSUME NEW t \in Threads, ExitEarly(t)
       PROVE  SilentInv'
  <2>1. UNCHANGED <<iface, radio, stuck>>
    BY <1>12 DEF ExitEarly, system
  <2>2. \A u \in Threads : pc'[u] # "idle" => pc[u] # "idle" /\ job'[u].op = job[u].op
    BY <1>12 DEF ExitEarly, End, Onward, Goto, RequestsOK
  <2>3. silent' = silent
    BY <1>12 DEF ExitEarly, End, Onward, history, TypeInv, HistoryOK
  <2>4. QED
    BY <2>1, <2>2, <2>3 DEF SilentInv
<1>13. QED
  BY <1>1, <1>2, <1>3, <1>4, <1>5, <1>6, <1>7, <1>8, <1>9, <1>10, <1>11, <1>12
     DEF Next, Watch, Serve, Stop, Start

(* After a stop there is no access point until a start is asked for, whatever
   passes of whichever watchdogs were under way, if ap0 could be deleted. *)
THEOREM StopSilences == Spec => []StopSilencesAp
<1>1. Init => SilentInv
  BY DEF Init, SilentInv
<1>2. SilentInv => StopSilencesAp
  BY DEF SilentInv, StopSilencesAp
<1>3. QED
  BY <1>1, <1>2, TypeInit, TypeStep, SilentStep, PTL DEF Spec
-----------------------------------------------------------------------------
(* The deny list. *)

(* The requests that edit the list come one at a time, but for two that block. *)
EditsApart == {{"kick", "unblock"}, {"unblock"}} \subseteq Apart

Edited == StopLabels \cup StartLabels   \* the edit is made
Stopped == Edited \ {"stopHostapd"}     \* and the hostapd from before is gone

EditorsAlone == \A t, u \in Threads :
    t # u /\ job[t].op = "unblock" => job[u].op \notin {"kick", "unblock"}

(* What the dashboard was told is in the file, but while it is rewritten, ... *)
FileInv ==
    /\ freed \cap denyFile = {}
    /\ (\A t \in Threads : pc[t] # "rewrite") => kicked \subseteq denyFile

(* ... and on the air, but from the truncation of the file to the end of a hostapd
   that may have read it so. *)
AirInv ==
    /\ radio => freed \cap acl = {}
    /\ radio /\ ~Rewriting => kicked \subseteq acl

(* What a block has done so far, ... *)
KickInv(t) ==
    job[t].op = "kick" =>
        /\ job[t].mac \notin freed
        /\ pc[t] \in Edited => job[t].mac \in denyFile
        /\ radio /\ pc[t] \in Stopped => job[t].mac \in acl

(* ... and an unblock. *)
UnblockInv(t) ==
    job[t].op = "unblock" =>
        /\ job[t].mac \notin kicked
        /\ pc[t] \in {"truncate", "rewrite"} =>
              /\ freed \cap job[t].read = {} /\ job[t].mac \notin job[t].read
              /\ kicked \subseteq job[t].read
        /\ pc[t] = "rewrite" => denyFile = {}
        /\ pc[t] \in Edited => job[t].mac \notin denyFile
        /\ radio /\ pc[t] \in Stopped => job[t].mac \notin acl /\ kicked \subseteq acl

DenyInv ==
    /\ EditorsAlone /\ FileInv /\ AirInv
    /\ \A t \in Threads : KickInv(t) /\ UnblockInv(t)

(* hostapd keeps its list, is started with the file's, or is gone. *)
AirStep == \/ (radio' => radio) /\ acl' = acl
           \/ acl' = denyFile
           \/ ~radio'

(* hostapd comes and goes: nobody can be rewriting the file but an unblock. *)
LEMMA DenyAir ==
    ASSUME RequestsOK, DenyInv, AirStep, UNCHANGED <<denyFile, requests, kicked, freed>>
    PROVE  DenyInv'
<1> USE DEF requests
<1>1. (EditorsAlone /\ FileInv)'
  BY DEF DenyInv, EditorsAlone, FileInv
<1>2. \A t \in Threads : pc[t] = "rewrite" => job[t].op = "unblock"
  BY DEF RequestsOK, Fits
<1>3. AirInv'
  BY <1>2 DEF DenyInv, FileInv, AirInv, AirStep, Rewriting
<1>4. ASSUME NEW t \in Threads PROVE KickInv(t)'
  BY DEF DenyInv, KickInv, AirStep, Edited, Stopped
<1>5. ASSUME NEW t \in Threads PROVE UnblockInv(t)'
  <2>1. CASE job[t].op = "unblock" /\ pc[t] \in Stopped
    <3>1. \A u \in Threads : pc[u] # "rewrite"
      BY <1>2, <2>1 DEF DenyInv, EditorsAlone, Stopped, Edited, StopLabels, StartLabels
    <3>2. kicked \subseteq denyFile /\ job[t].mac \notin denyFile
      BY <2>1, <3>1 DEF DenyInv, FileInv, UnblockInv, Stopped
    <3>3. QED
      BY <2>1, <3>2 DEF DenyInv, UnblockInv, AirStep
  <2>2. CASE ~(job[t].op = "unblock" /\ pc[t] \in Stopped)
    BY <2>2 DEF DenyInv, UnblockInv
  <2>3. QED
    BY <2>1, <2>2
<1>6. QED
  BY <1>1, <1>3, <1>4, <1>5 DEF DenyInv

(* A request whose edit is made goes on; hostapd is killed on its first step. *)
LEMMA DenyOnward ==
    ASSUME RequestsOK, DenyInv, AirStep, UNCHANGED denyFile,
           NEW t \in Threads, NEW label \in Stopped, Onward(t, label), pc[t] \in Edited,
           pc[t] = "stopHostapd" => ~radio'
    PROVE  DenyInv'
<1> USE DEF Onward, Goto, history, Edited, Stopped, StopLabels, StartLabels
<1>1. (EditorsAlone /\ FileInv)'
  BY DEF DenyInv, EditorsAlone, FileInv, RequestsOK
<1>2. \A u \in Threads : pc[u] = "rewrite" => job[u].op = "unblock"
  BY DEF RequestsOK, Fits
<1>3. AirInv'
  <2>1. radio' => freed' \cap acl' = {}
    BY DEF DenyInv, FileInv, AirInv, AirStep
  <2>2. ASSUME radio', ~Rewriting' PROVE kicked' \subseteq acl'
    <3>1. \A u \in Threads : u # t => pc'[u] = pc[u]
      BY DEF RequestsOK
    <3>2. ~Rewriting
      BY <2>2, <3>1 DEF Rewriting
    <3>3. \A u \in Threads : pc[u] # "rewrite"
      BY <1>2, <3>2 DEF Rewriting
    <3>4. QED
      BY <2>2, <3>2, <3>3 DEF DenyInv, FileInv, AirInv, AirStep
  <2>3. QED
    BY <2>1, <2>2 DEF AirInv
<1>4. ASSUME NEW u \in Threads PROVE KickInv(u)'
  BY DEF DenyInv, KickInv, AirStep, RequestsOK
<1>5. ASSUME NEW u \in Threads PROVE UnblockInv(u)'
  <2>1. CASE job[u].op = "unblock" /\ pc[u] \in Edited
    <3>1. \A v \in Threads : pc[v] # "rewrite"
      BY <1>2, <2>1 DEF DenyInv, EditorsAlone
    <3>2. kicked \subseteq denyFile /\ job[u].mac \notin denyFile
      BY <2>1, <3>1 DEF DenyInv, FileInv, UnblockInv
    <3>3. QED
      BY <2>1, <3>2 DEF DenyInv, UnblockInv, AirStep, RequestsOK
  <2>2. CASE ~(job[u].op = "unblock" /\ pc[u] \in Edited)
    BY <2>2 DEF DenyInv, UnblockInv, RequestsOK
  <2>3. QED
    BY <2>1, <2>2
<1>6. QED
  BY <1>1, <1>3, <1>4, <1>5 DEF DenyInv

(* A request is answered: what it was about is as the answer says. *)
LEMMA DenyEnd ==
    ASSUME RequestsOK, DenyInv, UNCHANGED <<denyFile, acl>>, radio' => radio,
           NEW t \in Threads, NEW ok \in BOOLEAN, End(t, ok), pc[t] \in Stopped
    PROVE  DenyInv'
<1> USE NoJobType DEF End, Goto, Stopped, Edited, StopLabels, StartLabels
<1>1. EditorsAlone'
  BY DEF DenyInv, EditorsAlone, RequestsOK
<1>2. \A u \in Threads : u # t => pc'[u] = pc[u] /\ job'[u] = job[u]
  BY DEF RequestsOK
<1>3. pc'[t] = "idle" /\ job'[t].op = "stop"
  BY DEF RequestsOK
<1>4. FileInv'
  <2>1. freed' \cap denyFile' = {}
    BY DEF DenyInv, FileInv, UnblockInv
  <2>2. ASSUME \A u \in Threads : pc'[u] # "rewrite" PROVE kicked' \subseteq denyFile'
    BY <1>2, <2>2 DEF DenyInv, FileInv, KickInv
  <2>3. QED
    BY <2>1, <2>2 DEF FileInv
<1>5. AirInv'
  <2>1. radio' => freed' \cap acl' = {}
    BY DEF DenyInv, AirInv, UnblockInv
  <2>2. ASSUME radio', ~Rewriting'
        PROVE  kicked' \subseteq acl'
    <3>1. kicked \subseteq acl
      <4>1. ~Rewriting
        BY <1>2, <2>2 DEF Rewriting
      <4>2. QED
        BY <2>2, <4>1 DEF DenyInv, AirInv
    <3>2. job[t].op = "kick" => job[t].mac \in acl
      BY <2>2 DEF DenyInv, KickInv
    <3>3. QED
      BY <3>1, <3>2
  <2>3. QED
    BY <2>1, <2>2 DEF AirInv
<1>6. ASSUME NEW u \in Threads PROVE KickInv(u)'
  <2>1. CASE u = t
    BY <1>3, <2>1 DEF KickInv
  <2>2. CASE u # t /\ job[u].op = "kick"
    <3>1. job[t].op # "unblock"
      BY <2>2 DEF DenyInv, EditorsAlone
    <3>2. freed' = freed
      BY <3>1
    <3>3. QED
      BY <1>2, <2>2, <3>2 DEF DenyInv, KickInv
  <2>3. CASE u # t /\ job[u].op # "kick"
    BY <1>2, <2>3 DEF KickInv
  <2>4. QED
    BY <2>1, <2>2, <2>3
<1>7. ASSUME NEW u \in Threads PROVE UnblockInv(u)'
  <2>1. CASE u = t
    BY <1>3, <2>1 DEF UnblockInv
  <2>2. CASE u # t /\ job[u].op = "unblock"
    <3>1. job[t].op \notin {"kick", "unblock"}
      BY <2>2 DEF DenyInv, EditorsAlone
    <3>2. freed' = freed /\ kicked' = kicked
      BY <3>1
    <3>3. QED
      BY <1>2, <2>2, <3>2 DEF DenyInv, UnblockInv
  <2>3. CASE u # t /\ job[u].op # "unblock"
    BY <1>2, <2>3 DEF UnblockInv
  <2>4. QED
    BY <2>1, <2>2, <2>3
<1>8. QED
  BY <1>1, <1>4, <1>5, <1>6, <1>7 DEF DenyInv

(* A request begins.  One that edits finds no other that it must not meet. *)
LEMMA DenyBegin ==
    ASSUME EditsApart, RequestsOK, DenyInv,
           NEW t \in Threads, NEW op \in Ops, NEW m \in Macs, Begin(t, op, m)
    PROVE  DenyInv'
<1>1. \A u \in Threads : u # t => pc'[u] = pc[u] /\ job'[u] = job[u]
  BY DEF Begin, Goto, RequestsOK
<1>2. /\ job'[t] = [op |-> op, mac |-> m, read |-> {}]
      /\ pc'[t] = FirstStep(op)
  BY DEF Begin, Goto, RequestsOK
<1>3. /\ \/ pc'[t] \notin {"truncate", "rewrite"} \cup Stopped
         \/ op \notin {"kick", "unblock"}
      /\ op \in {"kick", "unblock"} => pc'[t] = "edit"
      /\ pc'[t] # "rewrite"
  BY <1>2 DEF FirstStep, Stopped, Edited, StopLabels, StartLabels, Ops, Starting
<1>4. UNCHANGED <<radio, acl, denyFile>>
  BY DEF Begin, system
<1>5. /\ kicked' = IF op = "unblock" THEN kicked \ {m} ELSE kicked
      /\ freed' = IF op = "kick" THEN freed \ {m} ELSE freed
  BY DEF Begin
<1>6. EditorsAlone'
  <2>1. ASSUME NEW u \in Threads, u # t, {op, job[u].op} \notin Apart
        PROVE  ~ ({op, job[u].op} \in {{"kick", "unblock"}, {"unblock"}})
    BY <2>1 DEF EditsApart
  <2>2. \A u \in Threads : pc[u] = "idle" => job[u].op = "stop"
    BY DEF RequestsOK, Fits
  <2>3. ASSUME NEW u \in Threads, u # t
        PROVE  /\ op = "unblock" => job[u].op \notin {"kick", "unblock"}
               /\ job[u].op = "unblock" => op \notin {"kick", "unblock"}
    <3>1. CASE pc[u] = "idle"
      BY <2>2, <3>1
    <3>2. CASE pc[u] # "idle"
      <4>1. {op, job[u].op} \notin Apart
        BY <3>2 DEF Begin, Busy
      <4>2. QED
        BY <2>1, <2>3, <4>1
    <3>3. QED
      BY <3>1, <3>2
  <2>4. QED
    BY <1>1, <1>2, <2>3 DEF DenyInv, EditorsAlone
<1>7. FileInv'
  BY <1>1, <1>3, <1>4, <1>5 DEF Begin, DenyInv, FileInv
<1>8. AirInv'
  <2>1. radio' => freed' \cap acl' = {}
    BY <1>4, <1>5 DEF DenyInv, AirInv
  <2>2. ASSUME radio', ~Rewriting'
        PROVE  kicked' \subseteq acl'
    <3>1. pc[t] = "idle"
      BY DEF Begin
    <3>2. ~Rewriting
      BY <1>1, <2>2, <3>1 DEF Rewriting
    <3>3. QED
      BY <1>4, <1>5, <2>2, <3>2 DEF DenyInv, AirInv
  <2>3. QED
    BY <2>1, <2>2 DEF AirInv
<1>9. ASSUME NEW u \in Threads PROVE KickInv(u)' /\ UnblockInv(u)'
  <2>1. CASE u = t
    BY <1>2, <1>3, <1>5, <2>1
       DEF KickInv, UnblockInv, Edited, Stopped, StopLabels, StartLabels
  <2>2. CASE u # t
    <3>1. /\ kicked' \subseteq kicked /\ freed' \subseteq freed
      BY <1>5
    <3>2. QED
      BY <1>1, <1>4, <2>2, <3>1 DEF DenyInv, KickInv, UnblockInv
  <2>3. QED
    BY <2>1, <2>2
<1>10. QED
  BY <1>6, <1>7, <1>8, <1>9 DEF DenyInv

(* The edits. *)
LEMMA DenyEdit ==
    ASSUME RequestsOK, denyFile \subseteq Macs, DenyInv, NEW t \in Threads,
           Kick(t) \/ ReadList(t) \/ Truncate(t) \/ Rewrite(t)
    PROVE  DenyInv'
<1> USE DEF Goto, Onward, history, system
<1>0. job[t] \in Job
  BY DEF RequestsOK
<1>1. UNCHANGED <<radio, acl, kicked, freed>>
  BY DEF Kick, ReadList, Truncate, Rewrite
<1>2. \A u \in Threads : /\ u # t => pc'[u] = pc[u] /\ job'[u] = job[u]
                         /\ job'[u].op = job[u].op /\ job'[u].mac = job[u].mac
  BY <1>0 DEF Kick, ReadList, Truncate, Rewrite, RequestsOK, Job
<1>3. EditorsAlone' /\ AirInv'
  <2>1. Rewriting => Rewriting'
    BY <1>2 DEF Kick, ReadList, Truncate, Rewrite, RequestsOK, Rewriting
  <2>2. QED
    BY <1>1, <1>2, <2>1 DEF DenyInv, EditorsAlone, AirInv
<1>4. \A u \in Threads : pc[u] \in {"truncate", "rewrite"} => job[u].op = "unblock"
  BY DEF RequestsOK, Fits
<1>5. CASE Kick(t)
  <2>1. job[t].op = "kick" /\ job[t].mac \notin freed /\ pc'[t] = "stopHostapd"
    BY <1>5 DEF Kick, DenyInv, KickInv, RequestsOK
  <2>2. denyFile' = denyFile \cup {job[t].mac}
    BY <1>5 DEF Kick
  <2>3. \A u \in Threads : job[u].op # "unblock"
    BY <2>1 DEF DenyInv, EditorsAlone
  <2>4. FileInv'
    BY <1>1, <1>2, <1>4, <2>1, <2>2, <2>3 DEF DenyInv, FileInv
  <2>5. ASSUME NEW u \in Threads PROVE KickInv(u)' /\ UnblockInv(u)'
    BY <1>1, <1>2, <2>1, <2>2, <2>3
       DEF DenyInv, KickInv, UnblockInv, Stopped, Edited, StopLabels, StartLabels
  <2>6. QED
    BY <1>3, <2>4, <2>5 DEF DenyInv
<1>6. CASE ~Kick(t)
  <2>1. job[t].op = "unblock" /\ pc[t] \in EditLabels
    BY <1>4, <1>6 DEF ReadList, Truncate, Rewrite, EditLabels
  <2>2. \A u \in Threads : u # t => job[u].op \notin {"kick", "unblock"}
    BY <2>1 DEF DenyInv, EditorsAlone
  <2>3. \A u \in Threads : u # t => pc[u] # "rewrite"
    BY <1>4, <2>2
  <2>4. ASSUME NEW u \in Threads, u # t PROVE KickInv(u)' /\ UnblockInv(u)'
    BY <1>2, <2>2, <2>4 DEF KickInv, UnblockInv
  <2>5. KickInv(t)'
    BY <1>2, <2>1 DEF KickInv
  <2>6. CASE ReadList(t)
    <3>1. /\ pc[t] = "edit" /\ pc'[t] = "truncate" /\ denyFile' = denyFile
          /\ job'[t].read = denyFile \ {job[t].mac}
      BY <1>0, <2>6 DEF ReadList, RequestsOK, Job
    <3>2. FileInv'
      BY <1>1, <1>2, <3>1 DEF DenyInv, FileInv
    <3>3. kicked \subseteq denyFile /\ job[t].mac \notin kicked
      BY <2>1, <2>3, <3>1 DEF DenyInv, FileInv, UnblockInv
    <3>4. UnblockInv(t)'
      BY <1>1, <1>2, <2>1, <3>1, <3>3
         DEF DenyInv, FileInv, UnblockInv, Stopped, Edited, StopLabels, StartLabels
    <3>5. QED
      BY <1>3, <2>4, <2>5, <3>2, <3>4 DEF DenyInv
  <2>7. CASE Truncate(t)
    <3>1. pc[t] = "truncate" /\ pc'[t] = "rewrite" /\ denyFile' = {} /\ job' = job
      BY <2>7 DEF Truncate, RequestsOK
    <3>2. FileInv'
      BY <3>1 DEF FileInv
    <3>3. UnblockInv(t)'
      BY <1>1, <2>1, <3>1
         DEF DenyInv, UnblockInv, Stopped, Edited, StopLabels, StartLabels
    <3>4. QED
      BY <1>3, <2>4, <2>5, <3>2, <3>3 DEF DenyInv
  <2>8. CASE Rewrite(t)
    <3>1. /\ pc[t] = "rewrite" /\ pc'[t] = "stopHostapd" /\ job' = job
          /\ denyFile' = denyFile \cup job[t].read
      BY <2>8 DEF Rewrite, RequestsOK
    <3>2. /\ denyFile' = job[t].read /\ freed \cap job[t].read = {}
          /\ job[t].mac \notin job[t].read /\ kicked \subseteq job[t].read
          /\ job[t].mac \notin kicked
      BY <2>1, <3>1 DEF DenyInv, UnblockInv
    <3>3. FileInv'
      BY <1>1, <3>2 DEF FileInv
    <3>4. UnblockInv(t)'
      BY <1>1, <3>1, <3>2 DEF UnblockInv, Stopped, Edited, StopLabels, StartLabels
    <3>5. QED
      BY <1>3, <2>4, <2>5, <3>3, <3>4 DEF DenyInv
  <2>9. QED
    BY <1>6, <2>6, <2>7, <2>8
<1>7. QED
  BY <1>5, <1>6

(* Every step keeps what the dashboard was told. *)
LEMMA DenyStep == EditsApart /\ TypeInv /\ DenyInv /\ [Next]_vars => DenyInv'
<1> SUFFICES ASSUME EditsApart, TypeInv, DenyInv, [Next]_vars PROVE DenyInv'
  OBVIOUS
<1> USE DEF TypeInv
<1> DEFINE Calm == UNCHANGED <<denyFile, requests, kicked, freed>>
<1>1. CASE UNCHANGED vars
  <2>1. Calm /\ AirStep
    BY <1>1 DEF vars, system, daemons, history, AirStep
  <2>2. QED
    BY <2>1, DenyAir
<1>2. ASSUME NEW d \in Daemons, Crash(d)
      PROVE  DenyInv'
  <2>1. Calm /\ AirStep
    BY <1>2 DEF Crash, AirStep
  <2>2. QED
    BY <2>1, DenyAir
<1>3. CASE GraceEnds \/ WritePid
  <2>1. Calm /\ AirStep
    BY <1>3 DEF GraceEnds, WritePid, history, AirStep
  <2>2. QED
    BY <2>1, DenyAir
<1>4. ASSUME NEW w \in Watchdogs, Wake(w) \/ Check(w) \/ Restart(w)
      PROVE  DenyInv'
  <2>1. Calm /\ AirStep
    BY <1>4 DEF Wake, Check, Restart, Launch, system, history, AirStep
  <2>2. QED
    BY <2>1, DenyAir
<1>5. ASSUME NEW t \in Threads, NEW op \in Ops, NEW m \in Macs, Begin(t, op, m)
      PROVE  DenyInv'
  BY <1>5, DenyBegin
<1>6. ASSUME NEW t \in Threads, Kick(t) \/ ReadList(t) \/ Truncate(t) \/ Rewrite(t)
      PROVE  DenyInv'
  BY <1>6, DenyEdit
<1>7. ASSUME NEW t \in Threads, \/ StopHostapd(t) \/ StopWatchdog(t) \/ StopTailer(t)
                                \/ StopDnsmasq(t) \/ ClearIface(t) \/ FreeAp(t)
                                \/ FreePorts(t) \/ NewWatchdog(t)
      PROVE  DenyInv'
  <2>1. /\ denyFile' = denyFile /\ AirStep /\ pc[t] \in Edited
        /\ \E label \in Stopped : Onward(t, label)
        /\ pc[t] = "stopHostapd" => ~radio'
    BY <1>7 DEF StopHostapd, StopWatchdog, StopTailer, StopDnsmasq, ClearIface, FreeAp,
                FreePorts, NewWatchdog, system, AirStep, Stopped, Edited, StopLabels,
                StartLabels
  <2>2. QED
    BY <2>1, DenyOnward
<1>8. ASSUME NEW t \in Threads, LaunchHostapd(t)
      PROVE  DenyInv'
  <2>1. /\ denyFile' = denyFile /\ AirStep /\ pc[t] = "launchHostapd"
        /\ Onward(t, "checkHostapd")
    BY <1>8 DEF LaunchHostapd, Launch, AirStep
  <2>2. QED
    BY <2>1, DenyOnward DEF Stopped, Edited, StartLabels
<1>9. ASSUME NEW t \in Threads, \/ RemoveIface(t) \/ AddIface(t) \/ CheckHostapd(t)
                                \/ LaunchDnsmasq(t) \/ NewTailer(t) \/ ExitEarly(t)
      PROVE  DenyInv'
  <2>1. /\ UNCHANGED <<denyFile, acl>> /\ pc[t] \in Stopped
    BY <1>9
       DEF RemoveIface, AddIface, CheckHostapd, LaunchDnsmasq, NewTailer, ExitEarly,
           Launch, system, Stopped, Edited, StopLabels, StartLabels
  <2>2. radio' => radio
    BY <1>9
       DEF RemoveIface, AddIface, CheckHostapd, LaunchDnsmasq, NewTailer, ExitEarly,
           Launch, system
  <2>3. CASE \E label \in Stopped : Onward(t, label)
    <3>1. AirStep /\ pc[t] \in Edited /\ pc[t] # "stopHostapd"
      BY <2>1, <2>2 DEF AirStep, Stopped
    <3>2. QED
      BY <2>1, <2>3, <3>1, DenyOnward
  <2>4. CASE \E ok \in BOOLEAN : End(t, ok)
    BY <2>1, <2>2, <2>4, DenyEnd
  <2>5. QED
    BY <1>9, <2>3, <2>4
       DEF RemoveIface, AddIface, CheckHostapd, LaunchDnsmasq, NewTailer, ExitEarly,
           Stopped, Edited, StopLabels, StartLabels
<1>10. QED
  BY <1>1, <1>2, <1>3, <1>4, <1>5, <1>6, <1>7, <1>8, <1>9
     DEF Next, Watch, Serve, Stop, Start

(* A device that was blocked stays off the air, and one that was unblocked may come
   back, whatever restarts hostapd, if the edits of the list are kept apart. *)
THEOREM DenyListStands ==
    ASSUME EditsApart
    PROVE  Spec => []DenyListHolds
<1>1. Init => DenyInv
  BY NoJobType DEF Init, DenyInv, EditorsAlone, FileInv, AirInv, KickInv, UnblockInv
<1>2. TypeInv /\ DenyInv => DenyListHolds
  <2> SUFFICES ASSUME TypeInv, DenyInv PROVE DenyListHolds
    OBVIOUS
  <2>1. QED
    BY DEF DenyInv, AirInv, DenyListHolds, KickHolds, UnblockHolds
<1>3. TypeInv /\ DenyInv /\ [Next]_vars => DenyInv'
  BY DenyStep
<1>4. QED
  BY <1>1, <1>2, <1>3, TypeInit, TypeStep, PTL DEF Spec
-----------------------------------------------------------------------------
(* What a start that was acknowledged leaves. *)

(* An undisturbed start is alone, and has done what its place says. *)
CleanInv(t) ==
    /\ \A u \in Threads : u # t => pc[u] = "idle"
    /\ pc[t] # "idle"
    /\ pc[t] = "addIface" => (procs["hostapd"] > 0 => iface)
    /\ pc[t] \in {"freeAp", "launchHostapd", "checkHostapd", "freePorts",
                  "launchDnsmasq", "newWatchdog", "newTailer"}
          => (procs["hostapd"] > 0 => radio)
    /\ pc[t] \in {"freePorts", "launchDnsmasq", "newWatchdog", "newTailer"}
          => "hostapd" \in managed
    /\ pc[t] \in {"newWatchdog", "newTailer"} => "dnsmasq" \in managed
    /\ pc[t] = "newTailer" => Watched

Collecting == "tailer" \in managed \/ young > 0

ServingInv == serving => /\ radio /\ {"hostapd", "dnsmasq"} \subseteq managed
                         /\ Collecting /\ Watched
                         /\ \A t \in Threads : pc[t] = "idle"

ServeInv == ServingInv /\ \A t \in clean : CleanInv(t)

(* A watchdog's own steps never leave the hotspot unwatched. *)
LEMMA WatchedStays ==
    ASSUME WatchOK, Watched, NEW w \in Watchdogs, Wake(w) \/ Check(w) \/ Restart(w)
    PROVE  Watched'
<1>1. PICK v \in Watchdogs : wd[v].pc # "off" /\ ~wd[v].term
  BY DEF Watched
<1>2. wd[v] \in Watchdog /\ wd[w] \in Watchdog
  BY DEF WatchOK
<1>3. wd'[v].pc # "off" /\ ~wd'[v].term
  <2>1. CASE v # w
    BY <1>1, <2>1 DEF Wake, Check, Restart, WatchOK
  <2>2. CASE v = w
    <3>1. wd'[w] \in {[wd[w] EXCEPT !.pc = "hostapd"], [wd[w] EXCEPT !.act = TRUE],
                      Past(wd[w])}
      BY DEF Wake, Check, Restart, WatchOK
    <3>2. wd[w].pc \in Daemons => Past(wd[w]).pc # "off" /\ ~Past(wd[w]).term
      BY <1>1, <1>2, <2>2 DEF Past, After, Watchdog, Daemons
    <3>3. Wake(w) \/ wd[w].pc \in Daemons
      BY <1>2 DEF Check, Restart, Watchdog
    <3>4. CASE Wake(w)
      BY <1>1, <1>2, <2>2, <3>4 DEF Wake, WatchOK, Watchdog
    <3>5. CASE Check(w) \/ Restart(w)
      <4>1. /\ wd[w].pc \in Daemons
            /\ wd'[w] \in {[wd[w] EXCEPT !.act = TRUE], Past(wd[w])}
        BY <1>2, <3>5 DEF Check, Restart, WatchOK, Watchdog
      <4>2. QED
        BY <1>1, <1>2, <2>2, <3>2, <4>1 DEF Watchdog
    <3>6. QED
      BY <3>4, <3>5
  <2>3. QED
    BY <2>1, <2>2
<1>4. QED
  BY <1>3 DEF Watched

(* A watchdog disturbs neither: it starts what is down, hostapd only on an
   interface that exists. *)
LEMMA ServeWatch ==
    ASSUME TypeInv, ServeInv, NEW w \in Watchdogs, Wake(w) \/ Check(w) \/ Restart(w)
    PROVE  ServeInv'
<1>1. UNCHANGED <<iface, pc, clean, serving>>
  BY DEF Wake, Check, Restart, system, daemons, requests, history
<1>2. /\ radio => radio'
      /\ Collecting => Collecting'
      /\ managed \subseteq managed'
      /\ ~iface => procs'["hostapd"] = procs["hostapd"]
      /\ (procs["hostapd"] > 0 => radio) => (procs'["hostapd"] > 0 => radio')
  <2>1. CASE Wake(w) \/ Check(w)
    BY <2>1 DEF Wake, Check, system, daemons, Collecting
  <2>2. CASE Restart(w)
    <3>1. wd[w].pc \in Daemons
      BY <2>2 DEF Restart, TypeInv, WatchOK, Watchdog
    <3>2. QED
      BY <2>2, <3>1
         DEF Restart, Launch, CanLaunch, TypeInv, SystemOK, Daemons, Collecting, daemons
  <2>3. QED
    BY <2>1, <2>2
<1>3. Watched => Watched'
  BY WatchedStays DEF TypeInv
<1>4. ServingInv'
  BY <1>1, <1>2, <1>3 DEF ServeInv, ServingInv
<1>5. ASSUME NEW t \in clean PROVE CleanInv(t)'
  BY <1>1, <1>2, <1>3 DEF ServeInv, CleanInv
<1>6. QED
  BY <1>1, <1>4, <1>5 DEF ServeInv

(* While a request is served, what was acknowledged before is not claimed. *)
LEMMA ServingOver ==
    ASSUME ServeInv, NEW t \in Threads, pc[t] # "idle"
    PROVE  ~serving /\ clean \subseteq {t}
<1>1. ~serving
  BY DEF ServeInv, ServingInv
<1>2. ASSUME NEW u \in clean PROVE u = t
  BY DEF ServeInv, CleanInv
<1>3. QED
  BY <1>1, <1>2

(* A step of a request that goes on, from the facts of its new place. *)
LEMMA ServeOnward ==
    ASSUME TypeInv, ServeInv, NEW t \in Threads, pc[t] # "idle",
           NEW label \in Labels \ {"idle"}, Onward(t, label),
           t \in clean => CleanInv(t)'
    PROVE  ServeInv'
<1>1. ~serving /\ clean \subseteq {t}
  BY ServingOver
<1>2. ~serving' /\ clean' = clean
  BY <1>1 DEF Onward, history
<1>3. QED
  BY <1>1, <1>2 DEF ServeInv, ServingInv

(* One that ends without success claims nothing. *)
LEMMA ServeFail ==
    ASSUME TypeInv, ServeInv, NEW t \in Threads, pc[t] # "idle", NEW ok \in BOOLEAN,
           End(t, ok), ~ok \/ job[t].op \notin Starting
    PROVE  ServeInv'
<1>1. ~serving /\ clean \subseteq {t}
  BY ServingOver
<1>2. ~serving' /\ clean' = {}
  BY <1>1 DEF End
<1>3. QED
  BY <1>2 DEF ServeInv, ServingInv

(* Every step keeps it. *)
LEMMA ServeStep == TypeInv /\ ServeInv /\ [Next]_vars => ServeInv'
<1> SUFFICES ASSUME TypeInv, ServeInv, [Next]_vars PROVE ServeInv'
  OBVIOUS
<1>0. /\ pc \in [Threads -> Labels] /\ clean \subseteq Threads
      /\ procs \in [Daemons -> Nat] /\ managed \subseteq Daemons /\ young \in Nat
  BY DEF TypeInv, RequestsOK, HistoryOK, SystemOK
<1>1. CASE UNCHANGED vars
  BY <1>1 DEF vars, system, daemons, requests, history, ServeInv, ServingInv, CleanInv,
              Watched, Collecting
<1>2. ASSUME NEW d \in Daemons, Crash(d)
      PROVE  ServeInv'
  BY <1>2 DEF Crash, ServeInv, ServingInv
<1>3. CASE GraceEnds \/ WritePid
  BY <1>3 DEF GraceEnds, WritePid, daemons, requests, history, ServeInv, ServingInv,
              CleanInv, Watched, Collecting
<1>4. ASSUME NEW w \in Watchdogs, Wake(w) \/ Check(w) \/ Restart(w)
      PROVE  ServeInv'
  BY <1>4, ServeWatch
<1>5. ASSUME NEW t \in Threads, NEW op \in Ops, NEW m \in Macs, Begin(t, op, m)
      PROVE  ServeInv'
  <2>1. ~serving' /\ clean' = IF Busy = {} THEN {t} ELSE {}
    BY <1>5 DEF Begin
  <2>2. pc' = [pc EXCEPT ![t] = FirstStep(op)]
    BY <1>5 DEF Begin, Goto
  <2>3. FirstStep(op) \in {"edit", "clear", "stopHostapd"}
    BY DEF FirstStep
  <2>4. ASSUME Busy = {} PROVE CleanInv(t)'
    BY <1>0, <2>2, <2>3, <2>4 DEF CleanInv, Busy
  <2>5. QED
    BY <2>1, <2>4 DEF ServeInv, ServingInv
<1>6. ASSUME NEW t \in Threads, \/ Kick(t) \/ ReadList(t) \/ Truncate(t) \/ Rewrite(t)
                                \/ StopHostapd(t) \/ StopWatchdog(t) \/ StopTailer(t)
                                \/ StopDnsmasq(t)
      PROVE  ServeInv'
  <2>1. PICK label \in Labels \ ({"idle"} \cup StartLabels) : Goto(t, label)
    BY <1>6
       DEF Kick, ReadList, Truncate, Rewrite, StopHostapd, StopWatchdog, StopTailer,
                StopDnsmasq, Onward, Labels, EditLabels, StopLabels, StartLabels
  <2>2. pc[t] # "idle" /\ UNCHANGED <<clean, serving>>
    BY <1>6
       DEF Kick, ReadList, Truncate, Rewrite, StopHostapd, StopWatchdog, StopTailer,
                StopDnsmasq, Onward, history
  <2>3. ~serving /\ clean \subseteq {t}
    BY <2>2, ServingOver
  <2>4. t \in clean => CleanInv(t)'
    BY <1>0, <2>1 DEF ServeInv, CleanInv, Goto, StartLabels
  <2>5. QED
    BY <2>2, <2>3, <2>4 DEF ServeInv, ServingInv
<1>7. ASSUME NEW t \in Threads, RemoveIface(t)
      PROVE  ServeInv'
  <2>1. CASE job[t].op = "stop"
    BY <1>7, <2>1, ServeFail DEF RemoveIface, Starting
  <2>2. CASE job[t].op # "stop"
    <3>1. Onward(t, "clear") /\ pc[t] # "idle"
      BY <1>7, <2>2 DEF RemoveIface
    <3>2. t \in clean => CleanInv(t)'
      BY <1>0, <3>1 DEF ServeInv, CleanInv, Onward, Goto
    <3>3. QED
      BY <3>1, <3>2, ServeOnward DEF Labels, StartLabels
  <2>3. QED
    BY <2>1, <2>2
<1>8. ASSUME NEW t \in Threads, ClearIface(t)
      PROVE  ServeInv'
  <2>1. Onward(t, "addIface") /\ pc[t] # "idle"
    BY <1>8 DEF ClearIface
  <2>2. procs'["hostapd"] = 0
    BY <1>8 DEF ClearIface, Kill, Daemons
  <2>3. t \in clean => CleanInv(t)'
    BY <1>0, <2>1, <2>2 DEF ServeInv, CleanInv, Onward, Goto
  <2>4. QED
    BY <2>1, <2>3, ServeOnward DEF Labels, StartLabels
<1>9. ASSUME NEW t \in Threads, AddIface(t)
      PROVE  ServeInv'
  <2>1. CASE iface
    BY <1>9, <2>1, ServeFail DEF AddIface
  <2>2. CASE ~iface
    <3>1. /\ Onward(t, "freeAp") /\ pc[t] = "addIface"
          /\ UNCHANGED <<procs, managed, radio>>
      BY <1>9, <2>2 DEF AddIface, daemons
    <3>2. t \in clean => CleanInv(t)'
      BY <1>0, <2>2, <3>1 DEF ServeInv, CleanInv, Onward, Goto
    <3>3. QED
      BY <3>1, <3>2, ServeOnward DEF Labels, StartLabels
  <2>3. QED
    BY <2>1, <2>2
<1>10. ASSUME NEW t \in Threads, FreeAp(t)
       PROVE  ServeInv'
  <2>1. Onward(t, "launchHostapd") /\ pc[t] = "freeAp" /\ procs'["hostapd"] = 0
    BY <1>10 DEF FreeAp, Kill, Daemons
  <2>2. t \in clean => CleanInv(t)'
    BY <1>0, <2>1 DEF ServeInv, CleanInv, Onward, Goto
  <2>3. QED
    BY <2>1, <2>2, ServeOnward DEF Labels, StartLabels
<1>11. ASSUME NEW t \in Threads, LaunchHostapd(t)
       PROVE  ServeInv'
  <2>1. Onward(t, "checkHostapd") /\ pc[t] = "launchHostapd"
    BY <1>11 DEF LaunchHostapd
  <2>2. radio' \/ (procs' = procs /\ radio' = radio)
    BY <1>11 DEF LaunchHostapd, Launch, daemons
  <2>3. t \in clean => CleanInv(t)'
    BY <1>0, <2>1, <2>2 DEF ServeInv, CleanInv, Onward, Goto
  <2>4. QED
    BY <2>1, <2>3, ServeOnward DEF Labels, StartLabels
<1>12. ASSUME NEW t \in Threads, CheckHostapd(t)
       PROVE  ServeInv'
  <2>1. CASE "hostapd" \notin managed
    BY <1>12, <2>1, ServeFail DEF CheckHostapd
  <2>2. CASE "hostapd" \in managed
    <3>1. /\ Onward(t, "freePorts") /\ pc[t] = "checkHostapd"
          /\ UNCHANGED <<procs, managed, radio>>
      BY <1>12, <2>2 DEF CheckHostapd, system, daemons
    <3>2. t \in clean => CleanInv(t)'
      BY <1>0, <2>2, <3>1 DEF ServeInv, CleanInv, Onward, Goto
    <3>3. QED
      BY <3>1, <3>2, ServeOnward DEF Labels, StartLabels
  <2>3. QED
    BY <2>1, <2>2
<1>13. ASSUME NEW t \in Threads, FreePorts(t)
       PROVE  ServeInv'
  <2>1. /\ Onward(t, "launchDnsmasq") /\ pc[t] = "freePorts" /\ radio' = radio
        /\ procs'["hostapd"] = procs["hostapd"]
        /\ "hostapd" \in managed => "hostapd" \in managed'
    BY <1>0, <1>13 DEF FreePorts, Kill, Daemons
  <2>2. t \in clean => CleanInv(t)'
    BY <1>0, <2>1 DEF ServeInv, CleanInv, Onward, Goto
  <2>3. QED
    BY <2>1, <2>2, ServeOnward DEF Labels, StartLabels
<1>14. ASSUME NEW t \in Threads, LaunchDnsmasq(t)
       PROVE  ServeInv'
  <2>1. CASE ~CanLaunch("dnsmasq")
    BY <1>14, <2>1, ServeFail DEF LaunchDnsmasq
  <2>2. CASE CanLaunch("dnsmasq")
    <3>1. /\ Onward(t, "newWatchdog") /\ pc[t] = "launchDnsmasq" /\ radio' = radio
          /\ procs'["hostapd"] = procs["hostapd"] /\ managed' = managed \cup {"dnsmasq"}
      BY <1>0, <1>14, <2>2 DEF LaunchDnsmasq, Launch, Daemons
    <3>2. t \in clean => CleanInv(t)'
      BY <1>0, <3>1 DEF ServeInv, CleanInv, Onward, Goto
    <3>3. QED
      BY <3>1, <3>2, ServeOnward DEF Labels, StartLabels
  <2>3. QED
    BY <2>1, <2>2
<1>15. ASSUME NEW t \in Threads, NewWatchdog(t)
       PROVE  ServeInv'
  <2>1. /\ Onward(t, "newTailer") /\ pc[t] = "newWatchdog"
        /\ UNCHANGED <<procs, managed, radio>>
    BY <1>15 DEF NewWatchdog, system, daemons
  <2>2. Watched'
    <3>1. PICK w \in Watchdogs : wd' = [Told EXCEPT ![w] = Waiting]
      BY <1>15, NewIsWatchdog DEF TypeInv
    <3>2. wd'[w] = Waiting
      BY <3>1 DEF Told
    <3>3. QED
      BY <3>2 DEF Watched, Waiting, Off
  <2>3. t \in clean => CleanInv(t)'
    BY <1>0, <2>1, <2>2 DEF ServeInv, CleanInv, Onward, Goto
  <2>4. QED
    BY <2>1, <2>3, ServeOnward DEF Labels, StartLabels
<1>16. ASSUME NEW t \in Threads, NewTailer(t)
       PROVE  ServeInv'
  <2>1. /\ End(t, TRUE) /\ pc[t] = "newTailer" /\ UNCHANGED <<radio, wd>>
        /\ managed' = managed \ {"tailer"} /\ young' = 1
    BY <1>16 DEF NewTailer
  <2>2. ~serving /\ clean \subseteq {t}
    BY <2>1, ServingOver
  <2>3. clean' = {}
    BY <2>1, <2>2 DEF End
  <2>4. CASE t \in clean
    <3>1. CleanInv(t)
      BY <2>4 DEF ServeInv
    <3>2. /\ radio' /\ Watched'
          /\ {"hostapd", "dnsmasq"} \subseteq managed' /\ Collecting'
      <4>1. /\ procs["hostapd"] > 0 => radio
            /\ "hostapd" \in managed /\ "dnsmasq" \in managed /\ Watched
        BY <2>1, <3>1 DEF CleanInv
      <4>2. procs["hostapd"] > 0
        BY <4>1 DEF TypeInv, SystemOK, Young
      <4>3. Watched'
        BY <2>1, <4>1 DEF Watched
      <4>4. young' > 0
        BY <2>1
      <4>5. QED
        BY <2>1, <4>1, <4>2, <4>3, <4>4 DEF Collecting
    <3>3. \A u \in Threads : pc'[u] = "idle"
      BY <1>0, <2>1, <3>1 DEF CleanInv, End, Goto
    <3>4. QED
      BY <2>3, <3>2, <3>3 DEF ServeInv, ServingInv
  <2>5. CASE t \notin clean
    BY <2>1, <2>2, <2>3, <2>5 DEF End, ServeInv, ServingInv
  <2>6. QED
    BY <2>4, <2>5
<1>17. ASSUME NEW t \in Threads, ExitEarly(t)
       PROVE  ServeInv'
  <2>1. pc[t] # "idle"
    BY <1>17 DEF ExitEarly
  <2>2. CASE End(t, FALSE)
    BY <2>1, <2>2, ServeFail
  <2>3. CASE ~End(t, FALSE)
    <3>1. Onward(t, "clear")
      BY <1>17, <2>3 DEF ExitEarly
    <3>2. t \in clean => CleanInv(t)'
      BY <1>0, <3>1 DEF ServeInv, CleanInv, Onward, Goto
    <3>3. QED
      BY <2>1, <3>1, <3>2, ServeOnward DEF Labels, StartLabels
  <2>4. QED
    BY <2>2, <2>3
<1>18. QED
  BY <1>1, <1>2, <1>3, <1>4, <1>5, <1>6, <1>7, <1>8, <1>9, <1>10, <1>11, <1>12, <1>13,
     <1>14, <1>15, <1>16, <1>17 DEF Next, Watch, Serve, Stop, Start

(* A start that was acknowledged, and that nothing disturbed, serves: its daemons
   run under their pid files and a watchdog looks after them. *)
THEOREM StartsServe == Spec => []StartServes
<1>1. Init => ServeInv
  <2> SUFFICES ASSUME Init PROVE ServeInv
    OBVIOUS
  <2>1. CASE ~serving
    BY <2>1 DEF Init, ServeInv, ServingInv
  <2>2. CASE serving
    <3>1. budget \in Budgets /\ budget.watchdogs \in Nat \ {0}
      BY DEF Init
    <3>2. 1 \in Watchdogs /\ wd[1] = Waiting
      BY <2>2, <3>1 DEF Init, Watchdogs
    <3>3. Watched
      BY <3>2 DEF Watched, Waiting, Off
    <3>4. QED
      BY <2>2, <3>3 DEF Init, ServeInv, ServingInv, Daemons, Collecting
  <2>3. QED
    BY <2>1, <2>2
<1>2. ServeInv => StartServes
  BY DEF ServeInv, ServingInv, StartServes, Collecting
<1>3. QED
  BY <1>1, <1>2, TypeInit, TypeStep, ServeStep, PTL DEF Spec
=============================================================================
