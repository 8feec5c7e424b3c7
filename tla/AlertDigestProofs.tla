------------------------- MODULE AlertDigestProofs -------------------------
(***************************************************************************)
(* What TLAPS proves of the digest, for any number of callers, timers and  *)
(* alerts, any digest size and any timeout.                                *)
(***************************************************************************)
EXTENDS AlertDigest, FiniteSetTheorems, TLAPS

USE CallersAssumption, NoTimerAssumption, DigestAssumption

-----------------------------------------------------------------------------
(* Cancelling a timer only ever frees one that is armed. *)
LEMMA CancelTyped ==
    ASSUME TypeOK
    PROVE  /\ AfterCancel \in [Workers -> {"idle", "append", "schedule", "free",
                                           "armed", "flush", "send"}]
           /\ \A w \in Workers : AfterCancel[w] # pc[w] =>
                 w = current /\ pc[w] = "armed" /\ AfterCancel[w] = "free"
           /\ \A w \in Workers : w = current => AfterCancel[w] # "armed"
BY DEF TypeOK, AfterCancel, Workers

(* Every reachable state is well typed. *)
LEMMA TypeStep == TypeOK /\ [Next]_vars => TypeOK'
<1> SUFFICES ASSUME TypeOK, [Next]_vars PROVE TypeOK'
  OBVIOUS
<1> USE DEF TypeOK, Workers, Rest
<1>1. ASSUME NEW c \in Callers, Enter(c) PROVE TypeOK'
  BY <1>1 DEF Enter
<1>2. ASSUME NEW c \in Callers, NEW a \in Alerts, Buffer(c, a) PROVE TypeOK'
  BY <1>2 DEF Buffer
<1>3. ASSUME NEW c \in Callers, NEW tm \in Timers, Schedule(c, tm) PROVE TypeOK'
  BY <1>3, CancelTyped DEF Schedule
<1>4. ASSUME NEW tm \in Timers, Fire(tm) PROVE TypeOK'
  BY <1>4 DEF Fire
<1>5. ASSUME NEW w \in Workers, Flush(w) PROVE TypeOK'
  BY <1>5, CancelTyped DEF Flush
<1>6. ASSUME NEW w \in Workers, Send(w) PROVE TypeOK'
  BY <1>6 DEF Send
<1>7. CASE Configure
  BY <1>7 DEF Configure
<1>8. CASE Restart
  BY <1>8 DEF Restart
<1>9. CASE Tick
  BY <1>9 DEF Tick
<1>10. CASE UNCHANGED vars
  BY <1>10 DEF vars
<1>11. QED
  BY <1>1, <1>2, <1>3, <1>4, <1>5, <1>6, <1>7, <1>8, <1>9, <1>10 DEF Next

(* However callers, timers, restarts and changes of the configuration interleave,
   every variable of the digest has its type: TypeOK. *)
THEOREM TypeCorrect == Spec => []TypeOK
<1>1. Init => TypeOK
  BY DEF Init, TypeOK, Workers, Rest
<1>2. QED
  BY <1>1, TypeStep, PTL DEF Spec

-----------------------------------------------------------------------------
(* At most one timer waits, and cancel() reaches it. *)
LEMMA OneTimerStep == TypeOK /\ OneTimerArmed /\ [Next]_vars => OneTimerArmed'
<1> SUFFICES ASSUME TypeOK, OneTimerArmed, [Next]_vars PROVE OneTimerArmed'
  OBVIOUS
<1> USE DEF TypeOK, OneTimerArmed, Workers, Rest
<1>1. ASSUME NEW c \in Callers, Enter(c) PROVE OneTimerArmed'
  BY <1>1 DEF Enter
<1>2. ASSUME NEW c \in Callers, NEW a \in Alerts, Buffer(c, a) PROVE OneTimerArmed'
  BY <1>2 DEF Buffer
<1>3. ASSUME NEW c \in Callers, NEW tm \in Timers, Schedule(c, tm)
      PROVE OneTimerArmed'
  BY <1>3, CancelTyped DEF Schedule
<1>4. ASSUME NEW tm \in Timers, Fire(tm) PROVE OneTimerArmed'
  BY <1>4 DEF Fire
<1>5. ASSUME NEW w \in Workers, Flush(w) PROVE OneTimerArmed'
  BY <1>5, CancelTyped DEF Flush
<1>6. ASSUME NEW w \in Workers, Send(w) PROVE OneTimerArmed'
  BY <1>6 DEF Send
<1>7. CASE Configure \/ Tick \/ UNCHANGED vars
  BY <1>7 DEF Configure, Tick, vars
<1>8. CASE Restart
  BY <1>8 DEF Restart
<1>9. QED
  BY <1>1, <1>2, <1>3, <1>4, <1>5, <1>6, <1>7, <1>8 DEF Next

(* The next cancel() of _alert_timer stops the only waiting timer. *)
THEOREM TimerOwnership == Spec => []OneTimerArmed
<1>1. Init => OneTimerArmed
  BY DEF Init, OneTimerArmed, Workers, Rest
<1>2. QED
  BY <1>1, TypeCorrect, OneTimerStep, PTL DEF Spec

(* The invariant behind the absence of stranded alerts.  _flush_digest() may
   cancel the timer another caller has just armed, but it empties the buffer in
   the same locked block; _schedule_digest() cancels only to arm. *)
LEMMA StrandedStep ==
    TypeOK /\ NoStrandedAlert /\ [Next]_vars => NoStrandedAlert'
<1> SUFFICES ASSUME TypeOK, NoStrandedAlert, [Next]_vars PROVE NoStrandedAlert'
  OBVIOUS
<1> USE DEF TypeOK, NoStrandedAlert, Workers, Rest
<1>1. ASSUME NEW c \in Callers, Enter(c) PROVE NoStrandedAlert'
  BY <1>1 DEF Enter
<1>2. ASSUME NEW c \in Callers, NEW a \in Alerts, Buffer(c, a)
      PROVE NoStrandedAlert'
  BY <1>2 DEF Buffer
<1>3. ASSUME NEW c \in Callers, NEW tm \in Timers, Schedule(c, tm)
      PROVE NoStrandedAlert'
  <2>1. pc'[tm] = "armed" /\ current' = tm
    BY <1>3, CancelTyped DEF Schedule
  <2>2. QED
    BY <2>1
<1>4. ASSUME NEW tm \in Timers, Fire(tm) PROVE NoStrandedAlert'
  <2>1. pc'[tm] = "flush"
    BY <1>4 DEF Fire
  <2>2. QED
    BY <2>1
<1>5. ASSUME NEW w \in Workers, Flush(w) PROVE NoStrandedAlert'
  BY <1>5 DEF Flush
<1>6. ASSUME NEW w \in Workers, Send(w) PROVE NoStrandedAlert'
  BY <1>6 DEF Send
<1>7. CASE Configure \/ Tick \/ UNCHANGED vars
  BY <1>7 DEF Configure, Tick, vars
<1>8. CASE Restart
  BY <1>8 DEF Restart
<1>9. QED
  BY <1>1, <1>2, <1>3, <1>4, <1>5, <1>6, <1>7, <1>8 DEF Next

(* No interleaving of appends, restarts of the timer, firings and flushes leaves
   an alert in the buffer with nothing on its way to flush it. *)
THEOREM NoAlertStranded == Spec => []NoStrandedAlert
<1>1. Init => NoStrandedAlert
  BY DEF Init, NoStrandedAlert
<1>2. QED
  BY <1>1, TypeCorrect, StrandedStep, PTL DEF Spec

-----------------------------------------------------------------------------
(* Each accepted alert stays in exactly one place. *)
LEMMA ConservationStep ==
    TypeOK /\ Conservation /\ [Next]_vars => Conservation'
<1> SUFFICES ASSUME TypeOK, Conservation, [Next]_vars PROVE Conservation'
  OBVIOUS
<1> USE DEF TypeOK, Conservation, Held, Workers, Rest
<1>1. ASSUME NEW c \in Callers, Enter(c) PROVE Conservation'
  BY <1>1 DEF Enter
<1>2. ASSUME NEW c \in Callers, NEW a \in Alerts, Buffer(c, a) PROVE Conservation'
  BY <1>2 DEF Buffer
<1>3. ASSUME NEW c \in Callers, NEW tm \in Timers, Schedule(c, tm)
      PROVE Conservation'
  BY <1>3, CancelTyped DEF Schedule
<1>4. ASSUME NEW tm \in Timers, Fire(tm) PROVE Conservation'
  BY <1>4 DEF Fire
<1>5. ASSUME NEW w \in Workers, Flush(w) PROVE Conservation'
  BY <1>5, CancelTyped DEF Flush
<1>6. ASSUME NEW w \in Workers, Send(w) PROVE Conservation'
  BY <1>6 DEF Send
<1>7. CASE Configure \/ Tick \/ UNCHANGED vars
  BY <1>7 DEF Configure, Tick, vars
<1>8. CASE Restart
  BY <1>8 DEF Restart
<1>9. QED
  BY <1>1, <1>2, <1>3, <1>4, <1>5, <1>6, <1>7, <1>8 DEF Next

(* No alert is lost between the buffer and its fate, and none has two. *)
THEOREM AlertsConserved == Spec => []Conservation
<1>1. Init => Conservation
  BY DEF Init, Conservation, Held, Workers, Rest
<1>2. QED
  BY <1>1, TypeCorrect, ConservationStep, PTL DEF Spec

-----------------------------------------------------------------------------
(* The buffer grows past DigestMax only on credit: each append from there on
   sends one more caller to flush it. *)
BufferInv == IsFiniteSet(buffer) /\ OverflowIsClaimed

LEMMA FlushersFinite ==
    /\ IsFiniteSet(Flushers)
    /\ Cardinality(Flushers) \in Nat
    /\ Cardinality(Flushers) <= Cardinality(Callers)
    /\ Cardinality(Callers) \in Nat
BY FS_Subset, FS_CardinalityType DEF Flushers

(* A step that keeps the buffer and takes no caller away from its flush. *)
LEMMA OverflowKept ==
    ASSUME BufferInv, buffer' = buffer, Flushers \subseteq Flushers',
           Flushers' \subseteq Callers
    PROVE  BufferInv'
<1>1. IsFiniteSet(Flushers') /\ Cardinality(Flushers') \in Nat
  BY FS_Subset, FS_CardinalityType
<1>2. Cardinality(Flushers) <= Cardinality(Flushers')
  BY <1>1, FS_Subset
<1>3. Cardinality(buffer) \in Nat
  BY FS_CardinalityType DEF BufferInv
<1>4. QED
  BY <1>1, <1>2, <1>3, FlushersFinite DEF BufferInv, OverflowIsClaimed

(* The caller that appends past the limit is the one that has to flush. *)
LEMMA OverflowAppend ==
    ASSUME TypeOK, BufferInv, NEW c \in Callers, NEW a \in Alerts, Buffer(c, a)
    PROVE  BufferInv'
<1>1. /\ IsFiniteSet(buffer') /\ Cardinality(buffer) \in Nat
      /\ Cardinality(buffer') \in Nat
      /\ Cardinality(buffer') <= Cardinality(buffer) + 1
  <2>1. buffer' = buffer \cup {a}
    BY DEF Buffer
  <2>2. /\ IsFiniteSet(buffer \cup {a})
        /\ Cardinality(buffer \cup {a}) = IF a \in buffer THEN Cardinality(buffer)
                                          ELSE Cardinality(buffer) + 1
    BY FS_AddElement DEF BufferInv
  <2>3. Cardinality(buffer) \in Nat
    BY FS_CardinalityType DEF BufferInv
  <2>4. QED
    BY <2>1, <2>2, <2>3
<1>2. CASE Cardinality(buffer') >= DigestMax
  <2>1. Flushers' = Flushers \cup {c} /\ c \notin Flushers
    BY <1>2 DEF Buffer, Flushers, TypeOK, Workers
  <2>2. Cardinality(Flushers') = Cardinality(Flushers) + 1
    BY <2>1, FlushersFinite, FS_AddElement
  <2>3. QED
    BY <1>1, <2>2, FlushersFinite DEF BufferInv, OverflowIsClaimed
<1>3. CASE ~(Cardinality(buffer') >= DigestMax)
  BY <1>1, <1>3 DEF BufferInv, OverflowIsClaimed
<1>4. QED
  BY <1>2, <1>3

LEMMA OverflowEmptied ==
    ASSUME buffer' = {}
    PROVE  BufferInv'
BY FS_EmptySet DEF BufferInv, OverflowIsClaimed

LEMMA OverflowStep == TypeOK /\ BufferInv /\ [Next]_vars => BufferInv'
<1> SUFFICES ASSUME TypeOK, BufferInv, [Next]_vars PROVE BufferInv'
  OBVIOUS
<1> USE DEF TypeOK, Flushers, Workers, Rest
<1>1. ASSUME NEW c \in Callers, Enter(c) PROVE BufferInv'
  BY <1>1, OverflowKept DEF Enter
<1>2. ASSUME NEW c \in Callers, NEW a \in Alerts, Buffer(c, a) PROVE BufferInv'
  BY <1>2, OverflowAppend
<1>3. ASSUME NEW c \in Callers, NEW tm \in Timers, Schedule(c, tm)
      PROVE BufferInv'
  BY <1>3, OverflowKept, CancelTyped DEF Schedule
<1>4. ASSUME NEW tm \in Timers, Fire(tm) PROVE BufferInv'
  BY <1>4, OverflowKept DEF Fire
<1>5. ASSUME NEW w \in Workers, Flush(w) PROVE BufferInv'
  BY <1>5, OverflowEmptied DEF Flush
<1>6. ASSUME NEW w \in Workers, Send(w) PROVE BufferInv'
  BY <1>6, OverflowKept DEF Send
<1>7. CASE Configure \/ Tick \/ UNCHANGED vars
  BY <1>7, OverflowKept DEF Configure, Tick, vars
<1>8. CASE Restart
  BY <1>8, OverflowEmptied DEF Restart
<1>9. QED
  BY <1>1, <1>2, <1>3, <1>4, <1>5, <1>6, <1>7, <1>8 DEF Next

(* The buffer never holds an alert beyond DigestMax that no caller is about to
   flush. *)
THEOREM OverflowClaimed == Spec => []OverflowIsClaimed
<1>1. Init => BufferInv
  BY OverflowEmptied, FS_EmptySet DEF Init, BufferInv, OverflowIsClaimed
<1>2. BufferInv => OverflowIsClaimed
  BY DEF BufferInv
<1>3. QED
  BY <1>1, <1>2, TypeCorrect, OverflowStep, PTL DEF Spec

(* No race strands, copies, loses or piles up alerts. *)
THEOREM DigestIsSafe == Spec => []DigestSafe
<1>1. NoStrandedAlert /\ Conservation /\ OneTimerArmed /\ OverflowIsClaimed
        => DigestSafe
  BY DEF DigestSafe
<1>2. QED
  BY <1>1, NoAlertStranded, AlertsConserved, TimerOwnership, OverflowClaimed, PTL

(* A digest is smaller than DigestMax + the number of callers: the size every
   e-mail really respects. *)
LEMMA SizeStep ==
    TypeOK /\ BufferInv /\ DigestSizeBound /\ [Next]_vars => DigestSizeBound'
<1> SUFFICES ASSUME TypeOK, BufferInv, DigestSizeBound, [Next]_vars
             PROVE  DigestSizeBound'
  OBVIOUS
<1> USE DEF TypeOK, DigestSizeBound
<1>1. 0 < DigestMax + Cardinality(Callers) /\ Cardinality({}) = 0
  BY FlushersFinite, FS_EmptySet
<1>2. Cardinality(buffer) < DigestMax + Cardinality(Callers)
  <2>1. Cardinality(buffer) \in Nat
    BY FS_CardinalityType DEF BufferInv
  <2>2. QED
    BY <2>1, FlushersFinite DEF BufferInv, OverflowIsClaimed
<1>3. ASSUME NEW w \in Workers, Flush(w) PROVE DigestSizeBound'
  BY <1>2, <1>3 DEF Flush
<1>4. ASSUME NEW w \in Workers, Send(w) PROVE DigestSizeBound'
  BY <1>1, <1>4 DEF Send
<1>5. CASE Restart
  BY <1>1, <1>5 DEF Restart
<1>6. CASE UNCHANGED held
  BY <1>6
<1>7. QED
  BY <1>3, <1>4, <1>5, <1>6
     DEF Next, Enter, Buffer, Schedule, Fire, Configure, Tick, vars

(* No batch that is sent is larger than a full digest and one alert for every
   other caller: DigestSizeBound. *)
THEOREM DigestSizeBounded == Spec => []DigestSizeBound
<1>1. Init => BufferInv
  BY FS_EmptySet DEF Init, BufferInv, OverflowIsClaimed
<1>2. Init => DigestSizeBound
  BY FlushersFinite, FS_EmptySet DEF Init, DigestSizeBound
<1>3. QED
  BY <1>1, <1>2, TypeCorrect, OverflowStep, SizeStep, PTL DEF Spec

-----------------------------------------------------------------------------
(* How long an alert waits when threads are prompt.  Each alert after it restarts
   the timer, so it is as old as one timeout for every alert in the buffer, less
   what is left of the timer that waits; with a caller on its way to restart the
   timer it is a whole timeout younger.  The digest fills before that passes
   DigestMax - 1 timeouts. *)
Full(n) == n * DigestTimeout
Waiting == current # NoTimer /\ pc[current] = "armed"
Scheduling == \E c \in Callers : pc[c] = "schedule"

Waited ==
    /\ \A tm \in Timers : left[tm] <= DigestTimeout
    /\ \A a \in Alerts \ buffer : age[a] = 0
    /\ prompt => \A a \in buffer :
          /\ age[a] <= Full(DigestMax - 1)
          /\ age[a] <= Full(Cardinality(buffer))
          /\ Waiting => age[a] + left[current] <= Full(Cardinality(buffer))
          /\ Scheduling => age[a] <= Full(Cardinality(buffer) - 1)

(* One alert more is one timeout more. *)
LEMMA FullStep ==
    ASSUME NEW n \in Int
    PROVE  Full(n) \in Int /\ Full(n + 1) = Full(n) + DigestTimeout
BY DEF Full

LEMMA FullGrows ==
    ASSUME NEW n \in Nat, NEW m \in Nat, n <= m
    PROVE  0 <= Full(n) /\ Full(n) <= Full(m)
BY DEF Full

(* A step that changes neither the buffer nor the clocks, and brings nobody to a
   timer. *)
LEMMA WaitKept ==
    ASSUME Waited, UNCHANGED <<buffer, left, age, prompt>>,
           Waiting' => Waiting /\ current' = current,
           Scheduling' => Scheduling
    PROVE  Waited'
BY DEF Waited, Full

LEMMA WaitAppend ==
    ASSUME TypeOK, BufferInv, Waited, NEW c \in Callers, NEW a \in Alerts, Buffer(c, a),
           a \notin buffer
    PROVE  Waited'
<1> DEFINE b == Cardinality(buffer)
<1>1. b \in Nat /\ Cardinality(buffer') = b + 1
  BY FS_CardinalityType, FS_AddElement DEF BufferInv, Buffer
<1>2. /\ buffer' = buffer \cup {a} /\ UNCHANGED <<current, left, age, prompt>>
      /\ Waiting' = Waiting
  BY DEF Buffer, Waiting, TypeOK, Workers
<1> HIDE DEF b
<1>3. /\ Full(b) \in Int /\ Full(b + 1) = Full(b) + DigestTimeout /\ 0 <= Full(b)
      /\ 0 <= Full(DigestMax - 1) /\ Full(DigestMax - 1) \in Int
      /\ (b + 1) - 1 = b
  <2>1. b \in Nat /\ b \in Int /\ DigestMax - 1 \in Nat /\ DigestMax - 1 \in Int
    BY <1>1
  <2>2. Full(b) \in Int /\ Full(b + 1) = Full(b) + DigestTimeout
    BY <2>1, FullStep
  <2>3. Full(DigestMax - 1) \in Int
    BY <2>1, FullStep
  <2>4. \A n \in Nat : 0 <= Full(n)
    BY FullGrows
  <2>5. QED
    BY <2>1, <2>2, <2>3, <2>4
<1>4. age[a] = 0 /\ \A x \in Alerts : age[x] \in Nat
  BY DEF Waited, TypeOK
<1>5. Waiting => left[current] \in Nat /\ left[current] <= DigestTimeout
  BY DEF Waiting, Waited, TypeOK
<1>6. ASSUME prompt, NEW x \in buffer'
      PROVE  /\ age[x] <= Full(DigestMax - 1) /\ age[x] <= Full(b + 1)
             /\ Waiting => age[x] + left[current] <= Full(b + 1)
             /\ age[x] <= Full((b + 1) - 1)
  <2>1. CASE x = a
    BY <2>1, <1>3, <1>4, <1>5
  <2>2. CASE x \in buffer
    <3>1. /\ age[x] <= Full(DigestMax - 1) /\ age[x] <= Full(b)
          /\ Waiting => age[x] + left[current] <= Full(b)
      BY <1>6, <2>2 DEF Waited, b
    <3>2. age[x] \in Nat
      BY <1>4, <2>2 DEF TypeOK
    <3>3. QED
      BY <3>1, <3>2, <1>3, <1>5
  <2>3. QED
    BY <2>1, <2>2, <1>2, <1>6
<1>7. QED
  BY <1>1, <1>2, <1>6 DEF Waited

LEMMA WaitSchedule ==
    ASSUME TypeOK, BufferInv, Waited, NEW c \in Callers, NEW tm \in Timers, Schedule(c, tm)
    PROVE  Waited'
<1> DEFINE b == Cardinality(buffer)
<1>1. /\ UNCHANGED <<buffer, age, prompt>> /\ current' = tm
      /\ left' = [left EXCEPT ![tm] = DigestTimeout] /\ pc[c] = "schedule"
  BY DEF Schedule
<1>2. b \in Nat
  BY FS_CardinalityType DEF BufferInv
<1>3. Full(b - 1) \in Int /\ Full(b) = Full(b - 1) + DigestTimeout
  <2>1. b - 1 \in Int /\ (b - 1) + 1 = b
    BY <1>2
  <2>2. QED
    BY <2>1, FullStep
<1>4. Scheduling
  BY <1>1 DEF Scheduling
<1>5. ASSUME prompt, NEW x \in buffer
      PROVE  /\ age[x] <= Full(DigestMax - 1) /\ age[x] <= Full(b)
             /\ age[x] <= Full(b - 1)
             /\ age[x] + DigestTimeout <= Full(b)
  <2>1. age[x] <= Full(DigestMax - 1) /\ age[x] <= Full(b) /\ age[x] <= Full(b - 1)
    BY <1>4, <1>5 DEF Waited
  <2>2. age[x] \in Nat
    BY DEF TypeOK
  <2>3. QED
    BY <1>3, <2>1, <2>2
<1>6. /\ left'[current'] = DigestTimeout
      /\ \A y \in Timers : left'[y] <= DigestTimeout
  BY <1>1 DEF TypeOK, Waited
<1>7. QED
  BY <1>1, <1>5, <1>6 DEF Waited, Full

(* Time passes only while a timer waits and the digest is not full. *)
LEMMA WaitTick ==
    ASSUME TypeOK, BufferInv, NoStrandedAlert, Waited, Tick
    PROVE  Waited'
<1> DEFINE b == Cardinality(buffer)
<1>1. /\ UNCHANGED <<buffer, current, pc, prompt>>
      /\ left' = [tm \in Timers |-> IF left[tm] > 0 THEN left[tm] - 1 ELSE 0]
      /\ age' = [a \in Alerts |-> IF a \in buffer /\ age[a] < AgeCap
                                     THEN age[a] + 1 ELSE age[a]]
      /\ \A tm \in Timers : pc[tm] = "armed" => left[tm] > 0
      /\ prompt => \A w \in Workers : pc[w] \notin {"schedule", "flush"}
  BY DEF Tick
<1>2. /\ \A tm \in Timers : left'[tm] \in Nat /\ left'[tm] <= DigestTimeout
      /\ \A a \in Alerts \ buffer : age'[a] = 0
      /\ \A a \in Alerts : age[a] \in Nat /\ age'[a] <= age[a] + 1
  BY <1>1 DEF TypeOK, Waited
<1>3. ASSUME prompt, NEW a \in buffer
      PROVE  /\ age'[a] <= Full(DigestMax - 1) /\ age'[a] <= Full(b)
             /\ age'[a] + left'[current] <= Full(b)
  <2>1. Waiting
    BY <1>1, <1>3 DEF NoStrandedAlert, Waiting
  <2>2. current \in Timers /\ left[current] \in Nat /\ left[current] > 0
        /\ left'[current] = left[current] - 1
    BY <1>1, <2>1 DEF Waiting, TypeOK
  <2>3. age[a] + left[current] <= Full(b)
    BY <1>3, <2>1 DEF Waited
  <2>4. b \in Nat /\ b <= DigestMax - 1
    <3>1. Flushers = {}
      BY <1>1, <1>3 DEF Flushers, Workers
    <3>2. b \in Nat
      BY FS_CardinalityType DEF BufferInv
    <3>3. QED
      BY <3>1, <3>2, FS_EmptySet DEF BufferInv, OverflowIsClaimed
  <2>5. Full(b) \in Int /\ Full(DigestMax - 1) \in Int /\ Full(b) <= Full(DigestMax - 1)
    BY <2>4, FullStep, FullGrows
  <2>6. a \in Alerts /\ age'[a] \in Int /\ age'[a] <= age[a] + 1 /\ age[a] \in Nat
    BY <1>1, <1>2 DEF TypeOK
  <2>7. QED
    BY <2>2, <2>3, <2>5, <2>6
<1>4. prompt => ~Scheduling
  BY <1>1 DEF Scheduling, Workers
<1>5. QED
  BY <1>1, <1>2, <1>3, <1>4 DEF Waited, Scheduling

LEMMA WaitEmptied ==
    ASSUME buffer' = {}, \A a \in Alerts : age'[a] = 0,
           \A tm \in Timers : left'[tm] <= DigestTimeout
    PROVE  Waited'
BY DEF Waited

LEMMA WaitStep ==
    TypeOK /\ BufferInv /\ NoStrandedAlert /\ Conservation /\ Waited /\ [Next]_vars
        => Waited'
<1> SUFFICES ASSUME TypeOK, BufferInv, NoStrandedAlert, Conservation, Waited, [Next]_vars
             PROVE  Waited'
  OBVIOUS
<1> USE DEF TypeOK, Waiting, Scheduling, Workers, Rest
<1>1. ASSUME NEW c \in Callers, Enter(c) PROVE Waited'
  BY <1>1, WaitKept DEF Enter
<1>2. ASSUME NEW c \in Callers, NEW a \in Alerts, Buffer(c, a) PROVE Waited'
  BY <1>2, WaitAppend DEF Buffer, Conservation
<1>3. ASSUME NEW c \in Callers, NEW tm \in Timers, Schedule(c, tm) PROVE Waited'
  BY <1>3, WaitSchedule
<1>4. ASSUME NEW tm \in Timers, Fire(tm) PROVE Waited'
  BY <1>4, WaitKept DEF Fire
<1>5. ASSUME NEW w \in Workers, Flush(w) PROVE Waited'
  BY <1>5, WaitEmptied DEF Flush, Waited
<1>6. ASSUME NEW w \in Workers, Send(w) PROVE Waited'
  BY <1>6, WaitKept DEF Send
<1>7. CASE Configure \/ UNCHANGED vars
  BY <1>7, WaitKept DEF Configure, vars
<1>8. CASE Restart
  BY <1>8, WaitEmptied DEF Restart
<1>9. CASE Tick
  BY <1>9, WaitTick
<1>10. QED
  BY <1>1, <1>2, <1>3, <1>4, <1>5, <1>6, <1>7, <1>8, <1>9 DEF Next

(* Though every alert restarts the timer, none waits longer than DigestMax - 1
   timeouts when threads are prompt, for any digest size, any timeout and any
   number of callers: WaitBound. *)
THEOREM WaitIsBounded == Spec => []WaitBound
<1>1. Init => BufferInv /\ NoStrandedAlert /\ Conservation
  BY FS_EmptySet DEF Init, BufferInv, OverflowIsClaimed, NoStrandedAlert, Conservation,
     Held, Workers, Rest
<1>2. Init => Waited
  BY DEF Init, Waited
<1>3. Waited => WaitBound
  BY DEF Waited, WaitBound, Full
<1>4. QED
  BY <1>1, <1>2, <1>3, TypeCorrect, OverflowStep, StrandedStep, ConservationStep, WaitStep,
     PTL DEF Spec

-----------------------------------------------------------------------------
(* Every step of the digest is a step of AlertDelivery or leaves the status of
   every alert as it is. *)
LEMMA DeliveryStep ==
    TypeOK /\ Conservation /\ Conservation' /\ [Next]_vars
        => [Delivery!Next]_([a \in Alerts |-> Status(a)])
<1> SUFFICES ASSUME TypeOK, Conservation, Conservation', [Next]_vars
             PROVE  \/ Delivery!Next
                    \/ UNCHANGED [a \in Alerts |-> Status(a)]
  OBVIOUS
<1> DEFINE status == [a \in Alerts |-> Status(a)]
<1>1. ASSUME NEW c \in Callers, NEW a \in Alerts, Buffer(c, a)
      PROVE  Delivery!Accept(a)
  BY <1>1 DEF Buffer, Delivery!Accept, Status, Conservation
<1>2. ASSUME NEW batch \in SUBSET Alerts,
             \A a \in batch : Status(a) = "pending" /\ a \in delivered' \cup discarded',
             delivered \subseteq delivered', discarded \subseteq discarded',
             (delivered' \cup discarded') \ (delivered \cup discarded) = batch,
             accepted' = accepted, batch # {}
      PROVE  Delivery!Next
  <2>1. Delivery!Resolve(batch)
    <3>1. \A a \in Alerts : IF a \in batch THEN status'[a] \in Delivery!Fates
                                          ELSE status'[a] = status[a]
      <4>1. delivered' \cap discarded' = {}
        BY DEF Conservation
      <4>2. \A a \in Alerts : a \in batch => Status(a)' \in Delivery!Fates
        BY <1>2 DEF Delivery!Fates, Status
      <4>3. \A a \in Alerts : a \notin batch => Status(a)' = Status(a)
        BY <1>2, <4>1 DEF Status
      <4>4. QED
        BY <4>2, <4>3
    <3>2. status' \in [Alerts -> {"new", "pending"} \cup Delivery!Fates]
      BY DEF Delivery!Fates, Status
    <3>3. QED
      BY <1>2, <3>1, <3>2 DEF Delivery!Resolve
  <2>2. batch \in SUBSET Delivery!Pending
    BY <1>2 DEF Delivery!Pending
  <2>3. QED
    BY <2>1, <2>2 DEF Delivery!Next
<1>3. ASSUME NEW w \in Workers, Send(w)
      PROVE  Delivery!Next \/ UNCHANGED status
  <2>1. CASE held[w] = {}
    BY <1>3, <2>1 DEF Send, Status
  <2>2. CASE held[w] # {}
    <3>1. held[w] \in SUBSET Alerts
      BY DEF TypeOK
    <3>2. \A a \in held[w] : /\ Status(a) = "pending"
                             /\ a \in delivered' \cup discarded'
      BY <1>3 DEF Conservation, Held, Status, Send
    <3>3. QED
      BY <1>2, <1>3, <2>2, <3>1, <3>2 DEF Send, Conservation
  <2>3. QED
    BY <2>1, <2>2
<1>4. CASE Restart
  <2> DEFINE batch == buffer \cup Held
  <2>1. batch \in SUBSET Alerts /\ \A a \in batch : Status(a) = "pending"
    BY DEF TypeOK, Conservation, Held, Status
  <2>2. /\ delivered \subseteq delivered' /\ discarded \subseteq discarded'
        /\ accepted' = accepted
        /\ delivered' \cup discarded' = delivered \cup discarded \cup batch
    BY <1>4 DEF Restart, Held
  <2>3. (delivered' \cup discarded') \ (delivered \cup discarded) = batch
    BY <2>2 DEF Conservation, Held
  <2>4. CASE batch = {}
    BY <2>2, <2>3, <2>4 DEF Status, Conservation
  <2>5. CASE batch # {}
    BY <1>2, <2>1, <2>2, <2>3, <2>5
  <2>6. QED
    BY <2>4, <2>5
<1>5. CASE UNCHANGED <<accepted, delivered, discarded>>
  BY <1>5 DEF Status
<1>6. QED
  BY <1>1, <1>3, <1>4, <1>5
     DEF Next, Enter, Schedule, Fire, Flush, Configure, Tick, vars, Delivery!Next

(* The digest implements the abstract delivery (its safety part). *)
THEOREM Delivers == Spec => DeliverySafe
<1>1. Init => Delivery!Init
  BY DEF Init, Delivery!Init, Status
<1>2. Init => Conservation
  BY DEF Init, Conservation, Held, Workers, Rest
<1>3. QED
  BY <1>1, <1>2, TypeCorrect, ConservationStep, DeliveryStep, PTL
     DEF Spec, DeliverySafe, Delivery!SafeSpec
=============================================================================
