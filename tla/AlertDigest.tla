---------------------------- MODULE AlertDigest ----------------------------
(***************************************************************************)
(* The e-mail digest of events/alert.py: callers of alert() append to one  *)
(* buffer, the caller that fills it flushes it at once, every other caller *)
(* (re)starts a threading.Timer whose thread flushes it later.  The buffer *)
(* and the timer are only touched under _timer_lock, so each locked block  *)
(* is one action; what a thread does between two blocks interleaves.       *)
(*                                                                         *)
(* An alert is an identity: its text and layout do not matter here.  Time  *)
(* is relative: each armed timer has the ticks it has left, each buffered  *)
(* alert the ticks it has waited (saturating at AgeCap).                   *)
(***************************************************************************)
EXTENDS Naturals, FiniteSets

CONSTANTS
    Callers,        \* threads that call alert()
    Timers,         \* identities for threading.Timer objects, reused once dead
    NoTimer,        \* _alert_timer is None
    Alerts,         \* identities of the alerts raised
    DigestMax,      \* _DIGEST_MAX
    DigestTimeout,  \* _DIGEST_TIMEOUT, in ticks
    AgeCap          \* ages saturate here (a bound of the model)

ASSUME CallersAssumption == IsFiniteSet(Callers) /\ Callers \cap Timers = {}
ASSUME NoTimerAssumption == NoTimer \notin Timers \cup Callers
ASSUME DigestAssumption ==
    /\ DigestMax \in Nat \ {0}
    /\ DigestTimeout \in Nat
    /\ AgeCap \in Nat

VARIABLES
    buffer,     \* _alert_buffer
    current,    \* _alert_timer
    pc,         \* where each thread is
    left,       \* ticks an armed timer still waits
    held,       \* the batch a thread took out of the buffer
    emailOn,    \* ALERT_EMAIL_ENABLED in config.conf
    prompt,     \* TRUE: code between two locked blocks takes no time (constant
                \* in a behaviour; only the two bounds on waiting assume it)
    accepted, delivered, discarded,  \* history: the fate of each alert
    age         \* history: how long an alert has been in the buffer

vars == <<buffer, current, pc, left, held, emailOn, prompt,
          accepted, delivered, discarded, age>>

Workers == Callers \cup Timers

(* What a thread that has nothing to do looks like. *)
Rest(w) == IF w \in Callers THEN "idle" ELSE "free"

Init ==
    /\ buffer = {}
    /\ current = NoTimer
    /\ pc = [w \in Workers |-> Rest(w)]
    /\ left = [tm \in Timers |-> 0]
    /\ held = [w \in Workers |-> {}]
    /\ emailOn \in BOOLEAN /\ prompt \in BOOLEAN
    /\ accepted = {} /\ delivered = {} /\ discarded = {}
    /\ age = [a \in Alerts |-> 0]
-----------------------------------------------------------------------------
(* _alert_timer.cancel(): stops a timer that is still waiting, does nothing
   to one whose thread already runs. *)
AfterCancel ==
    [w \in Workers |-> IF w = current /\ pc[w] = "armed" THEN "free" ELSE pc[w]]

(* alert(), up to the lock: only an enabled configuration gets any further. *)
Enter(c) ==
    /\ pc[c] = "idle"
    /\ emailOn
    /\ pc' = [pc EXCEPT ![c] = "append"]
    /\ UNCHANGED <<buffer, current, left, held, emailOn, prompt,
                   accepted, delivered, discarded, age>>

(* Mutant: a full buffer is flushed one alert late. *)
BufferOneLate(c, a) ==
    /\ pc[c] = "append"
    /\ a \notin accepted
    /\ buffer' = buffer \cup {a}
    /\ accepted' = accepted \cup {a}
    /\ pc' = [pc EXCEPT ![c] = IF Cardinality(buffer') > DigestMax
                                  THEN "flush" ELSE "schedule"]
    /\ UNCHANGED <<current, left, held, emailOn, prompt, delivered, discarded, age>>

(* alert(), the locked append and the test of buf_len. *)
Buffer(c, a) ==
    /\ pc[c] = "append"
    /\ a \notin accepted
    /\ buffer' = buffer \cup {a}
    /\ accepted' = accepted \cup {a}
    /\ pc' = [pc EXCEPT ![c] = IF Cardinality(buffer') >= DigestMax
                                  THEN "flush" ELSE "schedule"]
    /\ UNCHANGED <<current, left, held, emailOn, prompt, delivered, discarded, age>>

(* _schedule_digest(): replace the timer by a new one with the full wait. *)
Schedule(c, tm) ==
    /\ pc[c] = "schedule"
    /\ pc[tm] = "free"
    /\ current' = tm
    /\ pc' = [AfterCancel EXCEPT ![c] = "idle", ![tm] = "armed"]
    /\ left' = [left EXCEPT ![tm] = DigestTimeout]
    /\ UNCHANGED <<buffer, held, emailOn, prompt, accepted, delivered, discarded, age>>

(* The timer's thread stops waiting; from here on cancel() comes too late. *)
Fire(tm) ==
    /\ pc[tm] = "armed"
    /\ left[tm] = 0
    /\ pc' = [pc EXCEPT ![tm] = "flush"]
    /\ UNCHANGED <<buffer, current, left, held, emailOn, prompt,
                   accepted, delivered, discarded, age>>

(* Mutant: the timer is cancelled, and _alert_timer keeps it. *)
FlushKeepsTimer(w) ==
    /\ pc[w] = "flush"
    /\ pc' = [AfterCancel EXCEPT ![w] = IF buffer = {} THEN Rest(w) ELSE "send"]
    /\ held' = [held EXCEPT ![w] = buffer]
    /\ buffer' = {}
    /\ age' = [a \in Alerts |-> 0]
    /\ UNCHANGED <<current, left, emailOn, prompt, accepted, delivered, discarded>>

(* Mutant: the batch is copied, the buffer is not cleared. *)
FlushCopy(w) ==
    /\ pc[w] = "flush"
    /\ current' = NoTimer
    /\ pc' = [AfterCancel EXCEPT ![w] = IF buffer = {} THEN Rest(w) ELSE "send"]
    /\ held' = [held EXCEPT ![w] = buffer]
    /\ UNCHANGED <<buffer, left, emailOn, prompt, accepted, delivered, discarded, age>>

(* _flush_digest(), the locked block: disarm, and take what is buffered. *)
Flush(w) ==
    /\ pc[w] = "flush"
    /\ current' = NoTimer
    /\ pc' = [AfterCancel EXCEPT ![w] = IF buffer = {} THEN Rest(w) ELSE "send"]
    /\ held' = [held EXCEPT ![w] = buffer]
    /\ buffer' = {}
    /\ age' = [a \in Alerts |-> 0]
    /\ UNCHANGED <<left, emailOn, prompt, accepted, delivered, discarded>>

(* Mutant: the timer is disarmed after the message is sent. *)
SendDisarms(w) ==
    /\ pc[w] = "send"
    /\ \/ /\ emailOn
          /\ delivered' = delivered \cup held[w]
          /\ UNCHANGED discarded
       \/ /\ discarded' = discarded \cup held[w]
          /\ UNCHANGED delivered
    /\ held' = [held EXCEPT ![w] = {}]
    /\ pc' = [AfterCancel EXCEPT ![w] = Rest(w)]
    /\ current' = NoTimer
    /\ UNCHANGED <<buffer, left, emailOn, prompt, accepted, age>>

(* _flush_digest(), after the lock: the configuration is read again, and the
   transport may fail; neither puts the batch back. *)
Send(w) ==
    /\ pc[w] = "send"
    /\ \/ /\ emailOn
          /\ delivered' = delivered \cup held[w]
          /\ UNCHANGED discarded
       \/ /\ discarded' = discarded \cup held[w]
          /\ UNCHANGED delivered
    /\ held' = [held EXCEPT ![w] = {}]
    /\ pc' = [pc EXCEPT ![w] = Rest(w)]
    /\ UNCHANGED <<buffer, current, left, emailOn, prompt, accepted, age>>

(* The administrator switches e-mail alerts on or off in config.conf. *)
Configure ==
    /\ emailOn' = ~emailOn
    /\ UNCHANGED <<buffer, current, pc, left, held, prompt,
                   accepted, delivered, discarded, age>>

(* The process stops and starts again: timers are daemon threads, nothing
   flushes the buffer.  A message being sent may already be out. *)
Restart ==
    /\ \E out \in SUBSET {w \in Workers : pc[w] = "send"} :
          /\ delivered' = delivered \cup UNION {held[w] : w \in out}
          /\ discarded' = discarded \cup buffer
                            \cup UNION {held[w] : w \in Workers \ out}
    /\ buffer' = {}
    /\ current' = NoTimer
    /\ pc' = [w \in Workers |-> Rest(w)]
    /\ held' = [w \in Workers |-> {}]
    /\ age' = [a \in Alerts |-> 0]
    /\ left' = [tm \in Timers |-> 0]
    /\ UNCHANGED <<emailOn, prompt, accepted>>

(* Time passes.  An expired timer fires before the next tick, and when prompt
   so does everything a thread does between two locked blocks. *)
Tick ==
    /\ \A tm \in Timers : pc[tm] = "armed" => left[tm] > 0
    /\ prompt => \A w \in Workers : pc[w] \notin {"schedule", "flush"}
    /\ left' = [tm \in Timers |-> IF left[tm] > 0 THEN left[tm] - 1 ELSE 0]
    /\ age' = [a \in Alerts |-> IF a \in buffer /\ age[a] < AgeCap
                                   THEN age[a] + 1 ELSE age[a]]
    /\ UNCHANGED <<buffer, current, pc, held, emailOn, prompt,
                   accepted, delivered, discarded>>

Next ==
    \/ \E c \in Callers : \/ Enter(c)
                          \/ \E a \in Alerts : Buffer(c, a)
                          \/ \E tm \in Timers : Schedule(c, tm)
    \/ \E tm \in Timers : Fire(tm)
    \/ \E w \in Workers : Flush(w) \/ Send(w)
    \/ Configure
    \/ Restart
    \/ Tick

Spec == Init /\ [][Next]_vars

(* Threads run, expired timers fire, clocks tick; nothing makes a caller raise
   an alert, the administrator act or the process stop. *)
Fairness ==
    /\ \A c \in Callers : WF_vars(\E tm \in Timers : Schedule(c, tm))
    /\ \A tm \in Timers : WF_vars(Fire(tm))
    /\ \A w \in Workers : WF_vars(Flush(w)) /\ WF_vars(Send(w))
    /\ WF_vars(Tick)

FairSpec == Spec /\ Fairness
-----------------------------------------------------------------------------
(* Every variable has its type, and _alert_timer, unless None, is a timer that
   waits or whose thread is on its way to the flush: never one that is done. *)
TypeOK ==
    /\ buffer \in SUBSET Alerts
    /\ current \in Timers \cup {NoTimer}
    /\ current # NoTimer => pc[current] \in {"armed", "flush"}
    /\ pc \in [Workers -> {"idle", "append", "schedule", "free", "armed",
                           "flush", "send"}]
    /\ \A c \in Callers : pc[c] \notin {"free", "armed"}
    /\ \A tm \in Timers : pc[tm] \in {"free", "armed", "flush", "send"}
    /\ left \in [Timers -> Nat]
    /\ held \in [Workers -> SUBSET Alerts]
    /\ emailOn \in BOOLEAN /\ prompt \in BOOLEAN
    /\ accepted \in SUBSET Alerts
    /\ delivered \in SUBSET Alerts
    /\ discarded \in SUBSET Alerts
    /\ age \in [Alerts -> Nat]

(* A buffered alert is never stranded: while the buffer is not empty, the timer
   in _alert_timer is armed, or some thread is on its way to arm it or to flush.
   It is what keeps a flush that cancels another thread's newer timer, or an
   append between a firing and its flush, from leaving the last alerts of an
   incident in memory for ever. *)
NoStrandedAlert ==
    buffer # {} =>
        \/ current # NoTimer /\ pc[current] = "armed"
        \/ \E w \in Workers : pc[w] \in {"schedule", "flush"}

(* Each accepted alert is in exactly one place: the buffer, one thread's batch,
   or one of the two fates.  None vanishes in a race of two flushes, none is
   e-mailed by two of them. *)
Held == UNION {held[w] : w \in Workers}

Conservation ==
    /\ accepted = buffer \cup Held \cup delivered \cup discarded
    /\ \A w \in Workers :
          /\ held[w] \cap (buffer \cup delivered \cup discarded) = {}
          /\ held[w] # {} => pc[w] = "send"
          /\ \A v \in Workers \ {w} : held[v] \cap held[w] = {}
    /\ buffer \cap (delivered \cup discarded) = {}
    /\ delivered \cap discarded = {}

(* Never two timers waiting at once, and the one waiting is the one the next
   cancel() stops: no forgotten timer cuts a later digest short. *)
OneTimerArmed == \A tm \in Timers : pc[tm] = "armed" => current = tm

(* The buffer outgrows DigestMax only by callers that are about to flush it. *)
Flushers == {c \in Callers : pc[c] = "flush"}

OverflowIsClaimed ==
    Cardinality(buffer) >= DigestMax =>
        Cardinality(buffer) < DigestMax + Cardinality(Flushers)

(* The four together: what the races of callers and timers must not break. *)
DigestSafe == NoStrandedAlert /\ Conservation /\ OneTimerArmed /\ OverflowIsClaimed

(* So a digest holds less than DigestMax plus the number of callers. *)
DigestSizeBound == \A w \in Workers :
    Cardinality(held[w]) < DigestMax + Cardinality(Callers)

(* With prompt threads the timer, though every alert restarts it, lets an alert
   wait at most DigestMax - 1 full timeouts: the next alert fills the digest. *)
WaitBound ==
    prompt => \A a \in buffer : age[a] <= (DigestMax - 1) * DigestTimeout
-----------------------------------------------------------------------------
(* The digest implements the delivery of AlertDelivery: an alert is pending in
   the buffer or in the one batch that took it. *)
Status(a) ==
    IF a \notin accepted THEN "new"
    ELSE IF a \in delivered THEN "delivered"
    ELSE IF a \in discarded THEN "discarded"
    ELSE "pending"

Delivery == INSTANCE AlertDelivery
                WITH status <- [a \in Alerts |-> Status(a)]

(* The life of an alert is the abstract one: accepted once, in one step from
   pending to its fate with the rest of its batch, and never back. *)
DeliverySafe == Delivery!SafeSpec

(* Every accepted alert reaches its fate, whatever timers cancel each other. *)
DeliveryLive == Delivery!Resolution
=============================================================================
