\* The races of two callers and their timers; the abstract delivery; liveness.
SPECIFICATION FairSpec
CONSTANTS
    Callers = {c1, c2}
    Timers = {t1, t2}
    NoTimer = NoTimer
    Alerts = {a1, a2, a3}
    DigestMax = 2
    DigestTimeout = 1
    AgeCap = 2
INVARIANTS TypeOK DigestSafe WaitBound
PROPERTIES DeliverySafe DeliveryLive
