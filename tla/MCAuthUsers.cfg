\* Two threads, with and without overlap: accounts come and go, logins fail,
\* lock and expire, the dashboard restarts.
SPECIFICATION Spec
CONSTANTS
    Threads = {t1, t2}
    Tiers <- TwoTiers
    SessionExpiry = 1
    Overlaps = {TRUE, FALSE}
    MaxUsers = 2
    MaxWrong = 0
    MaxTime = 2
SYMMETRY Symmetric
INVARIANTS TypeOK SuperadminRemains LockWithCount SessionsHaveUsers
PROPERTIES LockStands
