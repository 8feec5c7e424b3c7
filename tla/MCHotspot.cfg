\* Requests that overlap, crashes, and watchdogs caught in the middle of a pass.
SPECIFICATION FairSpec
CONSTANTS
    MaxYoung = 2
    Macs = {m1, m2}
    Listed = {m1}
    Apart <- MCApart
    Budgets <- MCBudgets
INVARIANTS TypeOK DenyListHolds StopSilencesAp StartServes
PROPERTIES CrashRecovers
CHECK_DEADLOCK FALSE
