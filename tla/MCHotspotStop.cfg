\* A stop while the watchdog is in the middle of a pass.
SPECIFICATION Spec
CONSTANTS
    MaxYoung = 2
    Macs = {m1, m2}
    Listed = {m1}
    Apart <- MCApart
    Budgets <- MCBudgets
INVARIANTS StopStopsAll
CHECK_DEADLOCK FALSE
