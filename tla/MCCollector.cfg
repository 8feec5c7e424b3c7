\* Sessions, floods, devices and policy with kills, failed writes and edits.
SPECIFICATION Spec
SYMMETRY Symmetry
CONSTANTS
    Macs = {m1, m2}
    Ips = {ip1}
    Names = {n1, n2}
    NoMac = NoMac
    Gap = 2
    Grace = 1
    ScanLimit = 1
    FloodThreshold = 2
    FloodWindow = 1
    LeaseRefresh = 1
    Ttl = 1
    SeenMax = 2
    MaxTime = 3
    Budgets <- MCBudgets
INVARIANTS TypeOK SessionsApart DeviceFlaggedOnce CountsExact
PROPERTIES PolicyHonoured AttributionFresh
