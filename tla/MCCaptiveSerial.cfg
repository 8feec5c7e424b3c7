\* Requests one after the other; restarts and the portal switch.
SPECIFICATION Spec
CONSTANTS
    Macs = {m1, m2}
    Codes = {k1}
    Permanent = Permanent
    NoCode = NoCode
    NoMac = NoMac
    Requests = {r1, r2, r3}
    Sweepers = {s1}
    Duration = 1
    Lease = 0
    Backend = "nft"
    Kinds = {"login", "logout", "revoke", "revokeCode", "create"}
    Overlaps = {FALSE}
    MaxTime = 3
    MaxRestarts = 1
    MaxToggles = 2
    MaxKills = 1
SYMMETRY Symmetry
INVARIANTS TypeOK StoresAgree VouchersHold
