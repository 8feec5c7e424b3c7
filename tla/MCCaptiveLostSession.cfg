SPECIFICATION Spec
CONSTANTS
    Macs = {m1, m2}
    Codes = {k1}
    Permanent = Permanent
    NoCode = NoCode
    NoMac = NoMac
    Requests = {r1, r2}
    Sweepers = {s1}
    Duration = 1
    Lease = 0
    Backend = "nft"
    Kinds = {"login"}
    Overlaps = {TRUE}
    MaxTime = 3
    MaxRestarts = 0
    MaxToggles = 0
    MaxKills = 0
PROPERTY SweepRemovesExpired
