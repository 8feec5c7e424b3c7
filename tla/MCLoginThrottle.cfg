\* Two or three requests at a time of an address; bans, expiry, restarts.
SPECIFICATION FairSpec
CONSTANTS
    Addrs = {a1}
    Doors = {"dashboard", "portal"}
    Tiers <- MCTiers
    FailLimit = 2
    LockoutStep = 2
    LockoutCap = 2
    Ttl = 2
    Budgets <- MCBudgets
INVARIANTS TypeOK Throttled
PROPERTIES LoginsAnswered
