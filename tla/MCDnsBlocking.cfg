\* One reload at a time, beside start.sh, the watchdog, crashes and reloads that fail.
SPECIFICATION FairSpec
CONSTANTS
    site = site
    host = host
    plain = plain
    NThreads = 2
    Names <- MCNames
    Sub <- MCSub
    Blockable <- MCBlockable
    Patterns <- MCPatterns
    Apart <- MCApart
    Budgets <- MCBudgets
INVARIANTS TypeOK BlockListHolds
PROPERTIES DnsRecovers
CHECK_DEADLOCK FALSE
