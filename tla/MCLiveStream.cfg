\* A collector and a dashboard thread publish; one tab connects, loses its
\* connection and resumes; a row is trimmed and an insertion or a query meets a
\* lock.
SPECIFICATION FairSpec
CONSTANTS
    Collectors = {p1}
    WebThreads = {p2}
    Tabs = {t1}
    Servers = {w1}
    NoServer = NoServer
    Backlog = 1
    Limit = 1
    TrimEvery = 2
    Keep = 2
    Replay = 1
    Window = 0
    Slack = 1
    MaxEvents = 3
    MaxLocks = 1
    MaxDrops = 1
    MaxTime = 1
\* The bounds end every behaviour: an idle feed waits for its next event.
CHECK_DEADLOCK FALSE
INVARIANTS TypeOK NoHole
PROPERTIES FeedForward EventuallyShown NoLeak
