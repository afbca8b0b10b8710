SPECIFICATION FairSpec
CONSTANTS
    Threads = {t1, t2, t3}
    Events = {1, 2}
    Timeouts <- MCTimeouts
    MaxPosts = 2
    MaxWaits = 2
    Nobody = nobody
INVARIANTS
    NoMissedWakeup
    EventsKept
PROPERTIES
    Served
CHECK_DEADLOCK FALSE
