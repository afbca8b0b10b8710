\* The life of an application with one or two objects.
SPECIFICATION FairSpec
CONSTANTS
    o1 = o1
    o2 = o2
    Obj = {o1, o2}
    Main = main
    None = none
    Plans <- MCPlans
    PingAfter = 0
    ResetAt = 1
    Floor = 1
    MaxClosing = 0
INVARIANTS
    RefExact
PROPERTIES
    DropsOnlyIdle
    FinalizeEnds
CHECK_DEADLOCK FALSE
