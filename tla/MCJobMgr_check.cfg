\* Two creations on two nodes: executions fail in every way, a node dies, its
\* search node dies, an application ends.
SPECIFICATION FairSpec
CONSTANTS
    Nodes = {"n1", "n2"}
    Creations = {"c1", "c2", "s1"}
    Home <- AllHome
    App <- TwoApps
    HowMany <- AllHowMany
    Od <- AllOd
    Total <- AllTotal
    Limit <- AllLimit
    MaxWall <- AllWall
    Responses <- FewResponses
    Mixes <- MCMixes
    CrashNodes = {"n2"}
    PsnNodes = {"n2"}
    EndApps = {"a"}
    MaxJobs = 2
    IdMax = 20
    Retries = 2
    None = None
INVARIANTS
    ResourceConservation
    ReservationHeld
    SuccessComplete
PROPERTIES
    CreationReturns
CHECK_DEADLOCK FALSE
