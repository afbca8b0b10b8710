\* Discoveries on four grids; a node dies, one registers again.
SPECIFICATION FairSpec
CONSTANTS
    Node = {1, 2, 3, 4}
    Worlds <- MCWorlds
    MaxRegs = 1
    Req = {"first", "near", "end"}
    Origin <- AllOrigin
    End = {"end"}
    Waits = {"end", "near"}
    Hops <- AllHops
    Want <- AllWant
    CpuSpeeds = {1}
    Info <- AllInfo
    MaxJobs = 1
    HistMax = 1
    NeighborsPath = 1
    Unlimited <- Far
INVARIANTS
    AnswersSound
    GraphKept
PROPERTIES
    DiscoveryEnds
CHECK_DEADLOCK FALSE
