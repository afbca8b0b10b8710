SPECIFICATION FairSpec
CONSTANTS
    Launches = {1}
    Clients = {1, 2}
    Given = {"a"}
    Challenges = {"a", "b"}
    Configs <- SmallConfigs
    NoFile <- NoConfig
    Daily = 9
    DefaultJobs = 100
    Bench = 5
    MaxOpens = 2
    MaxStops = 1
INVARIANTS
    DaemonsPaired
    ConfigHonoured
PROPERTIES
    ServicesEnd
CHECK_DEADLOCK FALSE
