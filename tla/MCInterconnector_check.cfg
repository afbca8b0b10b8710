SPECIFICATION FairSpec
CONSTANTS
    World = 2
    c1 = c1
    c2 = c2
    Deployments <- MCDeployments
    GroupSize = 2
    PointerSize = 16
    FirstTag = 1000
    MaxObjects = 2
    Outcomes = {"up", "down", "silent"}
    MayTerminate = TRUE
    None = none
INVARIANTS
    RoutedRight

    
CHECK_DEADLOCK FALSE
