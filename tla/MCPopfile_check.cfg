SPECIFICATION Spec
CONSTANTS
    none = none
    Offset = 2
    StripNumber = 2
    Neighbours = 1
    FullLen = 1
    ScatterBlock = 3
    ReadSizes = {2, 4}
    MaxBytes = 4
    WriteSizes = {1, 3}
    MaxGrips = 3
    MaxOpens = 2
    Faults = {"disk", "crash"}
    None = none
INVARIANTS
    WritesKept
    ReadExact
CHECK_DEADLOCK FALSE
