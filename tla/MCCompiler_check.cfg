SPECIFICATION Spec
CONSTANTS
    none = none
    None = none
    Classes <- MCClasses
    Objects = {"Cat", "Leaf", "SUB", "Conc"}
    Used = {"xdr", "raw", "ps-xdr", "ps-raw", "mpi-xdr"}
INVARIANTS
    ArgsArrive
    ResultsReturn
CHECK_DEADLOCK FALSE
