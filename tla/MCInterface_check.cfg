SPECIFICATION FairSpec
CONSTANTS
    Users = {t1, t2}
    Alloc = alloc
    ODs <- MCODs
    Access <- MCAccess
    Registered = {"socket", "uds"}
    ClientEncodings = {"xdr", "raw", "zip"}
    ServerEncodings = {"xdr", "raw"}
    Encodings = {"raw", "zip", "lz"}
    Killable = TRUE
    MaxOps = 3
    None = none
INVARIANTS
    Survives
    JoinedFirst
    Paired
PROPERTIES
    CallEnds
CHECK_DEADLOCK FALSE
