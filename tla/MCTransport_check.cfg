SPECIFICATION FairSpec
CONSTANTS
    c1 = c1
    c2 = c2
    c3 = c3
    none = none
    Client = {c1, c2}
    MaxConn = 1
    MaxMsg = 2
    Fd = {1, 2}
    Protos = {"socket", "uds"}
    None = none
INVARIANTS
    Framing
    ScanExact
    ReplyOwner
PROPERTIES
    Delivered
CHECK_DEADLOCK FALSE
