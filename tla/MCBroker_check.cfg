\* Two clients, two receive threads: calls of every kind, thread creation that
\* fails, methods that throw, and the whole life of an object.
SPECIFICATION FairSpec
CONSTANTS
    Rcv <- MCRcv
    Conn <- MCConn
    Via <- MCVia
    Req = {"ctor", "addref", "decref", "kill", "conc1", "conc2", "mutex1", "mutex2", "seq2"}
    Batches <- MCBatches
    Kind <- AllKind
    Call <- AllCall
    From <- AllFrom
    Sync = {"ctor", "addref", "decref", "mutex1"}
    Throws = {"ctor", "conc1"}
    AppService = TRUE
    CreateMayFail = TRUE
    QueueMax = 1
    None = None
INVARIANTS
    MutexExclusion
    Accounted
    FifoBarrier
PROPERTIES
    ImplementsInvocation
    CleanExit
    RequestServed
CHECK_DEADLOCK FALSE
