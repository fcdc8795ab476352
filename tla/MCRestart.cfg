\* Crashes, at any point of a reset too, and restarts; who connects is synced under fair
\* scheduling.
SPECIFICATION FairSpec
CONSTANTS
    s1 = s1
    NoMsg = NoMsg
    c1 = c1
    c2 = c2
    None = None
    Subjects = {s1}
    Conns = {c1, c2}
    Callers <- Users
    Values = {1}
    ClientKeys <- ScopeAndConfig
    Faults = {"crash", "leave"}
    MsgCap = 1
    BlockSize = 1
    MaxNonce = 3
    MaxTime = 2
CONSTRAINT FirstIsFirst
INVARIANTS
    TypeOK
    MemoryIsStored
PROPERTIES
    IsSessionLog
    SyncCompletes
\* An idle server whose clients are gone, or whose bounds are used up, may stop.
CHECK_DEADLOCK FALSE
