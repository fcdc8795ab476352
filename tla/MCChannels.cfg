\* Two clients that stall and leave; recv and messages fill up; removeListeners has a place for every send that can fail.
SPECIFICATION FairSpec
CONSTANTS
    c1 = c1
    c2 = c2
    Conns = {c1, c2}
    None = None
    Answer = Answer
    MsgCap = 1
    RecvCap = 1
    RemoveCap = 4
    MaxSent = 3
INVARIANTS
    TypeOK
    Contiguous
PROPERTIES
    RouteReturns
    FailedIsRemoved
    HandlerReturns
\* When all clients are gone the router waits for the next one.
CHECK_DEADLOCK FALSE
