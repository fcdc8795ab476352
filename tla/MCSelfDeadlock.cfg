\* removeListeners has one place and two clients leave.
SPECIFICATION FairSpec
CONSTANTS
    c1 = c1
    c2 = c2
    Conns = {c1, c2}
    None = None
    Answer = Answer
    MsgCap = 1
    RecvCap = 1
    RemoveCap = 1
    MaxSent = 2
PROPERTIES
    FailedIsQueued
\* When all clients are gone the router waits for the next one.
CHECK_DEADLOCK FALSE
