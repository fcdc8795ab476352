\* Joining, syncing, leaving and coming back while periods are set, messages flow
\* and sessions are reset and deleted.
SPECIFICATION Spec
CONSTANTS
    s1 = s1
    NoMsg = NoMsg
    c1 = c1
    c2 = c2
    None = None
    Subjects = {s1}
    Conns = {c1, c2}
    Callers <- Names
    Values = {1, 2}
    ClientKeys <- Everything
    Faults = {"leave"}
    MsgCap = 1
    BlockSize = 1
    MaxNonce = 3
    MaxTime = 3
INVARIANTS
    NoGap
    PeriodKnown
    LogIsFresh
    OneRegistration
    MemoryIsStored
PROPERTIES
    StaysRegistered
SYMMETRY ConnSymmetry
\* An idle server whose clients are gone, or whose bounds are used up, may stop.
CHECK_DEADLOCK FALSE
