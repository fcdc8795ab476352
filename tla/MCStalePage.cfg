\* The page shown after a reset.
SPECIFICATION Spec
CONSTANTS
    s1 = s1
    NoMsg = NoMsg
    c1 = c1
    c2 = c2
    c3 = c3
    None = None
    Subjects = {s1}
    Conns = {c1, c2, c3}
    Callers <- Users
    Values = {1}
    ClientKeys <- PeriodPageReset
    Faults = {}
    MsgCap = 1
    BlockSize = 1
    MaxNonce = 2
    MaxTime = 4
INVARIANTS
    CurrentPage
SYMMETRY ConnSymmetry
\* An idle server whose clients are gone, or whose bounds are used up, may stop.
CHECK_DEADLOCK FALSE
