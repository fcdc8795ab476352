\* A reset between the answer to requestSubject and newListeners.
SPECIFICATION Spec
CONSTANTS
    s1 = s1
    NoMsg = NoMsg
    c1 = c1
    c2 = c2
    None = None
    Subjects = {s1}
    Conns = {c1, c2}
    Callers <- Users
    Values = {1}
    ClientKeys <- Resets
    Faults = {"leave"}
    MsgCap = 1
    BlockSize = 1
    MaxNonce = 2
    MaxTime = 3
INVARIANTS
    OneSubjectObject
SYMMETRY ConnSymmetry
\* An idle server whose clients are gone, or whose bounds are used up, may stop.
CHECK_DEADLOCK FALSE
