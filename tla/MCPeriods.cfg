SPECIFICATION Spec
CONSTANTS
    NoMsg = NoMsg
    s1 = s1
    s2 = s2
    Subjects = {s1, s2}
    Rows = 1
    Paused = {1}
    Reloaders = {s1}
    AnyTime = FALSE
    MaxReloads = 1
INVARIANTS
    TypeOK
    StartTogether
    PageFitsPeriod
    NoPeriodIsSkipped
    PausedUntilResumed
    EverybodyCanSend
    NobodyIsStuck
CHECK_DEADLOCK FALSE
