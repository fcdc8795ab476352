SPECIFICATION Spec
CONSTANTS
    NoMsg = NoMsg
    s1 = s1
    s2 = s2
    Subjects = {s1, s2}
    Rows = 1
    Paused = {}
    Reloaders = {s1}
    AnyTime = TRUE
    MaxReloads = 1
INVARIANTS
    PageFitsPeriod
CHECK_DEADLOCK FALSE
