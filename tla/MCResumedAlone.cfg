\* Two paused periods and a reload just after a __paused__.
SPECIFICATION EagerSpec
CONSTANTS
    NoMsg = NoMsg
    s1 = s1
    s2 = s2
    Subjects = {s1, s2}
    Rows = 2
    Paused = {1, 2}
    Reloaders = {s1}
    AnyTime = TRUE
    MaxReloads = 1
INVARIANTS
    ResumedTogether
CHECK_DEADLOCK FALSE
