\* One watch of two ticks and its end: s1 starts it and reloads, s2 steps, either pauses it.
SPECIFICATION FairSpec
CONSTANTS
    NoMsg = NoMsg
    s1 = s1
    s2 = s2
    Subjects = {s1, s2}
    Target = 2
    Starters = {s1}
    Reloaders = {s1}
    Pausers = {s1, s2}
    MaxReloads = 1
    MaxPauses = 1
INVARIANTS
    TypeOK
    TicksTogether
    IsInPlace
PROPERTIES
    IsClock
    Completes
CHECK_DEADLOCK FALSE
