SPECIFICATION Spec
CONSTANTS
    i1 = i1
    i2 = i2
    i3 = i3
    None = None
    Ids = {i1, i2, i3}
    GoRun = FALSE
    ShutdownTargets = {"api"}
    MaxStarts = 2
CHECK_DEADLOCK FALSE
INVARIANTS TypeOK Tracked CleanExit
PROPERTY StopsEventually
