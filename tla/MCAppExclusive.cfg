SPECIFICATION Spec
CONSTANTS
    Count = 5
    Deps <- MCFrontDeps
    Foreground = {2, 4, 5}
    Console = {2}
    NeedActive = {5}
    Interface = {"start", "switch", "line", "stop", "start_all"}
    MaxGeneration = 4
INVARIANTS ForegroundIsExclusive
CHECK_DEADLOCK FALSE
