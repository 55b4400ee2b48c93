SPECIFICATION ApplicationsSpec
CONSTANTS
    Count = 6
    Deps <- MCDeps
    Foreground = {2, 4}
    Console = {2}
    NeedActive = {4}
    Interface = {"start", "switch", "line", "stop", "restart", "start_all", "stop_all"}
    MaxGeneration = 3
    QueueDepth = 2
    MaxPlayback = 4
INVARIANTS DependenciesRun FreedIsUnused
PROPERTIES GrantNeverRevived SilencedStaysSilent SilenceComes
CHECK_DEADLOCK FALSE
