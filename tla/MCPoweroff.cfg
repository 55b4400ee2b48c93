SPECIFICATION BoundedSpec
CONSTANTS
    Users = {u1, u2}
    Controller = ctl
    Closers = {ctl}
    IdSpace = 5
    Budget = 3
    SignalReserve = 2
    PulseTime = 1
    Cycles = 2
    ClockBound = 5
    Callers = {http, serial}
    TokenSpace = 3
    MaxTokens = 5
INVARIANTS FrameIsOwn
PROPERTIES RefinesPowerCut RequestResolves RunReturns AdmissionComesBack
CHECK_DEADLOCK FALSE
