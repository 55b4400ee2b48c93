SPECIFICATION LogSpec
CONSTANTS
    Plain = {p1}
    Durable = {d1, d2}
    None = none
    QueueLength = 1
    DurableLength = 1
    Attempts = 2
    MaxCalls = 2
INVARIANTS AdmittedAreDrained
CHECK_DEADLOCK FALSE
