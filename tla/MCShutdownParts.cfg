SPECIFICATION PartsSpec
CONSTANTS
    Users = {u1, u2, u3}
    Closers = {c1, c2}
    IdSpace = 9
    Capacity = 8
    CriticalReserve = 4
    MaxErrors = 3
    Plain = {p1}
    Durable = {d1, d2}
    None = none
    QueueLength = 1
    DurableLength = 1
    Attempts = 2
    MaxCalls = 2
    Sessions = 2
    EventCapacity = 2
    Chunks = 3
INVARIANTS LeaseAccounting TeardownIsQueued
INVARIANTS RequestsAreOwned NothingAfterClosed
INVARIANTS AnswersAreOwn RefusedChunksAreHealed QueueOutlivesSession
PROPERTIES QuiesceReturns StopIsHeard
CHECK_DEADLOCK FALSE
