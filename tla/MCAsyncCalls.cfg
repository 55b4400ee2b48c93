SPECIFICATION AsyncSpec
CONSTANTS
    Submitters = {keyboard, serial}
    Blocks = {b1, b2, b3}
    NoBlock = NoBlock
    Capacity = 2
    MaxGeneration = 3
    MaxIdentity = 3
    WorkCapacity = 2
    MaxRequests = 3
    MaxSessions = 2
INVARIANTS QueueOutlivesWorker AnswersTheAsker
PROPERTIES KeysGetThrough RefinesKeyDelivery AcceptedIsAnswered
