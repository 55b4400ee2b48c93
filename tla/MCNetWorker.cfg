SPECIFICATION FairSpec
CONSTANTS
    Capacity = 5
    CriticalReserve = 4
    SessionQueueLength = 1
    SessionEvents = {"SESSION_SOCKET_ERROR"}
    Commands = {"connect", "switch"}
INVARIANTS OffIsCaughtUp
PROPERTIES SubmissionSucceeds OffGoesQuiet
