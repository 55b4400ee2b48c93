SPECIFICATION SshSpec
CONSTANTS
    Sessions = 1
    EventCapacity = 3
    Chunks = 2
PROPERTIES WaitsForATask
CHECK_DEADLOCK FALSE
