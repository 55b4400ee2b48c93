SPECIFICATION StorageSpec
CONSTANTS
    Limit = 3
    MaxCount = 4
    Absent = Absent
    Torn = Torn
    MaxVersions = 3
    Networks = {home, work}
    NoNet = none
    Capacity = 2
    MaxToken = 3
    Minutes = {0, 2, 5}
    Default = 2
    QueueCapacity = 2
INVARIANTS BootLoopCaught NothingLost QuiescedIsStored
PROPERTIES VanishedComesBack RetriedUntilSaved
