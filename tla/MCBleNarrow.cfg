SPECIFICATION BleSpec
CONSTANTS
    Base = 3
    PtrMod = 3
    Patience = 2
    Depth = 2
    Room = 1
    GapRoom = 1
    Searches = 2
    Windows = 1
    CancelReports = TRUE
PROPERTY CancelCompletes
