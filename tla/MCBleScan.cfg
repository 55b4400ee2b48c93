SPECIFICATION WidthsSpec
CONSTANTS
    Base = 3
    PtrMod = 3
    WidePtrMod = 8
    Patience = 2
    Depth = 2
    Room = 1
    GapRoom = 1
    Searches = 2
    Windows = 2
    CancelReports = FALSE
INVARIANTS AnswerIsOwn
PROPERTIES SearchEnds
