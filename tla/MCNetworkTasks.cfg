SPECIFICATION TasksSpec
CONSTANTS
    Addresses = {a1, a2}
    Static = static
    Null = null
    Searches = 2
    MaxGeneration = 3
    Connections = 2
    MaxAttempts = 2
    NoConnection = none
INVARIANTS ContextsAreOwned NoWorkerNoRequest NoConnectionForgotten
PROPERTIES SearchIsAnswered PlaceComesBack
