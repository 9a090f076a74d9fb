SPECIFICATION LiveSpec
CONSTANTS
    Tasks = {1, 2}
    CommandOf <- MCCommandOf
    OwnerOf <- MCOwnerOf
    MaxRetained = 1
    MaxCrashes = 1
    MaxFaults = 1
INVARIANTS
    OneProcessPerCommand
PROPERTIES
    QuietCancelIsFinal
    CancelEndsProcess
    TasksEnd
CHECK_DEADLOCK FALSE
