SPECIFICATION Spec
CONSTANTS
    Tasks = {1}
    CommandOf <- MCCommandOf
    OwnerOf <- MCOwnerOf
    MaxRetained = 1
    MaxCrashes = 0
    MaxFaults = 0
PROPERTIES
    CancelledIsFinal
CHECK_DEADLOCK FALSE
