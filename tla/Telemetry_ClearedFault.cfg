CONSTANTS
    Readings <- MCReadings
    MaxMessages = 1
    MaxOutstanding = 1
    MaxUpsets = 2
SPECIFICATION Spec
PROPERTY ClearedFaultStaysCleared
CHECK_DEADLOCK FALSE
