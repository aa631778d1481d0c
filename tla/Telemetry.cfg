CONSTANTS
    Readings <- MCReadings
    MaxMessages = 3
    MaxOutstanding = 2
    MaxUpsets = 2
SPECIFICATION Spec
INVARIANTS
    TypeOK
    TotalsMatchLog
    FaultMatchesLog
    LastTestMatchesLog
    EveryRunFires
    NothingHandledIsLost
    UnsavedIsPending
\* Every message has met its fate and every bound is reached: nothing is left.
CHECK_DEADLOCK FALSE
