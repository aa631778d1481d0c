SPECIFICATION FairSpec
CONSTANTS
    Events = {e1}
    Tries = 3
    Patience = 10
    AnswerTime = 2
    LookupTimeout = 3
    VendorTimeout = 4
    VendorServers = 2
    MaxStops = 1
INVARIANT TypeOK
INVARIANT FailOpen
INVARIANT ExactlyOnceInHealth
INVARIANT HeardAtHome
INVARIANT BudgetHolds
PROPERTY ImplementsAtLeastOnce
CHECK_DEADLOCK FALSE
