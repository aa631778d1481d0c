CONSTANTS
    FailuresToUnreachable = 4
    SuccessesToReachable = 2
    \* As many as there are outcomes: no counter of this run meets the bound.
    StreakCap = 10
    MaxOutcomes = 10
SPECIFICATION Spec
INVARIANT
    VerdictFollowsHistory
\* The history is full: the behaviour of the bounded model ends there.
CHECK_DEADLOCK FALSE
