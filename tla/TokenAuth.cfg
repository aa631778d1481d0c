CONSTANTS
    FailuresToUnreachable = 4
    SuccessesToReachable = 2
    StreakCap = 4
    Handlers = {h1, h2}
    Nobody = Nobody
    MaxAbandons = 1
SPECIFICATION FairSpec
INVARIANTS
    IssuedTellsTheTruth
    RejectionsGetThrough
    EntitiesCurrent
    LogFollowsVerdict
PROPERTIES
    KeepsReportingInOutage
    RecoversByItself
