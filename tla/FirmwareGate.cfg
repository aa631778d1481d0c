CONSTANTS
    Handlers = {h1, h2}
    Replies <- MCReplies
    NoReply = NoReply
    BadGateway = BadGateway
    NotAdded = NotAdded
    MaxRestarts = 1
SPECIFICATION FairSpec
INVARIANTS
    TypeOK
    CacheAnswerIsSafe
    HeldStaysBack
    EntityMissesNothing
PROPERTIES
    LastingOfferIsAnnounced
    ObserveDelivers
