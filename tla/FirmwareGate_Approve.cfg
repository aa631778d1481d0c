CONSTANTS
    Handlers = {h1}
    Replies <- MCReplies
    NoReply = NoReply
    BadGateway = BadGateway
    NotAdded = NotAdded
    MaxRestarts = 1
SPECIFICATION Spec
PROPERTY ApprovedIsDelivered
