SPECIFICATION FairSpec
CONSTANTS
    r1 = r1
    r2 = r2
    Requests = {r1, r2}
    Startup = Startup
    MaxRetries = 2
    MaxClosures = 2
CHECK_DEADLOCK FALSE
INVARIANTS
    TypeOK
    QueueExistsForRequests
    ConnectionsBounded
PROPERTIES
    ClosedOnlyWhenOvertaken
    EveryCallEnds
