\* A client leaves while the session of a failed attempt is settled.
CONSTANTS
    Requests = {r1}
    Leavers = {r1}
    MaxAttempts = 2
    Concurrency = 1
    MaxPieces = 2
    NoEvent = NoEvent
    End = End
SPECIFICATION FairSpec
PROPERTY
    LeavingAlwaysStops
CHECK_DEADLOCK FALSE
