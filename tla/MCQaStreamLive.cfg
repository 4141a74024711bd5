\* Two streams contend for one place; the client of one may leave.
CONSTANTS
    Requests = {r1, r2}
    Leavers = {r1}
    MaxAttempts = 1
    Concurrency = 1
    MaxPieces = 0
    NoEvent = NoEvent
    End = End
SPECIFICATION FairSpec
PROPERTIES
    LeavingStops
    EveryStreamEnds
CHECK_DEADLOCK FALSE
