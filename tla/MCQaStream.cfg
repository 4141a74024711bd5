\* Two streams share one place of the limiter.
CONSTANTS
    Requests = {r1, r2}
    Leavers = {r1, r2}
    MaxAttempts = 2
    Concurrency = 1
    MaxPieces = 1
    NoEvent = NoEvent
    End = End
SYMMETRY Symmetry
SPECIFICATION Spec
INVARIANTS
    LimiterConserved
    EndsProperly
PROPERTY
    ImplementsEventStream
\* Streams end.
CHECK_DEADLOCK FALSE
