\* Two requests contend for a pool of one; two more names let processes be replaced early.
\* A session runs a turn of two notifications, of which one may be skipped; MCParts has two.
CONSTANTS
    Requests = {r1, r2}
    Sessions = {s1, s2, s3}
    Size = 1
    MaxLeft = 1
    NoSession = NoSession
    MaxTurns = 1
    MaxNotes = 2
    MaxSkips = 1
SPECIFICATION BothSpec
INVARIANTS
    SlotsConserved
    IdleIsQuiet
    ProcessesBounded
    NoOrphan
PROPERTIES
    Served
    Drained
    DeathEndsWaiting
    CloseFinishes
\* After shutdown nothing is left to do.
CHECK_DEADLOCK FALSE
