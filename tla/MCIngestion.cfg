CONSTANTS
    Docs = {d1}
    Revs = {r1, r2}
    Sigs = {sA, sB}
    Procs = {p1, p2}
    Batches = 2
    Concurrency = 1
    MaxRequests = 4
    MaxFaults = 2
    MaxRestarts = 2
    NoDoc = NoDoc
    NoJob = NoJob
    Free = Free
SYMMETRY Symmetry
SPECIFICATION Spec
INVARIANTS
    IndexedIsComplete
    DeletedLeavesNothing
    ResidueOnlyAfterLeak
PROPERTIES
    ImplementsDocumentStore
\* The bounds on requests, faults and restarts stop the model, not the system.
CHECK_DEADLOCK FALSE
