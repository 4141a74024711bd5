\* Three requests contend for two document locks and one place in the limiter.
CONSTANTS
    Docs = {d1, d2}
    Revs = {r1, r2}
    Sigs = {sA}
    Procs = {p1, p2, p3}
    Batches = 1
    Concurrency = 1
    MaxRequests = 3
    MaxFaults = 1
    MaxRestarts = 0
    NoDoc = NoDoc
    NoJob = NoJob
    Free = Free
SPECIFICATION FairSpec
PROPERTY
    RequestsFinish
\* The bounds on requests, faults and restarts stop the model, not the system.
CHECK_DEADLOCK FALSE
