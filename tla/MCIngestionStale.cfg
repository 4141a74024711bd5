\* A deletion that fails between two stores, then the same upload again.
CONSTANTS
    Docs = {d1}
    Revs = {r1, r2}
    Sigs = {sA}
    Procs = {p1, p2}
    Batches = 2
    Concurrency = 1
    MaxRequests = 3
    MaxFaults = 1
    MaxRestarts = 0
    NoDoc = NoDoc
    NoJob = NoJob
    Free = Free
SPECIFICATION Spec
INVARIANT
    UnchangedIsTrue
CHECK_DEADLOCK FALSE
