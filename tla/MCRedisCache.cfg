\* Two callers, two candidate sets of one entry each.
CONSTANTS
    f1 = f1  f2 = f2  f3 = f3  n1 = n1  n2 = n2
    Prints = {f1, f2, f3}
    Sets = {n1, n2}
    SetOf <- TwoSets
    Tasks = {t1, t2}
    MaxEntries = 1
    Candidates = 2
    TTL = 2
    MaxStores = 4
    NoSet = NoSet
SYMMETRY Symmetry
SPECIFICATION Spec
INVARIANTS
    NamesAreKnown
    IndexesAgree
    IndexIsBounded
\* The bound on stores stops the model, not the system.
CHECK_DEADLOCK FALSE
