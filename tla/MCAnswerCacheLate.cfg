\* A search, an upload with its invalidation, and only then the store.
CONSTANTS
    d1 = d1  d2 = d2  r1 = r1  r2 = r2  q1 = q1  q2 = q2
    Docs = {d1, d2}
    Revs = {r1, r2}
    Questions = {q1}
    Near <- OneNear
    Finds <- OneFinds
    Answers <- OneAnswers
    Askers = {a1}
    Writers = {w1}
    MaxAsks = 1
    MaxChanges = 1
    MaxFaults = 0
    NoRev = NoRev
    NoEntry = NoEntry
    NoOne = NoOne
SYMMETRY Symmetry
SPECIFICATION Spec
INVARIANT
    NegativesAreRight
CHECK_DEADLOCK FALSE
