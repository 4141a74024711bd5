\* Two requests at a time ask two questions that mean the same, while documents change.
CONSTANTS
    d1 = d1  d2 = d2  r1 = r1  r2 = r2  q1 = q1  q2 = q2
    Docs = {d1, d2}
    Revs = {r1, r2}
    Questions = {q1, q2}
    Near <- TwoNear
    Finds <- TwoFinds
    Answers <- TwoAnswers
    Askers = {a1, a2}
    Writers = {w1}
    MaxAsks = 2
    MaxChanges = 2
    MaxFaults = 1
    NoRev = NoRev
    NoEntry = NoEntry
    NoOne = NoOne
SYMMETRY Symmetry
SPECIFICATION Spec
INVARIANTS
    AnswersAreCurrent
    SoundEntriesAreRight
\* The bounds on asks, changes and faults stop the model, not the system.
CHECK_DEADLOCK FALSE
