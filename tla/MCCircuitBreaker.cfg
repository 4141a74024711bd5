\* Three questions at a time, storage and embedder coming and going.
CONSTANTS
    Requests = {q1, q2, q3}
    Changes = {c1}
    Threshold = 2
    Cooldown = 2
SPECIFICATION FairSpec
INVARIANTS
    OnlyStorageOpens
PROPERTIES
    ProbesAreSpaced
    Recovers
    DeadStoreIsLeftAlone
