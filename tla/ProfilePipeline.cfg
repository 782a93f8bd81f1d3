\* One training run with two browsers, two attempts of the merge job and a reader.
SPECIFICATION FairSpec
CONSTANTS
    Browsers = {b1, b2}
    MaxTrainFaults = 1
    Attempts = {a1, a2}
    Readers = {c1}
    Payloads = {p1, p2}
    Registry = registry
    Nothing = nothing
    MaxFaults = 2
INVARIANTS
    TypeOK
    PublishedIsTrained
PROPERTIES
    RestoredWhole
    ImplementsStore
    EveryJobEnds
CHECK_DEADLOCK FALSE
