\* Three runs of a reproducible stage, of which two faults can spoil two.
SPECIFICATION FairSpec
CONSTANTS
    Runs = {r1, r2, r3}
    Readers = {}
    Payloads = {p1, p2}
    Registry = registry
    Bytes = {b1}
    Corrupt = corrupt
    Nothing = nothing
    UploadAttempts = 3
    MaxFaults = 2
    Damage = FALSE
    Serialised = TRUE
    StrictGate = TRUE
    RestoresFirst = TRUE
    Digests = TRUE
PROPERTIES
    Recovery
    EveryJobEnds
