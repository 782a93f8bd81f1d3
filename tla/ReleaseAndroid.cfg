\* A workflow that takes every nonzero status of stage-complete for incomplete, as android.yml.
SPECIFICATION Spec
CONSTANTS
    Runs = {r1, r2}
    Readers = {}
    Payloads = {p1}
    Registry = registry
    Bytes = {b1, b2}
    Corrupt = corrupt
    Nothing = nothing
    UploadAttempts = 3
    MaxFaults = 1
    Damage = FALSE
    Serialised = TRUE
    StrictGate = FALSE
    RestoresFirst = TRUE
    Digests = TRUE
INVARIANTS
    RebuildOnlyIfIncomplete
