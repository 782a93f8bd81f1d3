\* Two runs of different refs share the Release and neither restores before it builds.
SPECIFICATION Spec
CONSTANTS
    Runs = {r1, r2}
    Readers = {}
    Payloads = {p1}
    Registry = registry
    Bytes = {b1, b2}
    Corrupt = corrupt
    Nothing = nothing
    UploadAttempts = 3
    MaxFaults = 0
    Damage = FALSE
    Serialised = FALSE
    StrictGate = TRUE
    RestoresFirst = FALSE
    Digests = TRUE
INVARIANTS
    SuccessIsDurable
