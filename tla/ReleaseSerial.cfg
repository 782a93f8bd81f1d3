\* One run at a time, as build-rbm-dependencies.yml, and a reader of another workflow.
SPECIFICATION Spec
CONSTANTS
    Runs = {r1, r2, r3}
    Readers = {c1}
    Payloads = {p1, p2}
    Registry = registry
    Bytes = {b1, b2}
    Corrupt = corrupt
    Nothing = nothing
    UploadAttempts = 3
    MaxFaults = 2
    Damage = TRUE
    Serialised = TRUE
    StrictGate = TRUE
    RestoresFirst = TRUE
    Digests = FALSE
SYMMETRY Symmetry
INVARIANTS
    TypeOK
    CommitBacked
    SuccessIsDurable
    OneContent
    AnswersCommitted
PROPERTIES
    ImplementsStore
