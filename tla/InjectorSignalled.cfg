\* One signal, which may come while the backup is made.
SPECIFICATION Spec
CONSTANTS
    MaxFaults = 0
    MaxSignals = 1
INVARIANTS
    RestoredExactly
