\* The check with and without a baseline, on a machine with and without a user's install.
SPECIFICATION FairSpec
CONSTANTS
    Samples = 3
    MaxFaults = 3
INVARIANTS
    TypeOK
    ValidatedIsClean
PROPERTIES
    KeptApart
    CheckEnds
CHECK_DEADLOCK FALSE
