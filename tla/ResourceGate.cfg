\* One job: the gate with its three cases and the limiter.
SPECIFICATION FairSpec
CONSTANTS
    MaxChanges = 2
    MaxFaults = 2
INVARIANT TypeOK
PROPERTIES
    PolicyIsEarned
    BuildIsCertified
    GateEnds
CHECK_DEADLOCK FALSE
