\* A build with two resource records before its last one, and three faults.
SPECIFICATION FairSpec
CONSTANTS
    MaxSamples = 2
    MaxFaults = 3
INVARIANTS
    TypeOK
    BuildAcknowledged
    AckWasStored
    RemoteKeepsAcked
    CancelKeepsAck
    OnlyWorkerStruck
PROPERTIES
    ImplementsLog
    EverythingEnds
