\* Two faults and two signals.
SPECIFICATION FairSpec
CONSTANTS
    MaxFaults = 2
    MaxSignals = 2
INVARIANTS
    TypeOK
    OriginalKept
PROPERTIES
    RestoredStays
    RestoredInTheEnd
