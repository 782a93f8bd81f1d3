\* Two cancellations, two blocks of output, two faults.
SPECIFICATION FairSpec
CONSTANTS
    MaxSignals = 2
    MaxOutput = 2
    MaxFaults = 2
INVARIANTS
    TypeOK
    ExitIsHonest
    RecordedFirst
    GroupGone
    OutputComplete
PROPERTIES
    TerminalIsLast
    Returns
