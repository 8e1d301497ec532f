SPECIFICATION FairSpec
CONSTANTS
    MaxSeq = 2
    MaxTx = 2
    PageSize = 1
    Threshold = 2
    BatchSize = 2
    KindChoices <- MCKindChoices
    Faults = {"failure", "loss", "reap", "restart"}
    MaxFaults = 2
INVARIANTS TypeOK AckedIsApplied NewIsNoticed
PROPERTIES SettledWhileConnected
