SPECIFICATION FairSpec
CONSTANTS
    Key = {k1}
    ScanBits <- ScanOfQ
    MaxKeys = 3
    MaxChanges = 5
    MaxTimeouts = 2
CHECK_DEADLOCK FALSE
INVARIANTS
    ReferencePerCall
    AcknowledgedIsDone
    FrozenInSleep
    SilentWhenFrozen
PROPERTIES
    EveryChangeAcknowledged
    KeyboardComesBack
    ToldInTurn
