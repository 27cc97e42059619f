SPECIFICATION Spec
CONSTANTS
    Key = {k1}
    ScanBits <- ScanOfQ
    MaxKeys = 2
    MaxChanges = 2
    MaxTimeouts = 0
CHECK_DEADLOCK FALSE
INVARIANT
    CommandByteKept
