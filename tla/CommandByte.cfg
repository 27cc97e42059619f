SPECIFICATION FairSpec
CONSTANTS
    Keyboard = Keyboard
    Touchpad = Touchpad
    Driver = {Keyboard, Touchpad}
    SetBits <- SetOf
    ClearBits <- ClearOf
    Bit <- Bits
    InitialByte <- FirstByte
    StrayBytes <- ScanCodes
    MaxEach = 2
    MaxSleeps = 1
    Silent = FALSE
CHECK_DEADLOCK FALSE
INVARIANTS
    AppliedWhenAlone
    AppliedWhenAwake
PROPERTY
    EveryUpdateEnds
