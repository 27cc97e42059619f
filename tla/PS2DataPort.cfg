SPECIFICATION Spec
CONSTANTS
    Value = {ack, data}
    NoByte = NoByte
    AnyByte = AnyByte
    QueueSize = 1
    PollLimit = 1
    MaxGiveUps = 1
    MaxSent <- SentBoth
SYMMETRY ValueSymmetry
CHECK_DEADLOCK FALSE
INVARIANTS
    RightDriver
    NoLostWakeup
    ExactlyOnce
    LossBounded
    MouseInOrder
