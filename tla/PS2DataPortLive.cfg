SPECIFICATION FairSpec
CONSTANTS
    Value = {ack, data}
    NoByte = NoByte
    AnyByte = AnyByte
    QueueSize = 1
    PollLimit = 1
    MaxGiveUps = 1
    MaxSent <- SentFew
CHECK_DEADLOCK FALSE
PROPERTIES
    AllTakenUp
    ReadsReturn
