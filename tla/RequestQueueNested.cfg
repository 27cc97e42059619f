SPECIFICATION FairSpec
CONSTANTS
    Async = {a1}
    Blocking = {b1, b2}
    Commands <- TwoCommands
    Nesting = TRUE
    MaxInterrupts = 2
    Nobody = Nobody
CHECK_DEADLOCK FALSE
PROPERTY
    EveryRequestAnswered
