SPECIFICATION Spec
CONSTANTS
    Async = {a1, a2}
    Blocking = {b1, b2}
    Commands <- TwoCommands
    Nesting = FALSE
    MaxInterrupts = 2
    Nobody = Nobody
CHECK_DEADLOCK FALSE
INVARIANTS
    NoForgottenRequest
    Atomic
    InSubmissionOrder
PROPERTY
    ImplementsServer
