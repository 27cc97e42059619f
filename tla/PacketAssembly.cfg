SPECIFICATION Spec
CONSTANTS
    Pads <- MCPads
    MaxEvents = 3
    MaxLost = 1
    MaxDepth = 2
    MaxAttempts = 5
CHECK_DEADLOCK FALSE
INVARIANTS
    PacketsInStep
    AttemptsBounded
