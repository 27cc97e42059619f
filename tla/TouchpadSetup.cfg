CONSTANTS
    Pads <- MCPads
    MaxFaults = 6
    MaxEvents = 2
SPECIFICATION Spec
CHECK_DEADLOCK FALSE
INVARIANTS
    ReportsAbsolute
    DetectsNoOther
    SilentUnattended
PROPERTIES
    AnsweredReconnectRepairs
