SPECIFICATION Spec
CONSTANTS
    Touchpads <- MCTouchpads
    Overlaps = FALSE
    PadButtons <- MCPadButtons
INVARIANTS
    ReleasesAtRest
    DragsEndAtRest
    NoPhantomButton
    CommandReleased
PROPERTIES
    HoldsEnd
