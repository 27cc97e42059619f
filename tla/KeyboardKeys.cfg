SPECIFICATION Spec
CONSTANTS
    Keyboards <- MCKeyboards
    MaxHeld = 3
    MaxSleeps = 1
INVARIANTS
    KeysComeUp
    TouchpadLetGo
    LogFollowsMode
    TouchpadAgrees
