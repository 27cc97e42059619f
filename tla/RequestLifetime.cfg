SPECIFICATION LifetimeSpec
CONSTANTS
    t1 = t1
    t2 = t2
    c1 = c1
    c2 = c2
    Caller = {t1, t2}
    Cell = {c1, c2}
    Helper = {"once", "loop", "errors", "retries", "forget", "peek"}
    MaxCalls = 4
CHECK_DEADLOCK FALSE
SYMMETRY Symmetric
INVARIANT
    NothingLeaks
PROPERTIES
    FirstFreedTwice
    FirstUsedAfterFree
