\* One caller whose patches may fail before they reach the system proxy.
SPECIFICATION Spec
CONSTANTS
    p1 = p1
    p2 = p2
    Patchers <- OnePatcher
    Fails <- Before
    PacOffClears = TRUE
    MaxPatches = 1
    None = None
CHECK_DEADLOCK FALSE
INVARIANTS
    QuitAlwaysTurnsProxyOff
