\* Two patches at a time, three in all, failures of every step, and quit at any time.
SPECIFICATION Spec
CONSTANTS
    p1 = p1
    p2 = p2
    Patchers <- TwoPatchers
    Fails <- Everything
    PacOffClears = TRUE
    MaxPatches = 3
    None = None
SYMMETRY Symmetry
CHECK_DEADLOCK FALSE
INVARIANTS TypeOK SettingsTakeEffect QuitTurnsProxyOff
