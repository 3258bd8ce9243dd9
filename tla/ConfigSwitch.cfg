SPECIFICATION FairSpec
CONSTANTS
    s1 = s1
    s2 = s2
    r1 = r1
    Profiles = {1, 2, 3}
    Broken = {3}
    Switchers = {s1, s2}
    Restarters = {r1}
    Timeouts = TRUE
    MaxSwitches = 3
CHECK_DEADLOCK FALSE
INVARIANTS TypeOK IndexSettles CoreRunsCurrent
PROPERTIES CommittedWasLoaded SwitchEnds
