SPECIFICATION Spec
CONSTANTS
    Uids = {a, b}
    Contents = {x, y}
    Callers = {1, 2}
    None = None
    MaxCommands = 3
SYMMETRY Symmetry
CHECK_DEADLOCK FALSE
INVARIANTS TypeOK CoreRunsFile IndexSettles RemovedStaysRemoved
