SPECIFICATION Spec
CONSTANTS
    MaxBytes = 1
    MaxCores = 1
    MaxCounters = 2
    MaxSequence = 1
INVARIANTS NothingReplayed
