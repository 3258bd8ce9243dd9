SPECIFICATION FairSpec
CONSTANTS
    MaxBytes = 2
    MaxCores = 2
    MaxCounters = 2
    MaxSequence = 2
INVARIANTS TypeOK NoByteBilledTwice PacketsAreKept
PROPERTIES TotalsSurviveWhileCoreLives ObservedBytesAreBilled ImplementsMeter
