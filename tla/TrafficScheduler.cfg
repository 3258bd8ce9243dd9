SPECIFICATION SchedulerFairSpec
CONSTANTS
    Off = Off
    InitialMin = 1
    InitialMax = 6
    IdleMin = 3
    IdleMax = 6
    NormalMin = 12
    NormalMax = 14
    RetryBase = 3
    MaxBackoff = 20
    MaxDoublings = 3
    ActivityDelay = 1
    ActiveMinInterval = 6
    RequestTimeout = 3
    RetryAfters = {0, 8}
INVARIANTS SchedulerTypeOK NeverStalls ReportedSoon
PROPERTIES AttemptsKeepDistance
