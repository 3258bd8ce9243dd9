SPECIFICATION FairSpec
CONSTANTS
    NoKey = NoKey
    Uids = {a, b}
    Callers = {x, y}
    Intervals = {2, 3}
    MaxUpdate = 1
    MaxEdits = 2
INVARIANTS TypeOK QueueServesTasks TasksFollowProfiles
PROPERTIES ProfilesKeepUpdating
