SPECIFICATION FairSpec
CONSTANTS
    Codes = {c1, c2}
    NoCode = NoCode
    NoAuth = NoAuth
    NoFile = NoFile
    MaxInstalls = 1
    MaxEvents = 3
CONSTRAINT NoOverlap
CHECK_DEADLOCK FALSE
INVARIANT TypeOK AccountSettles PageIsReleased
PROPERTY NoUnseenOverwrite FollowsServer
