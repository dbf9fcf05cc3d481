CONSTANTS
    Users = {founder, ann, bob}
    Founder = founder
    Key = Key
    Requests = {r1, r2}
    Given <- MCGiven
    ScopeSets <- MCScopeSets
    MaxInvitations = 1
    MaxKeys = 0
    MaxFaults = 0
SPECIFICATION Spec
INVARIANT ExactlyOneOwner
CHECK_DEADLOCK FALSE
