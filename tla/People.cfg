CONSTANTS
    Calls = {r1, r2, r3}
    Jobs = {ann, bob}
    First = First
    MaxPerHour = 1
    Concurrency = 2
    MaxAttempts = 2
    MaxAccountFaults = 1
    MaxLapses = 1

    Requests = {r1, r2, r3}
    Users = {founder, ann, bob}
    Founder = founder
    Key = Key
    Given <- MCGiven
    ScopeSets <- MCScopeSets
    MaxInvitations = 2
    MaxKeys = 1
    MaxFaults = 1
SPECIFICATION BothSpec
SYMMETRY Symmetry
INVARIANTS
    AccountsTypeOK
    EndedStaysEnded
    SessionsMatchPassword
    LinksDieOnReset
    CeilingOverrun
    TypeOK
    SoleOwner
    AdmittedOnce
    PendingInvitations
    KeysAdministerNothing
PROPERTIES
    ChangesFromAbove
    AnswersTell
CHECK_DEADLOCK FALSE
