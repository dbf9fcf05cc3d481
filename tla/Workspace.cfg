CONSTANTS
    Actors <- MCActors
    TaskCreator = "bob"
    Requests = {r1, r2, r3}
    Names = {1, 2, 3}
    PageSize = 1
    MaxLabels = 3
    MaxComments = 3
    MaxProjects = 3
    MaxRollbacks = 1
    Attempts = {r1, r2, r3}
    maxAttempts = 2
    MaxRedisFaults = 1
    Sendings = {s1, s2, s3}
    maxPerHour = 2
    MaxSendFaults = 1
    MaxHours = 1
SPECIFICATION Spec
SYMMETRY Symmetry
INVARIANTS
    TypeOK
    LabelsAsAsked
    WalkSeesWhatStays
    LimiterWindow
    VerificationCeiling
    VerifiedBurnsLinks
PROPERTIES
    CommentsSettle
CHECK_DEADLOCK FALSE
