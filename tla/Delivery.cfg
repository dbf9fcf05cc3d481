SPECIFICATION FairSpec
CONSTANTS
    j1 = j1  j2 = j2  j3 = j3  p1 = p1  p2 = p2

    Jobs <- TwoJobs
    Endpoints <- OneEndpoint
    Target <- TwoTarget
    MaxAttempts = 2
    MaxFailures = 2
    MaxFaults = 1
    MaxCrashes = 1
    MaxChanges = 2
INVARIANTS TypeOK AttemptRowOnce CompletedMeansDelivered FailuresAreExhaustedChains
PROPERTIES EveryChainEnds EventuallyDisabled
CHECK_DEADLOCK FALSE
