SPECIFICATION FairSpec
CONSTANTS
    j1 = j1  j2 = j2  j3 = j3  p1 = p1  p2 = p2

    Jobs <- MCJobs
    Endpoints <- OneEndpoint
    Target <- OneTarget
    MaxAttempts = 1
    MaxFailures = 2
    MaxFaults = 0
    MaxCrashes = 0
    MaxChanges = 0
PROPERTIES InARow
CHECK_DEADLOCK FALSE
