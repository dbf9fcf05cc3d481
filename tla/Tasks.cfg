SPECIFICATION FairSpec
CONSTANTS
    r1 = r1  r2 = r2  t1 = t1  t2 = t2
    ann = ann  bob = bob  admin = admin  key = key

    Requests <- MCRequests
    Tasks <- MCTasks
    Actors <- MCActors
    Users <- MCUsers
    Can <- MCCan
    Idle = Idle
    Nobody = Nobody
    Stranger = Stranger
    PageSize = 1
    MaxRequests = 4
INVARIANTS TypeOK NumberedWithoutGaps CompletedWhileDone VersionNamesContent LogTellsAssignee ListSeesWhatStays 
PROPERTIES StatusIsAudited EveryRequestAnswered
CHECK_DEADLOCK FALSE
