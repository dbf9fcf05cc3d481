SPECIFICATION FairSpec
CONSTANTS
    r1 = r1  r2 = r2  t1 = t1  t2 = t2
    ann = ann  bob = bob  admin = admin  key = key

    Requests <- MCRequests
    Tasks <- OneTask
    Actors <- Members
    Users <- Members
    Can <- MembersCan
    Idle = Idle
    Nobody = Nobody
    Stranger = Stranger
    PageSize = 1
    MaxRequests = 3
PROPERTIES SelfAssignTakesUnassigned
CHECK_DEADLOCK FALSE
