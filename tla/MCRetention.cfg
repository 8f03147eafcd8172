CONSTANTS
    p1 = p1
    s1 = s1
    s2 = s2
    s3 = s3
    p2 = p2
    Partitions = {p1, p2}
    Sessions = {s1, s2, s3}
    Mutations <- TwoPartitions
    Sizes = {2}
    ReceiptWindow = 1
    MaxLeaseBytes = 6
    MaxGroupBytes = 7
    MaxActiveLeases = 2
    MaxLeaseDuration = 2
    MaxLeaseLifetime = 3
    MaintainRecords = 2
    MaintainBytes = 3
    Skew = 1
    None = None
    MaxTail = 2
    MaxTime = 3
SPECIFICATION FairSpec
INVARIANTS
    ReclamationIsExact
    BudgetMatchesLeases
PROPERTIES
    LeasesEndForGood
    ExpiredRecordsAreReclaimed
