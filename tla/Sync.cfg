\* One workitem saved twice, two instances, a backup and a mirror, a failure and a crash.
CONSTANTS
    Workitem = {u1}
    Instance = {i1, i2}
    Topic = {backup, mirror}
    LocalHistory = 1
    PageSize = 1
    MaxSaves = 2
    MaxFailures = 1
    MaxCrashes = 1
    None = None
SPECIFICATION FairSpec
INVARIANT TypeOK
INVARIANT NothingLost
INVARIANT BackupArchived
PROPERTY LatestArchived
PROPERTY BackedUp
PROPERTY ImplementsDelivery
