\* As ResyncSafety with a fair timer, one trouble, and up to three snapshots at once.
CONSTANTS
    u1 = u1
    u2 = u2
    u3 = u3
    Snapshot <- Four
    Run = {r1}
    MaxTime = 2
    NewSyncPoint = {0, 1, 2}
    GroupLimit = 2
    RestoreItems = {norestore}
    NoRestore = norestore
    MaxFaults = 2
    MaxTrouble = 1
    MaxRestarts = 1
    None = None
SPECIFICATION FairSpec
PROPERTY Terminates
PROPERTY Synchronizes
