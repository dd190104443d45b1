\* Two runs, three snapshots, two of them modified at the same time, two troubles, a restart.
CONSTANTS
    u1 = u1
    u2 = u2
    u3 = u3
    Snapshot <- Three
    Run = {r1, r2}
    MaxTime = 3
    NewSyncPoint = {0, 1, 2, 3}
    GroupLimit = 2
    RestoreItems = {norestore}
    NoRestore = norestore
    MaxFaults = 3
    MaxTrouble = 2
    MaxRestarts = 1
    None = None
SPECIFICATION Spec
SYMMETRY RunSymmetry
INVARIANT TypeOK
INVARIANT SyncPointSound
