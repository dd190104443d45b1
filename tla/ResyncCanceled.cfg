\* A resync is canceled and another one started.
CONSTANTS
    u1 = u1
    u2 = u2
    u3 = u3
    Snapshot <- Three
    Run = {r1, r2}
    MaxTime = 3
    NewSyncPoint = {0, 1, 2, 3}
    GroupLimit = 2
    RestoreItems = {norestore}
    NoRestore = norestore
    MaxFaults = 1
    MaxTrouble = 1
    MaxRestarts = 0
    None = None
SPECIFICATION Spec
PROPERTY EndsSynchronized
