\* One run of the resync and the restore; two snapshots of a workitem with ids of two digits,
\* days of two units in a time zone one unit ahead of UTC, one fault.
CONSTANTS
    u1 = u1
    Snapshot <- TwoDigits
    Run = {r1}
    MaxTime = 5
    NewSyncPoint = {0}
    GroupLimit = 2
    DayLength = 2
    Zone = 1
    Radix = 3
    Range <- Ranges
    Filter <- NoOptions
    MaxRestores = 1
    RestoreItems <- Items
    NoRestore <- NoItems
    MaxFaults = 1
    MaxTrouble = 1
    MaxRestarts = 1
    None = None
SPECIFICATION RestoreSpec
INVARIANT RestoreTypeOK
INVARIANT SyncPointSound
PROPERTY Restored
