SPECIFICATION FairSpec
CONSTANTS
    a = a
    b = b
    c = c
    Workitem = {a, b, c}
    Created <- CreatedSpread
    Existing = {a, b, c}
    LocalHistory = 1
    Refusals = FALSE
    Second = 2
    PageSize = 2
    MaxCopies = 1
    MaxSaves <- LastTwice
    MaxDeletions = 0
    MaxStarts = 1
    MaxFaults = 1
    MaxFailures = 1
    MaxCrashes = 1
    None = None
INVARIANTS
    BackedUpOrQueued
    FullBackupComplete
PROPERTIES
    FullBackupEnds
CHECK_DEADLOCK FALSE
