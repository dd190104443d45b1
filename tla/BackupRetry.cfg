SPECIFICATION FairSpec
CONSTANTS
    a = a
    b = b
    c = c
    Workitem = {c}
    Created <- CreatedSpread
    Existing = {}
    LocalHistory = 1
    Refusals = FALSE
    Second = 2
    PageSize = 2
    MaxCopies = 1
    MaxSaves <- LastThrice
    MaxDeletions = 1
    MaxStarts = 1
    MaxFaults = 3
    MaxFailures = 2
    MaxCrashes = 1
    None = None
INVARIANTS
    TypeOK
    BackedUpOrQueued
PROPERTIES
    ImplementsStore
    Converges
CHECK_DEADLOCK FALSE
