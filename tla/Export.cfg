\* Two instances, a workitem that is saved twice, two files.
SPECIFICATION FairSpec
CONSTANTS
    Workitem = {a}
    Plain = {}
    File = {x, y}
    Instance = {i1, i2}
    PageSize = 2
    MaxSaves = 2
    MaxDeletions = 1
    MaxStarts = 1
    MaxFailures = 1
    None = None
INVARIANTS
    TypeOK
    ExportedOrQueued
PROPERTIES
    EntriesEnd
CHECK_DEADLOCK FALSE
