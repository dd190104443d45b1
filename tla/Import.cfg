\* Two workitems of two saves, one loss, one failure, two starts or cancels.
SPECIFICATION FairSpec
CONSTANTS
    Workitem = {a, b}
    Asked <- AskedFirst
    MaxSaves = 2
    MaxStarts = 2
    MaxLosses = 1
    MaxFailures = 1
    None = None
INVARIANTS
    TypeOK
    Imported
PROPERTIES
    ImportEnds
CHECK_DEADLOCK FALSE
