\* Two calls at a time, nothing is ever deleted, one crash.
CONSTANTS
    Worker = {w1, w2}
    Document = {d1, d2}
    DataId = {b1, b2, b3, b4, b5, b6, b7, b8}
    d1 = d1
    d2 = d2
    u1 = u1
    None = None
    Snapshot <- TwoSnapshots
    Files <- MCFiles
    Size <- MCSize
    History <- NoHistory
    ModifiedDay <- MCModifiedDay
    SnapshotDay <- MCSnapshotDay
    DeleteLimit = 100
    AdminDeletes = FALSE
    MaxCrashes = 1
SPECIFICATION Spec
SYMMETRY WorkerSymmetry
INVARIANT StoredIsReferenced
INVARIANT RowHasBlock
INVARIANT ListedIsStored
INVARIANT QuiescentConsistent
PROPERTY ImplementsWriteOnce
