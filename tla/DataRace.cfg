\* The web UI deletes a snapshot while another one is saved, no crash.
CONSTANTS
    Worker = {w1, w2}
    Document = {d1, d2}
    DataId = {b1, b2, b3, b4, b5, b6, b7, b8}
    d1 = d1
    d2 = d2
    u1 = u1
    None = None
    Snapshot <- TwoSnapshots
    Files <- MCFiles
    Size <- MCSize
    History <- NoHistory
    ModifiedDay <- MCModifiedDay
    SnapshotDay <- MCSnapshotDay
    DeleteLimit = 100
    AdminDeletes = TRUE
    MaxCrashes = 0
SPECIFICATION Spec
SYMMETRY WorkerSymmetry
PROPERTY ImplementsImmutable
