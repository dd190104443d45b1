\* One call at a time, $snapshot.history = 2, the web UI deletes, two crashes.
CONSTANTS
    Worker = {w1}
    Document = {d1, d2}
    DataId = {b1, b2, b3, b4, b5, b6, b7, b8}
    d1 = d1
    d2 = d2
    u1 = u1
    None = None
    Snapshot <- ThreeSnapshots
    Files <- MCFiles
    Size <- MCSize
    History <- HistoryTwo
    ModifiedDay <- MCModifiedDay
    SnapshotDay <- MCSnapshotDay
    DeleteLimit = 100
    AdminDeletes = TRUE
    MaxCrashes = 2
SPECIFICATION Spec
INVARIANT TypeOK
INVARIANT StoredIsReferenced
INVARIANT QuiescentConsistent
INVARIANT LatestKept
PROPERTY RetentionBound
PROPERTY ImplementsImmutable
