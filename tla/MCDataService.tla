----------------------------- MODULE MCDataService -----------------------------
(***************************************************************************)
(* Instances of DataService for TLC.  Two or three snapshots of one process *)
(* instance share a document; one document has two blocks, so that a call   *)
(* can stop between them.                                                  *)
(***************************************************************************)
EXTENDS DataService, TLC

CONSTANTS d1, d2, u1

S1 == <<u1, 1>>
S2 == <<u1, 2>>
S3 == <<u1, 3>>

TwoSnapshots == {S1, S2}
ThreeSnapshots == {S1, S2, S3}

\* d1 is attached to every snapshot, d2 only to the first one.
MCFiles == [s \in Snapshot |-> IF s = S1 THEN {d1, d2} ELSE {d1}]
MCSize == [d \in Document |-> IF d = d1 THEN 2 ELSE 1]

NoHistory == [s \in Snapshot |-> 0]
HistoryTwo == [s \in Snapshot |-> 2]

\* The snapshots were created before midnight; the last one was modified after it.
MCSnapshotDay == [s \in Snapshot |-> 1]
MCModifiedDay == [s \in Snapshot |-> IF s = S3 THEN 2 ELSE 1]

WorkerSymmetry == Permutations(Worker)

=============================================================================
