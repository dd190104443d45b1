--------------------------- MODULE DataDeletionProofs ---------------------------
(***************************************************************************)
(* Theorems about DataService with deletions: the cleanup by                *)
(* $snapshot.history and the web UI.  They are about an archive whose calls *)
(* come one after the other, each of which may be cut short anywhere:       *)
(* deleteDocuments looks for other references before it deletes, and the    *)
(* run DataRace shows what a call of saveSnapshot in between does to it.    *)
(***************************************************************************)
EXTENDS DataServiceProofs, FiniteSetTheorems

\* One call at a time.
SoleWorker == \A v, w \in Worker : v = w

USE DEF PC, RowKey, MoreBlocks, Limited, DeprecatedUpTo, Shared, ListedDay

-----------------------------------------------------------------------------
(* Deleting one snapshot leaves the documents of the others alone *)

\* The statements of deleteSnapshot after the one that deletes the snapshot.
UnlistingPC == {"delUniqueid", "delModified", "delRef", "delShared", "delSelect",
                "delBlock"}

\* saveSnapshot has written the references of the files behind it.
RefsBehind ==
    \A w \in Worker : pc[w] \in {"extract", "block", "row", "ref"} =>
        \A d \in Files[snap[w]] \ files[w] : <<d, snap[w]>> \in refs

\* The snapshot goes before its references, and the references of a document go
\* before its blocks.
SnapshotFirst ==
    \A w \in Worker :
        /\ pc[w] \in UnlistingPC => snap[w] \notin snapshots
        /\ pc[w] \in {"delSelect", "delBlock"} =>
               \A s \in Snapshot : <<doc[w], s>> \notin refs

\* A row never points to the data of another chunk; its own data may be deleted.
RowOwnsBlock ==
    \A c \in Chunk : documents[c] # None => documentsData[documents[c]] \in {c, None}

\* The block to which the next row will point, and the blocks to be deleted.
BlocksInHand ==
    \A w \in Worker :
        /\ pc[w] = "row" => documentsData[dataId[w]] = <<doc[w], sortId[w]>>
        /\ pc[w] = "delBlock" =>
               \A b \in dataIDs[w] : documentsData[b] \in ({doc[w]} \X Nat) \union {None}

DeleteInv ==
    /\ TypeInv
    /\ RefsBehind
    /\ SnapshotFirst
    /\ StoredIsReferenced
    /\ RowOwnsBlock
    /\ BlocksInHand

LEMMA InitDeleteInv == Init => DeleteInv
<1> SUFFICES ASSUME Init
             PROVE  DeleteInv
  OBVIOUS
<1>1. RefsBehind /\ SnapshotFirst /\ StoredIsReferenced
  BY DEF Init, RefsBehind, SnapshotFirst, UnlistingPC, StoredIsReferenced
<1>2. RowOwnsBlock /\ BlocksInHand
  BY DEF Init, RowOwnsBlock, BlocksInHand
<1>3. QED
  BY <1>1, <1>2, InitTypeInv DEF DeleteInv

LEMMA SaveDeleteInv ==
  ASSUME DeleteInv, SoleWorker, NEW w \in Worker, Save(w)
  PROVE  DeleteInv'
<1> USE DEF DeleteInv, Goto, saving, deleting, UnlistingPC
<1>0. TypeInv'
  BY SaveTypeInv
<1>a. TypeOK /\ LocalsOK
  BY DEF TypeInv
<1>1. ASSUME NEW s \in Snapshot, SkipSnapshot(w, s)
      PROVE  DeleteInv'
  BY <1>0, <1>1 DEF SkipSnapshot, vars, tables, locals, RefsBehind, SnapshotFirst,
     StoredIsReferenced, RowOwnsBlock, BlocksInHand
<1>2. ASSUME NEW s \in Snapshot, SaveSnapshot(w, s)
      PROVE  DeleteInv'
  BY <1>0, <1>a, <1>2 DEF SaveSnapshot, tables, TypeOK, SoleWorker, RefsBehind,
     SnapshotFirst, StoredIsReferenced, RowOwnsBlock, BlocksInHand
<1>3. CASE SelectMd5(w)
  BY <1>0, <1>a, <1>3 DEF SelectMd5, tables, TypeOK, SoleWorker, RefsBehind,
     SnapshotFirst, StoredIsReferenced, RowOwnsBlock, BlocksInHand
<1>4. CASE InsertBlock(w)
  <2>1. NewDataId \in DataId /\ Fresh(NewDataId)
    BY <1>4, NewDataIdType DEF InsertBlock
  <2>2. RowOwnsBlock'
    BY <1>a, <1>4, <2>1 DEF InsertBlock, RowOwnsBlock, Fresh, TypeOK
  <2>3. BlocksInHand'
    BY <1>a, <1>4, <2>1 DEF InsertBlock, BlocksInHand, TypeOK, SoleWorker
  <2>4. RefsBehind' /\ SnapshotFirst' /\ StoredIsReferenced'
    BY <1>a, <1>4 DEF InsertBlock, TypeOK, SoleWorker, RefsBehind, SnapshotFirst,
       StoredIsReferenced
  <2>5. QED
    BY <1>0, <2>2, <2>3, <2>4
<1>5. CASE InsertRow(w)
  <2>1. /\ <<doc[w], sortId[w]>> \in Chunk
        /\ documentsData[dataId[w]] = <<doc[w], sortId[w]>>
    BY <1>5, ChunkType DEF InsertRow, BlocksInHand, TypeInv, LocalsOK
  <2>2. RowOwnsBlock'
    BY <1>a, <1>5, <2>1 DEF InsertRow, RowOwnsBlock, TypeOK
  <2>3. RefsBehind' /\ SnapshotFirst' /\ StoredIsReferenced' /\ BlocksInHand'
    BY <1>a, <1>5 DEF InsertRow, TypeOK, SoleWorker, RefsBehind, SnapshotFirst,
       StoredIsReferenced, BlocksInHand
  <2>4. QED
    BY <1>0, <2>2, <2>3
<1>6. CASE InsertRef(w)
  <2>1. RefsBehind'
    BY <1>a, <1>6 DEF InsertRef, TypeOK, SoleWorker, RefsBehind
  <2>2. SnapshotFirst' /\ StoredIsReferenced' /\ RowOwnsBlock' /\ BlocksInHand'
    BY <1>a, <1>6 DEF InsertRef, TypeOK, SoleWorker, SnapshotFirst,
       StoredIsReferenced, RowOwnsBlock, BlocksInHand
  <2>3. QED
    BY <1>0, <2>1, <2>2
<1>7. CASE InsertSnapshot(w)
  <2>1. StoredIsReferenced'
    BY <1>7 DEF InsertSnapshot, RefsBehind, StoredIsReferenced
  <2>2. RefsBehind' /\ SnapshotFirst' /\ RowOwnsBlock' /\ BlocksInHand'
    BY <1>a, <1>7 DEF InsertSnapshot, TypeOK, SoleWorker, RefsBehind, SnapshotFirst,
       RowOwnsBlock, BlocksInHand
  <2>3. QED
    BY <1>0, <2>1, <2>2
<1>8. CASE InsertUniqueid(w)
  BY <1>0, <1>a, <1>8 DEF InsertUniqueid, TypeOK, SoleWorker, RefsBehind,
     SnapshotFirst, StoredIsReferenced, RowOwnsBlock, BlocksInHand
<1>9. CASE InsertModified(w)
  <2>1. pc'[w] \in {"idle", "history"}
    BY <1>a, <1>9 DEF InsertModified, Return, TypeOK
  <2>2. QED
    BY <1>0, <1>9, <2>1 DEF InsertModified, SoleWorker, RefsBehind, SnapshotFirst,
       StoredIsReferenced, RowOwnsBlock, BlocksInHand
<1>10. QED
  BY <1>1, <1>2, <1>3, <1>4, <1>5, <1>6, <1>7, <1>8, <1>9 DEF Save

LEMMA CleanupDeleteInv ==
  ASSUME DeleteInv, SoleWorker, NEW w \in Worker, Cleanup(w)
  PROVE  DeleteInv'
<1>1. TypeInv'
  BY CleanupTypeInv DEF DeleteInv
<1>2. UNCHANGED tables
  BY DEF Cleanup, SelectHistory, SelectDeprecated, DeleteNext, EndCleanup
<1>3. pc'[w] \in {"idle", "deprecated", "clean", "load"}
  BY DEF Cleanup, SelectHistory, SelectDeprecated, DeleteNext, EndCleanup, Goto,
     Return, DeleteInv, TypeInv, TypeOK
<1>4. QED
  BY <1>1, <1>2, <1>3 DEF tables, SoleWorker, UnlistingPC, DeleteInv, RefsBehind,
     SnapshotFirst, StoredIsReferenced, RowOwnsBlock, BlocksInHand

LEMMA DeleteDeleteInv ==
  ASSUME DeleteInv, SoleWorker, NEW w \in Worker, Delete(w)
  PROVE  DeleteInv'
<1> USE DEF DeleteInv, Goto, saving, deleting, UnlistingPC
<1>0. TypeInv'
  BY DeleteTypeInv
<1>a. TypeOK /\ LocalsOK
  BY DEF TypeInv
<1>1. ASSUME NEW s \in Snapshot, DeleteSnapshot(w, s)
      PROVE  DeleteInv'
  BY <1>0, <1>a, <1>1 DEF DeleteSnapshot, tables, TypeOK, SoleWorker, RefsBehind,
     SnapshotFirst, StoredIsReferenced, RowOwnsBlock, BlocksInHand
<1>2. CASE LoadSnapshot(w)
  BY <1>0, <1>a, <1>2 DEF LoadSnapshot, tables, TypeOK, SoleWorker, RefsBehind,
     SnapshotFirst, StoredIsReferenced, RowOwnsBlock, BlocksInHand
<1>3. CASE MergeDocument(w)
  BY <1>0, <1>a, <1>3 DEF MergeDocument, tables, TypeOK, SoleWorker, RefsBehind,
     SnapshotFirst, StoredIsReferenced, RowOwnsBlock, BlocksInHand
<1>4. CASE DeleteSnapshotRow(w)
  BY <1>0, <1>a, <1>4 DEF DeleteSnapshotRow, TypeOK, SoleWorker, RefsBehind,
     SnapshotFirst, StoredIsReferenced, RowOwnsBlock, BlocksInHand
<1>5. CASE DeleteUniqueid(w)
  BY <1>0, <1>a, <1>5 DEF DeleteUniqueid, TypeOK, SoleWorker, RefsBehind,
     SnapshotFirst, StoredIsReferenced, RowOwnsBlock, BlocksInHand
<1>6. CASE DeleteModified(w)
  BY <1>0, <1>a, <1>6 DEF DeleteModified, TypeOK, SoleWorker, RefsBehind,
     SnapshotFirst, StoredIsReferenced, RowOwnsBlock, BlocksInHand
<1>7. CASE DeleteRef(w)
  <2>1. snap[w] \notin snapshots
    BY <1>7 DEF DeleteRef, SnapshotFirst
  <2>2. StoredIsReferenced'
    BY <1>7, <2>1 DEF DeleteRef, StoredIsReferenced
  <2>3. RefsBehind' /\ SnapshotFirst' /\ RowOwnsBlock' /\ BlocksInHand'
    BY <1>a, <1>7, <2>1 DEF DeleteRef, TypeOK, SoleWorker, RefsBehind, SnapshotFirst,
       RowOwnsBlock, BlocksInHand
  <2>4. QED
    BY <1>0, <2>2, <2>3
<1>8. CASE SelectRefs(w)
  BY <1>0, <1>a, <1>8 DEF SelectRefs, tables, TypeOK, SoleWorker, RefsBehind,
     SnapshotFirst, StoredIsReferenced, RowOwnsBlock, BlocksInHand
<1>9. CASE SelectRows(w)
  <2> DEFINE found == { i \in 0 .. Size[doc[w]] - 1 : documents[<<doc[w], i>>] # None }
  <2>1. dataIDs'[w] = { documents[<<doc[w], i>>] : i \in found }
    BY <1>a, <1>9 DEF SelectRows, TypeOK
  <2>2. ASSUME NEW b \in dataIDs'[w]
        PROVE  documentsData[b] \in ({doc[w]} \X Nat) \union {None}
    <3>1. PICK i \in found : b = documents[<<doc[w], i>>]
      BY <2>1, <2>2
    <3>2. <<doc[w], i>> \in Chunk /\ i \in Nat
      BY <1>a, <1>9, ChunkType, DocumentAssumption DEF SelectRows, LocalsOK
    <3>3. QED
      BY <3>1, <3>2 DEF RowOwnsBlock
  <2>3. BlocksInHand'
    BY <1>a, <1>9, <2>2 DEF SelectRows, tables, BlocksInHand, TypeOK, SoleWorker
  <2>4. RefsBehind' /\ SnapshotFirst' /\ StoredIsReferenced' /\ RowOwnsBlock'
    BY <1>a, <1>9 DEF SelectRows, tables, TypeOK, SoleWorker, RefsBehind,
       SnapshotFirst, StoredIsReferenced, RowOwnsBlock
  <2>5. QED
    BY <1>0, <2>3, <2>4
<1>10. CASE DeleteBlock(w)
  <2>1. PICK b \in dataIDs[w] :
            /\ documentsData' = [documentsData EXCEPT ![b] = None]
            /\ dataIDs' = [dataIDs EXCEPT ![w] = @ \ {b}]
    BY <1>10 DEF DeleteBlock
  <2>2. RowOwnsBlock'
    BY <1>a, <1>10, <2>1 DEF DeleteBlock, RowOwnsBlock, TypeOK
  <2>3. BlocksInHand'
    BY <1>a, <1>10, <2>1 DEF DeleteBlock, BlocksInHand, TypeOK, SoleWorker
  <2>4. RefsBehind' /\ SnapshotFirst' /\ StoredIsReferenced'
    BY <1>10 DEF DeleteBlock, RefsBehind, SnapshotFirst, StoredIsReferenced
  <2>5. QED
    BY <1>0, <2>2, <2>3, <2>4
<1>11. CASE DeleteRow(w)
  <2>1. PICK i \in sortIDs[w] :
            documents' = [documents EXCEPT ![<<doc[w], i>>] = None]
    BY <1>11 DEF DeleteRow
  <2>2. RowOwnsBlock'
    BY <1>a, <1>11, <2>1 DEF DeleteRow, RowOwnsBlock, TypeOK
  <2>3. RefsBehind' /\ SnapshotFirst' /\ StoredIsReferenced' /\ BlocksInHand'
    BY <1>11 DEF DeleteRow, RefsBehind, SnapshotFirst, StoredIsReferenced, BlocksInHand
  <2>4. QED
    BY <1>0, <2>2, <2>3
<1>12. CASE NextFile(w)
  BY <1>0, <1>a, <1>12 DEF NextFile, tables, TypeOK, SoleWorker, RefsBehind,
     SnapshotFirst, StoredIsReferenced, RowOwnsBlock, BlocksInHand
<1>13. CASE EndDelete(w)
  BY <1>0, <1>a, <1>13 DEF EndDelete, tables, TypeOK, SoleWorker, RefsBehind,
     SnapshotFirst, StoredIsReferenced, RowOwnsBlock, BlocksInHand
<1>14. QED
  BY <1>1, <1>2, <1>3, <1>4, <1>5, <1>6, <1>7, <1>8, <1>9, <1>10, <1>11,
     <1>12, <1>13 DEF Delete

LEMMA NextDeleteInv == SoleWorker /\ DeleteInv /\ [Next]_vars => DeleteInv'
<1> SUFFICES ASSUME SoleWorker, DeleteInv, [Next]_vars
             PROVE  DeleteInv'
  OBVIOUS
<1>0. TypeInv'
  BY NextTypeInv DEF DeleteInv
<1>1. ASSUME NEW w \in Worker, Crash(w)
      PROVE  DeleteInv'
  <2>1. pc'[w] = "idle" /\ UNCHANGED tables
    BY <1>1 DEF Crash, Return, DeleteInv, TypeInv, TypeOK
  <2>2. QED
    BY <1>0, <2>1 DEF tables, SoleWorker, UnlistingPC, DeleteInv, RefsBehind,
       SnapshotFirst, StoredIsReferenced, RowOwnsBlock, BlocksInHand
<1>2. CASE UNCHANGED vars
  BY <1>0, <1>2 DEF vars, tables, locals, saving, deleting, DeleteInv, RefsBehind,
     SnapshotFirst, StoredIsReferenced, RowOwnsBlock, BlocksInHand
<1>3. QED
  BY <1>1, <1>2, SaveDeleteInv, CleanupDeleteInv, DeleteDeleteInv DEF Next

LEMMA Deletes == ASSUME SoleWorker PROVE Spec => []DeleteInv
<1>1. DeleteInv /\ [Next]_vars => DeleteInv'
  BY NextDeleteInv
<1>2. QED
  BY <1>1, InitDeleteInv, PTL DEF Spec

\* Only the rows and blocks of the document a worker deletes become unreadable.
LEMMA WholeUnlessDeleted ==
  ASSUME DeleteInv, NEW w \in Worker, Save(w) \/ Cleanup(w) \/ Delete(w) \/ Crash(w),
         NEW d \in Document, Whole(d), ~(pc[w] = "delBlock" /\ doc[w] = d)
  PROVE  Whole(d)'
<1>0. \A i \in 0 .. Size[d] - 1 : <<d, i>> \in Chunk
  BY ChunkType
<1>a. TypeOK /\ LocalsOK
  BY DEF DeleteInv, TypeInv
<1>1. CASE InsertBlock(w)
  <2>1. NewDataId \in DataId /\ Fresh(NewDataId)
    BY <1>1, NewDataIdType DEF InsertBlock
  <2>2. QED
    BY <1>0, <1>a, <1>1, <2>1 DEF InsertBlock, Fresh, Whole, TypeOK
<1>2. CASE InsertRow(w)
  <2>1. /\ <<doc[w], sortId[w]>> \in Chunk
        /\ dataId[w] \in DataId
        /\ documentsData[dataId[w]] = <<doc[w], sortId[w]>>
    BY <1>a, <1>2, ChunkType DEF InsertRow, DeleteInv, BlocksInHand, LocalsOK
  <2>2. dataId[w] # None
    BY <2>1, NoneAssumption
  <2>3. QED
    BY <1>0, <1>a, <1>2, <2>1, <2>2 DEF InsertRow, Whole, TypeOK
<1>3. CASE DeleteBlock(w)
  <2>1. PICK b \in dataIDs[w] : documentsData' = [documentsData EXCEPT ![b] = None]
    BY <1>3 DEF DeleteBlock
  <2>2. d # doc[w] /\ documents' = documents
    BY <1>3 DEF DeleteBlock
  <2>3. documentsData[b] \in ({doc[w]} \X Nat) \union {None}
    BY <1>3 DEF DeleteBlock, DeleteInv, BlocksInHand
  <2>4. ASSUME NEW i \in 0 .. Size[d] - 1
        PROVE  documentsData'[documents[<<d, i>>]] = <<d, i>>
    <3>1. documentsData[documents[<<d, i>>]] = <<d, i>>
      BY DEF Whole
    <3>2. documents[<<d, i>>] \in DataId
      BY <1>0, <1>a DEF Whole, TypeOK
    <3>3. documents[<<d, i>>] = b => <<d, i>> = None
      BY <2>2, <2>3, <3>1
    <3>4. QED
      BY <1>a, <2>1, <3>1, <3>2, <3>3 DEF TypeOK
  <2>5. QED
    BY <2>2, <2>4 DEF Whole
<1>4. CASE DeleteRow(w)
  BY <1>0, <1>a, <1>4 DEF DeleteRow, Whole, TypeOK
<1>5. CASE ~InsertBlock(w) /\ ~InsertRow(w) /\ ~DeleteBlock(w) /\ ~DeleteRow(w)
  <2>1. UNCHANGED <<documents, documentsData>>
    BY <1>5 DEF Save, SkipSnapshot, SaveSnapshot, SelectMd5, InsertRef,
       InsertSnapshot, InsertUniqueid, InsertModified, Cleanup, SelectHistory,
       SelectDeprecated, DeleteNext, EndCleanup, Delete, DeleteSnapshot, LoadSnapshot,
       MergeDocument, DeleteSnapshotRow, DeleteUniqueid, DeleteModified, DeleteRef,
       SelectRefs, SelectRows, NextFile, EndDelete, Crash, vars, tables
  <2>2. QED
    BY <2>1 DEF Whole
<1>6. QED
  BY <1>1, <1>2, <1>3, <1>4, <1>5

\* A document of a stored snapshot has a reference, so it is not being deleted.
LEMMA StoredNotDeleted ==
  ASSUME DeleteInv, NEW w \in Worker, pc[w] = "delBlock",
         NEW s \in snapshots, NEW d \in Files[s]
  PROVE  doc[w] # d
  BY DEF DeleteInv, SnapshotFirst, StoredIsReferenced, TypeInv, TypeOK

\* The two statements that change the table snapshots change no document.
LEMMA SnapshotsChangeOrNot ==
  ASSUME DeleteInv, NEW w \in Worker, Save(w) \/ Cleanup(w) \/ Delete(w) \/ Crash(w)
  PROVE  \/ UNCHANGED snapshots
         \/ /\ UNCHANGED <<documents, documentsData>>
            /\ \E s \in Snapshot : \/ snapshots' = snapshots \union {s}
                                   \/ snapshots' = snapshots \ {s}
<1>1. CASE InsertSnapshot(w)
  BY <1>1 DEF InsertSnapshot, DeleteInv, TypeInv, LocalsOK
<1>2. CASE DeleteSnapshotRow(w)
  BY <1>2 DEF DeleteSnapshotRow, DeleteInv, TypeInv, LocalsOK
<1>3. CASE ~InsertSnapshot(w) /\ ~DeleteSnapshotRow(w)
  BY <1>3 DEF Save, SkipSnapshot, SaveSnapshot, SelectMd5, InsertBlock, InsertRow,
     InsertRef, InsertUniqueid, InsertModified, Cleanup, SelectHistory,
     SelectDeprecated, DeleteNext, EndCleanup, Delete, DeleteSnapshot, LoadSnapshot,
     MergeDocument, DeleteUniqueid, DeleteModified, DeleteRef, SelectRefs, SelectRows,
     DeleteBlock, DeleteRow, NextFile, EndDelete, Crash, vars, tables
<1>4. QED
  BY <1>1, <1>2, <1>3

\* InsertSnapshot adds a snapshot, DeleteSnapshotRow removes one, a row or a block
\* that is written may complete some, and everything else goes unnoticed.
LEMMA StepImmutable ==
  ASSUME DeleteInv, NEW w \in Worker, Save(w) \/ Cleanup(w) \/ Delete(w) \/ Crash(w)
  PROVE  \/ Abstract!Grow
         \/ \E s \in Snapshot : Abstract!Remove(s)
         \/ UNCHANGED ArchiveStatus
<1> DEFINE Readable(s) == \A d \in Files[s] : Whole(d)
<1>0. \A s \in snapshots : Readable(s) => Readable(s)'
  <2> SUFFICES ASSUME NEW s \in snapshots, NEW d \in Files[s], Whole(d)
               PROVE  Whole(d)'
    BY SnapshotAssumption DEF DeleteInv, TypeInv, TypeOK
  <2>1. d \in Document
    BY SnapshotAssumption DEF DeleteInv, TypeInv, TypeOK
  <2>2. QED
    BY <2>1, WholeUnlessDeleted, StoredNotDeleted
<1>1. CASE UNCHANGED snapshots
  <2> DEFINE S == { s \in snapshots : ~Readable(s) /\ Readable(s)' }
  <2>1. S \subseteq Snapshot
    BY DEF DeleteInv, TypeInv, TypeOK
  <2>2. \A s \in S : ArchiveStatus[s] = "partial"
    BY <2>1 DEF ArchiveStatus
  <2>3. ArchiveStatus' =
            [s \in Snapshot |-> IF s \in S THEN "complete" ELSE ArchiveStatus[s]]
    BY <1>0, <1>1 DEF ArchiveStatus
  <2>4. QED
    BY <2>1, <2>2, <2>3 DEF Abstract!Grow, Abstract!Complete
<1>2. CASE /\ UNCHANGED <<documents, documentsData>>
           /\ \E s \in Snapshot : \/ snapshots' = snapshots \union {s}
                                  \/ snapshots' = snapshots \ {s}
  <2>1. PICK s \in Snapshot : \/ snapshots' = snapshots \union {s}
                              \/ snapshots' = snapshots \ {s}
    BY <1>2
  <2>2. \A t \in Snapshot : Readable(t)' <=> Readable(t)
    BY <1>2 DEF Whole
  <2>3. CASE snapshots' = snapshots \ {s}
    <3>1. ArchiveStatus' = [ArchiveStatus EXCEPT ![s] = "absent"]
      BY <2>2, <2>3 DEF ArchiveStatus
    <3>2. QED
      BY <3>1 DEF Abstract!Remove
  <2>4. CASE snapshots' = snapshots \union {s} /\ s \in snapshots
    BY <2>2, <2>4 DEF ArchiveStatus
  <2>5. CASE snapshots' = snapshots \union {s} /\ s \notin snapshots
    <3>1. ArchiveStatus[s] = "absent"
      BY <2>5 DEF ArchiveStatus
    <3>2. ArchiveStatus' = [ArchiveStatus EXCEPT ![s] =
                                IF Readable(s) THEN "complete" ELSE "partial"]
      BY <2>2, <2>5 DEF ArchiveStatus
    <3>3. Abstract!Add(s)
      BY <3>1, <3>2 DEF Abstract!Add
    <3>4. QED
      BY <3>3 DEF Abstract!Grow
  <2>6. QED
    BY <2>1, <2>3, <2>4, <2>5
<1>3. QED
  BY <1>1, <1>2, SnapshotsChangeOrNot

\* As long as calls come one after the other, saving, cleaning up, deleting from
\* the web UI and a crash between any two statements leave every stored snapshot
\* referenced by its documents: what deleteDocuments relies on.
THEOREM ReferencedWithDeletions ==
  ASSUME SoleWorker PROVE Spec => []StoredIsReferenced
<1>1. DeleteInv => StoredIsReferenced
  BY DEF DeleteInv
<1>2. QED
  BY <1>1, Deletes, PTL

\* As long as calls come one after the other, the six tables are an archive whose
\* snapshots disappear only as a whole: deleting one takes no document away from
\* another one that shares it, wherever the deletion is cut short.
THEOREM Immutable ==
  ASSUME SoleWorker PROVE Spec => ImplementsImmutable
<1>1. Init => Abstract!Init
  BY InitWriteOnce
<1>2. DeleteInv /\ [Next]_vars =>
          [Abstract!Grow \/ \E s \in Snapshot : Abstract!Remove(s)]_ArchiveStatus
  <2>1. CASE UNCHANGED vars
    BY <2>1 DEF vars, tables, ArchiveStatus, Whole
  <2>2. QED
    BY <2>1, StepImmutable DEF Next
<1>3. QED
  BY <1>1, <1>2, Deletes, PTL DEF Spec, ImplementsImmutable, Abstract!ImmutableSpec

-----------------------------------------------------------------------------
(* With deletions, a call that is not cut short leaves nothing half done *)

\* The loop of cleanupSnaphostHistory over the snapshots it deletes.
CleaningPC == {"clean", "load", "merge"} \union UnlistingPC

\* The snapshot of the call that is about to execute a statement.
At(label) == { snap[w] : w \in { v \in Worker : pc[v] = label } }

\* The entries of snapshots_by_modified that belong to some snapshots.
Entries(S) == { <<ModifiedDay[s], s>> : s \in S }

\* Each index lists what is stored, but for the snapshot in hand.
IndexesExact ==
    crashes = 0 =>
        /\ snapshots = (byUniqueid \union At("uniqueid")) \ At("delUniqueid")
        /\ Entries(byUniqueid) =
               (byModified \union Entries(At("modified"))) \ Entries(At("delModified"))

\* What the cleanup still has to delete is stored, and is not the snapshot in hand.
DoomedStored ==
    \A w \in Worker :
        /\ pc[w] \notin CleaningPC => deprecated[w] = {}
        /\ crashes = 0 =>
            /\ deprecated[w] \subseteq snapshots
            /\ pc[w] \in CleaningPC \ {"clean"} => snap[w] \notin deprecated[w]
            /\ pc[w] \in {"load", "merge"} => snap[w] \in snapshots
            /\ pc[w] \in {"merge", "delUniqueid", "delModified"} =>
                   day[w] = ModifiedDay[snap[w]]

\* The row of a chunk and the data it points to.
ChunkStored(c) == documents[c] # None /\ documentsData[documents[c]] = c

\* A row of every document of a stored snapshot is there, and a row of every file
\* that saveSnapshot is done with.
FilesStored ==
    /\ \A s \in snapshots : \A d \in Files[s] : StoredMd5(d)
    /\ \A w \in Worker :
        /\ pc[w] = "ref" => StoredMd5(doc[w])
        /\ pc[w] \in {"extract", "block", "row", "ref"} =>
               \A d \in Files[snap[w]] \ files[w] : StoredMd5(d)

\* A document of which there is a row is whole, but for the one in hand.
DocumentsWhole ==
    crashes = 0 =>
        /\ \A d \in Document : StoredMd5(d) =>
               \/ Whole(d)
               \/ \E w \in Worker : pc[w] \in {"block", "row", "delBlock"} /\ doc[w] = d
        /\ \A w \in Worker :
            /\ pc[w] \in {"block", "row"} =>
                   \A i \in 0 .. sortId[w] - 1 : ChunkStored(<<doc[w], i>>)
            /\ pc[w] = "delBlock" =>
                   \A i \in 0 .. Size[doc[w]] - 1 :
                       documents[<<doc[w], i>>] # None => i \in sortIDs[w]

CompleteInv ==
    DeleteInv /\ IndexesExact /\ DoomedStored /\ FilesStored /\ DocumentsWhole

LEMMA InitCompleteInv == Init => CompleteInv
<1> SUFFICES ASSUME Init
             PROVE  CompleteInv
  OBVIOUS
<1>1. \A d \in Document : ~StoredMd5(d)
  BY ChunkType DEF Init, StoredMd5
<1>2. IndexesExact
  BY DEF Init, IndexesExact, At, Entries
<1>3. DoomedStored
  BY DEF Init, DoomedStored, CleaningPC, UnlistingPC
<1>4. FilesStored /\ DocumentsWhole
  BY <1>1 DEF Init, FilesStored, DocumentsWhole
<1>5. QED
  BY <1>2, <1>3, <1>4, InitDeleteInv DEF CompleteInv

\* With one call at a time, At is about that call.
LEMMA AtSole ==
  ASSUME SoleWorker, NEW w \in Worker, NEW label
  PROVE  /\ At(label) = IF pc[w] = label THEN {snap[w]} ELSE {}
         /\ At(label)' = IF pc'[w] = label THEN {snap'[w]} ELSE {}
  BY DEF SoleWorker, At

\* The four statements that change an index, and the two that change the table
\* snapshots, keep them in step.
LEMMA StepIndexesExact ==
  ASSUME CompleteInv, SoleWorker, NEW w \in Worker, Save(w) \/ Cleanup(w) \/ Delete(w)
  PROVE  IndexesExact'
<1> USE DEF Goto, saving, deleting
<1>a. TypeOK /\ LocalsOK
  BY DEF CompleteInv, DeleteInv, TypeInv
<1>b. crashes' = crashes
  BY DEF Save, SkipSnapshot, SaveSnapshot, SelectMd5, InsertBlock, InsertRow,
     InsertRef, InsertSnapshot, InsertUniqueid, InsertModified, Cleanup,
     SelectHistory, SelectDeprecated, DeleteNext, EndCleanup, Delete, DeleteSnapshot,
     LoadSnapshot, MergeDocument, DeleteSnapshotRow, DeleteUniqueid, DeleteModified,
     DeleteRef, SelectRefs, SelectRows, DeleteBlock, DeleteRow, NextFile, EndDelete,
     vars
<1> SUFFICES ASSUME crashes = 0
             PROVE  /\ snapshots' = (byUniqueid' \union At("uniqueid")') \ At("delUniqueid")'
                    /\ Entries(byUniqueid') =
                           (byModified' \union Entries(At("modified")'))
                               \ Entries(At("delModified")')
  BY <1>b DEF IndexesExact, Entries
<1>c. /\ snapshots = (byUniqueid \union At("uniqueid")) \ At("delUniqueid")
      /\ Entries(byUniqueid) =
             (byModified \union Entries(At("modified"))) \ Entries(At("delModified"))
  BY DEF CompleteInv, IndexesExact
<1> DEFINE Here(label) == IF pc[w] = label THEN {snap[w]} ELSE {}
           Then(label) == IF pc'[w] = label THEN {snap'[w]} ELSE {}
<1>d. \A label : At(label) = Here(label) /\ At(label)' = Then(label)
  BY AtSole
<1>1. CASE InsertSnapshot(w)
  <2>1. /\ pc[w] = "extract" /\ pc'[w] = "uniqueid" /\ snap' = snap
        /\ snapshots' = snapshots \union {snap[w]}
        /\ UNCHANGED <<byUniqueid, byModified>>
    BY <1>a, <1>1 DEF InsertSnapshot, TypeOK
  <2>2. QED
    BY <1>c, <1>d, <2>1 DEF Entries
<1>2. CASE InsertUniqueid(w)
  <2>1. /\ pc[w] = "uniqueid" /\ pc'[w] = "modified" /\ snap' = snap
        /\ byUniqueid' = byUniqueid \union {snap[w]}
        /\ UNCHANGED <<snapshots, byModified>>
    BY <1>a, <1>2 DEF InsertUniqueid, TypeOK
  <2>2. QED
    BY <1>c, <1>d, <2>1 DEF Entries
<1>3. CASE InsertModified(w)
  <2>1. /\ pc[w] = "modified" /\ pc'[w] \in {"idle", "history"}
        /\ byModified' = byModified \union {<<ModifiedDay[snap[w]], snap[w]>>}
        /\ UNCHANGED <<snapshots, byUniqueid>>
    BY <1>a, <1>3 DEF InsertModified, Return, TypeOK
  <2>2. QED
    BY <1>c, <1>d, <2>1 DEF Entries
<1>4. CASE DeleteSnapshotRow(w)
  <2>1. /\ pc[w] = "merge" /\ pc'[w] = "delUniqueid" /\ snap' = snap
        /\ snapshots' = snapshots \ {snap[w]}
        /\ UNCHANGED <<byUniqueid, byModified>>
    BY <1>a, <1>4 DEF DeleteSnapshotRow, TypeOK
  <2>2. QED
    BY <1>c, <1>d, <2>1 DEF Entries
<1>5. CASE DeleteUniqueid(w)
  <2>1. /\ pc[w] = "delUniqueid" /\ pc'[w] = "delModified" /\ snap' = snap
        /\ byUniqueid' = byUniqueid \ {snap[w]}
        /\ UNCHANGED <<snapshots, byModified>>
    BY <1>a, <1>5 DEF DeleteUniqueid, TypeOK
  <2>2. QED
    BY <1>c, <1>d, <2>1 DEF Entries
<1>6. CASE DeleteModified(w)
  <2>1. /\ pc[w] = "delModified" /\ pc'[w] = "delRef"
        /\ byModified' = byModified \ {<<day[w], snap[w]>>}
        /\ UNCHANGED <<snapshots, byUniqueid>>
    BY <1>a, <1>6 DEF DeleteModified, TypeOK
  <2>2. day[w] = ModifiedDay[snap[w]]
    BY <2>1 DEF CompleteInv, DoomedStored
  <2>3. QED
    BY <1>c, <1>d, <2>1, <2>2 DEF Entries
<1>7. CASE /\ ~InsertSnapshot(w) /\ ~InsertUniqueid(w) /\ ~InsertModified(w)
           /\ ~DeleteSnapshotRow(w) /\ ~DeleteUniqueid(w) /\ ~DeleteModified(w)
  <2>1. UNCHANGED <<snapshots, byUniqueid, byModified>>
    BY <1>7 DEF Save, SkipSnapshot, SaveSnapshot, SelectMd5, InsertBlock, InsertRow,
       InsertRef, Cleanup, SelectHistory, SelectDeprecated, DeleteNext, EndCleanup,
       Delete, DeleteSnapshot, LoadSnapshot, MergeDocument, DeleteRef, SelectRefs,
       SelectRows, DeleteBlock, DeleteRow, NextFile, EndDelete, vars, tables
  <2>2. \/ pc'[w] = pc[w] /\ snap'[w] = snap[w]
        \/ {pc[w], pc'[w]} \intersect {"uniqueid", "modified", "delUniqueid", "delModified"} = {}
    <3>1. CASE Save(w)
      BY <1>a, <1>7, <3>1 DEF Save, SkipSnapshot, SaveSnapshot, SelectMd5, InsertBlock,
         InsertRow, InsertRef, vars, locals, TypeOK
    <3>2. CASE Cleanup(w)
      BY <1>a, <3>2 DEF Cleanup, SelectHistory, SelectDeprecated, DeleteNext,
         EndCleanup, Return, TypeOK
    <3>3. CASE Delete(w)
      BY <1>a, <1>7, <3>3 DEF Delete, DeleteSnapshot, LoadSnapshot, MergeDocument,
         DeleteRef, SelectRefs, SelectRows, DeleteBlock, DeleteRow, NextFile,
         EndDelete, TypeOK
    <3>4. QED
      BY <3>1, <3>2, <3>3
  <2>3. QED
    BY <1>c, <1>d, <2>1, <2>2 DEF Entries
<1>8. QED
  BY <1>1, <1>2, <1>3, <1>4, <1>5, <1>6, <1>7

\* What the second query of the cleanup returns is stored, and every snapshot is
\* taken off the list before its deletion starts.
LEMMA StepDoomedStored ==
  ASSUME CompleteInv, SoleWorker, NEW w \in Worker, Save(w) \/ Cleanup(w) \/ Delete(w)
  PROVE  DoomedStored'
<1> USE DEF Goto, saving, deleting, CleaningPC, UnlistingPC
<1>a. TypeOK /\ LocalsOK
  BY DEF CompleteInv, DeleteInv, TypeInv
<1>b. DoomedStored
  BY DEF CompleteInv
<1>c. crashes' = crashes
  BY DEF Save, SkipSnapshot, SaveSnapshot, SelectMd5, InsertBlock, InsertRow,
     InsertRef, InsertSnapshot, InsertUniqueid, InsertModified, Cleanup,
     SelectHistory, SelectDeprecated, DeleteNext, EndCleanup, Delete, DeleteSnapshot,
     LoadSnapshot, MergeDocument, DeleteSnapshotRow, DeleteUniqueid, DeleteModified,
     DeleteRef, SelectRefs, SelectRows, DeleteBlock, DeleteRow, NextFile, EndDelete,
     vars
<1>d. crashes = 0 /\ pc[w] \in {"idle", "deprecated"} => byUniqueid = snapshots
  <2>1. pc[w] \in {"idle", "deprecated"} => At("uniqueid") = {} /\ At("delUniqueid") = {}
    BY AtSole
  <2>2. QED
    BY <2>1 DEF CompleteInv, IndexesExact
<1> DEFINE Doomed ==
        /\ pc[w] \notin CleaningPC => deprecated[w] = {}
        /\ crashes = 0 =>
            /\ deprecated[w] \subseteq snapshots
            /\ pc[w] \in CleaningPC \ {"clean"} => snap[w] \notin deprecated[w]
            /\ pc[w] \in {"load", "merge"} => snap[w] \in snapshots
            /\ pc[w] \in {"merge", "delUniqueid", "delModified"} =>
                   day[w] = ModifiedDay[snap[w]]
<1> SUFFICES Doomed'
  BY DEF SoleWorker, DoomedStored
<1>e. Doomed
  BY <1>b DEF DoomedStored
<1>1. CASE Save(w)
  <2>1. pc[w] \notin CleaningPC /\ deprecated[w] = {}
    BY <1>1, <1>e DEF Save, SkipSnapshot, SaveSnapshot, SelectMd5, InsertBlock,
       InsertRow, InsertRef, InsertSnapshot, InsertUniqueid, InsertModified
  <2>2. deprecated'[w] = {} /\ pc'[w] \notin CleaningPC
    BY <1>1, <1>a, <2>1 DEF Save, SkipSnapshot, SaveSnapshot, SelectMd5, InsertBlock,
       InsertRow, InsertRef, InsertSnapshot, InsertUniqueid, InsertModified, Return,
       vars, locals, TypeOK
  <2>3. QED
    BY <2>2
<1>2. CASE SelectHistory(w)
  <2>1. pc[w] = "history" /\ deprecated[w] = {}
    BY <1>2, <1>e DEF SelectHistory
  <2>2. deprecated'[w] = {} /\ pc'[w] \in {"idle", "deprecated"}
    BY <1>2, <1>a, <2>1 DEF SelectHistory, Return, TypeOK
  <2>3. QED
    BY <2>2
<1>3. CASE SelectDeprecated(w)
  <2>1. deprecated'[w] \subseteq byUniqueid
    BY <1>3, <1>a DEF SelectDeprecated, OldestOf, Siblings, TypeOK
  <2>2. pc[w] = "deprecated" /\ pc'[w] = "clean" /\ snapshots' = snapshots
    BY <1>3, <1>a DEF SelectDeprecated, tables, TypeOK
  <2>3. QED
    BY <1>c, <1>d, <2>1, <2>2
<1>4. CASE DeleteNext(w)
  <2>1. PICK t \in OldestOf(deprecated[w], 1) :
            /\ snap' = [snap EXCEPT ![w] = t]
            /\ deprecated' = [deprecated EXCEPT ![w] = @ \ {t}]
    BY <1>4 DEF DeleteNext
  <2>2. t \in deprecated[w]
    BY DEF OldestOf
  <2>3. /\ snap'[w] = t /\ deprecated'[w] = deprecated[w] \ {t}
        /\ pc'[w] = "load" /\ snapshots' = snapshots
    BY <1>4, <1>a, <2>1 DEF DeleteNext, tables, TypeOK
  <2>4. QED
    BY <1>c, <1>e, <2>2, <2>3
<1>5. CASE EndCleanup(w)
  BY <1>5, <1>a DEF EndCleanup, Return, TypeOK
<1>6. ASSUME NEW s \in Snapshot, DeleteSnapshot(w, s)
      PROVE  Doomed'
  <2>1. /\ pc[w] = "idle" /\ pc'[w] = "load" /\ snap'[w] = s /\ s \in byUniqueid
        /\ deprecated' = deprecated /\ snapshots' = snapshots
    BY <1>6, <1>a DEF DeleteSnapshot, tables, TypeOK
  <2>2. QED
    BY <1>c, <1>d, <1>e, <2>1
<1>7. CASE LoadSnapshot(w)
  <2>1. /\ pc[w] = "load" /\ pc'[w] = "merge" /\ snap' = snap
        /\ day'[w] = IF snap[w] \in snapshots THEN ModifiedDay[snap[w]]
                                              ELSE SnapshotDay[snap[w]]
        /\ deprecated' = deprecated /\ snapshots' = snapshots
    BY <1>7, <1>a DEF LoadSnapshot, tables, TypeOK
  <2>2. QED
    BY <1>c, <1>e, <2>1
<1>8. CASE DeleteSnapshotRow(w)
  <2>1. /\ pc[w] = "merge" /\ pc'[w] = "delUniqueid"
        /\ UNCHANGED <<snap, day, deprecated>>
        /\ snapshots' = snapshots \ {snap[w]}
    BY <1>8, <1>a DEF DeleteSnapshotRow, TypeOK
  <2>2. QED
    BY <1>c, <1>e, <2>1
<1>9. CASE Delete(w) /\ ~(\E s \in Snapshot : DeleteSnapshot(w, s))
           /\ ~LoadSnapshot(w) /\ ~DeleteSnapshotRow(w)
  <2>1. UNCHANGED <<snapshots, snap, day, deprecated>>
    BY <1>9 DEF Delete, MergeDocument, DeleteUniqueid, DeleteModified, DeleteRef,
       SelectRefs, SelectRows, DeleteBlock, DeleteRow, NextFile, EndDelete, tables
  <2>2. /\ pc[w] \in CleaningPC \ {"clean", "load"}
        /\ pc'[w] \in CleaningPC \ {"load"}
        /\ pc'[w] \in {"merge", "delUniqueid"} => pc'[w] = pc[w]
        /\ pc'[w] = "delModified" => pc[w] = "delUniqueid"
    BY <1>9, <1>a DEF Delete, MergeDocument, DeleteUniqueid, DeleteModified,
       DeleteRef, SelectRefs, SelectRows, DeleteBlock, DeleteRow, NextFile, EndDelete,
       TypeOK
  <2>3. QED
    BY <1>c, <1>e, <2>1, <2>2
<1>10. QED
  BY <1>1, <1>2, <1>3, <1>4, <1>5, <1>6, <1>7, <1>8, <1>9 DEF Cleanup

\* Rows of a document go only while the document is deleted.
LEMMA RowsStayUnlessDeleted ==
  ASSUME DeleteInv, NEW w \in Worker, Save(w) \/ Cleanup(w) \/ Delete(w) \/ Crash(w)
  PROVE  /\ \A d \in Document : \A i \in 0 .. Size[d] - 1 :
                documents[<<d, i>>] # None /\ ~(pc[w] = "delBlock" /\ doc[w] = d)
                    => documents'[<<d, i>>] # None
         /\ \A d \in Document :
                StoredMd5(d) /\ ~(pc[w] = "delBlock" /\ doc[w] = d) => StoredMd5(d)'
<1>a. TypeOK /\ LocalsOK
  BY DEF DeleteInv, TypeInv
<1>1. \A d \in Document : \A i \in 0 .. Size[d] - 1 :
          documents[<<d, i>>] # None /\ ~(pc[w] = "delBlock" /\ doc[w] = d)
              => documents'[<<d, i>>] # None
  <2> SUFFICES ASSUME NEW d \in Document, NEW i \in 0 .. Size[d] - 1,
                      documents[<<d, i>>] # None, ~(pc[w] = "delBlock" /\ doc[w] = d)
               PROVE  documents'[<<d, i>>] # None
    OBVIOUS
  <2>0. <<d, i>> \in Chunk
    BY ChunkType
  <2>1. CASE InsertRow(w)
    <3>1. dataId[w] \in DataId
      BY <1>a, <2>1 DEF InsertRow, LocalsOK
    <3>2. dataId[w] # None
      BY <3>1, NoneAssumption
    <3>3. QED
      BY <1>a, <2>0, <2>1, <3>2 DEF InsertRow, TypeOK
  <2>2. CASE DeleteRow(w)
    BY <1>a, <2>0, <2>2 DEF DeleteRow, TypeOK
  <2>3. CASE ~InsertRow(w) /\ ~DeleteRow(w)
    <3>1. UNCHANGED documents
      BY <2>3 DEF Save, SkipSnapshot, SaveSnapshot, SelectMd5, InsertBlock, InsertRef,
         InsertSnapshot, InsertUniqueid, InsertModified, Cleanup, SelectHistory,
         SelectDeprecated, DeleteNext, EndCleanup, Delete, DeleteSnapshot,
         LoadSnapshot, MergeDocument, DeleteSnapshotRow, DeleteUniqueid,
         DeleteModified, DeleteRef, SelectRefs, SelectRows, DeleteBlock, NextFile,
         EndDelete, Crash, vars, tables
    <3>2. QED
      BY <3>1
  <2>4. QED
    BY <2>1, <2>2, <2>3
<1>2. QED
  BY <1>1 DEF StoredMd5

\* Neither a deletion nor a crash leaves a stored snapshot without the rows of one
\* of its documents: what is deleted belongs to none.
LEMMA StepFilesStored ==
  ASSUME CompleteInv, SoleWorker, NEW w \in Worker,
         Save(w) \/ Cleanup(w) \/ Delete(w) \/ Crash(w)
  PROVE  FilesStored'
<1> USE DEF Goto, saving, deleting
<1>a. TypeOK /\ LocalsOK /\ DeleteInv /\ FilesStored
  BY DEF CompleteInv, DeleteInv, TypeInv
<1>b. \A s \in Snapshot : Files[s] \subseteq Document
  BY SnapshotAssumption
<1>c. \A d \in Document :
          StoredMd5(d) /\ ~(pc[w] = "delBlock" /\ doc[w] = d) => StoredMd5(d)'
  BY <1>a, RowsStayUnlessDeleted
<1>d. \A s \in snapshots : \A d \in Files[s] : StoredMd5(d)'
  BY <1>a, <1>b, <1>c, StoredNotDeleted DEF FilesStored, TypeOK
<1>1. (\A s \in snapshots : \A d \in Files[s] : StoredMd5(d))'
  <2>1. CASE InsertSnapshot(w)
    <3>1. snapshots' = snapshots \union {snap[w]} /\ snap[w] \in Snapshot
      BY <1>a, <2>1 DEF InsertSnapshot, LocalsOK
    <3>2. \A d \in Files[snap[w]] : StoredMd5(d)'
      BY <1>a, <1>b, <1>c, <2>1, <3>1 DEF InsertSnapshot, FilesStored
    <3>3. QED
      BY <1>d, <3>1, <3>2
  <2>2. CASE ~InsertSnapshot(w)
    <3>1. snapshots' \subseteq snapshots
      BY <2>2 DEF Save, SkipSnapshot, SaveSnapshot, SelectMd5, InsertBlock, InsertRow,
         InsertRef, InsertUniqueid, InsertModified, Cleanup, SelectHistory,
         SelectDeprecated, DeleteNext, EndCleanup, Delete, DeleteSnapshot,
         LoadSnapshot, MergeDocument, DeleteSnapshotRow, DeleteUniqueid,
         DeleteModified, DeleteRef, SelectRefs, SelectRows, DeleteBlock, DeleteRow,
         NextFile, EndDelete, Crash, vars, tables
    <3>2. QED
      BY <1>d, <3>1
  <2>3. QED
    BY <2>1, <2>2
<1>2. /\ pc'[w] = "ref" => StoredMd5(doc[w])'
      /\ pc'[w] \in {"extract", "block", "row", "ref"} =>
             (\A d \in Files[snap[w]] \ files[w] : StoredMd5(d))'
  <2>0. pc[w] \in {"extract", "block", "row", "ref"} =>
            \A d \in Files[snap[w]] \ files[w] : StoredMd5(d)'
    BY <1>a, <1>b, <1>c DEF FilesStored, LocalsOK
  <2>1. CASE \E s \in Snapshot : SaveSnapshot(w, s)
    BY <1>a, <2>1 DEF SaveSnapshot, TypeOK
  <2>2. CASE SelectMd5(w)
    <3>1. PICK d \in files[w] :
              /\ doc' = [doc EXCEPT ![w] = d]
              /\ pc' = [pc EXCEPT ![w] = IF StoredMd5(d) THEN "ref" ELSE "block"]
      BY <2>2 DEF SelectMd5
    <3>2. d \in Document /\ doc'[w] = d /\ UNCHANGED <<snap, files>> /\ pc[w] = "extract"
      BY <1>a, <2>2, <3>1 DEF SelectMd5, TypeOK
    <3>3. pc'[w] = "ref" => StoredMd5(d)
      BY <1>a, <3>1 DEF TypeOK
    <3>4. QED
      BY <1>c, <2>0, <3>2, <3>3
  <2>3. CASE InsertBlock(w)
    BY <1>a, <2>0, <2>3 DEF InsertBlock, TypeOK
  <2>4. CASE InsertRow(w)
    <3>1. /\ doc[w] \in Document
          /\ sortId[w] \in 0 .. Size[doc[w]] - 1
          /\ dataId[w] \in DataId
          /\ UNCHANGED <<doc, snap, files>>
          /\ pc[w] = "row"
      BY <1>a, <2>4 DEF InsertRow, LocalsOK
    <3>2. documents'[<<doc[w], sortId[w]>>] # None
      BY <1>a, <2>4, <3>1, ChunkType, NoneAssumption DEF InsertRow, TypeOK
    <3>3. StoredMd5(doc[w])'
      BY <3>1, <3>2 DEF StoredMd5
    <3>4. QED
      BY <2>0, <3>1, <3>3
  <2>5. CASE InsertRef(w)
    <3>1. /\ pc[w] = "ref" /\ pc'[w] = "extract"
          /\ UNCHANGED <<snap, doc>>
          /\ files'[w] = files[w] \ {doc[w]}
          /\ doc[w] \in Document
      BY <1>a, <2>5 DEF InsertRef, TypeOK, LocalsOK
    <3>2. StoredMd5(doc[w])'
      BY <1>a, <1>c, <3>1 DEF FilesStored
    <3>3. QED
      BY <2>0, <3>1, <3>2
  <2>6. CASE \E s \in Snapshot : SkipSnapshot(w, s)
    BY <2>6 DEF SkipSnapshot, vars, locals
  <2>7. CASE InsertSnapshot(w) \/ InsertUniqueid(w) \/ InsertModified(w)
             \/ Cleanup(w) \/ Delete(w) \/ Crash(w)
    <3>1. pc'[w] \notin {"extract", "block", "row", "ref"}
      BY <1>a, <2>7 DEF InsertSnapshot, InsertUniqueid, InsertModified, Cleanup,
         SelectHistory, SelectDeprecated, DeleteNext, EndCleanup, Delete,
         DeleteSnapshot, LoadSnapshot, MergeDocument, DeleteSnapshotRow,
         DeleteUniqueid, DeleteModified, DeleteRef, SelectRefs, SelectRows,
         DeleteBlock, DeleteRow, NextFile, EndDelete, Crash, Return, TypeOK
    <3>2. QED
      BY <3>1
  <2>8. QED
    BY <2>1, <2>2, <2>3, <2>4, <2>5, <2>6, <2>7 DEF Save
<1>3. QED
  BY <1>1, <1>2 DEF SoleWorker, FilesStored

\* saveSnapshot leaves a document when its last row is written, deleteDocuments
\* when its last row is gone.
LEMMA StepDocumentsWhole ==
  ASSUME CompleteInv, SoleWorker, NEW w \in Worker, Save(w) \/ Cleanup(w) \/ Delete(w)
  PROVE  DocumentsWhole'
<1> USE DEF Goto, saving, deleting
<1>a. TypeOK /\ LocalsOK /\ DeleteInv /\ DocumentsWhole
  BY DEF CompleteInv, DeleteInv, TypeInv
<1>b. crashes' = crashes
  BY DEF Save, SkipSnapshot, SaveSnapshot, SelectMd5, InsertBlock, InsertRow,
     InsertRef, InsertSnapshot, InsertUniqueid, InsertModified, Cleanup,
     SelectHistory, SelectDeprecated, DeleteNext, EndCleanup, Delete, DeleteSnapshot,
     LoadSnapshot, MergeDocument, DeleteSnapshotRow, DeleteUniqueid, DeleteModified,
     DeleteRef, SelectRefs, SelectRows, DeleteBlock, DeleteRow, NextFile, EndDelete,
     vars
<1> DEFINE Busy(d) == pc[w] \in {"block", "row", "delBlock"} /\ doc[w] = d
           Rows == /\ pc[w] \in {"block", "row"} =>
                          \A i \in 0 .. sortId[w] - 1 : ChunkStored(<<doc[w], i>>)
                   /\ pc[w] = "delBlock" =>
                          \A i \in 0 .. Size[doc[w]] - 1 :
                              documents[<<doc[w], i>>] # None => i \in sortIDs[w]
<1> SUFFICES ASSUME crashes = 0
             PROVE  /\ \A d \in Document : StoredMd5(d)' => Whole(d)' \/ Busy(d)'
                    /\ Rows'
  BY <1>b DEF SoleWorker, DocumentsWhole
<1>c. /\ \A d \in Document : StoredMd5(d) => Whole(d) \/ Busy(d)
      /\ Rows
  BY <1>a DEF SoleWorker, DocumentsWhole
<1>d. \A d \in Document : Whole(d) /\ ~(pc[w] = "delBlock" /\ doc[w] = d) => Whole(d)'
  BY <1>a, WholeUnlessDeleted
<1>1. CASE SelectMd5(w)
  <2>1. /\ pc[w] = "extract" /\ sortId'[w] = 0
        /\ UNCHANGED documents
        /\ pc'[w] \in {"ref", "block"}
    BY <1>a, <1>1 DEF SelectMd5, tables, TypeOK
  <2>2. \A d \in Document : StoredMd5(d)' => Whole(d)'
    BY <1>c, <1>d, <2>1 DEF StoredMd5
  <2>3. QED
    BY <2>1, <2>2
<1>2. CASE InsertBlock(w)
  <2>1. NewDataId \in DataId /\ Fresh(NewDataId)
    BY <1>2, NewDataIdType DEF InsertBlock
  <2>2. /\ pc[w] = "block" /\ pc'[w] = "row"
        /\ UNCHANGED <<documents, doc, sortId>>
        /\ documentsData' = [documentsData EXCEPT ![NewDataId] = <<doc[w], sortId[w]>>]
    BY <1>a, <1>2 DEF InsertBlock, TypeOK
  <2>3. \A i \in 0 .. sortId[w] - 1 : <<doc[w], i>> \in Chunk
    BY <1>a, <2>2, ChunkType, DocumentAssumption DEF LocalsOK
  <2>4. \A i \in 0 .. sortId[w] - 1 : ChunkStored(<<doc[w], i>>)'
    BY <1>a, <1>c, <2>1, <2>2, <2>3 DEF ChunkStored, Fresh, TypeOK
  <2>5. \A d \in Document : StoredMd5(d)' => Whole(d)' \/ Busy(d)'
    BY <1>c, <1>d, <2>2 DEF StoredMd5
  <2>6. QED
    BY <2>2, <2>4, <2>5
<1>3. CASE InsertRow(w)
  <2>1. /\ pc[w] = "row"
        /\ doc[w] \in Document
        /\ sortId[w] \in 0 .. Size[doc[w]] - 1
        /\ Size[doc[w]] \in Nat
        /\ dataId[w] \in DataId /\ dataId[w] # None
        /\ documentsData[dataId[w]] = <<doc[w], sortId[w]>>
    BY <1>a, <1>3, DocumentAssumption, NoneAssumption
       DEF InsertRow, LocalsOK, DeleteInv, BlocksInHand
  <2>2. /\ UNCHANGED <<documentsData, doc>>
        /\ documents' = [documents EXCEPT ![<<doc[w], sortId[w]>>] = dataId[w]]
        /\ sortId'[w] = sortId[w] + 1
        /\ pc'[w] = IF sortId[w] + 1 < Size[doc[w]] THEN "block" ELSE "ref"
    BY <1>a, <1>3 DEF InsertRow, TypeOK
  <2>3. <<doc[w], sortId[w]>> \in Chunk
    BY <2>1, ChunkType
  <2> DEFINE Then(i) == /\ documents'[<<doc[w], i>>] # None
                        /\ documentsData'[documents'[<<doc[w], i>>]] = <<doc[w], i>>
  <2>4. Then(sortId[w])
    BY <1>a, <2>1, <2>2, <2>3 DEF TypeOK
  <2>5. \A i \in 0 .. sortId[w] - 1 : Then(i)
    <3>1. \A i \in 0 .. sortId[w] - 1 : <<doc[w], i>> \in Chunk
      BY <2>1, ChunkType
    <3>2. QED
      BY <1>a, <1>c, <2>1, <2>2, <2>3, <3>1 DEF ChunkStored, TypeOK
  <2>6. \A i \in 0 .. sortId[w] : Then(i)
    <3>1. \A i \in 0 .. sortId[w] : i = sortId[w] \/ i \in 0 .. sortId[w] - 1
      BY <2>1
    <3>2. QED
      BY <2>4, <2>5, <3>1
  <2>7. Rows'
    <3>1. \A i \in 0 .. sortId'[w] - 1 : i \in 0 .. sortId[w]
      BY <2>1, <2>2
    <3>2. QED
      BY <2>2, <2>6, <3>1 DEF ChunkStored
  <2>8. ASSUME NEW d \in Document, StoredMd5(d)'
        PROVE  Whole(d)' \/ Busy(d)'
    <3>1. CASE d # doc[w]
      <4>1. StoredMd5(d)
        BY <1>a, <2>2, <2>8, <3>1, ChunkType DEF StoredMd5, TypeOK
      <4>2. QED
        BY <1>c, <1>d, <2>1, <3>1, <4>1
    <3>2. CASE d = doc[w] /\ ~(sortId[w] + 1 < Size[doc[w]])
      <4>1. \A i \in 0 .. Size[d] - 1 : i \in 0 .. sortId[w]
        BY <2>1, <3>2
      <4>2. QED
        BY <2>2, <2>6, <3>2, <4>1 DEF Whole, ChunkStored
    <3>3. CASE d = doc[w] /\ sortId[w] + 1 < Size[doc[w]]
      BY <2>2, <3>3
    <3>4. QED
      BY <3>1, <3>2, <3>3
  <2>9. QED
    BY <2>7, <2>8
<1>4. CASE SelectRows(w)
  <2> DEFINE found == { i \in 0 .. Size[doc[w]] - 1 : documents[<<doc[w], i>>] # None }
  <2>1. /\ pc[w] = "delSelect" /\ pc'[w] = "delBlock"
        /\ UNCHANGED <<documents, doc>>
        /\ sortIDs'[w] = found
    BY <1>a, <1>4 DEF SelectRows, tables, TypeOK
  <2>2. \A d \in Document : StoredMd5(d)' => Whole(d)'
    BY <1>c, <1>d, <2>1 DEF StoredMd5
  <2>3. QED
    BY <2>1, <2>2
<1>5. CASE DeleteBlock(w)
  <2>1. /\ pc[w] = "delBlock"
        /\ UNCHANGED <<pc, documents, doc, sortIDs>>
    BY <1>5 DEF DeleteBlock
  <2>2. \A d \in Document : StoredMd5(d)' => Whole(d)' \/ Busy(d)'
    BY <1>c, <1>d, <2>1 DEF StoredMd5
  <2>3. QED
    BY <1>c, <2>1, <2>2
<1>6. CASE DeleteRow(w)
  <2>1. PICK i \in sortIDs[w] :
            /\ documents' = [documents EXCEPT ![<<doc[w], i>>] = None]
            /\ sortIDs' = [sortIDs EXCEPT ![w] = @ \ {i}]
    BY <1>6 DEF DeleteRow
  <2>2. pc[w] = "delBlock" /\ UNCHANGED <<pc, doc>> /\ doc[w] \in Document
    BY <1>a, <1>6 DEF DeleteRow, LocalsOK
  <2>3. \A j \in 0 .. Size[doc[w]] - 1 :
            documents'[<<doc[w], j>>] # None => j \in sortIDs'[w]
    BY <1>a, <1>c, <2>1, <2>2, ChunkType DEF TypeOK
  <2>4. ASSUME NEW d \in Document, StoredMd5(d)', d # doc[w]
        PROVE  Whole(d)'
    <3>1. StoredMd5(d)
      BY <1>a, <2>1, <2>4, ChunkType DEF StoredMd5, TypeOK
    <3>2. QED
      BY <1>c, <1>d, <2>4, <3>1
  <2>5. QED
    BY <2>2, <2>3, <2>4
<1>7. CASE NextFile(w)
  <2>1. /\ pc[w] = "delBlock" /\ pc'[w] = "delRef"
        /\ sortIDs[w] = {}
        /\ UNCHANGED documents
    BY <1>a, <1>7 DEF NextFile, tables, TypeOK
  <2>2. ~StoredMd5(doc[w])
    BY <1>c, <2>1 DEF StoredMd5
  <2>3. \A d \in Document : StoredMd5(d)' => Whole(d)'
    BY <1>c, <1>d, <2>1, <2>2 DEF StoredMd5
  <2>4. QED
    BY <2>1, <2>3
<1>8. CASE /\ ~SelectMd5(w) /\ ~InsertBlock(w) /\ ~InsertRow(w) /\ ~SelectRows(w)
           /\ ~DeleteBlock(w) /\ ~DeleteRow(w) /\ ~NextFile(w)
  <2>1. UNCHANGED documents
    BY <1>8 DEF Save, SkipSnapshot, SaveSnapshot, InsertRef, InsertSnapshot,
       InsertUniqueid, InsertModified, Cleanup, SelectHistory, SelectDeprecated,
       DeleteNext, EndCleanup, Delete, DeleteSnapshot, LoadSnapshot, MergeDocument,
       DeleteSnapshotRow, DeleteUniqueid, DeleteModified, DeleteRef, SelectRefs,
       EndDelete, vars, tables
  <2>2. {pc[w], pc'[w]} \intersect {"block", "row", "delBlock"} = {}
    <3>1. CASE Save(w)
      BY <1>a, <1>8, <3>1 DEF Save, SkipSnapshot, SaveSnapshot, InsertRef,
         InsertSnapshot, InsertUniqueid, InsertModified, Return, vars, locals, TypeOK
    <3>2. CASE Cleanup(w)
      BY <1>a, <3>2 DEF Cleanup, SelectHistory, SelectDeprecated, DeleteNext,
         EndCleanup, Return, TypeOK
    <3>3. CASE Delete(w)
      BY <1>a, <1>8, <3>3 DEF Delete, DeleteSnapshot, LoadSnapshot, MergeDocument,
         DeleteSnapshotRow, DeleteUniqueid, DeleteModified, DeleteRef, SelectRefs,
         EndDelete, TypeOK
    <3>4. QED
      BY <3>1, <3>2, <3>3
  <2>3. \A d \in Document : StoredMd5(d)' => Whole(d)'
    BY <1>c, <1>d, <2>1, <2>2 DEF StoredMd5
  <2>4. QED
    BY <2>2, <2>3
<1>9. QED
  BY <1>1, <1>2, <1>3, <1>4, <1>5, <1>6, <1>7, <1>8

LEMMA NextCompleteInv == SoleWorker /\ CompleteInv /\ [Next]_vars => CompleteInv'
<1> SUFFICES ASSUME SoleWorker, CompleteInv, [Next]_vars
             PROVE  CompleteInv'
  OBVIOUS
<1>0. DeleteInv'
  BY NextDeleteInv DEF CompleteInv
<1>1. ASSUME NEW w \in Worker, Save(w) \/ Cleanup(w) \/ Delete(w)
      PROVE  CompleteInv'
  BY <1>0, <1>1, StepIndexesExact, StepDoomedStored, StepFilesStored,
     StepDocumentsWhole DEF CompleteInv
<1>2. ASSUME NEW w \in Worker, Crash(w)
      PROVE  CompleteInv'
  <2>1. FilesStored'
    BY <1>2, StepFilesStored
  <2>2. crashes' # 0 /\ deprecated'[w] = {}
    BY <1>2 DEF Crash, Return, CompleteInv, DeleteInv, TypeInv, TypeOK
  <2>3. IndexesExact' /\ DocumentsWhole'
    BY <2>2 DEF IndexesExact, DocumentsWhole
  <2>4. DoomedStored'
    BY <2>2 DEF SoleWorker, DoomedStored
  <2>5. QED
    BY <1>0, <2>1, <2>3, <2>4 DEF CompleteInv
<1>3. CASE UNCHANGED vars
  <2>1. IndexesExact' /\ DoomedStored'
    BY <1>3 DEF vars, tables, locals, saving, deleting, CompleteInv, IndexesExact, At,
       Entries, DoomedStored
  <2>2. FilesStored' /\ DocumentsWhole'
    BY <1>3 DEF vars, tables, locals, saving, deleting, CompleteInv, FilesStored,
       DocumentsWhole, StoredMd5, Whole, ChunkStored
  <2>3. QED
    BY <1>0, <2>1, <2>2 DEF CompleteInv
<1>4. QED
  BY <1>1, <1>2, <1>3 DEF Next

LEMMA Completes == ASSUME SoleWorker PROVE Spec => []CompleteInv
<1>1. CompleteInv /\ [Next]_vars => CompleteInv'
  BY NextCompleteInv
<1>2. QED
  BY <1>1, InitCompleteInv, PTL DEF Spec

LEMMA CompleteIsConsistent == CompleteInv => QuiescentConsistent
<1> SUFFICES ASSUME CompleteInv, crashes = 0, \A w \in Worker : pc[w] = "idle"
             PROVE  /\ snapshots = byUniqueid
                    /\ byModified = { <<ModifiedDay[s], s>> : s \in snapshots }
                    /\ \A s \in snapshots : \A d \in Files[s] : Whole(d)
  BY DEF QuiescentConsistent
<1>1. \A label : label # "idle" => At(label) = {}
  BY DEF At
<1>2. At("uniqueid") = {} /\ At("delUniqueid") = {} /\ At("modified") = {}
          /\ At("delModified") = {}
  BY <1>1
<1>3. snapshots = byUniqueid /\ Entries(byUniqueid) = byModified
  BY <1>2 DEF CompleteInv, IndexesExact, Entries
<1>4. \A s \in snapshots : \A d \in Files[s] : d \in Document /\ StoredMd5(d)
  BY SnapshotAssumption DEF CompleteInv, DeleteInv, TypeInv, TypeOK, FilesStored
<1>5. \A s \in snapshots : \A d \in Files[s] : Whole(d)
  BY <1>4 DEF CompleteInv, DocumentsWhole
<1>6. QED
  BY <1>3, <1>5 DEF Entries

\* As long as calls come one after the other and none is cut short: whenever no
\* call is in progress, every stored snapshot is in both indexes, nothing else is,
\* and all its documents can be read - after any number of cleanups and deletions
\* of snapshots that shared documents with it.
THEOREM ConsistentWithDeletions ==
  ASSUME SoleWorker PROVE Spec => []QuiescentConsistent
BY Completes, CompleteIsConsistent, PTL

-----------------------------------------------------------------------------
(* What the cleanup decides to delete *)

\* Ordered by age, and without the ones that are older, a set is down to one.
LEMMA OldestIsOldest ==
  ASSUME NEW S, IsFiniteSet(S), NEW t \in OldestOf(S, 1), NEW u \in S, u # t
  PROVE  getSnapshotTime(u) > getSnapshotTime(t)
<1> DEFINE Older == S \ (NewerThan(t, S) \union {t})
<1>1. Older \in SUBSET S
  OBVIOUS
<1>2. IsFiniteSet(Older)
  BY <1>1, FS_Subset
<1>3. Cardinality(Older) \in Nat /\ Cardinality(Older) < 1
  BY <1>2, FS_CardinalityType DEF OldestOf
<1>4. Cardinality(Older) = 0
  BY <1>3
<1>5. Older = {}
  BY <1>2, <1>4, FS_EmptySet
<1>6. QED
  BY <1>5 DEF NewerThan

\* A limit that is not reached cuts nothing off.
LEMMA OldestIsAll ==
  ASSUME NEW S, IsFiniteSet(S), NEW n \in Nat, Cardinality(S) <= n
  PROVE  OldestOf(S, n) = S
<1> SUFFICES ASSUME NEW t \in S
             PROVE  Cardinality(S \ (NewerThan(t, S) \union {t})) < n
  BY DEF OldestOf
<1> DEFINE Older == S \ (NewerThan(t, S) \union {t})
<1>1. Older \in SUBSET S /\ Older # S
  OBVIOUS
<1>2. /\ Cardinality(Older) <= Cardinality(S)
      /\ Cardinality(Older) # Cardinality(S)
      /\ IsFiniteSet(Older)
  BY <1>1, FS_Subset
<1>3. Cardinality(Older) \in Nat /\ Cardinality(S) \in Nat
  BY <1>2, FS_CardinalityType
<1>4. QED
  BY <1>2, <1>3

\* All snapshots of a process instance have the same $snapshot.history.
SameHistory ==
    \A s, t \in Snapshot : getUniqueID(s) = getUniqueID(t) => History[s] = History[t]

\* A cleanup runs only for a snapshot with a $snapshot.history; what its first
\* query ends at has no more than that many newer siblings.
HistoryInv ==
    /\ IsFiniteSet(byUniqueid)
    /\ \A w \in Worker :
        /\ pc[w] = "history" => History[snap[w]] > 0
        /\ SameHistory /\ pc[w] = "deprecated" =>
               Cardinality(NewerThan(snap[w], Siblings(snap[w]))) <= History[snap[w]]

LEMMA InitHistoryInv == Init => HistoryInv
  BY FS_EmptySet DEF Init, HistoryInv

\* The rows of the first query.
LEMMA FoundType ==
  ASSUME TypeInv, HistoryInv, NEW s \in Snapshot, NEW n \in Nat
  PROVE  LET found == LatestOf(Siblings(s), n)
         IN  IsFiniteSet(found) /\ found \subseteq byUniqueid /\ found \subseteq Siblings(s)
<1>1. LatestOf(Siblings(s), n) \in SUBSET byUniqueid
  BY DEF LatestOf, Siblings
<1>2. LatestOf(Siblings(s), n) \subseteq Siblings(s)
  BY DEF LatestOf
<1>3. QED
  BY <1>1, <1>2, FS_Subset DEF HistoryInv

LEMMA NextHistoryInv ==
  ASSUME SoleWorker, TypeInv, HistoryInv, [Next]_vars
  PROVE  HistoryInv'
<1> USE DEF Goto, saving, deleting
<1>a. TypeOK /\ LocalsOK
  BY DEF TypeInv
<1>1. IsFiniteSet(byUniqueid')
  <2>1. ASSUME NEW w \in Worker, InsertUniqueid(w)
        PROVE  IsFiniteSet(byUniqueid')
    BY <2>1, FS_AddElement DEF InsertUniqueid, HistoryInv
  <2>2. ASSUME NEW w \in Worker, DeleteUniqueid(w)
        PROVE  IsFiniteSet(byUniqueid')
    BY <2>2, FS_RemoveElement DEF DeleteUniqueid, HistoryInv
  <2>3. ASSUME NEW w \in Worker, Save(w) \/ Cleanup(w) \/ Delete(w) \/ Crash(w),
               ~InsertUniqueid(w), ~DeleteUniqueid(w)
        PROVE  byUniqueid' = byUniqueid
    BY <2>3 DEF Save, SkipSnapshot, SaveSnapshot, SelectMd5, InsertBlock, InsertRow,
       InsertRef, InsertSnapshot, InsertModified, Cleanup, SelectHistory,
       SelectDeprecated, DeleteNext, EndCleanup, Delete, DeleteSnapshot, LoadSnapshot,
       MergeDocument, DeleteSnapshotRow, DeleteModified, DeleteRef, SelectRefs,
       SelectRows, DeleteBlock, DeleteRow, NextFile, EndDelete, Crash, vars, tables
  <2>4. CASE UNCHANGED vars
    BY <2>4 DEF vars, tables, HistoryInv
  <2>5. QED
    BY <2>1, <2>2, <2>3, <2>4 DEF Next, HistoryInv
<1>2. ASSUME NEW w \in Worker
      PROVE  /\ pc'[w] = "history" => History[snap'[w]] > 0
             /\ SameHistory /\ pc'[w] = "deprecated" =>
                    Cardinality(NewerThan(snap[w], Siblings(snap[w])))' <= History[snap'[w]]
  <2>1. CASE UNCHANGED vars
    BY <2>1 DEF vars, tables, locals, HistoryInv, Siblings, NewerThan
  <2>2. CASE InsertModified(w)
    BY <1>a, <2>2 DEF InsertModified, Return, TypeOK
  <2>3. CASE SelectHistory(w)
    <3> DEFINE s == snap[w]
               found == LatestOf(Siblings(s), History[s] + 1)
    <3>1. s \in Snapshot /\ History[s] \in Nat
      BY <1>a, <2>3, SnapshotAssumption DEF SelectHistory, LocalsOK
    <3>2. CASE Cardinality(found) < History[s]
      BY <1>a, <2>3, <3>2 DEF SelectHistory, Return, TypeOK
    <3>3. CASE ~(Cardinality(found) < History[s])
      <4>1. PICK t \in OldestOf(found, 1) : snap' = [snap EXCEPT ![w] = t]
        BY <2>3, <3>3 DEF SelectHistory
      <4>2. t \in found
        BY DEF OldestOf
      <4>3. /\ t \in Siblings(s)
            /\ Cardinality(NewerThan(t, Siblings(s))) < History[s] + 1
        BY <4>2 DEF LatestOf
      <4>4. t \in Snapshot /\ getUniqueID(t) = getUniqueID(s)
        BY <1>a, <4>3 DEF Siblings, TypeOK
      <4>5. Siblings(t) = Siblings(s)
        BY <4>4 DEF Siblings
      <4>6. NewerThan(t, Siblings(t)) \in SUBSET byUniqueid
        BY DEF NewerThan, Siblings
      <4>7. Cardinality(NewerThan(t, Siblings(t))) \in Nat
        BY <4>6, FS_Subset, FS_CardinalityType DEF HistoryInv
      <4>8. SameHistory => Cardinality(NewerThan(t, Siblings(t))) <= History[t]
        BY <3>1, <4>3, <4>4, <4>5, <4>7 DEF SameHistory
      <4>9. /\ byUniqueid' = byUniqueid /\ pc'[w] = "deprecated" /\ snap'[w] = t
        BY <1>a, <2>3, <3>3, <4>1 DEF SelectHistory, tables, TypeOK
      <4>10. NewerThan(snap[w], Siblings(snap[w]))' = NewerThan(t, Siblings(t))
        BY <4>9 DEF NewerThan, Siblings
      <4>11. QED
        BY <4>8, <4>9, <4>10
    <3>4. QED
      BY <3>2, <3>3
  <2>4. CASE /\ Save(w) \/ Cleanup(w) \/ Delete(w) \/ Crash(w)
             /\ ~InsertModified(w) /\ ~SelectHistory(w)
    <3>1. CASE Save(w)
      <4>1. CASE \E s \in Snapshot : SkipSnapshot(w, s)
        BY <2>1, <4>1 DEF SkipSnapshot
      <4>2. CASE ~(\E s \in Snapshot : SkipSnapshot(w, s))
        <5>1. pc'[w] \notin {"history", "deprecated"}
          BY <1>a, <2>4, <3>1, <4>2 DEF Save, SaveSnapshot, SelectMd5, InsertBlock,
             InsertRow, InsertRef, InsertSnapshot, InsertUniqueid, TypeOK
        <5>2. QED
          BY <5>1
      <4>3. QED
        BY <4>1, <4>2
    <3>2. CASE Cleanup(w)
      BY <1>a, <2>4, <3>2 DEF Cleanup, SelectDeprecated, DeleteNext, EndCleanup, Return,
         TypeOK
    <3>3. CASE Delete(w)
      BY <1>a, <3>3 DEF Delete, DeleteSnapshot, LoadSnapshot, MergeDocument,
         DeleteSnapshotRow, DeleteUniqueid, DeleteModified, DeleteRef, SelectRefs,
         SelectRows, DeleteBlock, DeleteRow, NextFile, EndDelete, TypeOK
    <3>4. CASE Crash(w)
      BY <1>a, <3>4 DEF Crash, Return, TypeOK
    <3>5. QED
      BY <2>4, <3>1, <3>2, <3>3, <3>4
  <2>5. QED
    BY <2>1, <2>2, <2>3, <2>4 DEF Next, SoleWorker
<1>3. QED
  BY <1>1, <1>2 DEF HistoryInv

\* No process instance has more snapshots than one cleanup can delete.
FewSnapshots ==
    \A s \in Snapshot :
        LET ofInstance == { t \in Snapshot : getUniqueID(t) = getUniqueID(s) }
        IN  IsFiniteSet(ofInstance) /\ Cardinality(ofInstance) <= DeleteLimit

LEMMA StepRetentionBound ==
  ASSUME SoleWorker, SameHistory, FewSnapshots, TypeInv, HistoryInv, [Next]_vars,
         NEW w \in Worker, pc[w] = "deprecated", pc'[w] = "clean"
  PROVE  Cardinality(Siblings(snap[w]) \ deprecated'[w]) <= History[snap[w]]
<1>a. TypeOK /\ LocalsOK
  BY DEF TypeInv
<1>1. SelectDeprecated(w)
  <2>1. ~ UNCHANGED vars
    BY DEF vars, locals
  <2>2. pc'[w] # "idle" /\ pc[w] # pc'[w]
    OBVIOUS
  <2>3. ~Save(w)
    BY DEF Save, SkipSnapshot, SaveSnapshot, SelectMd5, InsertBlock, InsertRow,
       InsertRef, InsertSnapshot, InsertUniqueid, InsertModified
  <2>4. ~Delete(w)
    BY DEF Delete, DeleteSnapshot, LoadSnapshot, MergeDocument, DeleteSnapshotRow,
       DeleteUniqueid, DeleteModified, DeleteRef, SelectRefs, SelectRows, DeleteBlock,
       DeleteRow, NextFile, EndDelete
  <2>5. ~Crash(w)
    BY <1>a, <2>2 DEF Crash, Return, TypeOK
  <2>6. Cleanup(w)
    BY <2>1, <2>3, <2>4, <2>5 DEF Next, SoleWorker
  <2>7. QED
    BY <2>6 DEF Cleanup, SelectHistory, DeleteNext, EndCleanup
<1> DEFINE t == snap[w]
           old == Siblings(t) \ NewerThan(t, Snapshot)
<1>2. t \in Snapshot
  BY <1>a DEF LocalsOK
<1>3. IsFiniteSet(old) /\ Cardinality(old) <= DeleteLimit
  <2> DEFINE ofInstance == { s \in Snapshot : getUniqueID(s) = getUniqueID(t) }
  <2>1. IsFiniteSet(ofInstance) /\ Cardinality(ofInstance) <= DeleteLimit
    BY <1>2 DEF FewSnapshots
  <2>2. old \in SUBSET ofInstance
    BY <1>a DEF Siblings, TypeOK
  <2>3. IsFiniteSet(old) /\ Cardinality(old) <= Cardinality(ofInstance)
    BY <2>1, <2>2, FS_Subset
  <2>4. Cardinality(old) \in Nat /\ Cardinality(ofInstance) \in Nat
    BY <2>1, <2>3, FS_CardinalityType
  <2>5. QED
    BY <2>1, <2>3, <2>4, BoundAssumption
<1>4. OldestOf(old, DeleteLimit) = old
  BY <1>3, OldestIsAll, BoundAssumption
<1>5. deprecated'[w] = old
  BY <1>a, <1>1, <1>4 DEF SelectDeprecated, TypeOK
<1>6. Siblings(t) \ old = NewerThan(t, Siblings(t))
  BY <1>a DEF Siblings, NewerThan, TypeOK
<1>7. QED
  BY <1>5, <1>6 DEF HistoryInv

\* As long as calls come one after the other, the cleanup decides to delete
\* enough: the snapshots of the process instance that it leaves are at most
\* $snapshot.history many, also after cleanups that were cut short.  Under the
\* LIMIT of the query: of more snapshots than it returns some are left over.
THEOREM Retention ==
  ASSUME SoleWorker, SameHistory, FewSnapshots
  PROVE  Spec => RetentionBound
<1>1. TypeInv /\ HistoryInv /\ [Next]_vars => TypeInv' /\ HistoryInv'
  BY NextTypeInv, NextHistoryInv
<1>2. TypeInv /\ HistoryInv /\ [Next]_vars =>
          [\A w \in Worker :
              pc[w] = "deprecated" /\ pc'[w] = "clean" =>
                  Cardinality(Siblings(snap[w]) \ deprecated'[w])
                      <= History[snap[w]] ]_vars
  BY StepRetentionBound
<1>3. QED
  BY <1>1, <1>2, InitTypeInv, InitHistoryInv, PTL DEF Spec, RetentionBound

-----------------------------------------------------------------------------
(* What the cleanup leaves *)

\* With a $snapshot.history of 1 the snapshot that has just been saved is itself
\* the one the first query of the cleanup ends at, and it is deleted.
HistoryNotOne == \A s \in Snapshot : History[s] # 1

\* A stored snapshot of the same process instance that is newer than s.
NewerStored(u, s) ==
    u \in snapshots /\ getUniqueID(u) = getUniqueID(s)
                    /\ getSnapshotTime(u) > getSnapshotTime(s)

\* One stored snapshot survives everything the cleanup has decided to delete.
SurvivorStored ==
    crashes = 0 =>
        \A w \in Worker :
            /\ pc[w] = "deprecated" => \E u \in Snapshot : NewerStored(u, snap[w])
            /\ deprecated[w] # {} =>
                   \E u \in Snapshot \ {snap[w]} :
                       \A s \in deprecated[w] : NewerStored(u, s)

LEMMA InitSurvivorStored == Init => SurvivorStored
  BY DEF Init, SurvivorStored

\* The cleanup runs when there are at least two rows, and the one it starts at is
\* the oldest of them.
LEMMA SelectHistorySurvivor ==
  ASSUME SoleWorker, HistoryNotOne, CompleteInv, HistoryInv, crashes = 0,
         NEW w \in Worker, SelectHistory(w), pc'[w] = "deprecated"
  PROVE  \E u \in Snapshot : NewerStored(u, snap'[w])
<1> DEFINE s == snap[w]
           found == LatestOf(Siblings(s), History[s] + 1)
<1>a. TypeOK /\ LocalsOK
  BY DEF CompleteInv, DeleteInv, TypeInv
<1>1. s \in Snapshot /\ History[s] \in Nat /\ pc[w] = "history"
  BY <1>a, SnapshotAssumption DEF SelectHistory, LocalsOK
<1>2. History[s] >= 2
  BY <1>1 DEF HistoryInv, HistoryNotOne
<1>3. ~(Cardinality(found) < History[s])
  BY <1>a DEF SelectHistory, Return, TypeOK
<1>4. PICK t \in OldestOf(found, 1) : snap' = [snap EXCEPT ![w] = t]
  BY <1>3 DEF SelectHistory
<1>5. IsFiniteSet(found) /\ found \subseteq byUniqueid /\ found \subseteq Siblings(s)
  <2>1. History[s] + 1 \in Nat
    BY <1>1
  <2>2. TypeInv
    BY DEF CompleteInv, DeleteInv
  <2>3. QED
    BY <1>1, <2>1, <2>2, FoundType
<1>6. t \in found
  BY DEF OldestOf
<1>7. PICK u \in found : u # t
  <2>1. CASE found = {t}
    <3>1. Cardinality(found) = 1
      BY <2>1, FS_Singleton
    <3>2. QED
      BY <1>1, <1>2, <1>3, <3>1
  <2>2. CASE found # {t}
    BY <1>6, <2>2
  <2>3. QED
    BY <2>1, <2>2
<1>8. getSnapshotTime(u) > getSnapshotTime(t)
  BY <1>4, <1>5, <1>7, OldestIsOldest
<1>9. getUniqueID(u) = getUniqueID(t)
  BY <1>5, <1>6, <1>7 DEF Siblings
<1>10. byUniqueid = snapshots
  <2>1. At("uniqueid") = {} /\ At("delUniqueid") = {}
    BY <1>1, AtSole
  <2>2. QED
    BY <2>1 DEF CompleteInv, IndexesExact
<1>11. u \in Snapshot /\ u \in snapshots
  BY <1>a, <1>5, <1>7, <1>10 DEF TypeOK
<1>12. snap'[w] = t
  BY <1>a, <1>4 DEF TypeOK
<1>13. QED
  BY <1>8, <1>9, <1>11, <1>12 DEF NewerStored

\* The second query returns nothing that is newer than the row it starts at.
LEMMA SelectDeprecatedSurvivor ==
  ASSUME SurvivorStored, TypeInv, crashes = 0, NEW w \in Worker, SelectDeprecated(w)
  PROVE  \E u \in Snapshot \ {snap[w]} : \A s \in deprecated'[w] : NewerStored(u, s)
<1> DEFINE t == snap[w]
<1>1. t \in Snapshot /\ \A s \in Snapshot : getSnapshotTime(s) \in Nat
  BY SnapshotAssumption DEF TypeInv, LocalsOK, SelectDeprecated, getSnapshotTime
<1>2. PICK u \in Snapshot : NewerStored(u, t)
  BY DEF SurvivorStored, SelectDeprecated
<1>3. deprecated'[w] \subseteq Siblings(t) \ NewerThan(t, Snapshot)
  BY DEF SelectDeprecated, OldestOf, TypeInv, TypeOK
<1>4. u # t
  BY <1>1, <1>2 DEF NewerStored
<1>5. ASSUME NEW s \in deprecated'[w]
      PROVE  NewerStored(u, s)
  <2>1. s \in Snapshot /\ getUniqueID(s) = getUniqueID(t)
    BY <1>3 DEF Siblings, TypeInv, TypeOK
  <2>2. ~(getSnapshotTime(s) > getSnapshotTime(t))
    BY <1>3, <2>1 DEF NewerThan
  <2>3. QED
    BY <1>1, <1>2, <2>1, <2>2 DEF NewerStored
<1>6. QED
  BY <1>2, <1>4, <1>5

\* Every other statement leaves the list of the cleanup alone or shortens it, and
\* deletes no snapshot but the one in hand, which was on that list.
LEMMA KeepsSurvivor ==
  ASSUME CompleteInv, SoleWorker, crashes = 0, NEW w \in Worker,
         Save(w) \/ Cleanup(w) \/ Delete(w), ~SelectDeprecated(w)
  PROVE  /\ deprecated'[w] \subseteq deprecated[w]
         /\ deprecated'[w] # {} => snap'[w] \in {snap[w]} \union deprecated[w]
         /\ snapshots \ {snap[w]} \subseteq snapshots'
<1> USE DEF Goto, saving, deleting
<1>a. TypeOK /\ LocalsOK /\ DoomedStored
  BY DEF CompleteInv, DeleteInv, TypeInv
<1>b. pc[w] \notin CleaningPC => deprecated[w] = {}
  BY <1>a DEF DoomedStored
<1>1. snapshots \ {snap[w]} \subseteq snapshots'
  BY DEF Save, SkipSnapshot, SaveSnapshot, SelectMd5, InsertBlock, InsertRow,
     InsertRef, InsertSnapshot, InsertUniqueid, InsertModified, Cleanup,
     SelectHistory, SelectDeprecated, DeleteNext, EndCleanup, Delete, DeleteSnapshot,
     LoadSnapshot, MergeDocument, DeleteSnapshotRow, DeleteUniqueid, DeleteModified,
     DeleteRef, SelectRefs, SelectRows, DeleteBlock, DeleteRow, NextFile, EndDelete,
     vars, tables
<1>2. CASE Save(w)
  <2>1. pc[w] \notin CleaningPC
    BY <1>2 DEF CleaningPC, UnlistingPC, Save, SkipSnapshot, SaveSnapshot, SelectMd5,
       InsertBlock, InsertRow, InsertRef, InsertSnapshot, InsertUniqueid,
       InsertModified
  <2>2. deprecated'[w] = deprecated[w] \/ deprecated'[w] = {}
    BY <1>2, <1>a DEF Save, SkipSnapshot, SaveSnapshot, SelectMd5, InsertBlock,
       InsertRow, InsertRef, InsertSnapshot, InsertUniqueid, InsertModified, Return,
       vars, locals, TypeOK
  <2>3. QED
    BY <1>1, <1>b, <2>1, <2>2
<1>3. CASE SelectHistory(w)
  <2>1. pc[w] \notin CleaningPC
    BY <1>3 DEF CleaningPC, UnlistingPC, SelectHistory
  <2>2. deprecated'[w] = deprecated[w] \/ deprecated'[w] = {}
    BY <1>3, <1>a DEF SelectHistory, Return, TypeOK
  <2>3. QED
    BY <1>1, <1>b, <2>1, <2>2
<1>4. CASE DeleteNext(w)
  <2>1. PICK t \in OldestOf(deprecated[w], 1) :
            /\ snap' = [snap EXCEPT ![w] = t]
            /\ deprecated' = [deprecated EXCEPT ![w] = @ \ {t}]
    BY <1>4 DEF DeleteNext
  <2>2. t \in deprecated[w]
    BY DEF OldestOf
  <2>3. snap'[w] = t /\ deprecated'[w] = deprecated[w] \ {t}
    BY <1>a, <2>1 DEF TypeOK
  <2>4. QED
    BY <1>1, <2>2, <2>3
<1>5. CASE EndCleanup(w)
  BY <1>1, <1>5, <1>a DEF EndCleanup, Return, TypeOK
<1>6. CASE \E s \in Snapshot : DeleteSnapshot(w, s)
  <2>1. pc[w] \notin CleaningPC /\ deprecated' = deprecated
    BY <1>6 DEF CleaningPC, UnlistingPC, DeleteSnapshot
  <2>2. QED
    BY <1>1, <1>b, <2>1
<1>7. CASE Delete(w) /\ ~(\E s \in Snapshot : DeleteSnapshot(w, s))
  <2>1. UNCHANGED <<deprecated, snap>>
    BY <1>7 DEF Delete, LoadSnapshot, MergeDocument, DeleteSnapshotRow, DeleteUniqueid,
       DeleteModified, DeleteRef, SelectRefs, SelectRows, DeleteBlock, DeleteRow,
       NextFile, EndDelete
  <2>2. QED
    BY <1>1, <2>1
<1>8. QED
  BY <1>2, <1>3, <1>4, <1>5, <1>6, <1>7 DEF Cleanup

LEMMA NextSurvivorStored ==
  ASSUME SoleWorker, HistoryNotOne, CompleteInv, HistoryInv, SurvivorStored, [Next]_vars
  PROVE  SurvivorStored'
<1>a. TypeOK /\ TypeInv
  BY DEF CompleteInv, DeleteInv, TypeInv
<1>1. ASSUME NEW w \in Worker, Save(w) \/ Cleanup(w) \/ Delete(w)
      PROVE  SurvivorStored'
  <2>1. crashes' = crashes
    BY <1>1 DEF Save, SkipSnapshot, SaveSnapshot, SelectMd5, InsertBlock, InsertRow,
       InsertRef, InsertSnapshot, InsertUniqueid, InsertModified, Cleanup,
       SelectHistory, SelectDeprecated, DeleteNext, EndCleanup, Delete,
       DeleteSnapshot, LoadSnapshot, MergeDocument, DeleteSnapshotRow, DeleteUniqueid,
       DeleteModified, DeleteRef, SelectRefs, SelectRows, DeleteBlock, DeleteRow,
       NextFile, EndDelete, vars
  <2> SUFFICES ASSUME crashes = 0
               PROVE  /\ pc'[w] = "deprecated" =>
                             \E u \in Snapshot : NewerStored(u, snap[w])'
                      /\ deprecated'[w] # {} =>
                             \E u \in Snapshot \ {snap'[w]} :
                                 \A s \in deprecated'[w] : NewerStored(u, s)'
    BY <2>1 DEF SoleWorker, SurvivorStored
  <2>2. CASE SelectDeprecated(w)
    <3>1. pc'[w] = "clean" /\ UNCHANGED <<snap, snapshots>>
      BY <1>a, <2>2 DEF SelectDeprecated, Goto, saving, tables, TypeOK
    <3>2. PICK u \in Snapshot \ {snap[w]} : \A s \in deprecated'[w] : NewerStored(u, s)
      BY <1>a, <2>2, SelectDeprecatedSurvivor
    <3>3. QED
      BY <3>1, <3>2 DEF NewerStored
  <2>3. CASE ~SelectDeprecated(w)
    <3>1. /\ deprecated'[w] \subseteq deprecated[w]
          /\ deprecated'[w] # {} => snap'[w] \in {snap[w]} \union deprecated[w]
          /\ snapshots \ {snap[w]} \subseteq snapshots'
      BY <1>1, <2>3, KeepsSurvivor
    <3>2. ASSUME deprecated'[w] # {}
          PROVE  \E u \in Snapshot \ {snap'[w]} :
                     \A s \in deprecated'[w] : NewerStored(u, s)'
      <4>1. PICK u \in Snapshot \ {snap[w]} : \A s \in deprecated[w] : NewerStored(u, s)
        BY <3>1, <3>2 DEF SurvivorStored
      <4>2. u \notin deprecated[w]
        BY <4>1, SnapshotAssumption DEF NewerStored, getSnapshotTime
      <4>3. u # snap'[w]
        BY <3>1, <3>2, <4>1, <4>2
      <4>4. \A s \in deprecated'[w] : NewerStored(u, s)'
        BY <3>1, <4>1 DEF NewerStored
      <4>5. QED
        BY <4>1, <4>3, <4>4
    <3>3. ASSUME pc'[w] = "deprecated"
          PROVE  \E u \in Snapshot : NewerStored(u, snap[w])'
      <4>1. SelectHistory(w)
        <5>1. ~Save(w)
          BY <1>a, <3>3 DEF Save, SkipSnapshot, SaveSnapshot, SelectMd5, InsertBlock,
             InsertRow, InsertRef, InsertSnapshot, InsertUniqueid, InsertModified,
             Return, Goto, vars, locals, TypeOK
        <5>2. ~Delete(w)
          BY <1>a, <3>3 DEF Delete, DeleteSnapshot, LoadSnapshot, MergeDocument,
             DeleteSnapshotRow, DeleteUniqueid, DeleteModified, DeleteRef, SelectRefs,
             SelectRows, DeleteBlock, DeleteRow, NextFile, EndDelete, Goto, TypeOK
        <5>3. QED
          BY <1>1, <1>a, <2>3, <3>3, <5>1, <5>2
             DEF Cleanup, DeleteNext, EndCleanup, Return, Goto, TypeOK
      <4>2. UNCHANGED snapshots
        BY <4>1 DEF SelectHistory, tables
      <4>3. PICK u \in Snapshot : NewerStored(u, snap'[w])
        BY <3>3, <4>1, SelectHistorySurvivor
      <4>4. QED
        BY <4>2, <4>3 DEF NewerStored
    <3>4. QED
      BY <3>2, <3>3
  <2>4. QED
    BY <2>2, <2>3
<1>2. ASSUME NEW w \in Worker, Crash(w)
      PROVE  SurvivorStored'
  <2>1. crashes' # 0
    BY <1>2, <1>a DEF Crash, TypeOK
  <2>2. QED
    BY <2>1 DEF SurvivorStored
<1>3. CASE UNCHANGED vars
  BY <1>3 DEF vars, tables, locals, saving, deleting, SurvivorStored, NewerStored
<1>4. QED
  BY <1>1, <1>2, <1>3 DEF Next

\* As long as calls come one after the other and none is cut short, the cleanup
\* deletes no snapshot that is the latest one of its process instance, the one a
\* restore would use, and this whatever the web UI deletes in between.
THEOREM LatestIsKept ==
  ASSUME SoleWorker, HistoryNotOne
  PROVE  Spec => []LatestKept
<1> DEFINE Inv == CompleteInv /\ HistoryInv /\ SurvivorStored
<1>1. Init => Inv
  BY InitCompleteInv, InitHistoryInv, InitSurvivorStored
<1>2. Inv /\ [Next]_vars => Inv'
  <2>1. CompleteInv => TypeInv
    BY DEF CompleteInv, DeleteInv
  <2>2. QED
    BY <2>1, NextCompleteInv, NextHistoryInv, NextSurvivorStored
<1>3. Inv => LatestKept
  BY DEF SurvivorStored, NewerStored, LatestKept
<1>4. QED
  BY <1>1, <1>2, <1>3, PTL DEF Spec

=============================================================================
