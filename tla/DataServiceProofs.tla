--------------------------- MODULE DataServiceProofs ---------------------------
(***************************************************************************)
(* Theorems about DataService, for every set of workers, snapshots,         *)
(* documents and blocks and every number of crashes.                        *)
(***************************************************************************)
EXTENDS DataService, TLAPS

-----------------------------------------------------------------------------
(* Type correctness *)

\* What the local variables of a worker hold at each statement; TypeOK alone is
\* not inductive, because a block is written for the chunk <<doc, sortId>>.
LocalsOK ==
    \A w \in Worker :
        /\ pc[w] # "idle" => snap[w] \in Snapshot
        /\ pc[w] \in {"block", "row"} =>
               doc[w] \in Document /\ sortId[w] \in 0 .. Size[doc[w]] - 1
        /\ pc[w] \in {"ref", "delShared", "delSelect", "delBlock"} =>
               doc[w] \in Document
        /\ pc[w] = "row" => dataId[w] \in DataId

TypeInv == TypeOK /\ LocalsOK

USE DEF PC, RowKey, MoreBlocks, Limited, DeprecatedUpTo, Shared, ListedDay

\* The keys of the table documents.
LEMMA ChunkType ==
    /\ \A d \in Document : \A i \in 0 .. Size[d] - 1 : <<d, i>> \in Chunk
    /\ \A c \in Chunk : \E d \in Document : \E i \in 0 .. Size[d] - 1 : c = <<d, i>>
  BY DEF Chunk

\* A data_id that is drawn is a data_id nothing mentions.
LEMMA NewDataIdType ==
  ASSUME \E b \in DataId : Fresh(b)
  PROVE  NewDataId \in DataId /\ Fresh(NewDataId)
  BY DEF NewDataId

LEMMA DayType ==
  ASSUME NEW s \in Snapshot
  PROVE  ModifiedDay[s] \in Day /\ SnapshotDay[s] \in Day
  BY DEF Day

\* The types hold initially.
LEMMA InitTypeInv == Init => TypeInv
  BY BoundAssumption, NoneAssumption DEF Init, TypeInv, TypeOK, LocalsOK

\* A call that ends leaves well typed variables.
LEMMA ReturnTypeInv ==
  ASSUME TypeInv, NEW w \in Worker, Return(w),
         UNCHANGED <<snapshots, byUniqueid, refs, documents, documentsData>>,
         byModified' \subseteq Day \X Snapshot,
         crashes' \in 0 .. MaxCrashes
  PROVE  TypeInv'
  BY DEF TypeInv, TypeOK, LocalsOK, Return

LEMMA SaveTypeInv ==
  ASSUME TypeInv, NEW w \in Worker, Save(w)
  PROVE  TypeInv'
<1> USE DEF TypeInv, TypeOK, LocalsOK, Goto, tables, saving, deleting
<1>1. ASSUME NEW s \in Snapshot, SkipSnapshot(w, s)
      PROVE  TypeInv'
  BY <1>1 DEF SkipSnapshot, vars, locals
<1>2. ASSUME NEW s \in Snapshot, SaveSnapshot(w, s)
      PROVE  TypeInv'
  BY <1>2, SnapshotAssumption DEF SaveSnapshot
<1>3. CASE SelectMd5(w)
  BY <1>3, DocumentAssumption DEF SelectMd5
<1>4. CASE InsertBlock(w)
  <2>1. NewDataId \in DataId
    BY <1>4, NewDataIdType DEF InsertBlock
  <2>2. <<doc[w], sortId[w]>> \in Chunk
    BY <1>4, ChunkType DEF InsertBlock
  <2>3. QED
    BY <1>4, <2>1, <2>2 DEF InsertBlock
<1>5. CASE InsertRow(w)
  <2>1. /\ <<doc[w], sortId[w]>> \in Chunk
        /\ dataId[w] \in DataId
        /\ doc[w] \in Document
        /\ sortId[w] \in Nat
        /\ Size[doc[w]] \in Nat
    BY <1>5, ChunkType, DocumentAssumption DEF InsertRow
  <2>2. documents' \in [Chunk -> DataId \union {None}]
    BY <1>5, <2>1 DEF InsertRow
  <2>3. TypeOK'
    BY <1>5, <2>1, <2>2 DEF InsertRow
  <2>4. LocalsOK'
    BY <1>5, <2>1 DEF InsertRow
  <2>5. QED
    BY <2>3, <2>4
<1>6. CASE InsertRef(w)
  BY <1>6 DEF InsertRef
<1>7. CASE InsertSnapshot(w)
  BY <1>7 DEF InsertSnapshot
<1>8. CASE InsertUniqueid(w)
  BY <1>8 DEF InsertUniqueid
<1>9. CASE InsertModified(w)
  <2>1. byModified' \subseteq Day \X Snapshot
    BY <1>9, DayType DEF InsertModified
  <2>2. CASE History[snap[w]] > 0
    BY <1>9, <2>1, <2>2 DEF InsertModified
  <2>3. CASE ~(History[snap[w]] > 0)
    BY <1>9, <2>1, <2>3, ReturnTypeInv DEF InsertModified
  <2>4. QED
    BY <2>2, <2>3
<1>10. QED
  BY <1>1, <1>2, <1>3, <1>4, <1>5, <1>6, <1>7, <1>8, <1>9 DEF Save

LEMMA CleanupTypeInv ==
  ASSUME TypeInv, NEW w \in Worker, Cleanup(w)
  PROVE  TypeInv'
<1> USE DEF TypeInv, TypeOK, LocalsOK, Goto, tables, saving, deleting
<1>1. CASE SelectHistory(w)
  <2> DEFINE found == LatestOf(Siblings(snap[w]), History[snap[w]] + 1)
  <2>1. CASE Cardinality(found) < History[snap[w]]
    BY <1>1, <2>1, ReturnTypeInv DEF SelectHistory
  <2>2. CASE ~(Cardinality(found) < History[snap[w]])
    <3>1. found \subseteq Snapshot
      BY DEF Siblings, LatestOf
    <3>2. PICK t \in OldestOf(found, 1) : snap' = [snap EXCEPT ![w] = t]
      BY <1>1, <2>2 DEF SelectHistory
    <3>3. t \in Snapshot
      BY <3>1 DEF OldestOf
    <3>4. QED
      BY <1>1, <2>2, <3>2, <3>3 DEF SelectHistory
  <2>3. QED
    BY <2>1, <2>2
<1>2. CASE SelectDeprecated(w)
  BY <1>2 DEF SelectDeprecated, Siblings, OldestOf
<1>3. CASE DeleteNext(w)
  BY <1>3 DEF DeleteNext, OldestOf
<1>4. CASE EndCleanup(w)
  BY <1>4, ReturnTypeInv DEF EndCleanup
<1>5. QED
  BY <1>1, <1>2, <1>3, <1>4 DEF Cleanup

LEMMA DeleteTypeInv ==
  ASSUME TypeInv, NEW w \in Worker, Delete(w)
  PROVE  TypeInv'
<1> USE DEF TypeInv, TypeOK, LocalsOK, Goto, tables, saving, deleting
<1>1. ASSUME NEW s \in Snapshot, DeleteSnapshot(w, s)
      PROVE  TypeInv'
  BY <1>1 DEF DeleteSnapshot
<1>2. CASE LoadSnapshot(w)
  BY <1>2, SnapshotAssumption, DayType DEF LoadSnapshot
<1>3. CASE MergeDocument(w)
  BY <1>3 DEF MergeDocument
<1>4. CASE DeleteSnapshotRow(w)
  BY <1>4 DEF DeleteSnapshotRow
<1>5. CASE DeleteUniqueid(w)
  BY <1>5 DEF DeleteUniqueid
<1>6. CASE DeleteModified(w)
  BY <1>6 DEF DeleteModified
<1>7. CASE DeleteRef(w)
  BY <1>7 DEF DeleteRef
<1>8. CASE SelectRefs(w)
  BY <1>8 DEF SelectRefs
<1>9. CASE SelectRows(w)
  <2> DEFINE found == { i \in 0 .. Size[doc[w]] - 1 : documents[<<doc[w], i>>] # None }
  <2>1. found \subseteq Nat
    BY <1>9, DocumentAssumption DEF SelectRows
  <2>2. { documents[<<doc[w], i>>] : i \in found } \subseteq DataId
    BY <1>9, ChunkType DEF SelectRows
  <2>3. QED
    BY <1>9, <2>1, <2>2 DEF SelectRows
<1>10. CASE DeleteBlock(w)
  BY <1>10 DEF DeleteBlock
<1>11. CASE DeleteRow(w)
  <2>1. PICK i \in sortIDs[w] :
            /\ documents' = [documents EXCEPT ![<<doc[w], i>>] = None]
            /\ sortIDs' = [sortIDs EXCEPT ![w] = @ \ {i}]
    BY <1>11 DEF DeleteRow
  <2>2. documents' \in [Chunk -> DataId \union {None}]
    BY <2>1
  <2>3. QED
    BY <1>11, <2>1, <2>2 DEF DeleteRow
<1>12. CASE NextFile(w)
  BY <1>12 DEF NextFile
<1>13. CASE EndDelete(w)
  BY <1>13 DEF EndDelete
<1>14. QED
  BY <1>1, <1>2, <1>3, <1>4, <1>5, <1>6, <1>7, <1>8, <1>9, <1>10, <1>11,
     <1>12, <1>13 DEF Delete

LEMMA NextTypeInv == TypeInv /\ [Next]_vars => TypeInv'
<1> SUFFICES ASSUME TypeInv, [Next]_vars
             PROVE  TypeInv'
  OBVIOUS
<1>1. ASSUME NEW w \in Worker, Crash(w)
      PROVE  TypeInv'
  BY <1>1, ReturnTypeInv, BoundAssumption DEF Crash, TypeInv, TypeOK, tables
<1>2. CASE UNCHANGED vars
  BY <1>2 DEF vars, tables, locals, saving, deleting, TypeInv, TypeOK, LocalsOK
<1>3. QED
  BY <1>1, <1>2, SaveTypeInv, CleanupTypeInv, DeleteTypeInv DEF Next

\* The tables and the workers' variables always hold values of their types: no
\* call writes a block for a chunk the document does not have.
THEOREM Typing == Spec => []TypeOK
<1>1. TypeInv => TypeOK
  BY DEF TypeInv
<1>2. QED
  BY <1>1, InitTypeInv, NextTypeInv, PTL DEF Spec

-----------------------------------------------------------------------------
(* The archive that only grows *)

\* No snapshot has a $snapshot.history and the web UI deletes nothing.
NothingDeleted == AdminDeletes = FALSE /\ \A s \in Snapshot : History[s] = 0

\* The statements of saveSnapshot before the cleanup.
SavingPC == {"idle", "extract", "block", "row", "ref", "uniqueid", "modified"}

\* What a worker has already written for its snapshot: the references of the
\* files behind it, the block for the row to come, the rows of the tables the
\* next index depends on.
WrittenSoFar ==
    \A w \in Worker :
        /\ pc[w] \in SavingPC
        /\ pc[w] \in {"extract", "block", "row", "ref"} =>
               \A d \in Files[snap[w]] \ files[w] : <<d, snap[w]>> \in refs
        /\ pc[w] = "row" => documentsData[dataId[w]] = <<doc[w], sortId[w]>>
        /\ pc[w] = "uniqueid" => snap[w] \in snapshots
        /\ pc[w] = "modified" => snap[w] \in byUniqueid

GrowInv ==
    /\ TypeInv
    /\ WrittenSoFar
    /\ StoredIsReferenced
    /\ RowHasBlock
    /\ ListedIsStored

LEMMA InitGrowInv == Init => GrowInv
<1> SUFFICES ASSUME Init
             PROVE  GrowInv
  OBVIOUS
<1>1. WrittenSoFar /\ StoredIsReferenced /\ ListedIsStored
  BY DEF Init, WrittenSoFar, SavingPC, StoredIsReferenced, ListedIsStored
<1>2. RowHasBlock
  BY DEF Init, RowHasBlock
<1>3. QED
  BY <1>1, <1>2, InitTypeInv DEF GrowInv

\* A worker that saves breaks neither its own part of the invariant nor that of
\* the others: no table loses a row, and a block is written under a fresh id.
LEMMA SaveGrowInv ==
  ASSUME GrowInv, NothingDeleted, NEW w \in Worker, Save(w)
  PROVE  GrowInv'
<1> USE DEF GrowInv, StoredIsReferenced, ListedIsStored, Goto, saving, deleting
<1>0. TypeInv'
  BY SaveTypeInv
<1>1. ASSUME NEW s \in Snapshot, SkipSnapshot(w, s)
      PROVE  GrowInv'
  BY <1>0, <1>1 DEF SkipSnapshot, vars, tables, locals, WrittenSoFar, RowHasBlock
<1>2. ASSUME NEW s \in Snapshot, SaveSnapshot(w, s)
      PROVE  GrowInv'
  <2>1. WrittenSoFar'
    BY <1>2 DEF SaveSnapshot, WrittenSoFar, tables, SavingPC, TypeInv, TypeOK
  <2>2. QED
    BY <1>0, <1>2, <2>1 DEF SaveSnapshot, tables, RowHasBlock
<1>3. CASE SelectMd5(w)
  <2>1. WrittenSoFar'
    BY <1>3 DEF SelectMd5, WrittenSoFar, tables, SavingPC, TypeInv, TypeOK
  <2>2. QED
    BY <1>0, <1>3, <2>1 DEF SelectMd5, tables, RowHasBlock
<1>4. CASE InsertBlock(w)
  <2>1. NewDataId \in DataId /\ Fresh(NewDataId)
    BY <1>4, NewDataIdType DEF InsertBlock
  <2>2. RowHasBlock'
    BY <1>4, <2>1 DEF InsertBlock, RowHasBlock, Fresh, TypeInv, TypeOK
  <2>3. WrittenSoFar'
    <3> SUFFICES ASSUME NEW v \in Worker
                 PROVE  WrittenSoFar!(v)'
      BY DEF WrittenSoFar
    <3>1. CASE v = w
      BY <1>4, <2>1, <3>1 DEF InsertBlock, WrittenSoFar, SavingPC, TypeInv, TypeOK
    <3>2. CASE v # w
      BY <1>4, <2>1, <3>2
         DEF InsertBlock, WrittenSoFar, SavingPC, Fresh, TypeInv, TypeOK
    <3>3. QED
      BY <3>1, <3>2
  <2>4. QED
    BY <1>0, <1>4, <2>2, <2>3 DEF InsertBlock
<1>5. CASE InsertRow(w)
  <2>1. /\ <<doc[w], sortId[w]>> \in Chunk
        /\ documentsData[dataId[w]] = <<doc[w], sortId[w]>>
    BY <1>5, ChunkType DEF InsertRow, WrittenSoFar, TypeInv, LocalsOK
  <2>2. RowHasBlock'
    BY <1>5, <2>1 DEF InsertRow, RowHasBlock, TypeInv, TypeOK
  <2>3. WrittenSoFar'
    BY <1>5 DEF InsertRow, WrittenSoFar, SavingPC, TypeInv, TypeOK
  <2>4. QED
    BY <1>0, <1>5, <2>2, <2>3 DEF InsertRow
<1>6. CASE InsertRef(w)
  <2>1. WrittenSoFar'
    BY <1>6 DEF InsertRef, WrittenSoFar, SavingPC, TypeInv, TypeOK
  <2>2. QED
    BY <1>0, <1>6, <2>1 DEF InsertRef, RowHasBlock
<1>7. CASE InsertSnapshot(w)
  <2>1. WrittenSoFar'
    BY <1>7 DEF InsertSnapshot, WrittenSoFar, SavingPC, TypeInv, TypeOK
  <2>2. StoredIsReferenced'
    BY <1>7 DEF InsertSnapshot, WrittenSoFar
  <2>3. QED
    BY <1>0, <1>7, <2>1, <2>2 DEF InsertSnapshot, RowHasBlock
<1>8. CASE InsertUniqueid(w)
  <2>1. WrittenSoFar'
    BY <1>8 DEF InsertUniqueid, WrittenSoFar, SavingPC, TypeInv, TypeOK
  <2>2. ListedIsStored'
    BY <1>8 DEF InsertUniqueid, WrittenSoFar
  <2>3. QED
    BY <1>0, <1>8, <2>1, <2>2 DEF InsertUniqueid, RowHasBlock
<1>9. CASE InsertModified(w)
  <2>1. Return(w)
    BY <1>9 DEF InsertModified, NothingDeleted, TypeInv, LocalsOK
  <2>2. WrittenSoFar'
    BY <1>9, <2>1 DEF InsertModified, Return, WrittenSoFar, SavingPC, TypeInv, TypeOK
  <2>3. ListedIsStored'
    BY <1>9 DEF InsertModified, WrittenSoFar
  <2>4. QED
    BY <1>0, <1>9, <2>2, <2>3 DEF InsertModified, RowHasBlock
<1>10. QED
  BY <1>1, <1>2, <1>3, <1>4, <1>5, <1>6, <1>7, <1>8, <1>9 DEF Save

\* No worker ever reaches the statements that delete.
LEMMA NeverDeletes ==
  ASSUME GrowInv, NothingDeleted, NEW w \in Worker
  PROVE  ~Cleanup(w) /\ ~Delete(w)
<1>1. pc[w] \in SavingPC
  BY DEF GrowInv, WrittenSoFar
<1>2. ~Cleanup(w)
  BY <1>1 DEF SavingPC, Cleanup, SelectHistory, SelectDeprecated, DeleteNext, EndCleanup
<1>3. ~Delete(w)
  BY <1>1 DEF NothingDeleted, SavingPC, Delete, DeleteSnapshot, LoadSnapshot,
     MergeDocument, DeleteSnapshotRow, DeleteUniqueid, DeleteModified, DeleteRef,
     SelectRefs, SelectRows, DeleteBlock, DeleteRow, NextFile, EndDelete
<1>4. QED
  BY <1>2, <1>3

LEMMA NextGrowInv == NothingDeleted /\ GrowInv /\ [Next]_vars => GrowInv'
<1> SUFFICES ASSUME NothingDeleted, GrowInv, [Next]_vars
             PROVE  GrowInv'
  OBVIOUS
<1>0. TypeInv'
  BY NextTypeInv DEF GrowInv
<1>1. ASSUME NEW w \in Worker, Crash(w)
      PROVE  GrowInv'
  <2>1. WrittenSoFar'
    BY <1>1 DEF Crash, Return, tables, GrowInv, WrittenSoFar, SavingPC, TypeInv, TypeOK
  <2>2. QED
    BY <1>0, <1>1, <2>1 DEF Crash, tables, GrowInv, StoredIsReferenced,
       ListedIsStored, RowHasBlock
<1>2. CASE UNCHANGED vars
  BY <1>0, <1>2 DEF vars, tables, locals, saving, deleting, GrowInv,
     StoredIsReferenced, ListedIsStored, RowHasBlock, WrittenSoFar
<1>3. QED
  BY <1>1, <1>2, SaveGrowInv, NeverDeletes DEF Next

LEMMA Grows == ASSUME NothingDeleted PROVE Spec => []GrowInv
<1>1. GrowInv /\ [Next]_vars => GrowInv'
  BY NextGrowInv
<1>2. QED
  BY <1>1, InitGrowInv, PTL DEF Spec

\* While nothing is deleted, overlapping calls and crashes leave every stored
\* snapshot referenced by its documents (extractDocuments runs before the insert).
THEOREM Referenced ==
  ASSUME NothingDeleted PROVE Spec => []StoredIsReferenced
<1>1. GrowInv => StoredIsReferenced
  BY DEF GrowInv
<1>2. QED
  BY <1>1, Grows, PTL

\* While nothing is deleted, no row of documents points to a missing block.
THEOREM BlocksPresent ==
  ASSUME NothingDeleted PROVE Spec => []RowHasBlock
<1>1. GrowInv => RowHasBlock
  BY DEF GrowInv
<1>2. QED
  BY <1>1, Grows, PTL

\* While nothing is deleted, the index tables list only what is stored.
THEOREM IndexesSound ==
  ASSUME NothingDeleted PROVE Spec => []ListedIsStored
<1>1. GrowInv => ListedIsStored
  BY DEF GrowInv
<1>2. QED
  BY <1>1, Grows, PTL

-----------------------------------------------------------------------------
(* Without deletions the tables implement the archive that is written once *)

\* A block goes under an id no row mentions and a row gets a block that holds its
\* data: no step of saveSnapshot spoils a document that can be read.
LEMMA WholeStays ==
  ASSUME GrowInv, NothingDeleted, [Next]_vars, NEW d \in Document, Whole(d)
  PROVE  Whole(d)'
<1>0. \A i \in 0 .. Size[d] - 1 : <<d, i>> \in Chunk
  BY ChunkType
<1>1. ASSUME NEW w \in Worker, InsertBlock(w)
      PROVE  Whole(d)'
  <2>1. NewDataId \in DataId /\ Fresh(NewDataId)
    BY <1>1, NewDataIdType DEF InsertBlock
  <2>2. QED
    BY <1>0, <1>1, <2>1 DEF InsertBlock, Fresh, Whole, GrowInv, TypeInv, TypeOK
<1>2. ASSUME NEW w \in Worker, InsertRow(w)
      PROVE  Whole(d)'
  <2>1. /\ <<doc[w], sortId[w]>> \in Chunk
        /\ dataId[w] \in DataId
        /\ documentsData[dataId[w]] = <<doc[w], sortId[w]>>
    BY <1>2, ChunkType DEF InsertRow, GrowInv, WrittenSoFar, TypeInv, LocalsOK
  <2>2. dataId[w] # None
    BY <2>1, NoneAssumption
  <2>3. QED
    BY <1>0, <1>2, <2>1, <2>2 DEF InsertRow, Whole, GrowInv, TypeInv, TypeOK
<1>3. CASE UNCHANGED <<documents, documentsData>>
  BY <1>3 DEF Whole
<1>4. ASSUME NEW w \in Worker, Save(w), ~InsertBlock(w), ~InsertRow(w)
      PROVE  UNCHANGED <<documents, documentsData>>
  BY <1>4 DEF Save, SkipSnapshot, SaveSnapshot, SelectMd5, InsertRef,
     InsertSnapshot, InsertUniqueid, InsertModified, vars, tables
<1>5. ASSUME NEW w \in Worker, Crash(w)
      PROVE  UNCHANGED <<documents, documentsData>>
  BY <1>5 DEF Crash, tables
<1>6. CASE UNCHANGED vars
  BY <1>3, <1>6 DEF vars, tables
<1>7. QED
  BY <1>1, <1>2, <1>3, <1>4, <1>5, <1>6, NeverDeletes DEF Next

\* Only InsertSnapshot changes the table snapshots.
LEMMA SnapshotsChange ==
  ASSUME GrowInv, NothingDeleted, [Next]_vars
  PROVE  \/ UNCHANGED snapshots
         \/ /\ \E s \in Snapshot : snapshots' = snapshots \union {s}
            /\ UNCHANGED <<documents, documentsData>>
<1>1. ASSUME NEW w \in Worker, InsertSnapshot(w)
      PROVE  /\ \E s \in Snapshot : snapshots' = snapshots \union {s}
             /\ UNCHANGED <<documents, documentsData>>
  BY <1>1 DEF InsertSnapshot, GrowInv, TypeInv, LocalsOK
<1>2. ASSUME NEW w \in Worker, Save(w), ~InsertSnapshot(w)
      PROVE  UNCHANGED snapshots
  BY <1>2 DEF Save, SkipSnapshot, SaveSnapshot, SelectMd5, InsertBlock,
     InsertRow, InsertRef, InsertUniqueid, InsertModified, vars, tables
<1>3. ASSUME NEW w \in Worker, Crash(w)
      PROVE  UNCHANGED snapshots
  BY <1>3 DEF Crash, tables
<1>4. CASE UNCHANGED vars
  BY <1>4 DEF vars, tables
<1>5. QED
  BY <1>1, <1>2, <1>3, <1>4, NeverDeletes DEF Next

LEMMA InitWriteOnce == Init => Abstract!Init
  BY DEF Init, Abstract!Init, ArchiveStatus

LEMMA StepWriteOnce ==
  ASSUME GrowInv, NothingDeleted, [Next]_vars
  PROVE  Abstract!Grow \/ UNCHANGED ArchiveStatus
<1> DEFINE Readable(s) == \A d \in Files[s] : Whole(d)
<1>0. \A s \in Snapshot : Readable(s) => Readable(s)'
  BY WholeStays, SnapshotAssumption
<1>1. CASE UNCHANGED snapshots
  <2> DEFINE S == { s \in snapshots : ~Readable(s) /\ Readable(s)' }
  <2>1. S \subseteq Snapshot
    BY DEF GrowInv, TypeInv, TypeOK
  <2>2. \A s \in S : ArchiveStatus[s] = "partial"
    BY <2>1 DEF ArchiveStatus
  <2>3. ArchiveStatus' =
            [s \in Snapshot |-> IF s \in S THEN "complete" ELSE ArchiveStatus[s]]
    BY <1>0, <1>1 DEF ArchiveStatus
  <2>4. QED
    BY <2>1, <2>2, <2>3 DEF Abstract!Grow, Abstract!Complete
<1>2. CASE /\ \E s \in Snapshot : snapshots' = snapshots \union {s}
           /\ UNCHANGED <<documents, documentsData>>
  <2>1. PICK s \in Snapshot : snapshots' = snapshots \union {s}
    BY <1>2
  <2>2. \A t \in Snapshot : Readable(t)' <=> Readable(t)
    BY <1>2 DEF Whole
  <2>3. CASE s \in snapshots
    BY <1>2, <2>1, <2>3, <2>2 DEF ArchiveStatus
  <2>4. CASE s \notin snapshots
    <3>1. ArchiveStatus[s] = "absent"
      BY <2>4 DEF ArchiveStatus
    <3>2. ArchiveStatus' = [ArchiveStatus EXCEPT ![s] =
                                IF Readable(s) THEN "complete" ELSE "partial"]
      BY <2>1, <2>2 DEF ArchiveStatus
    <3>3. Abstract!Add(s)
      BY <3>1, <3>2 DEF Abstract!Add
    <3>4. QED
      BY <3>3 DEF Abstract!Grow
  <2>5. QED
    BY <2>3, <2>4
<1>3. QED
  BY <1>1, <1>2, SnapshotsChange

\* While nothing is deleted, the six tables, written one statement at a time by
\* any number of calls and cut short anywhere, are an archive that only grows: no
\* stored snapshot and none of its documents is lost.
THEOREM WriteOnce ==
  ASSUME NothingDeleted PROVE Spec => ImplementsWriteOnce
<1>1. GrowInv /\ [Next]_vars => [Abstract!Grow]_ArchiveStatus
  BY StepWriteOnce
<1>2. QED
  BY <1>1, Grows, InitWriteOnce, PTL DEF Spec, ImplementsWriteOnce, Abstract!WriteOnceSpec

-----------------------------------------------------------------------------
(* Without deletions, a call that is not cut short leaves nothing half done *)

\* Worker v has still to write the row of block i of d, or one before it.
Writing(v, d, i) == pc[v] \in {"block", "row"} /\ doc[v] = d /\ sortId[v] <= i

\* Whatever overlaps and whatever stops: a worker has written the rows before the
\* one it is at, somebody has written rows of every file it is done with, and a
\* snapshot is listed only under its own day.
NothingLost ==
    /\ \A v \in Worker :
        /\ pc[v] \in {"block", "row"} =>
               \A i \in 0 .. sortId[v] - 1 : documents[<<doc[v], i>>] # None
        /\ pc[v] = "ref" => StoredMd5(doc[v])
        /\ pc[v] \in {"extract", "block", "row", "ref"} =>
               \A d \in Files[snap[v]] \ files[v] : StoredMd5(d)
    /\ \A s \in snapshots : \A d \in Files[s] : StoredMd5(d)
    /\ \A entry \in byModified : entry[1] = ModifiedDay[entry[2]]

\* The rows a stored document lacks are still to be written by a call in progress.
RowsUnderway ==
    crashes = 0 =>
        \A d \in Document : StoredMd5(d) =>
            \A i \in 0 .. Size[d] - 1 :
                documents[<<d, i>>] # None \/ \E v \in Worker : Writing(v, d, i)

\* And so are the index entries a stored snapshot lacks.
ListingUnderway ==
    crashes = 0 =>
        /\ \A s \in snapshots : \/ s \in byUniqueid
                                \/ \E v \in Worker : pc[v] = "uniqueid" /\ snap[v] = s
        /\ \A s \in byUniqueid : \/ <<ModifiedDay[s], s>> \in byModified
                                 \/ \E v \in Worker : pc[v] = "modified" /\ snap[v] = s

TidyInv == GrowInv /\ NothingLost /\ RowsUnderway /\ ListingUnderway

LEMMA InitTidyInv == Init => TidyInv
<1> SUFFICES ASSUME Init
             PROVE  TidyInv
  OBVIOUS
<1>1. \A d \in Document : ~StoredMd5(d)
  BY ChunkType DEF Init, StoredMd5
<1>2. NothingLost /\ RowsUnderway /\ ListingUnderway
  BY <1>1 DEF Init, NothingLost, RowsUnderway, ListingUnderway
<1>3. QED
  BY <1>2, InitGrowInv DEF TidyInv

\* No row of the table documents disappears.
LEMMA RowsStay ==
  ASSUME GrowInv, NothingDeleted, NEW w \in Worker, Save(w)
  PROVE  /\ \A c \in Chunk : documents[c] # None => documents'[c] # None
         /\ \A d \in Document : StoredMd5(d) => StoredMd5(d)'
<1>1. CASE InsertRow(w)
  <2>1. <<doc[w], sortId[w]>> \in Chunk /\ dataId[w] \in DataId
    BY <1>1, ChunkType DEF InsertRow, GrowInv, TypeInv, LocalsOK
  <2>2. dataId[w] # None
    BY <2>1, NoneAssumption
  <2>3. \A c \in Chunk : documents[c] # None => documents'[c] # None
    BY <1>1, <2>1, <2>2 DEF InsertRow, GrowInv, TypeInv, TypeOK
  <2>4. QED
    BY <2>3, ChunkType DEF StoredMd5
<1>2. CASE ~InsertRow(w)
  <2>1. UNCHANGED documents
    BY <1>2 DEF Save, SkipSnapshot, SaveSnapshot, SelectMd5, InsertBlock, InsertRef,
       InsertSnapshot, InsertUniqueid, InsertModified, vars, tables
  <2>2. QED
    BY <2>1 DEF StoredMd5
<1>3. QED
  BY <1>1, <1>2

\* What a worker has behind it stays written, whoever makes the step.
LEMMA SaveNothingLost ==
  ASSUME TidyInv, NothingDeleted, NEW w \in Worker, Save(w)
  PROVE  NothingLost'
<1> USE DEF TidyInv, Goto, saving, deleting
<1>0. /\ \A c \in Chunk : documents[c] # None => documents'[c] # None
      /\ \A d \in Document : StoredMd5(d) => StoredMd5(d)'
      /\ \A s \in Snapshot : Files[s] \subseteq Document
      /\ TypeOK
  BY RowsStay, SnapshotAssumption DEF GrowInv, TypeInv
<1> DEFINE Behind(v) ==
        /\ pc[v] \in {"block", "row"} =>
               \A i \in 0 .. sortId[v] - 1 : documents[<<doc[v], i>>] # None
        /\ pc[v] = "ref" => StoredMd5(doc[v])
        /\ pc[v] \in {"extract", "block", "row", "ref"} =>
               \A d \in Files[snap[v]] \ files[v] : StoredMd5(d)
<1>1. ASSUME NEW v \in Worker,
             UNCHANGED <<pc[v], snap[v], files[v], doc[v], sortId[v]>>
      PROVE  Behind(v)'
  <2>1. pc[v] # "idle" => snap[v] \in Snapshot
    BY DEF GrowInv, TypeInv, LocalsOK
  <2>2. pc[v] = "ref" => doc[v] \in Document
    BY DEF GrowInv, TypeInv, LocalsOK
  <2>3. pc[v] \in {"block", "row"} =>
            \A i \in 0 .. sortId[v] - 1 : <<doc[v], i>> \in Chunk
    BY ChunkType, DocumentAssumption DEF GrowInv, TypeInv, LocalsOK
  <2>4. Behind(v)
    BY DEF NothingLost
  <2>5. QED
    BY <1>0, <1>1, <2>1, <2>2, <2>3, <2>4
<1>2. \A v \in Worker \ {w} :
          UNCHANGED <<pc[v], snap[v], files[v], doc[v], sortId[v]>>
  BY <1>0 DEF TypeOK, Save, SkipSnapshot, SaveSnapshot, SelectMd5, InsertBlock,
     InsertRow, InsertRef, InsertSnapshot, InsertUniqueid, InsertModified, Return,
     vars, tables, locals
<1>3. Behind(w)'
  <2>0. Behind(w)
    BY DEF NothingLost
  <2>1. CASE \E s \in Snapshot : SkipSnapshot(w, s)
    BY <1>1, <2>1 DEF SkipSnapshot, vars, locals
  <2>2. CASE \E s \in Snapshot : SaveSnapshot(w, s)
    BY <1>0, <2>2 DEF SaveSnapshot, TypeOK
  <2>3. CASE SelectMd5(w)
    <3>1. PICK d \in files[w] :
              /\ doc' = [doc EXCEPT ![w] = d]
              /\ pc' = [pc EXCEPT ![w] = IF StoredMd5(d) THEN "ref" ELSE "block"]
      BY <2>3 DEF SelectMd5
    <3>2. d \in Document /\ snap[w] \in Snapshot
      BY <1>0, <2>3 DEF SelectMd5, TypeOK, GrowInv, TypeInv, LocalsOK
    <3>3. \A e \in Files[snap[w]] \ files[w] : StoredMd5(e)'
      BY <1>0, <2>0, <2>3, <3>2 DEF SelectMd5
    <3>4. doc'[w] = d /\ sortId'[w] = 0 /\ files' = files /\ snap' = snap
      BY <1>0, <2>3, <3>1 DEF SelectMd5, TypeOK
    <3>5. CASE StoredMd5(d)
      <4>1. pc'[w] = "ref"
        BY <1>0, <3>1, <3>5 DEF TypeOK
      <4>2. QED
        BY <1>0, <3>2, <3>3, <3>4, <3>5, <4>1
    <3>6. CASE ~StoredMd5(d)
      <4>1. pc'[w] = "block"
        BY <1>0, <3>1, <3>6 DEF TypeOK
      <4>2. QED
        BY <3>3, <3>4, <4>1
    <3>7. QED
      BY <3>5, <3>6
  <2>4. CASE InsertBlock(w)
    BY <1>0, <2>0, <2>4 DEF InsertBlock, TypeOK, StoredMd5
  <2>5. CASE InsertRow(w)
    <3>1. /\ doc[w] \in Document
          /\ sortId[w] \in 0 .. Size[doc[w]] - 1
          /\ snap[w] \in Snapshot
          /\ dataId[w] \in DataId
          /\ Size[doc[w]] \in Nat
      BY <2>5, DocumentAssumption DEF InsertRow, GrowInv, TypeInv, LocalsOK
    <3>2. dataId[w] # None
      BY <3>1, NoneAssumption
    <3>3. \A e \in Files[snap[w]] \ files[w] : StoredMd5(e)'
      BY <1>0, <2>0, <2>5, <3>1 DEF InsertRow
    <3>4. documents'[<<doc[w], sortId[w]>>] # None
      BY <1>0, <2>5, <3>1, <3>2, ChunkType DEF InsertRow, TypeOK
    <3>5. \A i \in 0 .. sortId[w] - 1 : documents'[<<doc[w], i>>] # None
      <4>1. \A i \in 0 .. sortId[w] - 1 : <<doc[w], i>> \in Chunk
        BY <3>1, ChunkType
      <4>2. QED
        BY <1>0, <2>0, <2>5, <4>1 DEF InsertRow
    <3>6. /\ doc' = doc /\ snap' = snap /\ files' = files
          /\ sortId'[w] = sortId[w] + 1
          /\ pc'[w] \in {"block", "ref"}
      BY <1>0, <2>5 DEF InsertRow, TypeOK
    <3>7. \A i \in 0 .. sortId'[w] - 1 : documents'[<<doc[w], i>>] # None
      BY <3>1, <3>4, <3>5, <3>6
    <3>8. StoredMd5(doc[w])'
      BY <3>1, <3>4, <3>6 DEF StoredMd5
    <3>9. QED
      BY <3>3, <3>6, <3>7, <3>8
  <2>6. CASE InsertRef(w)
    <3>1. /\ snap[w] \in Snapshot
          /\ pc'[w] = "extract"
          /\ snap' = snap
          /\ files'[w] = files[w] \ {doc[w]}
          /\ documents' = documents
      BY <1>0, <2>6 DEF InsertRef, TypeOK, GrowInv, TypeInv, LocalsOK
    <3>2. \A d \in Files[snap[w]] \ files'[w] : StoredMd5(d)
      BY <2>0, <2>6, <3>1 DEF InsertRef
    <3>3. QED
      BY <3>1, <3>2 DEF StoredMd5
  <2>7. CASE InsertSnapshot(w)
    BY <1>0, <2>7 DEF InsertSnapshot, TypeOK
  <2>8. CASE InsertUniqueid(w)
    BY <1>0, <2>8 DEF InsertUniqueid, TypeOK
  <2>9. CASE InsertModified(w)
    BY <1>0, <2>9 DEF InsertModified, Return, TypeOK
  <2>10. QED
    BY <2>1, <2>2, <2>3, <2>4, <2>5, <2>6, <2>7, <2>8, <2>9 DEF Save
<1>4. (\A s \in snapshots : \A d \in Files[s] : StoredMd5(d))'
  <2>1. CASE InsertSnapshot(w)
    <3>1. \A d \in Files[snap[w]] : StoredMd5(d)
      BY <2>1 DEF InsertSnapshot, NothingLost
    <3>2. \A d \in Document : StoredMd5(d)' <=> StoredMd5(d)
      BY <2>1 DEF InsertSnapshot, StoredMd5
    <3>3. snap[w] \in Snapshot
      BY <2>1 DEF InsertSnapshot, GrowInv, TypeInv, LocalsOK
    <3>4. QED
      BY <1>0, <2>1, <3>1, <3>2, <3>3 DEF InsertSnapshot, NothingLost, TypeOK
  <2>2. CASE ~InsertSnapshot(w)
    <3>1. UNCHANGED snapshots
      BY <2>2 DEF Save, SkipSnapshot, SaveSnapshot, SelectMd5, InsertBlock,
         InsertRow, InsertRef, InsertUniqueid, InsertModified, vars, tables
    <3>2. QED
      BY <1>0, <3>1 DEF NothingLost, TypeOK
  <2>3. QED
    BY <2>1, <2>2
<1>5. (\A entry \in byModified : entry[1] = ModifiedDay[entry[2]])'
  <2>1. CASE InsertModified(w)
    BY <2>1 DEF InsertModified, NothingLost
  <2>2. CASE ~InsertModified(w)
    BY <2>2 DEF Save, SkipSnapshot, SaveSnapshot, SelectMd5, InsertBlock, InsertRow,
       InsertRef, InsertSnapshot, InsertUniqueid, vars, tables, NothingLost
  <2>3. QED
    BY <2>1, <2>2
<1>6. \A v \in Worker : Behind(v)'
  BY <1>1, <1>2, <1>3
<1>7. QED
  BY <1>4, <1>5, <1>6 DEF NothingLost

\* The worker that is about to write a row keeps it in its hands until the row is
\* there, and a document it finds stored is whole or in the hands of another one.
LEMMA SaveRowsUnderway ==
  ASSUME TidyInv, NothingDeleted, NEW w \in Worker, Save(w)
  PROVE  RowsUnderway'
<1> USE DEF TidyInv, Goto, saving, deleting
<1>0. TypeOK /\ LocalsOK
  BY DEF GrowInv, TypeInv
<1> SUFFICES ASSUME crashes' = 0,
                    NEW d \in Document, StoredMd5(d)',
                    NEW i \in 0 .. Size[d] - 1, documents'[<<d, i>>] = None
             PROVE  \E v \in Worker : Writing(v, d, i)'
  BY DEF RowsUnderway
<1>1. documents[<<d, i>>] = None
  BY RowsStay, ChunkType
<1>2. crashes = 0
  BY DEF Save, SkipSnapshot, SaveSnapshot, SelectMd5, InsertBlock, InsertRow,
     InsertRef, InsertSnapshot, InsertUniqueid, InsertModified, vars
<1>3. CASE InsertRow(w)
  <2>1. /\ doc[w] \in Document
        /\ sortId[w] \in 0 .. Size[doc[w]] - 1
        /\ Size[doc[w]] \in Nat
        /\ dataId[w] \in DataId
    BY <1>0, <1>3, DocumentAssumption DEF InsertRow, LocalsOK
  <2>2. documents' = [documents EXCEPT ![<<doc[w], sortId[w]>>] = dataId[w]]
    BY <1>3 DEF InsertRow
  <2>3. CASE d = doc[w]
    <3>1. i # sortId[w]
      BY <1>0, <2>1, <2>2, <2>3, ChunkType, NoneAssumption DEF TypeOK
    <3>2. ~(i < sortId[w])
      BY <1>1, <1>3, <2>1, <2>3 DEF InsertRow, NothingLost
    <3>3. i > sortId[w]
      BY <2>1, <2>3, <3>1, <3>2
    <3>4. sortId[w] + 1 < Size[doc[w]]
      BY <2>1, <2>3, <3>3
    <3>5. pc'[w] = "block" /\ doc'[w] = d /\ sortId'[w] = sortId[w] + 1
      BY <1>0, <1>3, <2>3, <3>4 DEF InsertRow, TypeOK
    <3>6. QED
      BY <2>1, <2>3, <3>3, <3>5 DEF Writing
  <2>4. CASE d # doc[w]
    <3>1. PICK j \in 0 .. Size[d] - 1 : documents'[<<d, j>>] # None
      BY DEF StoredMd5
    <3>2. documents[<<d, j>>] # None
      BY <1>0, <2>2, <2>4, <3>1, ChunkType DEF TypeOK
    <3>3. StoredMd5(d)
      BY <3>2 DEF StoredMd5
    <3>4. PICK v \in Worker : Writing(v, d, i)
      BY <1>1, <1>2, <3>3 DEF RowsUnderway
    <3>5. v # w
      BY <2>4, <3>4 DEF Writing
    <3>6. Writing(v, d, i)'
      BY <1>0, <1>3, <3>4, <3>5 DEF InsertRow, Writing, TypeOK
    <3>7. QED
      BY <3>6
  <2>5. QED
    BY <2>3, <2>4
<1>4. CASE ~InsertRow(w)
  <2>1. UNCHANGED documents
    BY <1>4 DEF Save, SkipSnapshot, SaveSnapshot, SelectMd5, InsertBlock, InsertRef,
       InsertSnapshot, InsertUniqueid, InsertModified, vars, tables
  <2>2. StoredMd5(d)
    BY <2>1 DEF StoredMd5
  <2>3. PICK v \in Worker : Writing(v, d, i)
    BY <1>1, <1>2, <2>2 DEF RowsUnderway
  <2>4. UNCHANGED <<doc[v], sortId[v]>> /\ pc'[v] \in {"block", "row"}
    BY <1>0, <1>4, <2>3 DEF Writing, Save, SkipSnapshot, SaveSnapshot, SelectMd5,
       InsertBlock, InsertRef, InsertSnapshot, InsertUniqueid, InsertModified, Return,
       vars, tables, locals, TypeOK
  <2>5. Writing(v, d, i)'
    BY <2>3, <2>4 DEF Writing
  <2>6. QED
    BY <2>5
<1>5. QED
  BY <1>3, <1>4

\* A snapshot that is stored and not yet listed, in either index, is the one some
\* worker is about to list.
LEMMA SaveListingUnderway ==
  ASSUME TidyInv, NothingDeleted, NEW w \in Worker, Save(w)
  PROVE  ListingUnderway'
<1> USE DEF TidyInv, Goto, saving, deleting
<1>0. TypeOK /\ LocalsOK
  BY DEF GrowInv, TypeInv
<1>1. crashes' = crashes
  BY DEF Save, SkipSnapshot, SaveSnapshot, SelectMd5, InsertBlock, InsertRow,
     InsertRef, InsertSnapshot, InsertUniqueid, InsertModified, vars
<1> SUFFICES ASSUME crashes = 0
             PROVE  ListingUnderway'
  BY <1>1 DEF ListingUnderway
<1>2. CASE InsertSnapshot(w)
  BY <1>0, <1>2 DEF InsertSnapshot, ListingUnderway, TypeOK
<1>3. CASE InsertUniqueid(w)
  <2>1. /\ byUniqueid' = byUniqueid \union {snap[w]}
        /\ pc' = [pc EXCEPT ![w] = "modified"]
        /\ UNCHANGED <<snapshots, byModified, snap>>
        /\ pc[w] = "uniqueid"
    BY <1>3 DEF InsertUniqueid
  <2>2. ASSUME NEW s \in snapshots
        PROVE  s \in byUniqueid' \/ \E v \in Worker : pc'[v] = "uniqueid" /\ snap'[v] = s
    BY <1>0, <2>1 DEF ListingUnderway, TypeOK
  <2>3. ASSUME NEW s \in byUniqueid'
        PROVE  \/ <<ModifiedDay[s], s>> \in byModified'
               \/ \E v \in Worker : pc'[v] = "modified" /\ snap'[v] = s
    BY <1>0, <2>1 DEF ListingUnderway, TypeOK
  <2>4. QED
    BY <2>1, <2>2, <2>3 DEF ListingUnderway
<1>4. CASE InsertModified(w)
  <2>1. Return(w)
    BY <1>0, <1>4 DEF InsertModified, NothingDeleted, LocalsOK
  <2>2. /\ byModified' = byModified \union {<<ModifiedDay[snap[w]], snap[w]>>}
        /\ \A v \in Worker \ {w} : pc'[v] = pc[v] /\ snap'[v] = snap[v]
        /\ UNCHANGED <<snapshots, byUniqueid>>
        /\ pc[w] = "modified"
    BY <1>0, <1>4, <2>1 DEF InsertModified, Return, TypeOK
  <2>3. QED
    BY <2>2 DEF ListingUnderway
<1>5. CASE ~InsertSnapshot(w) /\ ~InsertUniqueid(w) /\ ~InsertModified(w)
  <2>1. UNCHANGED <<snapshots, byUniqueid, byModified>>
    BY <1>5 DEF Save, SkipSnapshot, SaveSnapshot, SelectMd5, InsertBlock, InsertRow,
       InsertRef, vars, tables
  <2>2. \A v \in Worker : pc[v] \in {"uniqueid", "modified"} =>
            pc'[v] = pc[v] /\ snap'[v] = snap[v]
    BY <1>0, <1>5 DEF Save, SkipSnapshot, SaveSnapshot, SelectMd5, InsertBlock,
       InsertRow, InsertRef, vars, locals, TypeOK
  <2>3. QED
    BY <2>1, <2>2 DEF ListingUnderway
<1>6. QED
  BY <1>2, <1>3, <1>4, <1>5

LEMMA NextTidyInv == NothingDeleted /\ TidyInv /\ [Next]_vars => TidyInv'
<1> SUFFICES ASSUME NothingDeleted, TidyInv, [Next]_vars
             PROVE  TidyInv'
  OBVIOUS
<1>0. GrowInv'
  BY NextGrowInv DEF TidyInv
<1>1. ASSUME NEW w \in Worker, Save(w)
      PROVE  TidyInv'
  BY <1>0, <1>1, SaveNothingLost, SaveRowsUnderway, SaveListingUnderway DEF TidyInv
<1>2. ASSUME NEW w \in Worker, Crash(w)
      PROVE  TidyInv'
  <2>1. crashes' # 0
    BY <1>2 DEF Crash, TidyInv, GrowInv, TypeInv, TypeOK
  <2>2. /\ UNCHANGED tables
        /\ pc'[w] = "idle"
        /\ \A v \in Worker \ {w} :
              UNCHANGED <<pc[v], snap[v], files[v], doc[v], sortId[v]>>
    BY <1>2 DEF Crash, Return, TidyInv, GrowInv, TypeInv, TypeOK
  <2>3. \A d \in Document : StoredMd5(d)' <=> StoredMd5(d)
    BY <2>2 DEF tables, StoredMd5
  <2>4. NothingLost'
    BY <2>2, <2>3, SnapshotAssumption DEF tables, TidyInv, NothingLost, GrowInv,
       TypeInv, TypeOK, LocalsOK
  <2>5. QED
    BY <1>0, <2>1, <2>4 DEF TidyInv, RowsUnderway, ListingUnderway
<1>3. CASE UNCHANGED vars
  BY <1>0, <1>3 DEF vars, tables, locals, saving, deleting, TidyInv, NothingLost,
     StoredMd5, RowsUnderway, ListingUnderway, Writing
<1>4. QED
  BY <1>1, <1>2, <1>3, NeverDeletes DEF Next, TidyInv

\* When no call is in progress nothing is underway any more.
LEMMA TidyIsConsistent == TidyInv => QuiescentConsistent
<1> SUFFICES ASSUME TidyInv, crashes = 0, \A w \in Worker : pc[w] = "idle"
             PROVE  /\ snapshots = byUniqueid
                    /\ byModified = { <<ModifiedDay[s], s>> : s \in snapshots }
                    /\ \A s \in snapshots : \A d \in Files[s] : Whole(d)
  BY DEF QuiescentConsistent
<1>1. snapshots = byUniqueid
  BY DEF TidyInv, GrowInv, ListedIsStored, ListingUnderway
<1>2. \A s \in snapshots : <<ModifiedDay[s], s>> \in byModified
  BY <1>1 DEF TidyInv, ListingUnderway
<1>3. \A entry \in byModified :
          entry[2] \in snapshots /\ entry = <<ModifiedDay[entry[2]], entry[2]>>
  BY <1>1 DEF TidyInv, GrowInv, ListedIsStored, NothingLost, TypeInv, TypeOK
<1>4. ASSUME NEW s \in snapshots, NEW d \in Files[s]
      PROVE  Whole(d)
  <2>1. d \in Document /\ StoredMd5(d)
    BY SnapshotAssumption DEF TidyInv, GrowInv, TypeInv, TypeOK, NothingLost
  <2>2. \A i \in 0 .. Size[d] - 1 : documents[<<d, i>>] # None
    BY <2>1 DEF TidyInv, RowsUnderway, Writing
  <2>3. QED
    BY <2>1, <2>2, ChunkType DEF Whole, TidyInv, GrowInv, RowHasBlock
<1>5. QED
  BY <1>1, <1>2, <1>3, <1>4

\* While nothing is deleted, and as long as no call was cut short: whenever no
\* call is in progress, every stored snapshot is in both indexes and can be read
\* with all its documents, however many calls of saveSnapshot overlapped and
\* whichever of them found the documents of another one half written.
THEOREM Consistent ==
  ASSUME NothingDeleted PROVE Spec => []QuiescentConsistent
<1>1. TidyInv /\ [Next]_vars => TidyInv'
  BY NextTidyInv
<1>2. QED
  BY <1>1, InitTidyInv, TidyIsConsistent, PTL DEF Spec

=============================================================================
