------------------------------ MODULE DataService ------------------------------
(***************************************************************************)
(* The archive tables of imixs-archive-service and the methods of          *)
(* DataService.java that change them: saveSnapshot with extractDocuments,   *)
(* storeDocument and cleanupSnaphostHistory, and deleteSnapshot with        *)
(* deleteDocuments.                                                        *)
(*                                                                         *)
(* DataService is a stateless bean, called at the same time by the event    *)
(* log timer, the resync timer and the web UI.  It takes no lock and opens  *)
(* no transaction, so each Cassandra statement is one action here, and a    *)
(* worker (one call in progress) may stop between any two of them: Crash is *)
(* a killed process as well as an exception of the driver.                  *)
(*                                                                         *)
(* Abstractions.  A document stands for its content, hence for its md5; the *)
(* content read from an incomplete document is the content of no other      *)
(* document.  The $file list of a snapshot is a set.  The content of one    *)
(* file is read in a single step: its rows are read before its blocks, a    *)
(* block is written before its row and no data_id is used twice, so whether *)
(* the content is whole is decided by some state the read passes through.   *)
(* loadSnapshot never changes a table; it appears only where deleteSnapshot *)
(* calls it.                                                               *)
(*                                                                         *)
(* A definition whose name extends that of the one below it (OneTooMany,     *)
(* Never, First ...) is a mutant of that one, which no specification uses.  *)
(***************************************************************************)
EXTENDS Integers, FiniteSets

CONSTANTS
    Worker,        \* calls that may be in progress at the same time
    Snapshot,      \* snapshot ids: pairs <<uniqueid, timestamp>>
    Document,      \* attached files, identified by their content
    DataId,        \* ids generateUniqueID can return for data blocks
    Files,         \* Files[s]: the documents attached to s
    Size,          \* Size[d]: the number of 1MB blocks of d
    History,       \* History[s]: the item $snapshot.history of s, 0 if absent
    ModifiedDay,   \* ModifiedDay[s]: the day of the item $modified of s
    SnapshotDay,   \* SnapshotDay[s]: the day of the timestamp in the id of s
    DeleteLimit,   \* LIMIT of the query for deprecated snapshots
    AdminDeletes,  \* whether the web UI may delete snapshots
    MaxCrashes,    \* bound on the number of calls that stop half way
    None           \* no row, no block, no value

ASSUME SnapshotAssumption ==
    /\ \A s \in Snapshot : s = <<s[1], s[2]>> /\ s[2] \in Nat
    /\ Files \in [Snapshot -> SUBSET Document]
    /\ History \in [Snapshot -> Nat]
    /\ DOMAIN ModifiedDay = Snapshot
    /\ DOMAIN SnapshotDay = Snapshot

ASSUME DocumentAssumption == Size \in [Document -> Nat \ {0}]

ASSUME NoneAssumption == None \notin DataId \union Document \union Snapshot

ASSUME BoundAssumption ==
    /\ DeleteLimit \in Nat \ {0}
    /\ AdminDeletes \in BOOLEAN
    /\ MaxCrashes \in Nat

\* Keys of the table documents: md5 and sort_id.
Chunk == UNION { {d} \X (0 .. Size[d] - 1) : d \in Document }

Day == { ModifiedDay[s] : s \in Snapshot } \union
       { SnapshotDay[s] : s \in Snapshot }

VARIABLES
    snapshots,      \* table snapshots: ids of the stored snapshots
    byUniqueid,     \* table snapshots_by_uniqueid: the snapshots listed in it
    byModified,     \* table snapshots_by_modified: pairs <<day, snapshot>>
    refs,           \* table snapshots_by_document: pairs <<md5, snapshot>>
    documents,      \* table documents: the data_id of each chunk
    documentsData,  \* table documents_data: the chunk held by each block
    crashes,        \* number of crashes so far
    pc,             \* next statement of each worker
    snap,           \* the snapshot it saves, deletes or loads
    files,          \* files of snap it has still to look at
    doc,            \* the file it is working on
    sortId,         \* the block of doc to be written next
    dataId,         \* the data_id just written
    deprecated,     \* snapshots still to be deleted
    day,            \* the day under which the deleted snapshot is listed
    loaded,         \* files of the deleted snapshot whose content was loaded
    dataIDs,        \* blocks of doc still to be deleted
    sortIDs         \* rows of doc still to be deleted

tables == <<snapshots, byUniqueid, byModified, refs, documents, documentsData>>
saving == <<snap, files, doc, sortId, dataId>>
deleting == <<deprecated, day, loaded, dataIDs, sortIDs>>
locals == <<pc, saving, deleting>>
vars == <<tables, crashes, locals>>

-----------------------------------------------------------------------------
\* DataService.getUniqueID and getSnapshotTime.
getUniqueID(s) == s[1]
getSnapshotTime(s) == s[2]

\* The snapshots of the process instance of s that snapshots_by_uniqueid lists.
Siblings(s) == { t \in byUniqueid : getUniqueID(t) = getUniqueID(s) }
NewerThan(s, S) == { t \in S : getSnapshotTime(t) > getSnapshotTime(s) }

\* "select md5 from documents" finds a row.
StoredMd5(d) == \E i \in 0 .. Size[d] - 1 : documents[<<d, i>>] # None

\* loadFileContent returns the whole content: every block has its row and its data.
Whole(d) ==
    \A i \in 0 .. Size[d] - 1 :
        /\ documents[<<d, i>>] # None
        /\ documentsData[documents[<<d, i>>]] = <<d, i>>

\* Does storeDocument write another block after the one of sortId?
MoreBlocksOneTooMany(w) == sortId[w] + 1 <= Size[doc[w]]
MoreBlocksOneTooFew(w) == sortId[w] + 2 < Size[doc[w]]
MoreBlocks(w) == sortId[w] + 1 < Size[doc[w]]

\* The key of the row that storeDocument writes for the block of sortId.
RowKeyIncremented(w) == <<doc[w], sortId[w] + 1>>
RowKey(w) == <<doc[w], sortId[w]>>

\* cleanupSnaphostHistory has something to do for s.
LimitedEvenIfZero(s) == History[s] >= 0
Limited(s) == History[s] > 0

\* deleteDocuments finds another reference to d.
SharedNever(d) == FALSE
Shared(d) == \E s \in Snapshot : <<d, s>> \in refs

\* The day under which deleteSnapshot looks for s: without the row there is no
\* $modified, and the timestamp in the id is taken.
ListedDayOfId(s) == SnapshotDay[s]
ListedDay(s) == IF s \in snapshots THEN ModifiedDay[s] ELSE SnapshotDay[s]

\* generateUniqueID returns an id that nothing in the archive mentions yet.  It
\* makes no difference which one.
Fresh(b) ==
    /\ documentsData[b] = None
    /\ \A c \in Chunk : documents[c] # b
    /\ \A w \in Worker : dataId[w] # b /\ b \notin dataIDs[w]

NewDataId == CHOOSE b \in DataId : Fresh(b)

Init ==
    /\ snapshots = {}
    /\ byUniqueid = {}
    /\ byModified = {}
    /\ refs = {}
    /\ documents = [c \in Chunk |-> None]
    /\ documentsData = [b \in DataId |-> None]
    /\ crashes = 0
    /\ pc = [w \in Worker |-> "idle"]
    /\ snap = [w \in Worker |-> None]
    /\ files = [w \in Worker |-> {}]
    /\ doc = [w \in Worker |-> None]
    /\ sortId = [w \in Worker |-> 0]
    /\ dataId = [w \in Worker |-> None]
    /\ deprecated = [w \in Worker |-> {}]
    /\ day = [w \in Worker |-> None]
    /\ loaded = [w \in Worker |-> {}]
    /\ dataIDs = [w \in Worker |-> {}]
    /\ sortIDs = [w \in Worker |-> {}]

Goto(w, label) == pc' = [pc EXCEPT ![w] = label]

\* The call of w ends and its variables are gone.
Return(w) ==
    /\ pc' = [pc EXCEPT ![w] = "idle"]
    /\ snap' = [snap EXCEPT ![w] = None]
    /\ files' = [files EXCEPT ![w] = {}]
    /\ doc' = [doc EXCEPT ![w] = None]
    /\ sortId' = [sortId EXCEPT ![w] = 0]
    /\ dataId' = [dataId EXCEPT ![w] = None]
    /\ deprecated' = [deprecated EXCEPT ![w] = {}]
    /\ day' = [day EXCEPT ![w] = None]
    /\ loaded' = [loaded EXCEPT ![w] = {}]
    /\ dataIDs' = [dataIDs EXCEPT ![w] = {}]
    /\ sortIDs' = [sortIDs EXCEPT ![w] = {}]

-----------------------------------------------------------------------------
(* saveSnapshot *)

\* existSnapshot finds a row: the stored snapshot is not touched, the call returns.
SkipSnapshot(w, s) ==
    /\ pc[w] = "idle"
    /\ s \in snapshots
    /\ UNCHANGED vars

\* The snapshot is well formed and existSnapshot finds no row.
SaveSnapshot(w, s) ==
    /\ pc[w] = "idle"
    /\ s \notin snapshots
    /\ Goto(w, "extract")
    /\ snap' = [snap EXCEPT ![w] = s]
    /\ files' = [files EXCEPT ![w] = Files[s]]
    /\ UNCHANGED <<tables, crashes, doc, sortId, dataId, deleting>>

\* extractDocuments: is the md5 of the next file already stored?
SelectMd5(w) ==
    /\ pc[w] = "extract"
    /\ \E d \in files[w] :
        /\ doc' = [doc EXCEPT ![w] = d]
        /\ Goto(w, IF StoredMd5(d) THEN "ref" ELSE "block")
    /\ sortId' = [sortId EXCEPT ![w] = 0]
    /\ UNCHANGED <<tables, crashes, snap, files, dataId, deleting>>

\* storeDocument: a block of data under a new data_id ...
InsertBlock(w) ==
    /\ pc[w] = "block"
    /\ \E b \in DataId : Fresh(b)
    /\ documentsData' =
           [documentsData EXCEPT ![NewDataId] = <<doc[w], sortId[w]>>]
    /\ dataId' = [dataId EXCEPT ![w] = NewDataId]
    /\ Goto(w, "row")
    /\ UNCHANGED <<snapshots, byUniqueid, byModified, refs, documents,
                   crashes, snap, files, doc, sortId, deleting>>

\* ... and then the row that points to it.
InsertRow(w) ==
    /\ pc[w] = "row"
    /\ documents' = [documents EXCEPT ![RowKey(w)] = dataId[w]]
    /\ dataId' = [dataId EXCEPT ![w] = None]
    /\ sortId' = [sortId EXCEPT ![w] = @ + 1]
    /\ Goto(w, IF MoreBlocks(w) THEN "block" ELSE "ref")
    /\ UNCHANGED <<snapshots, byUniqueid, byModified, refs, documentsData,
                   crashes, snap, files, doc, deleting>>

\* extractDocuments: the reference from the document to the snapshot.
InsertRef(w) ==
    /\ pc[w] = "ref"
    /\ refs' = refs \union {<<doc[w], snap[w]>>}
    /\ files' = [files EXCEPT ![w] = @ \ {doc[w]}]
    /\ Goto(w, "extract")
    /\ UNCHANGED <<snapshots, byUniqueid, byModified, documents, documentsData,
                   crashes, snap, doc, sortId, dataId, deleting>>

\* All documents are extracted; the rest of the snapshot is stored.
InsertSnapshotFirst(w) ==
    /\ pc[w] = "extract"
    /\ snapshots' = snapshots \union {snap[w]}
    /\ Goto(w, "uniqueid")
    /\ UNCHANGED <<byUniqueid, byModified, refs, documents, documentsData,
                   crashes, saving, deleting>>
InsertSnapshotIndexOnly(w) ==
    /\ pc[w] = "extract"
    /\ files[w] = {}
    /\ byUniqueid' = byUniqueid \union {snap[w]}
    /\ Goto(w, "uniqueid")
    /\ UNCHANGED <<snapshots, byModified, refs, documents, documentsData,
                   crashes, saving, deleting>>
InsertSnapshot(w) ==
    /\ pc[w] = "extract"
    /\ files[w] = {}
    /\ snapshots' = snapshots \union {snap[w]}
    /\ Goto(w, "uniqueid")
    /\ UNCHANGED <<byUniqueid, byModified, refs, documents, documentsData,
                   crashes, saving, deleting>>

InsertUniqueid(w) ==
    /\ pc[w] = "uniqueid"
    /\ byUniqueid' = byUniqueid \union {snap[w]}
    /\ Goto(w, "modified")
    /\ UNCHANGED <<snapshots, byModified, refs, documents, documentsData,
                   crashes, saving, deleting>>

\* Without a $snapshot.history there is no cleanup and the call ends here.
InsertModified(w) ==
    /\ pc[w] = "modified"
    /\ byModified' = byModified \union {<<ModifiedDay[snap[w]], snap[w]>>}
    /\ IF Limited(snap[w])
       THEN Goto(w, "history") /\ UNCHANGED <<saving, deleting>>
       ELSE Return(w)
    /\ UNCHANGED <<snapshots, byUniqueid, refs, documents, documentsData,
                   crashes>>

-----------------------------------------------------------------------------
(* cleanupSnaphostHistory *)

\* ORDER BY snapshot DESC LIMIT n, and ORDER BY snapshot ASC LIMIT n.
LatestOf(S, n) == { t \in S : Cardinality(NewerThan(t, S)) < n }
OldestOfDescending(S, n) == LatestOf(S, n)
OldestOf(S, n) == { t \in S : Cardinality(S \ (NewerThan(t, S) \union {t})) < n }

\* The rows of the second query: s and the ones before it.
DeprecatedBefore(s) ==
    OldestOf(Siblings(s) \ (NewerThan(s, Snapshot) \union {s}), DeleteLimit)
DeprecatedUpTo(s) ==
    OldestOf(Siblings(s) \ NewerThan(s, Snapshot), DeleteLimit)

\* The last row of the first query; it ends the call if there are too few rows.
SelectHistory(w) ==
    LET found == LatestOf(Siblings(snap[w]), History[snap[w]] + 1)
    IN  /\ pc[w] = "history"
        /\ IF Cardinality(found) < History[snap[w]]
           THEN Return(w)
           ELSE /\ \E t \in OldestOf(found, 1) : snap' = [snap EXCEPT ![w] = t]
                /\ Goto(w, "deprecated")
                /\ UNCHANGED <<files, doc, sortId, dataId, deleting>>
        /\ UNCHANGED <<tables, crashes>>

SelectDeprecated(w) ==
    /\ pc[w] = "deprecated"
    /\ deprecated' = [deprecated EXCEPT ![w] = DeprecatedUpTo(snap[w])]
    /\ Goto(w, "clean")
    /\ UNCHANGED <<tables, crashes, saving, day, loaded, dataIDs, sortIDs>>

\* deleteSnapshot for the next of them, in ascending order.
DeleteNext(w) ==
    /\ pc[w] = "clean"
    /\ \E t \in OldestOf(deprecated[w], 1) :
        /\ snap' = [snap EXCEPT ![w] = t]
        /\ deprecated' = [deprecated EXCEPT ![w] = @ \ {t}]
    /\ Goto(w, "load")
    /\ UNCHANGED <<tables, crashes, files, doc, sortId, dataId,
                   day, loaded, dataIDs, sortIDs>>

\* No snapshot is left to be deleted: saveSnapshot, or the web UI, is done.
EndCleanup(w) ==
    /\ pc[w] = "clean"
    /\ deprecated[w] = {}
    /\ Return(w)
    /\ UNCHANGED <<tables, crashes>>

-----------------------------------------------------------------------------
(* deleteSnapshot *)

\* InspectController.deleteSnapshot: the web UI deletes a snapshot it lists.
DeleteSnapshot(w, s) ==
    /\ AdminDeletes
    /\ pc[w] = "idle"
    /\ s \in byUniqueid
    /\ snap' = [snap EXCEPT ![w] = s]
    /\ Goto(w, "load")
    /\ UNCHANGED <<tables, crashes, files, doc, sortId, dataId, deleting>>

\* loadSnapshot returns an empty object when there is no row: then no file is
\* known.
LoadSnapshot(w) ==
    /\ pc[w] = "load"
    /\ files' = [files EXCEPT ![w] =
                     IF snap[w] \in snapshots THEN Files[snap[w]] ELSE {}]
    /\ day' = [day EXCEPT ![w] = ListedDay(snap[w])]
    /\ Goto(w, "merge")
    /\ UNCHANGED <<tables, crashes, snap, doc, sortId, dataId,
                   deprecated, loaded, dataIDs, sortIDs>>

\* mergeDocumentData: only a whole content has the md5 of the document.
MergeDocument(w) ==
    /\ pc[w] = "merge"
    /\ \E d \in files[w] :
        /\ files' = [files EXCEPT ![w] = @ \ {d}]
        /\ loaded' = [loaded EXCEPT ![w] = IF Whole(d) THEN @ \union {d} ELSE @]
    /\ UNCHANGED <<tables, crashes, pc, snap, doc, sortId, dataId,
                   deprecated, day, dataIDs, sortIDs>>

DeleteSnapshotRow(w) ==
    /\ pc[w] = "merge"
    /\ files[w] = {}
    /\ snapshots' = snapshots \ {snap[w]}
    /\ Goto(w, "delUniqueid")
    /\ UNCHANGED <<byUniqueid, byModified, refs, documents, documentsData,
                   crashes, saving, deleting>>

DeleteUniqueid(w) ==
    /\ pc[w] = "delUniqueid"
    /\ byUniqueid' = byUniqueid \ {snap[w]}
    /\ Goto(w, "delModified")
    /\ UNCHANGED <<snapshots, byModified, refs, documents, documentsData,
                   crashes, saving, deleting>>

DeleteModified(w) ==
    /\ pc[w] = "delModified"
    /\ byModified' = byModified \ {<<day[w], snap[w]>>}
    /\ Goto(w, "delRef")
    /\ UNCHANGED <<snapshots, byUniqueid, refs, documents, documentsData,
                   crashes, saving, deleting>>

\* deleteDocuments: the reference of the next file is deleted.
DeleteRef(w) ==
    /\ pc[w] = "delRef"
    /\ \E d \in loaded[w] :
        /\ doc' = [doc EXCEPT ![w] = d]
        /\ refs' = refs \ {<<d, snap[w]>>}
        /\ loaded' = [loaded EXCEPT ![w] = @ \ {d}]
    /\ Goto(w, "delShared")
    /\ UNCHANGED <<snapshots, byUniqueid, byModified, documents, documentsData,
                   crashes, snap, files, sortId, dataId,
                   deprecated, day, dataIDs, sortIDs>>

\* Another snapshot refers to the document: the method returns, and so
\* the files behind this one are not looked at.
SelectRefs(w) ==
    /\ pc[w] = "delShared"
    /\ IF Shared(doc[w])
       THEN /\ loaded' = [loaded EXCEPT ![w] = {}]
            /\ Goto(w, "delRef")
       ELSE /\ Goto(w, "delSelect")
            /\ UNCHANGED loaded
    /\ UNCHANGED <<tables, crashes, saving, deprecated, day, dataIDs, sortIDs>>

\* The rows of the document, read before any of them is deleted.
SelectRows(w) ==
    LET found == { i \in 0 .. Size[doc[w]] - 1 : documents[<<doc[w], i>>] # None }
    IN  /\ pc[w] = "delSelect"
        /\ sortIDs' = [sortIDs EXCEPT ![w] = found]
        /\ dataIDs' = [dataIDs EXCEPT ![w] =
                           { documents[<<doc[w], i>>] : i \in found }]
        /\ Goto(w, "delBlock")
        /\ UNCHANGED <<tables, crashes, saving, deprecated, day, loaded>>

DeleteBlock(w) ==
    /\ pc[w] = "delBlock"
    /\ \E b \in dataIDs[w] :
        /\ documentsData' = [documentsData EXCEPT ![b] = None]
        /\ dataIDs' = [dataIDs EXCEPT ![w] = @ \ {b}]
    /\ UNCHANGED <<snapshots, byUniqueid, byModified, refs, documents,
                   crashes, pc, saving, deprecated, day, loaded, sortIDs>>

\* All blocks are gone; now the rows.
DeleteRow(w) ==
    /\ pc[w] = "delBlock"
    /\ dataIDs[w] = {}
    /\ \E i \in sortIDs[w] :
        /\ documents' = [documents EXCEPT ![<<doc[w], i>>] = None]
        /\ sortIDs' = [sortIDs EXCEPT ![w] = @ \ {i}]
    /\ UNCHANGED <<snapshots, byUniqueid, byModified, refs, documentsData,
                   crashes, pc, saving, deprecated, day, loaded, dataIDs>>

\* The loop over the files goes on.
NextFile(w) ==
    /\ pc[w] = "delBlock"
    /\ dataIDs[w] = {}
    /\ sortIDs[w] = {}
    /\ Goto(w, "delRef")
    /\ UNCHANGED <<tables, crashes, saving, deleting>>

\* No file is left; the caller goes on.
EndDelete(w) ==
    /\ pc[w] = "delRef"
    /\ loaded[w] = {}
    /\ Goto(w, "clean")
    /\ UNCHANGED <<tables, crashes, saving, deleting>>

-----------------------------------------------------------------------------
\* The process is killed or the driver throws: the call is gone, what it has
\* written stays.
Crash(w) ==
    /\ pc[w] # "idle"
    /\ crashes < MaxCrashes
    /\ crashes' = crashes + 1
    /\ Return(w)
    /\ UNCHANGED tables

-----------------------------------------------------------------------------

Save(w) ==
    \/ \E s \in Snapshot : SkipSnapshot(w, s) \/ SaveSnapshot(w, s)
    \/ SelectMd5(w)
    \/ InsertBlock(w)
    \/ InsertRow(w)
    \/ InsertRef(w)
    \/ InsertSnapshot(w)
    \/ InsertUniqueid(w)
    \/ InsertModified(w)

Cleanup(w) ==
    \/ SelectHistory(w)
    \/ SelectDeprecated(w)
    \/ DeleteNext(w)
    \/ EndCleanup(w)

Delete(w) ==
    \/ \E s \in Snapshot : DeleteSnapshot(w, s)
    \/ LoadSnapshot(w)
    \/ MergeDocument(w)
    \/ DeleteSnapshotRow(w)
    \/ DeleteUniqueid(w)
    \/ DeleteModified(w)
    \/ DeleteRef(w)
    \/ SelectRefs(w)
    \/ SelectRows(w)
    \/ DeleteBlock(w)
    \/ DeleteRow(w)
    \/ NextFile(w)
    \/ EndDelete(w)

Next == \E w \in Worker : Save(w) \/ Cleanup(w) \/ Delete(w) \/ Crash(w)

Spec == Init /\ [][Next]_vars

-----------------------------------------------------------------------------

PC == {"idle", "extract", "block", "row", "ref", "uniqueid", "modified",
       "history", "deprecated", "clean", "load", "merge", "delUniqueid",
       "delModified", "delRef", "delShared", "delSelect", "delBlock"}

\* The tables and the variables of the workers hold values of their types.
TypeOK ==
    /\ snapshots \subseteq Snapshot
    /\ byUniqueid \subseteq Snapshot
    /\ byModified \subseteq Day \X Snapshot
    /\ refs \subseteq Document \X Snapshot
    /\ documents \in [Chunk -> DataId \union {None}]
    /\ documentsData \in [DataId -> Chunk \union {None}]
    /\ crashes \in 0 .. MaxCrashes
    /\ pc \in [Worker -> PC]
    /\ snap \in [Worker -> Snapshot \union {None}]
    /\ files \in [Worker -> SUBSET Document]
    /\ doc \in [Worker -> Document \union {None}]
    /\ sortId \in [Worker -> Nat]
    /\ dataId \in [Worker -> DataId \union {None}]
    /\ deprecated \in [Worker -> SUBSET Snapshot]
    /\ day \in [Worker -> Day \union {None}]
    /\ loaded \in [Worker -> SUBSET Document]
    /\ dataIDs \in [Worker -> SUBSET DataId]
    /\ sortIDs \in [Worker -> SUBSET Nat]

\* saveSnapshot writes the references of all documents of a snapshot before it
\* stores the snapshot.  deleteDocuments relies on it: a document it finds no
\* reference for belongs to no stored snapshot.
StoredIsReferenced ==
    \A s \in snapshots : \A d \in Files[s] : <<d, s>> \in refs

\* Without deletions, every row of the table documents points to a block that holds
\* its data, also while calls overlap and after a crash: loadFileContent never runs
\* into its "Document Data missing" branch.
RowHasBlock ==
    \A c \in Chunk : documents[c] # None => documentsData[documents[c]] = c

\* Without deletions, a snapshot listed under its uniqueid can be loaded, and one
\* listed under its day is also listed under its uniqueid: what the web UI and the
\* restore iterate over exists, wherever saveSnapshot stopped half way.  A deletion
\* that stops after its first statement leaves both rows without a snapshot.
ListedIsStored ==
    /\ byUniqueid \subseteq snapshots
    /\ \A entry \in byModified : entry[2] \in byUniqueid

\* If no call stopped half way then, once no call is in progress, every stored
\* snapshot is listed in both indexes and can be read with all its documents,
\* whatever calls overlapped.
QuiescentConsistent ==
    crashes = 0 /\ (\A w \in Worker : pc[w] = "idle") =>
        /\ snapshots = byUniqueid
        /\ byModified = { <<ModifiedDay[s], s>> : s \in snapshots }
        /\ \A s \in snapshots : \A d \in Files[s] : Whole(d)

\* What the cleanup decides to delete leaves at most $snapshot.history snapshots
\* of the process instance (imixs-archive-service/README.md:176, "the maximum
\* count of historical snapshots"), also when an earlier cleanup was cut short.
\* All snapshots of a process instance have the same $snapshot.history here.
RetentionBound ==
    [][\A w \in Worker :
          pc[w] = "deprecated" /\ pc'[w] = "clean" =>
              Cardinality(Siblings(snap[w]) \ deprecated'[w])
                  <= History[snap[w]] ]_vars

\* The cleanup deletes no snapshot that is the latest one stored for its process
\* instance, the one a restore would use - as long as no call was cut short: a
\* deletion that stops after its first statement leaves a row in
\* snapshots_by_uniqueid, and the next cleanup counts it as a snapshot.  It fails with
\* a $snapshot.history of 1, where the cleanup deletes what was just saved.
LatestKept ==
    crashes = 0 =>
        \A w \in Worker : \A s \in deprecated[w] :
            \E t \in snapshots : /\ getUniqueID(t) = getUniqueID(s)
                                 /\ getSnapshotTime(t) > getSnapshotTime(s)

\* The archive as its clients see it.
ArchiveStatus ==
    [s \in Snapshot |->
        IF s \notin snapshots THEN "absent"
        ELSE IF \A d \in Files[s] : Whole(d) THEN "complete" ELSE "partial"]

Abstract == INSTANCE SnapshotArchive WITH archive <- ArchiveStatus

\* Without deletions the archive is written once: no step, of any worker, and no
\* crash takes a snapshot or one of its documents away.
ImplementsWriteOnce == Abstract!WriteOnceSpec

\* With deletions a snapshot disappears as a whole, and deleting one never takes
\* a document away from another one that shares it.
ImplementsImmutable == Abstract!ImmutableSpec

=============================================================================
