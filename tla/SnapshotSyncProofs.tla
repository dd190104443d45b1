--------------------------- MODULE SnapshotSyncProofs ---------------------------
(***************************************************************************)
(* Theorems about SnapshotSync, for every set of workitems, instances and    *)
(* backup topics and any number of saves, failures and crashes.             *)
(***************************************************************************)
EXTENDS SnapshotSync, TLAPS

\* What an instance knows at each statement: the event it works on, whether the
\* snapshot it holds is stored, whether an event without snapshot is gone.
Knows ==
    \A i \in Instance :
        /\ \A s \in batch[i] : event[s] # "none"
        /\ pc[i] \in {"pull", "save", "delete", "backup"} =>
               ref[i] \in Snapshot /\ event[ref[i]] # "none"
        /\ pc[i] = "delete" /\ snapshot[i] # None =>
               snapshot[i] = ref[i] /\ ref[i] \in archive
        /\ pc[i] = "delete" /\ snapshot[i] = None => event[ref[i]] = "deleted"
        /\ pc[i] = "backup" /\ topics[i] # {} => ref[i] \in archive

\* A snapshot that is not created yet has no event and is not archived; so no
\* snapshot that is given up comes back into the database.
FutureUnknown ==
    \A s \in Snapshot :
        s[2] > saves[s[1]] => event[s] = "none" /\ s \notin archive

SyncInv ==
    /\ TypeOK
    /\ Knows
    /\ FutureUnknown
    /\ NothingLost
    /\ BackupArchived

USE DEF PC, EventStatus

LEMMA InitSyncInv == Init => SyncInv
<1> SUFFICES ASSUME Init
             PROVE  SyncInv
  OBVIOUS
<1>1. TypeOK
  BY BoundAssumption DEF Init, TypeOK
<1>2. QED
  BY <1>1 DEF Init, SyncInv, Knows, FutureUnknown, NothingLost, BackupArchived

\* The next snapshot of a workitem.
LEMMA NextSnapshot ==
  ASSUME TypeOK, NEW u \in Workitem, saves[u] < MaxSaves
  PROVE  /\ <<u, saves[u] + 1>> \in Snapshot
         /\ saves[u] + 1 \in 0 .. MaxSaves
  BY BoundAssumption DEF TypeOK, Snapshot

\* The workflow server creates and removes snapshots.
LEMMA WorkflowSyncInv ==
  ASSUME SyncInv, NEW u \in Workitem, OnSave(u) \/ OnDelete(u)
  PROVE  SyncInv'
<1> USE DEF SyncInv, counters, locals
<1>1. CASE OnSave(u)
  <2> DEFINE s == <<u, saves[u] + 1>>
  <2>1. s \in Snapshot /\ saves[u] + 1 \in 0 .. MaxSaves /\ saves[u] \in Nat
    BY <1>1, NextSnapshot DEF OnSave, TypeOK
  <2>2. event[s] = "none"
    BY <2>1 DEF FutureUnknown
  <2>3. local' \subseteq local \union {s}
    BY <1>1 DEF OnSave
  <2>4. TypeOK'
    BY <1>1, <2>1, <2>3 DEF OnSave, TypeOK
  <2>5. Knows'
    BY <1>1, <2>1, <2>2 DEF OnSave, Knows, TypeOK
  <2>6. FutureUnknown'
    <3> SUFFICES ASSUME NEW t \in Snapshot, t[2] > saves'[t[1]]
                 PROVE  event'[t] = "none" /\ t \notin archive'
      BY DEF FutureUnknown
    <3>1. t[1] \in Workitem /\ t[2] \in Nat /\ t = <<t[1], t[2]>>
      BY DEF Snapshot
    <3>2. saves[t[1]] \in Nat /\ saves'[t[1]] \in Nat
      BY <3>1, <2>4 DEF TypeOK
    <3>3. t # s
      BY <1>1, <2>1, <3>1 DEF OnSave, TypeOK
    <3>4. t[2] > saves[t[1]]
      BY <1>1, <2>1, <3>1, <3>2 DEF OnSave, TypeOK
    <3>5. event[t] = "none" /\ t \notin archive
      BY <3>4 DEF FutureUnknown
    <3>6. QED
      BY <1>1, <2>1, <3>3, <3>5 DEF OnSave, TypeOK
  <2>7. NothingLost'
    BY <1>1, <2>1, <2>3 DEF OnSave, NothingLost, TypeOK
  <2>8. BackupArchived'
    BY <1>1 DEF OnSave, BackupArchived
  <2>9. QED
    BY <2>4, <2>5, <2>6, <2>7, <2>8
<1>2. CASE OnDelete(u)
  <2>1. TypeOK'
    BY <1>2 DEF OnDelete, TypeOK
  <2>2. QED
    BY <1>2, <2>1 DEF OnDelete, Knows, FutureUnknown, NothingLost, BackupArchived
<1>3. QED
  BY <1>1, <1>2

\* A lock expires.
LEMMA ExpireSyncInv ==
  ASSUME SyncInv, NEW s \in Snapshot, LockExpires(s)
  PROVE  SyncInv'
<1> USE DEF SyncInv, LockExpires, workflow, counters, locals
<1>1. TypeOK'
  BY DEF TypeOK
<1>2. Knows' /\ FutureUnknown'
  BY DEF Knows, FutureUnknown, TypeOK
<1>3. QED
  BY <1>1, <1>2 DEF NothingLost, BackupArchived, TypeOK

\* A run that ends forgets what it knew and changes nothing else.
LEMMA EndRunSyncInv ==
  ASSUME SyncInv, NEW i \in Instance, EndRun(i),
         UNCHANGED <<workflow, event, backups, archive, failed>>,
         failures' \in 0 .. MaxFailures, crashes' \in 0 .. MaxCrashes
  PROVE  SyncInv'
<1> USE DEF SyncInv, EndRun, Goto, workflow
<1>1. TypeOK'
  BY DEF TypeOK
<1>2. Knows'
  BY DEF Knows, TypeOK
<1>3. QED
  BY <1>1, <1>2 DEF FutureUnknown, NothingLost, BackupArchived

\* The statements of a run that goes well.
LEMMA StepSyncInv ==
  ASSUME SyncInv, NEW i \in Instance, Step(i)
  PROVE  SyncInv'
<1> USE DEF SyncInv, Goto, workflow, counters
<1>1. CASE Run(i)
  <2>1. TypeOK'
    BY <1>1 DEF Run, Released, TypeOK
  <2>2. \A s \in Snapshot : /\ event[s] = "none" <=> event'[s] = "none"
                            /\ event[s] = "deleted" <=> event'[s] = "deleted"
    BY <1>1 DEF Run, Released, TypeOK
  <2>3. Knows'
    <3> SUFFICES ASSUME NEW j \in Instance
                 PROVE  Knows!(j)'
      BY DEF Knows
    <3>1. /\ pc'[j] = IF j = i THEN "search" ELSE pc[j]
          /\ UNCHANGED <<batch, ref, snapshot, topics, archive>>
          /\ batch[j] \subseteq Snapshot
      BY <1>1 DEF Run, TypeOK
    <3>2. QED
      BY <2>2, <3>1 DEF Knows
  <2>4. QED
    BY <1>1, <2>1, <2>2, <2>3 DEF Run, FutureUnknown, NothingLost, BackupArchived
<1>2. CASE SearchEventLog(i)
  <2>1. TypeOK'
    BY <1>2 DEF SearchEventLog, TypeOK
  <2>2. Knows'
    BY <1>2 DEF SearchEventLog, Knows, TypeOK
  <2>3. QED
    BY <1>2, <2>1, <2>2 DEF SearchEventLog, FutureUnknown, NothingLost, BackupArchived
<1>3. CASE LockEvent(i)
  <2>1. PICK s \in batch[i] :
            /\ ref' = [ref EXCEPT ![i] = s]
            /\ batch' = [batch EXCEPT ![i] = @ \ {s}]
            /\ event' = [event EXCEPT ![s] = IF @ = "queued" THEN "locked" ELSE @]
    BY <1>3 DEF LockEvent
  <2>2. s \in Snapshot
    BY DEF TypeOK
  <2>3. TypeOK'
    BY <1>3, <2>1, <2>2 DEF LockEvent, TypeOK
  <2>4. Knows'
    BY <1>3, <2>1, <2>2 DEF LockEvent, Knows, TypeOK
  <2>5. FutureUnknown' /\ NothingLost'
    BY <1>3, <2>1, <2>2 DEF LockEvent, FutureUnknown, NothingLost, TypeOK
  <2>6. QED
    BY <1>3, <2>3, <2>4, <2>5 DEF LockEvent, BackupArchived
<1>4. CASE GetDocument(i)
  <2>1. TypeOK'
    BY <1>4 DEF GetDocument, Knows, TypeOK
  <2>2. Knows'
    BY <1>4 DEF GetDocument, Knows, TypeOK
  <2>3. QED
    BY <1>4, <2>1, <2>2 DEF GetDocument, FutureUnknown, NothingLost, BackupArchived
<1>5. CASE DocumentNotFound(i)
  <2>1. ref[i] \in Snapshot /\ ref[i] \notin local /\ event[ref[i]] # "none"
    BY <1>5 DEF DocumentNotFound, Knows
  <2>2. TypeOK'
    BY <1>5, <2>1 DEF DocumentNotFound, Delete, TypeOK
  <2>3. Knows'
    BY <1>5, <2>1 DEF DocumentNotFound, Delete, Knows, TypeOK
  <2>4. FutureUnknown'
    BY <1>5, <2>1 DEF DocumentNotFound, Delete, FutureUnknown, TypeOK
  <2>5. NothingLost'
    BY <1>5, <2>1 DEF DocumentNotFound, Delete, NothingLost, TypeOK
  <2>6. QED
    BY <1>5, <2>2, <2>3, <2>4, <2>5 DEF DocumentNotFound, BackupArchived
<1>6. CASE SaveSnapshot(i)
  <2>1. ref[i] \in Snapshot /\ snapshot[i] = ref[i] /\ event[ref[i]] # "none"
    BY <1>6 DEF SaveSnapshot, Knows, TypeOK
  <2>2. TypeOK'
    BY <1>6, <2>1 DEF SaveSnapshot, TypeOK
  <2>3. Knows'
    BY <1>6, <2>1, NoneAssumption DEF SaveSnapshot, Knows, TypeOK
  <2>4. FutureUnknown'
    BY <1>6, <2>1 DEF SaveSnapshot, FutureUnknown
  <2>5. QED
    BY <1>6, <2>2, <2>3, <2>4 DEF SaveSnapshot, NothingLost, BackupArchived
<1>7. CASE DeleteEvent(i)
  <2>1. /\ ref[i] \in Snapshot /\ event[ref[i]] # "none"
        /\ snapshot[i] # None => ref[i] \in archive
        /\ snapshot[i] = None => event[ref[i]] = "deleted"
    BY <1>7 DEF DeleteEvent, Knows
  <2>2. TypeOK'
    BY <1>7, <2>1 DEF DeleteEvent, Delete, BackupTopics, TypeOK
  <2>3. Knows'
    BY <1>7, <2>1 DEF DeleteEvent, Delete, BackupTopics, Knows, TypeOK
  <2>4. FutureUnknown'
    BY <1>7, <2>1 DEF DeleteEvent, Delete, FutureUnknown, TypeOK
  <2>5. NothingLost'
    BY <1>7, <2>1 DEF DeleteEvent, Delete, NothingLost, TypeOK
  <2>6. QED
    BY <1>7, <2>2, <2>3, <2>4, <2>5 DEF DeleteEvent, BackupArchived
<1>8. CASE CreateBackupEvent(i)
  <2>1. PICK t \in topics[i] :
            /\ backups' = backups \union {<<t, ref[i]>>}
            /\ topics' = [topics EXCEPT ![i] = @ \ {t}]
    BY <1>8 DEF CreateBackupEvent
  <2>2. ref[i] \in archive /\ ref[i] \in Snapshot /\ t \in Topic
    BY <1>8, <2>1 DEF CreateBackupEvent, Knows, TypeOK
  <2>3. TypeOK'
    BY <1>8, <2>1, <2>2 DEF CreateBackupEvent, TypeOK
  <2>4. Knows'
    BY <1>8, <2>1, <2>2 DEF CreateBackupEvent, Knows, TypeOK
  <2>5. BackupArchived'
    BY <1>8, <2>1, <2>2 DEF CreateBackupEvent, BackupArchived
  <2>6. QED
    BY <1>8, <2>3, <2>4, <2>5 DEF CreateBackupEvent, FutureUnknown, NothingLost
<1>9. CASE NextEvent(i)
  <2>1. TypeOK' /\ Knows'
    BY <1>9 DEF NextEvent, Knows, TypeOK
  <2>2. QED
    BY <1>9, <2>1 DEF NextEvent, FutureUnknown, NothingLost, BackupArchived
<1>10. CASE EndProcessEventLog(i)
  BY <1>10, EndRunSyncInv DEF EndProcessEventLog, TypeOK
<1>11. QED
  BY <1>1, <1>2, <1>3, <1>4, <1>5, <1>6, <1>7, <1>8, <1>9, <1>10 DEF Step

\* Failures, refusals and crashes.
LEMMA TroubleSyncInv ==
  ASSUME SyncInv, NEW i \in Instance, Trouble(i)
  PROVE  SyncInv'
<1> USE DEF SyncInv, Goto, Fail, workflow
<1>0. failures \in 0 .. MaxFailures /\ crashes \in 0 .. MaxCrashes
  BY DEF TypeOK
<1>1. CASE RefuseLock(i)
  BY <1>0, <1>1, EndRunSyncInv DEF RefuseLock, counters
<1>2. CASE GetDocumentFails(i)
  <2>1. ref[i] \in Snapshot /\ event[ref[i]] # "none" /\ ref[i] \in failed' /\ failed \subseteq failed'
    BY <1>2 DEF GetDocumentFails, Knows
  <2>2. TypeOK'
    BY <1>0, <1>2, <2>1, BoundAssumption DEF GetDocumentFails, Delete, TypeOK
  <2>3. Knows'
    BY <1>2, <2>1 DEF GetDocumentFails, Delete, Knows, TypeOK
  <2>4. FutureUnknown'
    BY <1>2, <2>1 DEF GetDocumentFails, Delete, FutureUnknown, TypeOK
  <2>5. NothingLost'
    BY <1>2, <2>1 DEF GetDocumentFails, Delete, NothingLost, TypeOK
  <2>6. QED
    BY <1>2, <2>2, <2>3, <2>4, <2>5 DEF GetDocumentFails, BackupArchived
<1>3. CASE SaveSnapshotFails(i)
  <2>1. /\ ref[i] \in Snapshot /\ event[ref[i]] # "none" /\ ref[i] \in failed' /\ failed \subseteq failed'
        /\ archive \subseteq archive' /\ archive' \subseteq archive \union {ref[i]}
    BY <1>3 DEF SaveSnapshotFails, Knows, TypeOK
  <2>2. TypeOK'
    BY <1>0, <1>3, <2>1, BoundAssumption DEF SaveSnapshotFails, Delete, TypeOK
  <2>3. Knows'
    BY <1>3, <2>1 DEF SaveSnapshotFails, Delete, Knows, TypeOK
  <2>4. FutureUnknown'
    BY <1>3, <2>1 DEF SaveSnapshotFails, Delete, FutureUnknown, TypeOK
  <2>5. NothingLost'
    BY <1>3, <2>1 DEF SaveSnapshotFails, Delete, NothingLost, TypeOK
  <2>6. BackupArchived'
    BY <1>3, <2>1 DEF SaveSnapshotFails, BackupArchived
  <2>7. QED
    BY <2>2, <2>3, <2>4, <2>5, <2>6
<1>4. CASE RestAPIException(i)
  BY <1>0, <1>4, EndRunSyncInv, BoundAssumption DEF RestAPIException
<1>5. CASE Crash(i)
  BY <1>0, <1>5, EndRunSyncInv, BoundAssumption DEF Crash
<1>6. QED
  BY <1>1, <1>2, <1>3, <1>4, <1>5 DEF Trouble

LEMMA NextSyncInv == SyncInv /\ [Next]_vars => SyncInv'
<1> SUFFICES ASSUME SyncInv, [Next]_vars
             PROVE  SyncInv'
  OBVIOUS
<1>1. CASE UNCHANGED vars
  BY <1>1 DEF vars, workflow, counters, locals, SyncInv, TypeOK, Knows,
     FutureUnknown, NothingLost, BackupArchived
<1>2. QED
  BY <1>1, WorkflowSyncInv, ExpireSyncInv, StepSyncInv, TroubleSyncInv DEF Next

\* The variables of the workflow server, the event log and the instances always
\* hold values of their types.
THEOREM SyncTyping == Spec => []TypeOK
<1>1. SyncInv => TypeOK
  BY DEF SyncInv
<1>2. QED
  BY <1>1, InitSyncInv, NextSyncInv, PTL DEF Spec

\* However many instances process the event log and wherever they fail or stop, no
\* event leaves the log while its snapshot is neither archived nor failed nor gone.
THEOREM EventsNotLost == Spec => []NothingLost
<1>1. SyncInv => NothingLost
  BY DEF SyncInv
<1>2. QED
  BY <1>1, InitSyncInv, NextSyncInv, PTL DEF Spec

\* Every backup that processEventLog asks for is one of an archived snapshot.
THEOREM BackupsAreArchived == Spec => []BackupArchived
<1>1. SyncInv => BackupArchived
  BY DEF SyncInv
<1>2. QED
  BY <1>1, InitSyncInv, NextSyncInv, PTL DEF Spec

-----------------------------------------------------------------------------
(* The event log implements the queue of SnapshotDelivery; that every snapshot  *)
(* is resolved depends on fairness and is left to model checking.               *)

LEMMA InitDelivery == Init => Delivery!Init
  BY DEF Init, Delivery!Init, Status

\* The status of one snapshot changes, from one of the given values.
LEMMA OneMoves ==
  ASSUME NEW s \in Snapshot, NEW to, Status'[s] = to,
         \A t \in Snapshot : t # s => Status'[t] = Status[t]
  PROVE  Status' = [Status EXCEPT ![s] = to]
  BY DEF Status

\* A step that only deletes the event of s, and perhaps archives s, resolves it.
LEMMA DeleteDelivers ==
  ASSUME SyncInv, NEW s \in Snapshot, event[s] # "none",
         event' \in {event, [event EXCEPT ![s] = "deleted"]},
         archive' \in {archive, archive \union {s}}
  PROVE  Delivery!Next \/ UNCHANGED Status
<1>1. \A t \in Snapshot : t # s => Status'[t] = Status[t]
  BY DEF Status, SyncInv, TypeOK
<1>2. CASE s \in archive
  <2>1. Status'[s] = Status[s]
    BY <1>2 DEF Status
  <2>2. QED
    BY <1>1, <2>1 DEF Status
<1>3. CASE s \notin archive /\ s \in archive'
  <2>1. Status[s] \in {"queued", "lost"} /\ Status'[s] = "delivered"
    BY <1>3 DEF Status
  <2>2. QED
    BY <1>1, <2>1, OneMoves
       DEF Delivery!Next, Delivery!Resolve, Delivery!Deliver, Delivery!Move
<1>4. CASE s \notin archive' /\ s \notin archive
  <2>1. /\ Status[s] \in {"queued", "lost"}
        /\ Status'[s] \in {Status[s], "lost"}
    BY <1>4 DEF Status, SyncInv, TypeOK
  <2>2. CASE Status'[s] = Status[s]
    BY <1>1, <2>2 DEF Status
  <2>3. CASE Status[s] = "queued" /\ Status'[s] = "lost"
    BY <1>1, <2>3, OneMoves
       DEF Delivery!Next, Delivery!Resolve, Delivery!GiveUp, Delivery!Move
  <2>4. QED
    BY <2>1, <2>2, <2>3
<1>5. QED
  BY <1>2, <1>3, <1>4

\* A step that only moves events between queued, locked and stale is not seen.
LEMMA LocksUnseen ==
  ASSUME UNCHANGED archive,
         \A s \in Snapshot : /\ event'[s] = "none" <=> event[s] = "none"
                             /\ event'[s] = "deleted" <=> event[s] = "deleted"
  PROVE  UNCHANGED Status
  BY DEF Status

LEMMA StepDelivery ==
  ASSUME SyncInv, [Next]_vars
  PROVE  Delivery!Next \/ UNCHANGED Status
<1> USE DEF SyncInv
<1>1. ASSUME NEW u \in Workitem, OnSave(u)
      PROVE  Delivery!Next
  <2> DEFINE s == <<u, saves[u] + 1>>
  <2>1. s \in Snapshot /\ saves[u] \in Nat
    BY <1>1, NextSnapshot DEF OnSave, TypeOK
  <2>2. event[s] = "none" /\ s \notin archive
    BY <2>1 DEF FutureUnknown
  <2>3. Status[s] = "none" /\ Status'[s] = "queued"
    BY <1>1, <2>1, <2>2 DEF OnSave, Status, TypeOK
  <2>4. \A t \in Snapshot : t # s => Status'[t] = Status[t]
    BY <1>1, <2>1 DEF OnSave, Status, TypeOK
  <2>5. QED
    BY <2>1, <2>3, <2>4, OneMoves DEF Delivery!Next, Delivery!Create, Delivery!Move
<1>2. ASSUME NEW u \in Workitem, OnDelete(u)
      PROVE  UNCHANGED Status
  BY <1>2 DEF OnDelete, Status
<1>3. ASSUME NEW s \in Snapshot, LockExpires(s)
      PROVE  UNCHANGED Status
  BY <1>3, LocksUnseen DEF LockExpires, TypeOK
<1>4. ASSUME NEW i \in Instance, Run(i)
      PROVE  UNCHANGED Status
  BY <1>4, LocksUnseen DEF Run, Released, TypeOK
<1>5. ASSUME NEW i \in Instance, LockEvent(i)
      PROVE  UNCHANGED Status
  <2>1. PICK s \in batch[i] :
            event' = [event EXCEPT ![s] = IF @ = "queued" THEN "locked" ELSE @]
    BY <1>5 DEF LockEvent
  <2>2. QED
    BY <1>5, <2>1, LocksUnseen DEF LockEvent, TypeOK
<1>6. ASSUME NEW i \in Instance,
             \/ DocumentNotFound(i) \/ SaveSnapshot(i) \/ DeleteEvent(i)
             \/ GetDocumentFails(i) \/ SaveSnapshotFails(i)
      PROVE  Delivery!Next \/ UNCHANGED Status
  <2>1. ref[i] \in Snapshot /\ event[ref[i]] # "none"
    BY <1>6 DEF Knows, DocumentNotFound, SaveSnapshot, DeleteEvent,
       GetDocumentFails, SaveSnapshotFails
  <2>2. pc[i] = "save" => snapshot[i] = ref[i]
    BY DEF TypeOK
  <2>3. /\ event' \in {event, [event EXCEPT ![ref[i]] = "deleted"]}
        /\ archive' \in {archive, archive \union {ref[i]}}
    BY <1>6, <2>2 DEF DocumentNotFound, SaveSnapshot, DeleteEvent,
       GetDocumentFails, SaveSnapshotFails, Delete
  <2>4. QED
    BY <2>1, <2>3, DeleteDelivers
<1>7. ASSUME NEW i \in Instance,
             \/ SearchEventLog(i) \/ GetDocument(i) \/ CreateBackupEvent(i)
             \/ NextEvent(i) \/ EndProcessEventLog(i) \/ RefuseLock(i)
             \/ RestAPIException(i) \/ Crash(i)
      PROVE  UNCHANGED Status
  <2>1. UNCHANGED <<event, archive>>
    BY <1>7 DEF SearchEventLog, GetDocument, CreateBackupEvent, NextEvent,
       EndProcessEventLog, RefuseLock, RestAPIException, Crash
  <2>2. QED
    BY <2>1 DEF Status
<1>8. CASE UNCHANGED vars
  BY <1>8 DEF vars, Status
<1>9. QED
  BY <1>1, <1>2, <1>3, <1>4, <1>5, <1>6, <1>7, <1>8 DEF Next, Step, Trouble

\* Several instances that lock, release, retry, fail and crash implement a queue: a
\* snapshot is queued once, then delivered or given up, and what is delivered
\* stays delivered.
THEOREM DeliverySafe == Spec => Delivery!SafeSpec
<1>1. SyncInv /\ [Next]_vars => [Delivery!Next]_Status
  BY StepDelivery
<1>2. QED
  BY <1>1, InitSyncInv, NextSyncInv, InitDelivery, PTL DEF Spec, Delivery!SafeSpec

=============================================================================
