----------------------------- MODULE SnapshotSync -----------------------------
(***************************************************************************)
(* From the workflow server into the archive.  SnapshotService.onSave        *)
(* writes a snapshot, and an event "snapshot.add" that refers to it, in the *)
(* transaction that saves the workitem.  The timer of each instance of the  *)
(* archive service (SyncScheduler.run, SyncService.processEventLog) locks   *)
(* the events one by one, pulls the snapshot, stores it, deletes the event  *)
(* and asks for a backup.  A lock left behind is released by the next timer *)
(* when it is older than the deadlock interval.                             *)
(*                                                                         *)
(* The event log and the document service of the workflow server are code   *)
(* of another project: EventLog's outcomes are taken from how SyncService   *)
(* uses its REST client.  Locking an event that is locked or deleted may be *)
(* ignored or refused; both are possible here.                              *)
(*                                                                         *)
(* Abstractions.  A call of saveSnapshot is one step here (DataService       *)
(* models its statements); $snapshot.history of the archive is not set, so  *)
(* the archive only grows.  A batch of events is a set.  Events             *)
(* "snapshot.remove", which nothing in this repository creates, are left    *)
(* out, and so are snapshots posted by a restore.                           *)
(*                                                                         *)
(* A definition whose name extends that of a following one (Never, Once,     *)
(* AndDelete, Unchecked ...) is a mutant of it, which no specification uses. *)
(***************************************************************************)
EXTENDS Integers, FiniteSets

CONSTANTS
    Workitem,      \* uniqueids of the workitems
    Instance,      \* instances of the archive service
    Topic,         \* "snapshot.backup" and its mirrors; empty: no backup service
    LocalHistory,  \* snapshot.history of the workflow server, 0 keeps all
    PageSize,      \* number of events one search returns at most
    MaxSaves,      \* bound on the number of times a workitem is saved
    MaxFailures,   \* bound on the number of failing calls
    MaxCrashes,    \* bound on the number of crashes of instances
    None           \* no snapshot

ASSUME BoundAssumption ==
    /\ LocalHistory \in Nat
    /\ PageSize \in Nat \ {0}
    /\ MaxSaves \in Nat
    /\ MaxFailures \in Nat
    /\ MaxCrashes \in Nat

\* A snapshot id is the uniqueid of the workitem and the time of the save; the
\* times are numbered, assuming that no two saves of a workitem share one.
Snapshot == Workitem \X (1 .. MaxSaves)

ASSUME NoneAssumption == None \notin Snapshot

VARIABLES
    saves,     \* saves[u]: number of times u was saved; its $snapshotid
    deleted,   \* workitems that are deleted
    local,     \* snapshots in the database of the workflow server
    event,     \* event[s]: the "snapshot.add" entry of s in the event log
    backups,   \* backup entries of the event log: pairs <<topic, snapshot>>
    archive,   \* snapshots stored by the archive service
    failed,    \* snapshots whose pull or save has failed
    failures,  \* number of failed calls
    crashes,   \* number of crashed instances
    pc,        \* next statement of each instance
    batch,     \* events found and not yet processed
    ref,       \* the event in progress, by the snapshot it refers to
    snapshot,  \* the variable of processEventLog: the snapshot pulled
    topics     \* backup topics for which an event is still to be created

workflow == <<saves, deleted, local>>
counters == <<failed, failures, crashes>>
locals == <<pc, batch, ref, snapshot, topics>>
vars == <<workflow, event, backups, archive, counters, locals>>

-----------------------------------------------------------------------------
Init ==
    /\ saves = [u \in Workitem |-> 0]
    /\ deleted = {}
    /\ local = {}
    /\ event = [s \in Snapshot |-> "none"]
    /\ backups = {}
    /\ archive = {}
    /\ failed = {}
    /\ failures = 0
    /\ crashes = 0
    /\ pc = [i \in Instance |-> "idle"]
    /\ batch = [i \in Instance |-> {}]
    /\ ref = [i \in Instance |-> None]
    /\ snapshot = [i \in Instance |-> None]
    /\ topics = [i \in Instance |-> {}]

Goto(i, label) == pc' = [pc EXCEPT ![i] = label]

\* The run ends: by itself, with a RestAPIException or with the process.
EndRun(i) ==
    /\ Goto(i, "idle")
    /\ batch' = [batch EXCEPT ![i] = {}]
    /\ ref' = [ref EXCEPT ![i] = None]
    /\ snapshot' = [snapshot EXCEPT ![i] = None]
    /\ topics' = [topics EXCEPT ![i] = {}]

Fail ==
    /\ failures < MaxFailures
    /\ failures' = failures + 1

Delete(s) == event' = [event EXCEPT ![s] = "deleted"]

-----------------------------------------------------------------------------
(* SnapshotService, on the workflow server *)

Older(s) == { t \in local : t[1] = s[1] /\ t[2] < s[2] }

\* cleanSnaphostHistory: the oldest are removed until s and the ones that remain
\* are at most LocalHistory.
DeprecatedUpTo(s) ==
    LET upTo == Older(s) \union {s}
    IN  { t \in upTo : LocalHistory > 0 /\ Cardinality(upTo \ Older(t)) >= LocalHistory }
Deprecated(s) ==
    { t \in Older(s) :
        LocalHistory > 0 /\ Cardinality(Older(s) \ Older(t)) >= LocalHistory }

\* onSave, in the transaction that saves the workitem u.  The database may deny the
\* removal of old snapshots, which is logged and nothing else.
OnSave(u) ==
    LET s == <<u, saves[u] + 1>>
    IN  /\ u \notin deleted
        /\ saves[u] < MaxSaves
        /\ saves' = [saves EXCEPT ![u] = @ + 1]
        /\ \E removed \in SUBSET Deprecated(s) :
               local' = (local \union {s}) \ removed
        /\ event' = [event EXCEPT ![s] = "queued"]
        /\ UNCHANGED <<deleted, backups, archive, counters, locals>>

\* onDelete removes the snapshots of the workitem, but not their events.
OnDelete(u) ==
    /\ saves[u] > 0
    /\ u \notin deleted
    /\ deleted' = deleted \union {u}
    /\ local' = { s \in local : s[1] # u }
    /\ UNCHANGED <<saves, event, backups, archive, counters, locals>>

-----------------------------------------------------------------------------
(* EventLog: a lock that is not released gets older than the interval *)

LockExpires(s) ==
    /\ event[s] = "locked"
    /\ event' = [event EXCEPT ![s] = "stale"]
    /\ UNCHANGED <<workflow, backups, archive, counters, locals>>

-----------------------------------------------------------------------------
(* SyncScheduler.run and SyncService.processEventLog *)

\* releaseDeadLocks resets the locks that are older than the interval.
ReleasedNever(status) == status
Released(status) == IF status = "stale" THEN "queued" ELSE status

\* The timer fires.
Run(i) ==
    /\ pc[i] = "idle"
    /\ event' = [s \in Snapshot |-> Released(event[s])]
    /\ Goto(i, "search")
    /\ UNCHANGED <<workflow, backups, archive, counters, batch, ref, snapshot, topics>>

SearchEventLog(i) ==
    LET queued == { s \in Snapshot : event[s] = "queued" }
    IN  /\ pc[i] = "search"
        /\ \E found \in SUBSET queued :
            /\ Cardinality(found) <= PageSize
            /\ found # queued => Cardinality(found) = PageSize
            /\ batch' = [batch EXCEPT ![i] = found]
        /\ Goto(i, "next")
        /\ UNCHANGED <<workflow, event, backups, archive, counters, ref, snapshot, topics>>

\* The lock is granted, or ignored because another instance holds it or has
\* deleted the event.
LockEvent(i) ==
    /\ pc[i] = "next"
    /\ \E s \in batch[i] :
        /\ ref' = [ref EXCEPT ![i] = s]
        /\ batch' = [batch EXCEPT ![i] = @ \ {s}]
        /\ event' = [event EXCEPT ![s] = IF @ = "queued" THEN "locked" ELSE @]
    /\ Goto(i, "pull")
    /\ UNCHANGED <<workflow, backups, archive, counters, snapshot, topics>>

\* The lock of such an event is refused, and the run ends.
RefuseLock(i) ==
    /\ pc[i] = "next"
    /\ \E s \in batch[i] : event[s] # "queued"
    /\ EndRun(i)
    /\ UNCHANGED <<workflow, event, backups, archive, counters>>

\* pullSnapshot: the snapshot is read ...
GetDocumentOfWorkitem(i) ==
    /\ pc[i] = "pull"
    /\ \E s \in local :
        /\ s[1] = ref[i][1]
        /\ snapshot' = [snapshot EXCEPT ![i] = s]
    /\ Goto(i, "save")
    /\ UNCHANGED <<workflow, event, backups, archive, counters, batch, ref, topics>>
GetDocumentAndDelete(i) ==
    /\ pc[i] = "pull"
    /\ ref[i] \in local
    /\ snapshot' = [snapshot EXCEPT ![i] = ref[i]]
    /\ Delete(ref[i])
    /\ Goto(i, "save")
    /\ UNCHANGED <<workflow, backups, archive, counters, batch, ref, topics>>
GetDocument(i) ==
    /\ pc[i] = "pull"
    /\ ref[i] \in local
    /\ snapshot' = [snapshot EXCEPT ![i] = ref[i]]
    /\ Goto(i, "save")
    /\ UNCHANGED <<workflow, event, backups, archive, counters, batch, ref, topics>>

\* ... or it does not exist any more: the event is deleted, null is returned.
DocumentNotFound(i) ==
    /\ pc[i] = "pull"
    /\ ref[i] \notin local
    /\ snapshot' = [snapshot EXCEPT ![i] = None]
    /\ Delete(ref[i])
    /\ Goto(i, "delete")
    /\ UNCHANGED <<workflow, backups, archive, counters, batch, ref, topics>>

\* Any other RestAPIException of getDocument, an outage of the workflow server for
\* example, is handled in the same way.
GetDocumentFails(i) ==
    /\ pc[i] = "pull"
    /\ Fail
    /\ failed' = failed \union {ref[i]}
    /\ snapshot' = [snapshot EXCEPT ![i] = None]
    /\ Delete(ref[i])
    /\ Goto(i, "delete")
    /\ UNCHANGED <<workflow, backups, archive, crashes, batch, ref, topics>>

\* ... and stored.
SaveSnapshot(i) ==
    /\ pc[i] = "save"
    /\ archive' = archive \union {snapshot[i]}
    /\ Goto(i, "delete")
    /\ UNCHANGED <<workflow, event, backups, counters, batch, ref, snapshot, topics>>

\* An ArchiveException, or an exception of the database driver, which reaches
\* the caller as EJBException: the snapshot may be stored or not, the event is
\* deleted, no backup is asked for.
SaveSnapshotFails(i) ==
    /\ pc[i] = "save"
    /\ Fail
    /\ failed' = failed \union {ref[i]}
    /\ archive' \in {archive, archive \union {snapshot[i]}}
    /\ Delete(ref[i])
    /\ Goto(i, "next")
    /\ UNCHANGED <<workflow, backups, crashes, batch, ref, snapshot, topics>>

\* A backup is asked for in every topic, if there is a snapshot.
BackupTopicsUnchecked(i) == Topic
BackupTopicsFirst(i) == IF snapshot[i] = None THEN {} ELSE { CHOOSE t \in Topic : TRUE }
BackupTopics(i) == IF snapshot[i] = None THEN {} ELSE Topic

\* The event is done; the backups are next.
DeleteEvent(i) ==
    /\ pc[i] = "delete"
    /\ Delete(ref[i])
    /\ topics' = [topics EXCEPT ![i] = BackupTopics(i)]
    /\ Goto(i, "backup")
    /\ UNCHANGED <<workflow, backups, archive, counters, batch, ref, snapshot>>

CreateBackupEvent(i) ==
    /\ pc[i] = "backup"
    /\ \E t \in topics[i] :
        /\ backups' = backups \union {<<t, ref[i]>>}
        /\ topics' = [topics EXCEPT ![i] = @ \ {t}]
    /\ UNCHANGED <<workflow, event, archive, counters, pc, batch, ref, snapshot>>

NextEvent(i) ==
    /\ pc[i] = "backup"
    /\ topics[i] = {}
    /\ Goto(i, "next")
    /\ UNCHANGED <<workflow, event, backups, archive, counters, batch, ref, snapshot, topics>>

EndProcessEventLog(i) ==
    /\ pc[i] = "next"
    /\ batch[i] = {}
    /\ EndRun(i)
    /\ UNCHANGED <<workflow, event, backups, archive, counters>>

\* A call to the event log fails: the exception ends the run, and the timer is
\* replaced by a new one.
RestAPIException(i) ==
    /\ pc[i] # "idle"
    /\ Fail
    /\ EndRun(i)
    /\ UNCHANGED <<workflow, event, backups, archive, failed, crashes>>

Crash(i) ==
    /\ pc[i] # "idle"
    /\ crashes < MaxCrashes
    /\ crashes' = crashes + 1
    /\ EndRun(i)
    /\ UNCHANGED <<workflow, event, backups, archive, failed, failures>>

-----------------------------------------------------------------------------

Step(i) ==
    \/ Run(i)
    \/ SearchEventLog(i)
    \/ LockEvent(i)
    \/ GetDocument(i)
    \/ DocumentNotFound(i)
    \/ SaveSnapshot(i)
    \/ DeleteEvent(i)
    \/ CreateBackupEvent(i)
    \/ NextEvent(i)
    \/ EndProcessEventLog(i)

Trouble(i) ==
    \/ RefuseLock(i)
    \/ GetDocumentFails(i)
    \/ SaveSnapshotFails(i)
    \/ RestAPIException(i)
    \/ Crash(i)

Next ==
    \/ \E u \in Workitem : OnSave(u) \/ OnDelete(u)
    \/ \E s \in Snapshot : LockExpires(s)
    \/ \E i \in Instance : Step(i) \/ Trouble(i)

\* The interval timer fires again and again and a run goes on until it ends; a
\* lock grows old.  Nobody has to save, to delete or to fail.
Fairness ==
    /\ \A i \in Instance : WF_vars(Step(i))
    /\ \A s \in Snapshot : WF_vars(LockExpires(s))

Spec == Init /\ [][Next]_vars

FairSpec == Spec /\ Fairness

-----------------------------------------------------------------------------

PC == {"idle", "search", "next", "pull", "save", "delete", "backup"}
EventStatus == {"none", "queued", "locked", "stale", "deleted"}

\* The variables hold values of their types, and an instance that is to store a
\* snapshot has read the one its event refers to.
TypeOK ==
    /\ saves \in [Workitem -> 0 .. MaxSaves]
    /\ deleted \subseteq Workitem
    /\ local \subseteq Snapshot
    /\ event \in [Snapshot -> EventStatus]
    /\ backups \subseteq Topic \X Snapshot
    /\ archive \subseteq Snapshot
    /\ failed \subseteq Snapshot
    /\ failures \in 0 .. MaxFailures
    /\ crashes \in 0 .. MaxCrashes
    /\ pc \in [Instance -> PC]
    /\ batch \in [Instance -> SUBSET Snapshot]
    /\ ref \in [Instance -> Snapshot \union {None}]
    /\ snapshot \in [Instance -> Snapshot \union {None}]
    /\ topics \in [Instance -> SUBSET Topic]
    /\ \A i \in Instance : pc[i] = "save" => snapshot[i] = ref[i]

\* An event leaves the log only when its snapshot is archived, when reading or
\* storing it has failed, or when the workflow server has removed the snapshot -
\* with instances that process the same event, locks that expire under a running
\* instance and crashes anywhere.
NothingLost ==
    \A s \in Snapshot :
        event[s] = "deleted" => s \in archive \union failed \/ s \notin local

\* A backup is asked for only when the snapshot is archived: the variable
\* "snapshot" of processEventLog never lets one through that was not stored.
BackupArchived == \A b \in backups : b[2] \in archive

\* The latest snapshot of a workitem is archived in the end, unless the workitem is
\* deleted or the pull has failed.
LatestArchived ==
    \A u \in Workitem :
        <>[](\/ saves[u] = 0
             \/ u \in deleted
             \/ <<u, saves[u]>> \in archive \union failed)

\* Every archived snapshot is backed up in every topic in the end, if no call fails
\* and no instance crashes.
BackedUp ==
    \A s \in Snapshot : \A t \in Topic :
        (s \in archive) ~> (<<t, s>> \in backups \/ failures + crashes > 0)

\* The event log of one snapshot as SnapshotDelivery sees it.
Status ==
    [s \in Snapshot |->
        IF s \in archive THEN "delivered"
        ELSE IF event[s] = "none" THEN "none"
        ELSE IF event[s] = "deleted" THEN "lost" ELSE "queued"]

Delivery == INSTANCE SnapshotDelivery WITH status <- Status

\* Locks, releases, retries and crashes implement a queue in which every snapshot
\* is resolved.
ImplementsDelivery == Delivery!Spec

=============================================================================
