-------------------------------- MODULE Backup --------------------------------
(***************************************************************************)
(* The backup application.  BackupService polls the entries "snapshot.backup" *)
(* of the event log, pulls the snapshot and writes it to the FTP server, one  *)
(* file per workitem.  FullBackupService pages through all workitems by       *)
(* $created and adds an entry with NO_OVERWRITE for each of them.             *)
(*                                                                         *)
(* The two are singletons of one application and run at the same time.  Both   *)
(* talk to the workflow server with the DocumentClient that RestClientHelper,  *)
(* which is application scoped, keeps; its list of items is a setting of      *)
(* the client and not of a call.  RestoreService, which Import models, uses it  *)
(* too and is left out here: existSnapshot asks for "$uniqueid" for the time of  *)
(* one call, and startScheduler makes the helper forget its clients.  A snapshot *)
(* pulled with these items has no $created, from which put takes the directory,  *)
(* so that put fails and the entry stays, as in PutFails; a page queried with    *)
(* them has no $snapshotid, and its requests name no snapshot.                *)
(*                                                                         *)
(* The setup is "Backup without Archive": onSave writes the entry.  A topic   *)
(* has one application (mirrors have topics of their own).  The event log,   *)
(* the document service and the FTP server are external.  The endpoint is     *)
(* configured, so that there always is a client, and the data of an entry is   *)
(* what FullBackupService writes.  The file of a workitem is in the directory  *)
(* of its $created, which all its snapshots share.                           *)
(*                                                                         *)
(* A definition whose name extends that of a following one is a mutant of it. *)
(***************************************************************************)
EXTENDS Integers, FiniteSets

CONSTANTS
    Workitem,      \* uniqueids of the workitems
    Created,       \* Created[w]: $created of the workitem w
    Existing,      \* workitems that were saved once before the backup was set up
    LocalHistory,  \* snapshot.history of the workflow server, 0 keeps all
    Refusals,      \* whether the removal of an old snapshot may be refused
    Second,        \* units of time in a second
    PageSize,      \* entries of a page, of the event log and of a query
    MaxCopies,     \* bound on the entries of one snapshot, besides that of its save
    MaxSaves,      \* MaxSaves[w]: bound on the number of saves of w
    MaxDeletions,  \* bound on the number of deleted workitems
    MaxStarts,     \* bound on how often a user starts FullBackupService or stops
                   \* BackupService; undoing that is free
    MaxFailures,   \* bound on the number of failing calls
    MaxCrashes,    \* bound on the number of restarts of the application
    MaxFaults,     \* bound on both together
    None           \* no entry

ASSUME BackupBounds ==
    /\ LocalHistory \in Nat
    /\ Refusals \in BOOLEAN
    /\ Second \in Nat \ {0}
    /\ PageSize \in Nat \ {0}
    /\ MaxCopies \in Nat
    /\ MaxSaves \in [Workitem -> Nat \ {0}]
    /\ MaxDeletions \in Nat
    /\ MaxStarts \in Nat
    /\ MaxFailures \in Nat
    /\ MaxCrashes \in Nat
    /\ MaxFaults \in Nat

ASSUME CreatedAssumption ==
    /\ Created \in [Workitem -> Nat]
    /\ Existing \subseteq Workitem

Snapshot == UNION { {w} \X (1 .. MaxSaves[w]) : w \in Workitem }

\* Entry 0 of a snapshot is written by its save, the others by the full backup.
Entry == Snapshot \X (0 .. MaxCopies)
Overwrite(e) == e[2] = 0

ASSUME NoEntry == None \notin Entry

VARIABLES
    saves,      \* saves[w]: number of saves of w, its $snapshotid
    deleted,    \* workitems that are deleted
    local,      \* snapshots in the database of the workflow server
    overlapped, \* history: snapshots during whose reading FullBackupService has set
                \* the items of the client BackupService was using
    event,      \* event[e]: the status of the entry e
    file,       \* file[w]: the file of w, its snapshot and what it contains
    items,      \* the items the shared DocumentClient asks for
    failures,   \* number of failed calls
    crashes,    \* number of restarts
    starts,     \* number of starts and stops that are counted
    scheduled,  \* BackupService has a timer
    label,      \* next statement of BackupService.onTimeout
    batch,      \* entries found and not yet processed
    entry,      \* the entry in progress
    pulled,     \* the content of the snapshot pulled
    shared,     \* its client is still the one RestClientHelper keeps
    fullTimer,  \* FullBackupService has a timer
    status,     \* FullBackupStatusHandler.status
    syncPoint,  \* FullBackupStatusHandler.syncPoint, 0 for null
    fullLabel,  \* next statement of FullBackupService.onTimeout
    page        \* snapshots of the page for which no entry is created yet

server == <<saves, deleted, local>>
counters == <<failures, crashes, starts>>
locals == <<label, batch, entry, pulled, shared>>
full == <<fullTimer, status, syncPoint, fullLabel, page>>
vars == <<server, overlapped, event, file, items, counters, scheduled, locals, full>>

NoFile == [saved |-> 0, content |-> "none"]
Stored(s, content) == [saved |-> s[2], content |-> content]

\* A workitem exists from its first save on.
Present == { w \in Workitem : saves[w] > 0 /\ w \notin deleted }
Latest(w) == <<w, saves[w]>>
InLog(e) == event[e] # "none"

-----------------------------------------------------------------------------
Init ==
    /\ saves = [w \in Workitem |-> IF w \in Existing THEN 1 ELSE 0]
    /\ deleted = {}
    /\ local = { <<w, 1>> : w \in Existing }
    /\ overlapped = {}
    /\ event = [e \in Entry |-> "none"]
    /\ file = [w \in Workitem |-> NoFile]
    /\ items = "all"
    /\ failures = 0
    /\ crashes = 0
    /\ starts = 0
    /\ scheduled = TRUE
    /\ label = "idle"
    /\ batch = {}
    /\ entry = None
    /\ pulled = "none"
    /\ shared = TRUE
    /\ fullTimer = FALSE
    /\ status = "none"
    /\ syncPoint = 0
    /\ fullLabel = "idle"
    /\ page = {}

Fail ==
    /\ failures < MaxFailures
    /\ failures + crashes < MaxFaults
    /\ failures' = failures + 1
    /\ UNCHANGED <<crashes, starts>>

ByUser ==
    /\ starts < MaxStarts
    /\ starts' = starts + 1
    /\ UNCHANGED <<failures, crashes>>

-----------------------------------------------------------------------------
(* The workflow server *)

Older(s) == { t \in local : t[1] = s[1] /\ t[2] < s[2] }

\* cleanSnaphostHistory: as many of the older ones are removed as leave
\* LocalHistory with s.
DeprecatedNone(s) == {}
Deprecated(s) ==
    { t \in Older(s) :
        LocalHistory > 0 /\ Cardinality(Older(s) \ Older(t)) >= LocalHistory }

\* onSave: the snapshot, the local history and the entry of the backup in one
\* transaction.  Workitems are created in the order of $created.
OnSave(w) ==
    LET s == <<w, saves[w] + 1>>
    IN  /\ w \notin deleted
        /\ saves[w] < MaxSaves[w]
        /\ saves[w] = 0 => \A u \in Workitem : saves[u] > 0 => Created[u] <= Created[w]
        /\ saves' = [saves EXCEPT ![w] = @ + 1]
        /\ \E refused \in IF Refusals THEN SUBSET Deprecated(s) ELSE {{}} :
               local' = (local \union {s}) \ (Deprecated(s) \ refused)
        /\ event' = [event EXCEPT ![<<s, 0>>] = "queued"]
        /\ UNCHANGED <<deleted, overlapped, file, items, counters, scheduled, locals,
                       full>>

OnDelete(w) ==
    /\ w \in Present
    /\ Cardinality(deleted) < MaxDeletions
    /\ deleted' = deleted \union {w}
    /\ local' = { s \in local : s[1] # w }
    /\ UNCHANGED <<saves, overlapped, event, file, items, counters, scheduled, locals,
                   full>>

\* A lock that is kept gets older than the deadlock interval.
LockExpires(e) ==
    /\ event[e] = "locked"
    /\ event' = [event EXCEPT ![e] = "stale"]
    /\ UNCHANGED <<server, overlapped, file, items, counters, scheduled, locals,
                   full>>

-----------------------------------------------------------------------------
(* BackupService.onTimeout *)

EndRun ==
    /\ label' = "idle"
    /\ batch' = {}
    /\ entry' = None
    /\ pulled' = "none"
    /\ shared' = TRUE

\* The next entry: of this one only its lock may be left.
EndEntry ==
    /\ label' = "next"
    /\ entry' = None
    /\ pulled' = "none"
    /\ UNCHANGED <<batch, shared>>

\* The timer fires; locks that are too old are released.
ReleasedNever(s) == s
ReleasedOther(s) == IF s = "stale" THEN "unlocked" ELSE s
Released(s) == IF s = "stale" THEN "queued" ELSE s

OnTimeout ==
    /\ scheduled
    /\ label = "idle"
    /\ event' = [e \in Entry |-> Released(event[e])]
    /\ label' = "search"
    /\ UNCHANGED <<server, overlapped, file, items, counters, scheduled, batch, entry,
                   pulled, shared, full>>

\* One page of the entries that are not locked; then the FTP server is contacted.
SearchEventLog ==
    LET queued == { e \in Entry : event[e] = "queued" }
    IN  /\ label = "search"
        /\ batch' \in SUBSET queued
        /\ Cardinality(batch') <= PageSize
        /\ batch' # queued => Cardinality(batch') = PageSize
        /\ label' = "next"
        /\ UNCHANGED <<server, overlapped, event, file, items, counters, scheduled,
                       entry, pulled, shared, full>>

\* A failure up to here ends the run.  restartScheduler replaces the timer, and the
\* client by one that asks for all items.
RestartScheduler ==
    /\ label = "search"
    /\ Fail
    /\ EndRun
    /\ items' = "all"
    /\ UNCHANGED <<server, overlapped, event, file, scheduled, full>>

LockEntry ==
    /\ label = "next"
    /\ \E e \in batch :
        /\ entry' = e
        /\ batch' = batch \ {e}
        /\ event' = [event EXCEPT ![e] = "locked"]
    /\ label' = "pull"
    /\ UNCHANGED <<server, overlapped, file, items, counters, scheduled, pulled,
                   shared, full>>

\* The lock fails; this ends the entry and not the run.
LockFails ==
    /\ label = "next"
    /\ Fail
    /\ \E e \in batch : batch' = batch \ {e}
    /\ UNCHANGED <<server, overlapped, event, file, items, scheduled, label, entry,
                   pulled, shared, full>>

\* pullSnapshot sets the items of its client, unless another thread has a new one ...
ResetItemsKept ==
    /\ label = "pull"
    /\ label' = "get"
    /\ UNCHANGED <<server, overlapped, event, file, items, counters, scheduled, batch,
                   entry, pulled, shared, full>>
ResetItems ==
    /\ label = "pull"
    /\ items' = IF shared THEN "all" ELSE items
    /\ label' = "get"
    /\ UNCHANGED <<server, overlapped, event, file, counters, scheduled, batch, entry,
                   pulled, shared, full>>

\* ... and reads the snapshot with the items the client has by then,
Content == IF shared /\ items # "all" THEN "cut" ELSE "whole"

GetDocument ==
    /\ label = "get"
    /\ entry[1] \in local
    /\ pulled' = Content
    /\ label' = "put"
    /\ UNCHANGED <<server, overlapped, event, file, items, counters, scheduled, batch,
                   entry, shared, full>>

\* or finds that the server has removed it, and deletes the entry.
DocumentNotFound ==
    /\ label = "get"
    /\ entry[1] \notin local
    /\ event' = [event EXCEPT ![entry] = "none"]
    /\ EndEntry
    /\ UNCHANGED <<server, overlapped, file, items, counters, scheduled, full>>

\* FTPConnector.put: an existing file is kept if the entry says so.
Skip(w, e) == file[w] # NoFile /\ ~Overwrite(e)

Put ==
    LET w == entry[1][1]
    IN  /\ label = "put"
        /\ file' = IF Skip(w, entry) THEN file
                   ELSE [file EXCEPT ![w] = Stored(entry[1], pulled)]
        /\ label' = "delete"
        /\ UNCHANGED <<server, overlapped, event, items, counters, scheduled, batch,
                       entry, pulled, shared, full>>

\* storeFile fails or the connection breaks: what was sent may be there.
PutFails ==
    LET w == entry[1][1]
    IN  /\ label = "put"
        /\ Fail
        /\ \/ file' = file
           \/ /\ ~Skip(w, entry)
              /\ file' = [file EXCEPT ![w] = Stored(entry[1], "partial")]
        /\ EndEntry
        /\ UNCHANGED <<server, overlapped, event, items, scheduled, full>>

DeleteEntry ==
    /\ label = "delete"
    /\ event' = [event EXCEPT ![entry] = "none"]
    /\ EndEntry
    /\ UNCHANGED <<server, overlapped, file, items, counters, scheduled, full>>

\* Any other call for the entry fails: it keeps its lock and the run goes on.
EntryFailsDeleted ==
    /\ label \in {"pull", "get", "delete"}
    /\ Fail
    /\ event' = [event EXCEPT ![entry] = "none"]
    /\ EndEntry
    /\ UNCHANGED <<server, overlapped, file, items, scheduled, full>>
EntryFails ==
    /\ label \in {"pull", "get", "delete"}
    /\ Fail
    /\ EndEntry
    /\ UNCHANGED <<server, overlapped, event, file, items, scheduled, full>>

EndTimeout ==
    /\ label = "next"
    /\ batch = {}
    /\ EndRun
    /\ UNCHANGED <<server, overlapped, event, file, items, counters, scheduled, full>>

\* BackupController.start and stop; the singleton is not running.
StartScheduler ==
    /\ ~scheduled
    /\ label = "idle"
    /\ scheduled' = TRUE
    /\ items' = "all"
    /\ UNCHANGED <<server, overlapped, event, file, counters, locals, full>>

StopScheduler ==
    /\ scheduled
    /\ label = "idle"
    /\ scheduled' = FALSE
    /\ ByUser
    /\ UNCHANGED <<server, overlapped, event, file, items, locals, full>>

-----------------------------------------------------------------------------
(* FullBackupService *)

\* FullBackupController.start, offered unless the status is RUNNING.  reset() makes
\* RestClientHelper forget its clients; a run of BackupService keeps the old one.
StartFullBackup ==
    /\ status # "running"
    /\ fullLabel = "idle"
    /\ fullTimer' = TRUE
    /\ status' = "running"
    /\ syncPoint' = 0
    /\ items' = "all"
    /\ shared' = (label = "idle")
    /\ ByUser
    /\ UNCHANGED <<server, overlapped, event, file, scheduled, label, batch, entry,
                   pulled, fullLabel, page>>

StopFullSilent(newStatus) ==
    /\ fullTimer' = FALSE
    /\ status' = status
    /\ fullLabel' = "idle"
    /\ page' = {}
StopFull(newStatus) ==
    /\ fullTimer' = FALSE
    /\ status' = newStatus
    /\ fullLabel' = "idle"
    /\ page' = {}

StopFullBackup ==
    /\ status = "running"
    /\ fullLabel = "idle"
    /\ StopFull("canceled")
    /\ UNCHANGED <<server, overlapped, event, file, items, counters, scheduled,
                   locals, syncPoint>>

\* onTimeout: four items are asked for, type, $created, $uniqueid and $snapshotid.
FullTimeout ==
    /\ fullTimer
    /\ fullLabel = "idle"
    /\ status' = "running"
    /\ items' = "ids"
    /\ overlapped' = IF label = "get" /\ shared THEN overlapped \union {entry[1]}
                     ELSE overlapped
    /\ fullLabel' = "query"
    /\ UNCHANGED <<server, event, file, counters, scheduled, locals,
                   fullTimer, syncPoint, page>>

\* The query compares with the syncpoint in whole seconds, and returns the first
\* PageSize workitems by $created.
TruncateUp(t) == ((t + Second) \div Second) * Second
Truncate(t) == (t \div Second) * Second

After(t) == { w \in Present : Created[w] > Truncate(t) }
FirstPage(ws) ==
    { w \in ws : Cardinality({ u \in ws : Created[u] < Created[w] }) < PageSize }

\* A page is enough to tell that only one workitem is left, "skip last entry".
Complete(result) == Cardinality(result) <= 1

\* Several workitems of one time may end a page: the database returns any of them.
QueryDocuments ==
    /\ fullLabel = "query"
    /\ \E result \in SUBSET FirstPage(After(syncPoint)) :
        /\ Cardinality(result) <= PageSize
        /\ result # After(syncPoint) => Cardinality(result) = PageSize
        /\ \A w \in result, u \in After(syncPoint) \ result : Created[w] <= Created[u]
        /\ \/ /\ Complete(result)
              /\ StopFull("stopped")
           \/ /\ ~Complete(result)
              /\ page' = { Latest(w) : w \in result }
              /\ fullLabel' = "create"
              /\ UNCHANGED <<fullTimer, status>>
    /\ items' = "all"
    /\ UNCHANGED <<server, overlapped, event, file, counters, scheduled, locals,
                   syncPoint>>

\* An id that no entry has and that BackupService does not hold from a deleted one.
Free(e) == ~InLog(e) /\ e \notin batch /\ e # entry

\* The entries of a page are created in the order of $created; the syncpoint moves
\* with the last one.
CreateRequest ==
    /\ fullLabel = "create"
    /\ \E s \in page :
        /\ \A t \in page : Created[s[1]] <= Created[t[1]]
        /\ \E c \in 1 .. MaxCopies :
            /\ Free(<<s, c>>)
            /\ \A d \in 1 .. c - 1 : ~Free(<<s, d>>)
            /\ event' = [event EXCEPT ![<<s, c>>] = "queued"]
        /\ page' = page \ {s}
        /\ IF page' = {}
           THEN syncPoint' = Created[s[1]] /\ fullLabel' = "idle"
           ELSE UNCHANGED <<syncPoint, fullLabel>>
    /\ UNCHANGED <<server, overlapped, file, items, counters, scheduled, locals,
                   fullTimer, status>>

\* A failing call cancels the full backup; the items of the client stay as they are.
FullFails ==
    /\ fullLabel # "idle"
    /\ Fail
    /\ StopFull("canceled")
    /\ UNCHANGED <<server, overlapped, event, file, items, scheduled, locals,
                   syncPoint>>

\* The login to the FTP server is refused: a BackupException, which onTimeout does
\* not catch; the timer fires again.
LoginFails ==
    /\ fullLabel = "create"
    /\ Fail
    /\ fullLabel' = "idle"
    /\ page' = {}
    /\ UNCHANGED <<server, overlapped, event, file, items, scheduled, locals,
                   fullTimer, status, syncPoint>>

-----------------------------------------------------------------------------

\* The application restarts: BackupService is scheduled again, a full backup is not.
\* A transfer that was going on may leave a part of the file.
Restart ==
    /\ crashes < MaxCrashes
    /\ failures + crashes < MaxFaults
    /\ crashes' = crashes + 1
    /\ \/ file' = file
       \/ /\ label = "put"
          /\ ~Skip(entry[1][1], entry)
          /\ file' = [file EXCEPT ![entry[1][1]] = Stored(entry[1], "partial")]
    /\ EndRun
    /\ scheduled' = TRUE
    /\ items' = "all"
    /\ StopFull("none")
    /\ syncPoint' = 0
    /\ UNCHANGED <<server, overlapped, event, failures, starts>>

BackupStep ==
    \/ OnTimeout
    \/ SearchEventLog
    \/ LockEntry
    \/ ResetItems
    \/ GetDocument
    \/ DocumentNotFound
    \/ Put
    \/ DeleteEntry
    \/ EndTimeout

FullStep ==
    \/ FullTimeout
    \/ QueryDocuments
    \/ CreateRequest

Trouble ==
    \/ RestartScheduler
    \/ LockFails
    \/ PutFails
    \/ EntryFails
    \/ FullFails
    \/ LoginFails
    \/ Restart

User ==
    \/ StartScheduler
    \/ StopScheduler
    \/ StartFullBackup
    \/ StopFullBackup

Next ==
    \/ \E w \in Workitem : OnSave(w) \/ OnDelete(w)
    \/ \E e \in Entry : LockExpires(e)
    \/ BackupStep
    \/ FullStep
    \/ Trouble
    \/ User

Spec == Init /\ [][Next]_vars

\* Timers fire, a run that has begun goes on, a lock grows old.
Fairness ==
    /\ WF_vars(BackupStep)
    /\ WF_vars(FullStep)
    /\ \A e \in Entry : WF_vars(LockExpires(e))

FairSpec == Spec /\ Fairness

-----------------------------------------------------------------------------

Contents == {"whole", "cut", "partial"}
EventStatus == {"none", "queued", "locked", "stale"}
Labels == {"idle", "search", "next", "pull", "get", "put", "delete"}

\* The variables hold values of their types; an entry is in progress from its lock
\* to its end, and a snapshot while it is written.
TypeOK ==
    /\ saves \in [Workitem -> Nat]
    /\ \A w \in Workitem : saves[w] <= MaxSaves[w]
    /\ deleted \subseteq Workitem
    /\ local \subseteq Snapshot
    /\ overlapped \subseteq Snapshot
    /\ event \in [Entry -> EventStatus]
    /\ file \in [Workitem -> {NoFile} \union [saved : Nat \ {0}, content : Contents]]
    /\ items \in {"all", "ids"}
    /\ failures \in 0 .. MaxFailures
    /\ crashes \in 0 .. MaxCrashes
    /\ starts \in 0 .. MaxStarts
    /\ scheduled \in BOOLEAN
    /\ label \in Labels
    /\ batch \subseteq Entry
    /\ entry \in Entry \union {None}
    /\ entry = None <=> label \in {"idle", "search", "next"}
    /\ pulled \in {"none", "whole", "cut"}
    /\ pulled = "none" <=> label \notin {"put", "delete"}
    /\ shared \in BOOLEAN
    /\ fullTimer \in BOOLEAN
    /\ status \in {"none", "running", "stopped", "canceled"}
    /\ syncPoint \in Nat
    /\ fullLabel \in {"idle", "query", "create"}
    /\ page \subseteq Snapshot

\* The first save of a workitem that onSave asks a backup for.
FirstAsked == [w \in Workitem |-> IF w \in Existing THEN 2 ELSE 1]

HasLatest(w) == file[w] = Stored(Latest(w), "whole")

\* The file of the latest snapshot holds the four items of a full backup's query only:
\* FullBackupService has set them between the statements of pullSnapshot.
MetadataOnly(w) ==
    file[w] = Stored(Latest(w), "cut") /\ Latest(w) \in overlapped

\* The latest snapshot of a workitem is in its file, all of it, or has an entry in the
\* event log, whatever entries of older snapshots and of a full backup are retried.  One
\* excuse: pullSnapshot was reading it when a full backup began to query, and its file
\* holds the four items of that query only.
BackedUpOrQueued ==
    \A w \in Present :
        saves[w] >= FirstAsked[w] =>
            HasLatest(w) \/ InLog(<<Latest(w), 0>>) \/ MetadataOnly(w)

\* When a full backup has come to its end, each workitem has a file or an entry.  One
\* workitem alone is skipped, and so may be one behind a deleted one, or behind one that
\* was created at the very beginning of a second (Created of a run has none).
FullBackupComplete ==
    status = "stopped" /\ deleted = {} /\ Cardinality(Existing) > 1 =>
        \A w \in Present :
            file[w] # NoFile \/ \E e \in Entry : e[1][1] = w /\ InLog(e)

Store == INSTANCE BackupStore WITH
    Asked <- FirstAsked,
    saved <- saves,
    stored <- [w \in Workitem |-> file[w].saved],
    intact <- { w \in Workitem : file[w].content = "whole" },
    removed <- deleted

\* A file is never replaced by the one of an older snapshot.
ImplementsStore == Store!StoreSpec

\* While BackupService is not stopped by the user, the latest snapshot is in its file in
\* the end, all of it, after any failures and restarts.  Two excuses: the workitem is
\* deleted, or its file holds the four items of a full backup's query only, because that
\* began while pullSnapshot was reading this snapshot.
Converges ==
    <>[]scheduled =>
        \A w \in Workitem :
            (saves[w] >= FirstAsked[w]) ~>
                (HasLatest(w) \/ MetadataOnly(w) \/ w \in deleted)

\* A full backup that is started comes to an end.
FullBackupEnds == <>[]scheduled => (status = "running" ~> status # "running")

=============================================================================
