# A TLA+ verification of Imixs-Archive

Imixs-Archive keeps an immutable copy of the business data of an Imixs-Workflow
instance. This directory holds TLA+ modules that model its services, the TLC
configurations that check them on small instances, and TLAPS proofs of the
properties that matter most for every value of the constants. Every definition
is translated from the Java source; `PROJECT.json` maps each one to its lines.

## 1. The system

| Component | State | Operations | Interacts with |
|---|---|---|---|
| **SnapshotService** (archive-api, inside the workflow server) | the local snapshots of each workitem, the `$snapshotid` of the workitem | `onSave` (new snapshot, local history, events), `onDelete` | writes `snapshot.add` events in the transaction of the save |
| **Event log** (imixs-workflow, external) | entries: topic, reference, lock with a time | search, lock, unlock, release dead locks, delete, create | polled by SyncService, BackupService and the exporter |
| **SyncScheduler / SyncService** (archive-service) | none but the local variables of a run | release dead locks, search, lock, pull, save, delete, create backup events | event log, SnapshotRestService/document REST API, DataService |
| **DataService** (archive-service) | six Cassandra tables: `snapshots`, `snapshots_by_uniqueid`, `snapshots_by_modified`, `snapshots_by_document`, `documents`, `documents_data` | `saveSnapshot`, `cleanupSnaphostHistory`, `deleteSnapshot`, `loadSnapshot`, `loadMetadata`/`saveMetadata` | called by SyncService, ResyncService, RestoreScheduler, the REST API and the web UI, at the same time and without a lock |
| **ResyncService** | the metadata row `"0"` (syncpoint, counters), a single-action timer, the status flag | `start`, `cancel`, `onTimeout` | SnapshotRestService (groups of a syncpoint), DataService |
| **RestoreScheduler** | the same metadata row (range, restore point, counters), an interval timer | `start`, `cancel`, `onTimeout` | DataService, `SnapshotRestService.postSnapshot` |
| **SnapshotRestService** (archive-api) | the documents of the workflow server | `getDocumentsBySyncPoint`, `postSnapshot` | ResyncService, both restores |
| **BackupService / FTPConnector** (archive-backup) | one file per workitem on an FTP server, a timer | `onTimeout`, `pullSnapshot`, `put`, `startScheduler`, `stopScheduler` | event log, FTP, the client in RestClientHelper |
| **FullBackupService** | a syncpoint, a timer, the status flag | `onTimeout`, `startScheduler`, `stopScheduler` | writes backup events with `NO_OVERWRITE`; the same client |
| **Backup RestoreService** | a timer, the status flag | `onTimeout`, `existSnapshot`, `restoreSnapshot`, `startScheduler`, `stopScheduler` | FTP, `postSnapshot` |
| **SnapshotCompactor** (archive-api) | - | removes local snapshots older than a grace period | archive REST API |
| **Exporter** (archive-exporter) | exported files, a timer | `onTimeout` with lock, pull, write, delete or unlock, `startScheduler`, `stopScheduler` | event log, file system or FTP |
| REST read API, web controllers, ClusterService, health check, REST clients, SplitAndJoinPlugin | none of their own | - | - |

What is hard in it:

* *Concurrency without locks.* DataService is a stateless bean on Cassandra: each
  CQL statement is atomic, a call is not. Documents are shared between snapshots
  by their MD5, so that a save and a delete of two different snapshots interact.
* *Crashes and partial failure.* Any call may stop between two statements; the
  next attempt is skipped when `existSnapshot` finds the row.
* *Locks with a timeout.* An event is locked, and any instance releases the lock
  when it is old, whether its holder crashed or is only slow.
* *Order of effects.* Store, delete the event, create the backup events: each order
  loses something else in a crash.
* *Shared rows.* The metadata row is read, changed and written back as a whole by
  three components.
* *Files that are cut.* A transfer that fails or is killed leaves a part of a file, in the
  place of a whole one; whether and by whom it is written again depends on the entries
  that are left in the event log.
* *One file for many entries.* Backup and export have one entry per save and one file
  (or directory) per workitem: a late retry of an old entry meets the files of a newer one.
* *Boundaries.* `$snapshot.history`, syncpoints in milliseconds, page sizes, days.

What makes each component correct: a stored snapshot is complete and stays so
(DataService); each snapshot is archived, or there is a reason why not
(SyncService); a backup is asked for exactly for what is archived (SyncService);
no snapshot before the syncpoint is missing (ResyncService); the latest snapshot
of the range is restored (RestoreScheduler); the backup file becomes the latest
snapshot and is never replaced by an older one (BackupService); a full backup leaves no
workitem without a file (FullBackupService); an import brings back what its files hold
(RestoreService); an entry leaves the event log only when its files are exported
(exporter); a local snapshot is removed only when it is archived (SnapshotCompactor).

## 2. Modules

| Module | What it models |
|---|---|
| `SnapshotArchive` | the abstract archive: each snapshot is absent, partial or complete; what may happen to it |
| `DataService` | `DataService.java`, one action per CQL statement, any number of calls in progress (`Worker`) |
| `MCDataService` | constants for TLC |
| `DataServiceProofs` | proofs about `DataService`: types, and any number of calls without deletions |
| `DataDeletionProofs` | proofs about `DataService`: one call after another, with deletions and cleanups |
| `SnapshotDelivery` | the abstract queue: each snapshot is queued, then delivered or given up |
| `SnapshotSync` | `SnapshotService`, the event log, `SyncScheduler` and `SyncService` on several instances |
| `MCSnapshotSync` | constants for TLC |
| `SnapshotSyncProofs` | proofs about `SnapshotSync` |
| `Resync` | `ResyncService`, `ResyncController`, `getDocumentsBySyncPoint` and the metadata row |
| `MCResync` | constants for TLC |
| `ResyncProofs` | proofs about `Resync` |
| `Restore` | `RestoreScheduler`, `RestoreController`, `postSnapshot`, composed with `Resync` |
| `MCRestore` | constants for TLC |
| `RestoreProofs` | proofs about `Restore`, with those about the steps of `Resync` |
| `BackupStore` | the abstract store: one version per workitem, only replaced by the same or a newer one |
| `Backup` | `BackupService`, `FTPConnector`, `FullBackupService`, their controllers and the event log |
| `MCBackup` | constants for TLC |
| `BackupProofs` | proofs about `Backup` |
| `Import` | the `RestoreService` of archive-backup, composed with `BackupStore` |
| `MCImport` | constants for TLC |
| `ImportProofs` | proofs about `Import` |
| `Export` | `SchedulerService` and `FileService` of archive-exporter on several instances |
| `MCExport` | constants for TLC |
| `ExportProofs` | proofs about `Export` |

`DataService` implements `SnapshotArchive`, `SnapshotSync` implements
`SnapshotDelivery` and `Backup` implements `BackupStore`, each by a refinement mapping at
the end of the module. `Import` uses `BackupStore` in the place of `Backup`: the steps
of users and of BackupService that it meets are those of the abstract store. This is more
than the code can do there (any version up to the latest may be written, whole or in part).
`SnapshotSync` uses a call of `saveSnapshot` as one step; this is justified by
`DataService`: for its caller the snapshot is stored or not (`existSnapshot` reads one row).

### DataService

State: one variable per table, as the set of its keys (`snapshots`, `byUniqueid`,
`byModified`, `refs`) or as a function from key to value (`documents` from MD5 and
`sort_id` to `data_id`, `documentsData` from `data_id` to the block), and the
program counter and local variables of each worker. `SaveSnapshot` ..
`InsertModified` follow `saveSnapshot`, `extractDocuments` and `storeDocument`
statement by statement; `SelectHistory` .. `EndCleanup` follow
`cleanupSnaphostHistory` with its two queries; `DeleteSnapshot` .. `EndDelete`
follow `deleteSnapshot` and `deleteDocuments` with the early return when a document
is shared. `Crash` ends a call between any two statements and is also the
exception of the driver, which no method catches.

Abstracted: the content of a document is its identity (hence its MD5); a block is
the pair of the document and its number; the loop over the file list takes the
files in any order; reading all blocks of a document is one step (the head of the
module says why this is exact).

### SnapshotSync

State: per workitem the number of saves (its `$snapshotid`), the local
snapshots, the status of the `snapshot.add` event of each snapshot (`none`, `queued`,
`locked`, `stale`: locked longer than the deadlock interval, `deleted`), the backup
events, the archive and the locals of each instance. `OnSave` and `OnDelete` are
the whole transaction of the workflow server, local history included. An instance
goes through `Run` (timer, release of dead locks), `SearchEventLog` (any page),
and for each event `LockEvent`, `GetDocument`, `SaveSnapshot`, `DeleteEvent` and
one `CreateBackupEvent` per topic; the failures of each call are
`DocumentNotFound`, `GetDocumentFails`, `SaveSnapshotFails`, `RefuseLock`,
`RestAPIException`, and the process may `Crash` anywhere.

External: the event log and the document service of the workflow server are not
part of this repository. Where their behaviour is not visible from the calls (a
lock on an entry that is locked or gone), both outcomes are modelled.

### Resync

State: `$modified` of each snapshot on the workflow server (0: not there), the same in
the archive, the metadata row, the timer (`none`, `waiting`, or the run it belongs
to), the status flag, the controller of the web page with its copy of the row, and per
run its copy of the row, the syncpoint it has read, the group of snapshots with this
`$modified` and the snapshot being stored. A run is `OnTimeout`, then
`ReadSyncData` and for each snapshot of the group `NextDocument` (which asks the
archive for it), `SaveSnapshot` and `SaveMetadata` (which writes the whole row and looks
at the status), then `CheckStatus`. It ends with `NoMoreData`, in `SaveMetadata`
or `CheckStatus` when the status is `canceled`, and with `ReadSyncDataFails` or
`Abort`. ResyncService is stateless and canceling a timer does not stop
its run, so `Run` has more than one element: a canceled run and the next one overlap.

Two history items make the claim of the row precise: `base`, the point from which the
syncpoint has advanced by reading (a user may set it to any time), and `missed`, the
snapshots a run left out. A snapshot is missed when it becomes visible with a
`$modified` that was already read (a late commit), when `saveSnapshot` fails (the
code logs it and goes on), or when the run ends within a group after the row was written
(a cancel, a failure, a restart): later runs read strictly after the syncpoint.

Abstracted: the counters of the row, the messages, the content of a snapshot. The restore
items of the row are carried along in `restore`, for `Restore`. The two
queries of `getDocumentsBySyncPoint` are one step. One user works on the page at a time.

### Restore

Extends `Resync`: its variables and actions are those of the other components that work on
the metadata row, the archive and the server while a restore runs. New are the
`$snapshotid` of each workitem (`origin`), the timer, and the locals of the scheduler.
`StartRestore` loads the row and sets its items, `SaveStart` writes it and creates the
timer; between the two another component may write its own copy. `RestoreTimeout`
loads the row; then for each day `LoadDay`, `VerifySnapshot` per listed snapshot (the latest
snapshot of the range, the filter, the `$snapshotid` on the server), `PostSnapshot`, and
`NextDay`, which writes the whole row with the copy loaded at the beginning. The
scheduler is a singleton: `label` is one program counter for all its methods.

`SaveWorkitem` is a save by a user (`Resync`'s `SaveDocument` with the workitem it belongs
to), `LoseWorkitem` the loss of data that calls for a restore; `Other` is any other step
of `Resync`. The history items `due` and `undone` say what a restore that was asked for
owes each workitem, and whether the row it read still holds what was asked.

The restored snapshot has a new `$modified`, so that the next resync reads it again;
it is in the archive and not stored a second time. The event `postSnapshot` creates has no
effect for the same reason and is left out. The archive is listed by day and by
workitem as if `saveSnapshot` were one step.

Two details decide what a restore finds. `findLatestSnapshotID` compares the ids as texts
(`TextUpTo`): a time is a number of the clock written with the digits of `Radix`, all ids
have one number of digits (13 in the code, from 2001 to 2286), and `restore.from` and
`restore.to` may have fewer. The archive lists a snapshot under its day in UTC (`Day`), while
the scheduler asks for days of the system's time zone (`LocalDay`), which is `Zone` units
ahead of UTC or behind it; summer time is left out. What a restore owes (`Promised`) is
stated independently of both, with the order of numbers and the days it counts itself, and
names what the code cannot keep: a range of fewer digits than the ids, unless it begins at
0, and a UTC day that has no date of a visited one.

### Backup

The setup is "Backup without Archive" of the README of archive-backup: `onSave` writes the
entry `snapshot.backup` itself. State: per workitem the number of saves, the local
snapshots, the status of each entry, and the file on the FTP server with its snapshot and
what it contains (`whole`; `cut`: the items `type`, `$created`, `$uniqueid` and `$snapshotid`
only, those the full backup asks for; `partial`: a transfer that did not end). A run of `BackupService` is `OnTimeout` (release of dead
locks), `SearchEventLog`, and for each entry `LockEntry`, `ResetItems`, `GetDocument` or
`DocumentNotFound`, `Put`, `DeleteEntry`. A failure in an entry (`LockFails`, `PutFails`,
`EntryFails`) leaves it locked and the run goes on; one before the entries ends the run and
replaces the timer (`RestartScheduler`). `FullBackupService` has a run of its own beside it:
`FullTimeout`, `QueryDocuments` with the page by `$created`, and one `CreateRequest` per
workitem; its entries do not overwrite a file.

`items` is the list of items of the DocumentClient that RestClientHelper keeps for the whole
application, and `shared` whether the run of BackupService still uses this client: the
start of a full backup makes RestClientHelper create another one. What `GetDocument` reads
depends on the setting another thread has made after `ResetItems`. The history item
`overlapped` has the snapshots during whose reading this happened. A file counts as the
snapshot only when it is whole (`HasLatest`, and `intact` in the refinement of `BackupStore`);
the properties name a file of four items as an exception of its own (`MetadataOnly`), which is
limited to the snapshots in `overlapped`.

`RestoreService` uses the client of RestClientHelper, too: `existSnapshot` (line 289) sets
its items to `$snapshotid`, and `startScheduler` (line 341) makes RestClientHelper create
another one. An import beside a backup is left out. In `Backup` it would add: a snapshot that
is read with `$snapshotid` only has no `$created`, so that `put` fails before it writes (the
effect of `PutFails`); and a query of the full backup would miss its items.

Abstracted: the content of a snapshot is its number; the working directories of the FTP
server are left out (the file of a workitem is always in that of its `$created`). The event
log, the document service and the FTP server are external.

### Import

State: the workitems (`origin`) and snapshots (`local`) on the workflow server, the timers
(`startScheduler` does not cancel an earlier one), the status flag, and the locals of the run:
the files listed and the snapshot in hand. `ImportTimeout`, `ListFiles`, then per file
`GetFile`, `GetEmptyFile`, `GetNothing` or `GetBrokenFile`, `ExistSnapshot`, `PostSnapshot`, and
`NextFile` or `Canceled`; `EndImport` cancels the timer. A file that was cut off is broken, which
is an exception, or without any byte (`GetEmptyFile`); of such a file, and of one the server
refuses (`GetNothing`: `FTPConnector.get` ignores the result of `retrieveFile`), the run gets
`null` and goes on without a word (`SkipFile`). An exception either ends the timer
(`ConnectionFails`) or leaves it (`LoginFails`, `PostSnapshotFails`, `GetBrokenFile`), as the
`catch` of `onTimeout` says. `due` and `setBack` are history: what a run owes each workitem
it listed, and which workitems a post has set back to an older snapshot; `skipped` has the
workitems whose file the run has skipped. The tree of directories is one list. Files of four
items (`cut` in `Backup`) are left out: the import can read them and posts them as they are.

### Export

State: the saves of each workitem, the entries `file.export` (one per save that asks for
it), the exported files with the version they are of, and the files that were cut. An
instance goes through `OnTimeout`, `SearchEventLog`, and for each entry `LockEntry`,
`GetWorkitem` and `GetSnapshot` (two calls, between which the workitem may be saved or
deleted), `WriteFile` per file, `DeleteEntry`; every failure goes to `UnlockEntry`, and one
of the unlock itself ends the run (`UnlockFails`). `RefuseLock` is a refused lock: the catch
block then unlocks an entry another instance holds. A malformed filter ends the
run outside the `try` of the entry (`CompileFails`). `unguarded` is history: the workitems
on which an instance worked without a lock that kept others away.

Abstracted: File is the set of the names that match the filter, the same for each version,
and each save changes all of them; a workitem has one directory. FTP and local files are
written alike.

## 3. Runs

| Run | Instance | What it shows |
|---|---|---|
| `data_concurrent` | two workers, two snapshots sharing a two-block document, one crash, no deletion | references before snapshots (`StoredIsReferenced`), blocks before rows (`RowHasBlock`), indexes after snapshots (`ListedIsStored`), a consistent archive at rest (`QuiescentConsistent`), the write-once archive is implemented (`ImplementsWriteOnce`) |
| `data_retention` | one worker, three snapshots, history 2, deletions from the UI, two crashes | deletion takes nothing from another snapshot (`StoredIsReferenced`, `ImplementsImmutable`), the latest snapshot survives the cleanup (`LatestKept`), which leaves at most the history (`RetentionBound`) |
| `data_race` (violation) | two workers, a save and a deletion | a stored snapshot loses a document |
| `sync` | two instances, a workitem saved twice, pages of one, the latest local snapshot kept, backup and mirror, a failure, a crash, fair | no event leaves the log without reason (`NothingLost`), a backup is only asked for what is archived (`BackupArchived`), the latest snapshot is archived (`LatestArchived`), backups reach every topic (`BackedUp`), the queue is implemented (`ImplementsDelivery`) |
| `resync_safety` | two runs, three snapshots (two with one `$modified`), two failures or cancels, a restart | the syncpoint passes no snapshot without reason, whichever run wrote it (`SyncPointSound`) |
| `resync_liveness` | one run, four snapshots (three with one `$modified`, one more than the limit), a failure or cancel, a restart, fair | a timer ends (`Terminates`), a resync that is started archives what is after the syncpoint, also across a restart (`Synchronizes`) |
| `resync_canceled` (violation) | one cancel | the next resync stops behind its first snapshot |
| `restore_safety` | two snapshots of a workitem on two days, ids of two digits, a time zone ahead of UTC, a range of all days, one within a day and one that begins with fewer digits, one run of the resync, a failure, loss or restart | the restore brings back the latest snapshot of its range that it promises (`Restored`), and the row it writes does not make the syncpoint unsound (`SyncPointSound`) |
| `backup_retry` | one workitem saved three times that may be deleted, the latest local snapshot kept, a full backup beside it, two failures, a restart, a start of the full backup or a stop of the backup, fair | all of the latest snapshot is in its file or its entry in the log, or the full backup cut it while it was read (`BackedUpOrQueued`), no older snapshot replaces a newer one (`ImplementsStore`), the file becomes the latest one, with the same exception (`Converges`) |
| `backup_full` | three workitems with a second each that exist, one of which is saved again, pages of two, a failure or restart, a start of the full backup or a stop of the backup, fair | a full backup ends (`FullBackupEnds`) and leaves no workitem without a file or an entry (`FullBackupComplete`); a file is cut only where it overlaps the reading (`BackedUpOrQueued`) |
| `import` | two workitems of two saves, a loss, a failure, two starts or cancels, fair | a run that has read all files has brought back what it listed whole and did not skip (`Imported`), timers end (`ImportEnds`) |
| `export` | two instances, a workitem with two files saved twice that may be deleted, pages of two, one start or stop, a failing call or restart, fair | an entry leaves the log only when its files are whole (`ExportedOrQueued`), and leaves it (`EntriesEnd`) |

The bounds. Two workers are enough for every pair of overlapping calls, and a third
one adds no new conflict on a table; a document of two blocks lets a call stop
between its blocks; three snapshots are one more than the history that is kept.
Two days (`$modified` and the id) differ for one snapshot. Two saves exceed the
local history of one. One failure and one crash can hit each statement; in the largest
state spaces it is one of the two (`MaxFaults`), so that a crash after a failure is only met in the
other run of the component. The proofs have no such bound. `DataId` has more ids than a run can use, so that no behaviour
is cut off. In `Resync` the limit of 16 snapshots per `$modified` is 2, so that groups of
two, and of one too many, occur; three times let the clock pass all `$modified`, and let the user
choose a syncpoint in the future. In `Restore` a day has two units, so that a range may
start and end within a day, and the time zone is one unit ahead, so that the two kinds of days
differ; times up to 5 have one digit or two in base 3; one restore is enough, since starting a second one first
ends the first. In `Backup` three saves let the entries of two snapshots be late at the same
time, and three workitems are one more than a page, so that a second page and the one that
is left at the end occur; a second has two units of time, so that the syncpoint is cut. In
`Import` a second workitem is listed while the first one changes. In `Export` a page holds
both entries of the workitem, and two instances can hold them at the same time;
every workitem has a snapshot there, the proofs make no such choice. Deadlock is checked in
the runs of the archive service; the backup, the import and the export may stop, since a
user may stop every timer and saves are bounded (`CHECK_DEADLOCK FALSE`).

Fairness. `FairSpec` assumes that a run which has begun goes on and that the timer
fires again (`WF` of the steps of each instance: SyncScheduler is scheduled at a
fixed interval and replaces its timer after an exception) and that a lock grows old
(`WF` of `LockExpires`: the clock). Nothing is assumed of saves, deletions,
failures and crashes, which are bounded. `FairSpec` of `Resync` assumes that a timer
that is due fires (`WF` of `OnTimeout`: the EJB container) and that a run goes on (`WF` of
its steps), nothing of the user, the clock and the workflow server. `Backup`, `Import` and
`Export` assume the same of their interval timers, whose next timeout an exception does not
cancel, and of the age of locks; their liveness properties hold as long as the user
leaves a timer (`<>[]scheduled`), and name what the code does not retry.

## 4. Findings

The two violation runs show where the code does not do what its comments and docs say;
`PROJECT.json` quotes both sides.

1. `data_race`: `extractDocuments` (DataService.java:738) checks an MD5 before it writes the
   reference; a deletion in between removes the document.
2. `resync_canceled`: `ResyncService.cancel` (line 148) sets a status that nothing resets;
   each later run stops behind its first snapshot (line 299) and reports that there is no
   more data.

The following have no run of their own. For the first six the model shows it: a property of
section 3 names them as an excuse, and without the excuse TLC finds them in the same run
(the first one with a history of 1 in the cfg).

* `cleanupSnaphostHistory` (DataService.java:672) selects one snapshot too many when exactly
  `$snapshot.history` are stored; with a history of 1 the first save deletes itself
  (`LatestKept` says so).
* `findLatestSnapshotID` (RestoreScheduler.java:389) compares ids as texts: a `restore.from` of
  fewer digits than the ids, like that of 1 January 2000, is behind all of them, and the
  restore brings back nothing (`Comparable` in `Restored`).
* The days of the restore (RestoreScheduler.java:272, 284, 334) are those of the system's time
  zone, the days of the archive (DataService.java:148) those of UTC: a snapshot of the first or
  last hours of the range may be listed under a day that is not visited (`Promised` in
  `Restored`).
* `pullSnapshot` resets the items of the shared client and reads in a second call
  (BackupService.java:401); a full backup sets its four items in between
  (FullBackupService.java:186). The file has these only, and the entry is deleted
  (`MetadataOnly` in `BackedUpOrQueued` and `Converges`).
* A file of which nothing was received is skipped (RestoreService.java:212) without a message,
  and the import reports that it is completed (`skipped` in `Imported`).
* `existSnapshot` (RestoreService.java:292) asks for the snapshot and not for its workitem: the
  import sets a workitem that has a newer snapshot back, although line 63 says that existing
  data is not overwritten (`setBack` in `Imported`).

These were read off while modelling; where a property has to excuse one of them, its comment
says so.

* `deleteDocuments` (DataService.java:812) returns at the first shared document and leaves
  the references of the documents behind it in the tables.
* `processEventLog` (SyncService.java:128) deletes the event before it creates the backup
  events; a crash in between loses the backup.
* `getDocumentsBySyncPoint` (SnapshotRestService.java:219): a transaction that commits
  late makes a snapshot visible which the syncpoint has already passed.
* `ResyncController.updateSyncPoint` (line 117) writes back the row as it was when the page
  was requested; a restore started in between finds no range and ends at once.
* A restore skips the day of `restore.to` when its time of day is not later than that of
  `restore.from` (RestoreScheduler.java:284); `restore.size` is read as an integer (line 266).
* With `snapshot.history` of 2 or more a late entry replaces the file of a newer snapshot
  (FTPConnector.java:142), and an entry of the full backup never replaces a file that was
  cut (line 135).
* The full backup never asks for a single workitem (FullBackupService.java:194), and makes
  no progress when more than a page was created within one second (line 171). The query
  finds the last workitem of a page again, since its time is cut to seconds, so that a
  result of one is this one; but a workitem created at the very beginning of a second is
  not found again, and a single workitem behind it is left out. The proof of
  `FullBackupComplete` came to this case (`InSecond`).
* In the import a broken file ends each run (RestoreService.java:211), and a cancel between two
  runs is overwritten by the next one (line 159). A file of four items is posted as it is.
* The exporter (SchedulerService.java): a malformed filter ends each run at its entry (line
  231); entries of deleted workitems are retried for ever (line 338), although the comment
  at line 303 says that they are deleted; a refused lock unlocks the entry of the instance
  that holds it (line 264); the lock of an entry does not keep away another entry of the
  same workitem (line 237).
* `SnapshotCompactorJob` (line 131) takes what follows the last `-` of a snapshot id as the
  id of the workitem; this is the time of the snapshot, so that a snapshot missing in the
  archive is never refreshed.

## 5. Proofs

`DataServiceProofs`:

* `Typing`: the type invariant, with every action enabled.
* Under `NothingDeleted` (no deletion from the UI, no `$snapshot.history`; this is
  the default configuration) for any number of workers, snapshots, documents and
  crashes: `Referenced`, `BlocksPresent`, `IndexesSound`, `WriteOnce` (the tables
  implement the write-once archive), and `Consistent`.

The assumption is needed: `data_race` shows that the properties fail when a deletion
overlaps a save. The invariant is `GrowInv`: the type invariant with the types of
the locals at each label, `WrittenSoFar` (a worker at a label has already written
what precedes it: the references of the files it no longer holds, the block of
the row it is going to write, the snapshot row before the index rows) and the three
properties. `WrittenSoFar` is what makes it inductive: `StoredIsReferenced` alone
says nothing about a worker that is about to store its snapshot. `WriteOnce`
then maps each action to `Add`, `Complete` or a stutter of `SnapshotArchive`; a row that
completes a document completes every partial snapshot that was only missing it.
`Consistent` speaks of moments at which nobody works, so `TidyInv` says who is
responsible for what is missing meanwhile: while no call was cut short, there is for each
row that a stored document lacks (`RowsUnderway`), and for each stored snapshot that an
index does not list (`ListingUnderway`), a worker that has still to write it. Two workers
may store the same document or snapshot at once; either of them will do. `NothingLost`
is the part that also holds after a crash.

`DataDeletionProofs`: everything about deletions, under `SoleWorker` (calls come one after
another, as `data_race` demands), for any number of snapshots, documents and blocks and for
crashes between any two statements.

* `ReferencedWithDeletions` and `Immutable` from `DeleteInv`: saveSnapshot has written the
  references of the files behind it (`RefsBehind`); deleteSnapshot removes the snapshot
  before its references, and reaches the blocks of a document only when no reference to
  it is left (`SnapshotFirst`); a row points to the data of its own chunk (`RowOwnsBlock`),
  and so do the row about to be written and the blocks about to be deleted
  (`BlocksInHand`: `data_id` is new for each block). So what is deleted belongs to a
  document that no snapshot refers to.
* `ConsistentWithDeletions` from `CompleteInv`, while no call was cut short: the indexes
  list what is stored and what the call in progress has still to list or to take off
  (`IndexesExact`; the day of `snapshots_by_modified` is that of the metadata, not of
  the id), a snapshot that a cleanup has selected is stored (`DoomedStored`), and what
  was extracted is whole (`FilesStored`, `DocumentsWhole`). It says nothing of the rows of
  documents whose snapshots are deleted: `deleteDocuments` leaves some (section 4).
* `Retention` also under `SameHistory` (the snapshots of a process instance have one
  `$snapshot.history`) and `FewSnapshots` (no more of them than `DeleteLimit`, the number
  the second query can return: of more some are left over, which the next cleanup takes).
  `HistoryInv` says that at most `$snapshot.history` snapshots are newer than the one the
  first query has ended at; what the second query returns is everything else. The
  cardinalities are of sets of `snapshots_by_uniqueid`, which only the sole call changes.
* `LatestIsKept` also under `HistoryNotOne`: with a history of 1 the code deletes the
  snapshot it has just saved (section 4). Of the snapshots the first query returns one is
  newer than the one it ends at, and it is stored, since the index is exact; no deletion
  of this cleanup touches it (`SurvivorStored`).

`SnapshotSyncProofs`: `SyncTyping`, `EventsNotLost`, `BackupsAreArchived` and
`DeliverySafe` (the safety part of the refinement), for any number of workitems,
instances, topics, failures and crashes. The invariant `SyncInv` adds to the
properties what an instance knows at each label (`Knows`: from `delete` on the
snapshot it holds is archived, or it holds none and the event is already gone with
a reason) and that nothing of a future save exists yet (`FutureUnknown`).

`ResyncProofs`: `ResyncTyping` and `SyncPointIsSound`, for any number of runs, snapshots,
troubles and restarts. `SyncPointSound` is not inductive: a run that ends takes
its group away, and another run may have read the row that counted on it. `ResyncInv`
therefore says what each run would claim if it wrote its copy now (`RunKept`), lets
others rely on the group of a run only once the row has reached it (`Kept`: that is when
the end of the run makes its rest `missed`), and bounds each claim by what was read
(`ClaimsRead`), so that a snapshot which appears inside a claim is late.

`RestoreProofs`: `RestoreTyping` and `RestoreKeepsSyncPoint`, for any number of snapshots, runs,
restores, failures, losses and restarts. The scheduler writes back a copy of the row that may
be older than the row, so `RestoreInv` adds that this copy would be sound if it were
written now (`CopyKept`, `CopyRead`): what was kept once stays kept, whatever a step does
(`RunKeeps`, `RestartKept`). A snapshot that is posted gets a new `$modified`, maybe within a
claim; this is sound since it is archived (`RestoreLocals`), which holds because
`findLatestSnapshotID` returns an archived one (`LatestIsArchived`, from the existence of a
latest one among snapshots of bounded times, `LatestExists`).

`RestoreBringsBack` proves the action property `Restored` for any options, length of a day and
time zone. It holds of what `Restored` promises (`Promised`, section 2), which leaves out ranges
of fewer digits than the ids and days that are not visited; neither can be dropped (section 4).
`TextOfIds` and `TextOfRange` say when the order of the texts is
that of the times (from `IdAssumption`: the ids have one number of digits). `DueInv` says, for as long as nobody has written back
other restore items, that the copy of the scheduler is what it wrote last, that this stands a
whole number of days behind `restore.from`, and that each workitem which is due is `Ahead`: it
is there with the latest snapshot of the range, or one of its snapshots is listed on a
day that is not done, and if this is the current day, it is still to be looked at or
the latest one is about to be posted (`ToVisit`). The day that is found by `loadSnapshotsByDate`
is the one counted from `restore.from` because adding days does not change the time of day
(`Days`); any snapshot that is looked at leads to the same latest one (`LatestIsFound`,
by uniqueness). A restart forgets the list of the day but not the day. At the end no day
before `restore.to` is left, so the workitem is there.

`BackupProofs`: `BackupTyping`; and under `OneSnapshot` (the workflow server keeps the latest
snapshot only, its default, and no removal is refused) `LatestIsCovered` and
`BackupImplementsStore`, for any number of workitems, entries, failures and restarts. The
assumption is needed: with two local snapshots a late entry overwrites a newer file.
`LatestIsCovered` comes from two invariants. `FileOrQueued`: the latest snapshot is the one its
file was written from, to the end, or it has its entry. `CutIsOverlapped`: a file, or the snapshot
in hand, has four items only if the full backup has set them while this very snapshot was
read. So a file is whole or falls under `MetadataOnly` (`FileIsWholeOrCut`).
`BackupInv` adds to `FileOrQueued` that a local snapshot is the latest one
(`LocalIsLatest`), that nothing names a future save (`NothingAhead`), that the entry in
progress is in the log (`HeldIsInLog`), and that what was pulled and not yet deleted is in
its file or still in the log as the latest snapshot (`HeldIsCovered`). An older snapshot
is not found any more and so is never pulled; one that was pulled before the next save
is written before that save can be, since a topic has one application.

`FullBackupLeavesNone` proves `FullBackupComplete` under `OneSnapshot`, `Pages` (a page holds
more than one workitem; the code asks for 100) and `InSecond` (section 4 says why). `FullInv`
holds while nothing is deleted: a workitem with a file or an entry stays covered
(`CoveredStays`: BackupService drops an entry without a snapshot only when a newer save has
its own entry or file, by `FileOrQueued`), what the next query leaves out is covered
(`BehindIsCovered`), the syncpoint is the time of a workitem that is covered (`Reached`), and
a page leaves nothing out below its last workitem (`PageInOrder`). A result of
one workitem is then all that is left, and it is the covered one at the syncpoint
(`ShortResultIsLast`).

`ImportProofs`: `ImportTyping` and `AllImported`, for any number of workitems, starts, losses,
failures and restarts. `ImportInv` says which snapshots exist (`LocalKnown`, `FilesKnown`),
that the snapshot in hand is not older than what is owed (`HeldIsDue`), and that each
file which was listed whole and is neither left, nor in hand, nor skipped is recovered
(`DoneIsRecovered`); a
snapshot found on the server is not newer than its workitem, unless the import has set
the workitem back.

`ExportProofs`: `ExportTyping`, `EntriesExported`, and `SoleInstanceGuarded`, by which a sole
instance needs no exception. `ExportInv` claims things only of workitems whose exports were
all guarded: one instance at work at a time (`OneAtWork`), whose entry is in the log
(`WorkInLog`, so that a file it leaves cut is written again), which has read a version not
older than any entry that is done (`ReadNewest`), and has written what it no
longer holds (`WrittenWhole`).

Each safety property that a passing run checks is now stated by a theorem. Checked by TLC
only: the liveness properties (`LatestArchived`, `BackedUp`, `Terminates`, `Synchronizes`,
`Converges`, `FullBackupEnds`, `ImportEnds`, `EntriesEnd`) and the liveness part of
`ImplementsDelivery`, which are out of reach of the prover. With deletions or cleanups and
several workers at once the properties of the archive are not proved because they do not
hold (`data_race`).

## 6. Not modelled

* `SnapshotCompactor`: sequential and in one transaction. It deletes a local snapshot when
  the list that the client of the archive returns is not empty; the archive answers a missing
  snapshot with an empty document, and what the client makes of it is decided outside this
  repository. A model would have to assume the one property that matters.
* The counters and messages of all services; `updateCustomAttributes` and `copyFiles` of
  SnapshotService; the resources of SnapshotRestService that forward to the workflow engine.
* The JavaScript of the repository (`jquery-ui.js`, `imixs-faces.js`, `imixs-admin.js`) is
  vendored or presentation of the web pages and keeps no state of the archive.
* Still worth doing: which pairs of overlapping calls of the archive are safe beside a
  deletion, between "none" of the proofs and "any" of `data_race`.

Left out for good: rendering and authentication (REST clients, web controllers,
message lists), ClusterService and HealthCheckService (start-up I/O), the REST read
API (no state), SplitAndJoinPlugin and the attributes of files (data the archive
carries without looking at it). `PROJECT.json` lists under `hazards` what can go
wrong at which line and which property covers it.
