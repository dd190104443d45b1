-------------------------------- MODULE Resync --------------------------------
(***************************************************************************)
(* The resync of the archive with the workflow server (ResyncService and    *)
(* ResyncController of imixs-archive-service, getDocumentsBySyncPoint of    *)
(* SnapshotRestService).  A single-action timer starts a run.  It asks for  *)
(* the snapshots with the next $modified after the syncpoint, stores those  *)
(* the archive does not have, and writes the syncpoint into the metadata    *)
(* row, a row of the table snapshots with the id "0" that is read once per  *)
(* run and written as a whole after each snapshot.                         *)
(*                                                                         *)
(* ResyncService is a stateless bean: the web UI cancels and starts it while *)
(* a run is in progress.  Canceling the timer does not interrupt its run,   *)
(* which looks at the status flag after each snapshot; so two runs may      *)
(* overlap for a while.                                                    *)
(*                                                                         *)
(* Abstractions.  saveSnapshot is one step (DataService models it), the     *)
(* counters in the row are left out.  The restore items of the row belong   *)
(* to the restore (module Restore); here they are only carried along.       *)
(* Times are numbered; 0 is January 1, 1970.                                *)
(*                                                                         *)
(* A definition whose name extends that of a following one (Always, Loaded, *)
(* Skipping ...) is a mutant of it, which no specification uses.            *)
(***************************************************************************)
EXTENDS Integers, FiniteSets

CONSTANTS
    Snapshot,      \* snapshot ids: pairs <<uniqueid, timestamp>>
    Run,           \* timeouts of the service that may be in progress
    MaxTime,       \* bound on the clock
    NewSyncPoint,  \* times the user sets the syncpoint to
    GroupLimit,    \* snapshots with one $modified that can be read (16)
    RestoreItems,  \* values of the restore items of the metadata row
    NoRestore,     \* the row before the first restore
    MaxTrouble,    \* bound on failing calls and cancellations
    MaxRestarts,   \* bound on restarts of the service
    MaxFaults,     \* bound on all of them together
    None           \* no snapshot

Time == 0 .. MaxTime

ASSUME SnapshotAssumption ==
    /\ \A s \in Snapshot : s = <<s[1], s[2]>> /\ s[2] \in Time \ {0}
    /\ None \notin Snapshot

ASSUME BoundAssumption ==
    /\ MaxTime \in Nat \ {0}
    /\ NewSyncPoint \subseteq Time
    /\ GroupLimit \in Nat \ {0}
    /\ MaxTrouble \in Nat
    /\ MaxRestarts \in Nat
    /\ MaxFaults \in Nat
    /\ NoRestore \in RestoreItems
    /\ \A r \in Run : r \notin {"none", "waiting"}

\* The metadata row.  base is a history item, not in the code: the point from which
\* sync has advanced, so that the row claims the range base < $modified <= sync.
Row == [sync : Time, base : Time, restore : RestoreItems]
EmptyRow == [sync |-> 0, base |-> 0, restore |-> NoRestore]

VARIABLES
    now,        \* the clock
    modified,   \* modified[s]: $modified of s on the workflow server, 0: not there
    archived,   \* archived[s]: $modified of s in the archive, 0: not there
    row,        \* the metadata row
    timer,      \* "none", "waiting", or the run whose timer it is
    status,     \* ResyncStatusHandler
    ui,         \* ResyncController: "idle", "form" or "stop" (the button it shows), "restart"
    form,       \* its copy of the row
    pc,         \* next statement of each run
    metaData,   \* its copy of the row
    syncPoint,  \* the $modified it has read last
    group,      \* snapshots of this $modified it has still to look at
    current,    \* the snapshot it is storing
    newest,     \* history: the newest $modified any run has read
    missed,     \* history: snapshots a run left out, for one of three reasons
    trouble,    \* number of failures and cancellations
    restarts    \* number of restarts

source == <<now, modified>>
timing == <<timer, status>>
controller == <<ui, form>>
locals == <<pc, metaData, syncPoint, group, current>>
history == <<newest, missed>>
bounds == <<trouble, restarts>>
vars == <<source, archived, row, timing, controller, locals, history, bounds>>

-----------------------------------------------------------------------------
Init ==
    /\ now = 1
    /\ modified = [s \in Snapshot |-> 0]
    /\ archived = [s \in Snapshot |-> 0]
    /\ row = EmptyRow
    /\ timer = "none"
    /\ status = "stopped"
    /\ ui = "idle"
    /\ form = EmptyRow
    /\ pc = [r \in Run |-> "idle"]
    /\ metaData = [r \in Run |-> EmptyRow]
    /\ syncPoint = [r \in Run |-> 0]
    /\ group = [r \in Run |-> {}]
    /\ current = [r \in Run |-> None]
    /\ newest = 0
    /\ missed = {}
    /\ trouble = 0
    /\ restarts = 0

Goto(r, label) == pc' = [pc EXCEPT ![r] = label]

\* onTimeout of r ends and its variables are gone.
Clear(r) ==
    /\ Goto(r, "idle")
    /\ metaData' = [metaData EXCEPT ![r] = EmptyRow]
    /\ syncPoint' = [syncPoint EXCEPT ![r] = 0]
    /\ group' = [group EXCEPT ![r] = {}]
    /\ current' = [current EXCEPT ![r] = None]

\* stop(timer) cancels the timer of the run, not one that was started since.
Stop(r) == timer' = IF timer = r THEN "none" ELSE timer

Trouble ==
    /\ trouble < MaxTrouble
    /\ trouble + restarts < MaxFaults
    /\ trouble' = trouble + 1

\* What r would leave behind the syncpoint if it ended now: once the row holds the
\* $modified of the group, no later run reads the rest of the group.
Cut(r) ==
    IF metaData[r].sync = syncPoint[r]
    THEN group[r] \union ({current[r]} \ {None})
    ELSE {}

-----------------------------------------------------------------------------
(* The workflow server *)

Tick ==
    /\ now < MaxTime
    /\ now' = now + 1
    /\ UNCHANGED <<modified, archived, row, timing, controller, locals, history, bounds>>

\* A snapshot becomes visible, at once or one tick after its $modified.  When a run
\* has already read a snapshot with this $modified, or a later one, it is late.
SaveDocument(s) ==
    /\ modified[s] = 0
    /\ archived[s] = 0
    /\ s[2] \in {now - 1, now}
    /\ modified' = [modified EXCEPT ![s] = s[2]]
    /\ missed' = IF s[2] <= newest THEN missed \union {s} ELSE missed
    /\ UNCHANGED <<now, archived, row, timing, controller, locals, newest, bounds>>

\* SyncService stores a snapshot.
Pull(s) ==
    /\ modified[s] # 0
    /\ archived[s] = 0
    /\ archived' = [archived EXCEPT ![s] = modified[s]]
    /\ UNCHANGED <<source, row, timing, controller, locals, history, bounds>>

\* getDocumentsBySyncPoint: the snapshots with the next $modified after t.
LaterOrEqual(t) == { s \in Snapshot : modified[s] > 0 /\ modified[s] >= t }
Later(t) == { s \in Snapshot : modified[s] > t }
SyncGroupFirst(t) ==
    IF Later(t) = {} THEN {}
    ELSE { CHOOSE s \in Later(t) : \A q \in Later(t) : modified[s] <= modified[q] }
SyncGroup(t) ==
    { s \in Later(t) : \A q \in Later(t) : modified[s] <= modified[q] }

-----------------------------------------------------------------------------
(* ResyncController *)

\* A request creates the controller, which loads the row.  The page has the button
\* of updateSyncPoint while no timer exists, and that of cancel while one does.
InitController ==
    /\ ui = "idle"
    /\ ui' = IF timer = "none" THEN "form" ELSE "stop"
    /\ form' = row
    /\ UNCHANGED <<source, archived, row, timing, locals, history, bounds>>

LeavePage ==
    /\ ui \in {"form", "stop"}
    /\ ui' = "idle"
    /\ form' = EmptyRow
    /\ UNCHANGED <<source, archived, row, timing, locals, history, bounds>>

\* The user sets a new syncpoint; the whole row is written.
UpdateSyncPoint(t) ==
    /\ ui = "form"
    /\ row' = [form EXCEPT !.sync = t, !.base = t]
    /\ ui' = "restart"
    /\ form' = EmptyRow
    /\ UNCHANGED <<source, archived, timing, locals, history, bounds>>

\* ... and a resync is started unless a timer exists.
RestartSync ==
    /\ ui = "restart"
    /\ timer' = IF timer = "none" THEN "waiting" ELSE timer
    /\ ui' = "idle"
    /\ UNCHANGED <<source, archived, row, status, form, locals, history, bounds>>

\* ResyncService.cancel.  Nothing ever resets the status.
Cancel ==
    /\ ui = "stop"
    /\ Trouble
    /\ status' = "canceled"
    /\ timer' = "none"
    /\ ui' = "idle"
    /\ form' = EmptyRow
    /\ UNCHANGED <<source, archived, row, locals, history, restarts>>

-----------------------------------------------------------------------------
(* ResyncService.onTimeout *)

\* A syncpoint in the future is set to the current time.
OnTimeout(r) ==
    LET start == IF row.sync > now THEN now ELSE row.sync
    IN  /\ timer = "waiting"
        /\ pc[r] = "idle"
        /\ timer' = r
        /\ Goto(r, "read")
        /\ metaData' = [metaData EXCEPT ![r] =
                           IF row.sync > now THEN [row EXCEPT !.base = now] ELSE row]
        /\ syncPoint' = [syncPoint EXCEPT ![r] = start]
        /\ UNCHANGED <<source, archived, row, status, controller, group, current,
                       history, bounds>>

ReadSyncData(r) ==
    LET found == SyncGroup(syncPoint[r])
    IN  /\ pc[r] = "read"
        /\ found # {}
        /\ Cardinality(found) <= GroupLimit
        /\ \E s \in found :
            /\ syncPoint' = [syncPoint EXCEPT ![r] = modified[s]]
            /\ newest' = IF modified[s] > newest THEN modified[s] ELSE newest
        /\ group' = [group EXCEPT ![r] = found]
        /\ Goto(r, "next")
        /\ UNCHANGED <<source, archived, row, timing, controller, metaData, current,
                       missed, bounds>>

NoMoreData(r) ==
    /\ pc[r] = "read"
    /\ SyncGroup(syncPoint[r]) = {}
    /\ Stop(r)
    /\ Clear(r)
    /\ UNCHANGED <<source, archived, row, status, controller, history, bounds>>

\* The call fails, or too many snapshots have the same $modified.
ReadSyncDataFails(r) ==
    /\ pc[r] = "read"
    /\ IF Cardinality(SyncGroup(syncPoint[r])) > GroupLimit
       THEN UNCHANGED trouble ELSE Trouble
    /\ Stop(r)
    /\ Clear(r)
    /\ UNCHANGED <<source, archived, row, status, controller, history, restarts>>

\* existSnapshot: a snapshot the archive has is not stored again.
NextDocument(r) ==
    /\ pc[r] = "next"
    /\ \E s \in group[r] :
        /\ group' = [group EXCEPT ![r] = @ \ {s}]
        /\ IF archived[s] # 0
           THEN Goto(r, "meta") /\ UNCHANGED current
           ELSE Goto(r, "save") /\ current' = [current EXCEPT ![r] = s]
    /\ UNCHANGED <<source, archived, row, timing, controller, metaData, syncPoint,
                   history, bounds>>

\* saveSnapshot looks for the snapshot once more.
StoredNever(old, new) == old
Stored(old, new) == IF old = 0 THEN new ELSE old

SaveSnapshot(r) ==
    /\ pc[r] = "save"
    /\ archived' = [archived EXCEPT ![current[r]] = Stored(@, syncPoint[r])]
    /\ current' = [current EXCEPT ![r] = None]
    /\ Goto(r, "meta")
    /\ UNCHANGED <<source, row, timing, controller, metaData, syncPoint, group,
                   history, bounds>>

\* A RuntimeException is logged, and the run goes on with the next snapshot.
SaveSnapshotFails(r) ==
    /\ pc[r] = "save"
    /\ Trouble
    /\ missed' = missed \union {current[r]}
    /\ current' = [current EXCEPT ![r] = None]
    /\ Goto(r, "meta")
    /\ UNCHANGED <<source, archived, row, timing, controller, metaData, syncPoint,
                   group, newest, restarts>>

AfterDocumentNext(r) == "next"
AfterDocument(r) == IF group[r] = {} THEN "outer" ELSE "next"

\* The row is written after each snapshot, then the status is read.
SaveMetadata(r) ==
    LET new == [metaData[r] EXCEPT !.sync = syncPoint[r]]
    IN  /\ pc[r] = "meta"
        /\ row' = new
        /\ IF status = "canceled"
           THEN /\ Stop(r)
                /\ Clear(r)
                /\ missed' = missed \union group[r]
           ELSE /\ metaData' = [metaData EXCEPT ![r] = new]
                /\ Goto(r, AfterDocument(r))
                /\ UNCHANGED <<timer, syncPoint, group, current, missed>>
        /\ UNCHANGED <<source, archived, status, controller, newest, bounds>>

\* The status is read again behind the loop over the group.
CheckStatus(r) ==
    /\ pc[r] = "outer"
    /\ IF status = "canceled"
       THEN Stop(r) /\ Clear(r)
       ELSE /\ Goto(r, "read")
            /\ UNCHANGED <<timer, metaData, syncPoint, group, current>>
    /\ UNCHANGED <<source, archived, row, status, controller, history, bounds>>

\* An ArchiveException of saveSnapshot, or a failure of saveMetadata, ends the run.
Abort(r) ==
    /\ pc[r] \in {"save", "meta"}
    /\ Trouble
    /\ missed' = missed \union Cut(r)
    /\ Stop(r)
    /\ Clear(r)
    /\ UNCHANGED <<source, archived, row, status, controller, newest, restarts>>

\* Timers are persistent: one whose run was in progress fires again.
RefiredNever(t) == "none"
Refired(t) == IF t = "none" THEN "none" ELSE "waiting"

\* The service is restarted.  The status is a variable of a bean.
Restart ==
    /\ restarts < MaxRestarts
    /\ trouble + restarts < MaxFaults
    /\ restarts' = restarts + 1
    /\ missed' = missed \union UNION { Cut(r) : r \in Run }
    /\ timer' = Refired(timer)
    /\ status' = "stopped"
    /\ ui' = "idle"
    /\ form' = EmptyRow
    /\ pc' = [r \in Run |-> "idle"]
    /\ metaData' = [r \in Run |-> EmptyRow]
    /\ syncPoint' = [r \in Run |-> 0]
    /\ group' = [r \in Run |-> {}]
    /\ current' = [r \in Run |-> None]
    /\ UNCHANGED <<source, archived, row, newest, trouble>>

-----------------------------------------------------------------------------
Step(r) ==
    \/ ReadSyncData(r)
    \/ NoMoreData(r)
    \/ ReadSyncDataFails(r)
    \/ NextDocument(r)
    \/ SaveSnapshot(r)
    \/ SaveSnapshotFails(r)
    \/ SaveMetadata(r)
    \/ CheckStatus(r)
    \/ Abort(r)

Environment ==
    \/ Tick
    \/ \E s \in Snapshot : SaveDocument(s) \/ Pull(s)

Controller ==
    \/ InitController
    \/ LeavePage
    \/ \E t \in NewSyncPoint : UpdateSyncPoint(t)
    \/ RestartSync
    \/ Cancel

Next ==
    \/ Environment
    \/ Controller
    \/ \E r \in Run : OnTimeout(r) \/ Step(r)
    \/ Restart

Spec == Init /\ [][Next]_vars

\* The container fires a timer that is due, and a run goes on.
Fairness ==
    /\ WF_vars(\E r \in Run : OnTimeout(r))
    /\ \A r \in Run : WF_vars(Step(r))

FairSpec == Spec /\ Fairness

-----------------------------------------------------------------------------
(* Properties *)

Labels == {"idle", "read", "next", "save", "meta", "outer"}

\* The type invariant: a run that takes or stores a snapshot has one (ResyncService).
TypeOK ==
    /\ now \in Time
    /\ modified \in [Snapshot -> Time]
    /\ archived \in [Snapshot -> Time]
    /\ row \in Row /\ form \in Row
    /\ timer \in {"none", "waiting"} \union Run
    /\ status \in {"stopped", "canceled"}
    /\ ui \in {"idle", "form", "stop", "restart"}
    /\ pc \in [Run -> Labels]
    /\ metaData \in [Run -> Row]
    /\ syncPoint \in [Run -> Time]
    /\ group \in [Run -> SUBSET Snapshot]
    /\ current \in [Run -> Snapshot \union {None}]
    /\ newest \in Time
    /\ missed \in SUBSET Snapshot
    /\ trouble \in 0 .. MaxTrouble
    /\ restarts \in 0 .. MaxRestarts
    /\ \A r \in Run :
        /\ pc[r] = "next" => group[r] # {}
        /\ (pc[r] = "save") <=> (current[r] # None)

\* s waits in the group of a run that is in progress.
Pending(s) ==
    \E r \in Run :
        /\ syncPoint[r] = modified[s]
        /\ s \in group[r] \union {current[r]}

\* The syncpoint of the metadata row is what it says it is, whichever run wrote it
\* last and wherever one was cancelled, failed or was killed: each snapshot from where
\* the syncpoint started up to it is in the archive, is just being stored, or was left
\* out for a reason the code knows (it appeared late, saveSnapshot failed, or the run
\* ended within a group) (ResyncService.onTimeout, getDocumentsBySyncPoint).
SyncPointSound ==
    \A s \in Snapshot :
        (row.base < modified[s] /\ modified[s] <= row.sync)
            => archived[s] # 0 \/ s \in missed \/ Pending(s)

\* A timer comes to an end: a run does not read the same snapshots for ever
\* (ResyncService.onTimeout, the loop over readSyncData).
Terminates == timer # "none" ~> timer = "none"

TooMany ==
    \E t \in Time \ {0} :
        Cardinality({ s \in Snapshot : modified[s] = t }) > GroupLimit

\* A resync that was started archives each snapshot after the syncpoint, also when the
\* service is restarted on the way, unless the user moves the syncpoint behind it, a
\* call fails, the user cancels, the run ended within the group of the snapshot, or too
\* many snapshots have one $modified (ResyncService.start, onTimeout).
Synchronizes ==
    \A s \in Snapshot :
        (timer = "waiting" /\ row.sync < modified[s])
            ~> \/ archived[s] # 0
               \/ row.base >= modified[s]
               \/ s \in missed
               \/ trouble > 0
               \/ TooMany

\* A run whose timer nobody canceled ends only when there is nothing left after its
\* syncpoint, or with a failure ("When all the data is synchronized (syncpoint == last
\* snapshot), the service terminates", ResyncService.java:56).
EndsSynchronized ==
    [][\A r \in Run :
        (/\ timer = r
         /\ pc[r] # "idle" /\ pc'[r] = "idle"
         /\ UNCHANGED bounds)
            => Later(syncPoint[r]) = {} \/ TooMany]_vars

=============================================================================
