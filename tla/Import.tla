-------------------------------- MODULE Import --------------------------------
(***************************************************************************)
(* The import of the backup application (RestoreService): it reads the file of *)
(* each workitem from the FTP server and posts the snapshots that the workflow *)
(* server does not have.  Users save workitems and BackupService writes files   *)
(* while it runs: their steps are those of BackupStore, which Backup implements. *)
(*                                                                         *)
(* The workflow server keeps the latest snapshot of a workitem (its default)   *)
(* besides those that are posted.  The tree of directories by year and month is *)
(* one list of files, read at the start of a run.  A file that is not intact is *)
(* one that was broken off here.  One that holds the four items of a full backup *)
(* only ("cut" in Backup) is left out: it can be read, and is posted as it is.   *)
(*                                                                         *)
(* A definition whose name extends that of a following one is a mutant of it. *)
(***************************************************************************)
EXTENDS BackupStore

CONSTANTS
    MaxSaves,      \* bound on the saves of a workitem
    MaxStarts,     \* bound on the starts and cancels by a user
    MaxLosses,     \* bound on the workitems that are lost
    MaxFailures,   \* bound on the failing calls and restarts
    None           \* no snapshot

ASSUME ImportBounds ==
    /\ Asked = [w \in Workitem |-> 1]
    /\ MaxSaves \in Nat
    /\ MaxStarts \in Nat
    /\ MaxLosses \in Nat
    /\ MaxFailures \in Nat
    /\ None \notin Workitem \X Nat

VARIABLES
    origin,     \* origin[w]: the $snapshotid of w on the workflow server, 0: no w
    local,      \* snapshots on the workflow server
    timers,     \* number of interval timers of RestoreService
    status,     \* RestoreStatusHandler.status
    label,      \* next statement of RestoreService.onTimeout
    todo,       \* listed files that are not read yet
    held,       \* the snapshot read from a file
    starts,     \* number of starts and cancels
    losses,     \* number of lost workitems
    failures,   \* number of failures and restarts
    due,        \* due[w]: the snapshot a run has listed and owes, 0: none
    skipped,    \* workitems whose file this run got nothing of
    setBack     \* workitems whose data was replaced by an older snapshot

documents == <<origin, local>>
locals == <<label, todo, held>>
counters == <<starts, losses, failures>>
history == <<due, skipped, setBack>>
vars == <<storeVars, documents, timers, status, locals, counters, history>>

Nothing == [w \in Workitem |-> 0]

Init ==
    /\ StoreInit
    /\ origin = Nothing
    /\ local = {}
    /\ timers = 0
    /\ status = "none"
    /\ label = "idle"
    /\ todo = {}
    /\ held = None
    /\ starts = 0
    /\ losses = 0
    /\ failures = 0
    /\ due = Nothing
    /\ skipped = {}
    /\ setBack = {}

-----------------------------------------------------------------------------
(* The workflow server and BackupService *)

\* onSave with snapshot.history=1.
SaveWorkitem(w) ==
    /\ origin[w] # 0 \/ saved[w] = 0
    /\ saved[w] < MaxSaves
    /\ Save(w)
    /\ origin' = [origin EXCEPT ![w] = saved'[w]]
    /\ local' = { s \in local : s[1] # w } \union { <<w, saved'[w]>> }
    /\ setBack' = setBack \ {w}
    /\ UNCHANGED <<timers, status, locals, counters, due, skipped>>

\* The workflow server loses a workitem: this calls for an import.
LoseWorkitem(w) ==
    /\ origin[w] # 0
    /\ losses < MaxLosses
    /\ losses' = losses + 1
    /\ origin' = [origin EXCEPT ![w] = 0]
    /\ local' = { s \in local : s[1] # w }
    /\ due' = [due EXCEPT ![w] = 0]
    /\ setBack' = setBack \ {w}
    /\ UNCHANGED <<storeVars, timers, status, locals, starts, failures, skipped>>

\* BackupService writes a snapshot, or a part of it, which it may have pulled before
\* the workitem was lost.
WriteFile(w) ==
    /\ Store(w)
    /\ UNCHANGED <<documents, timers, status, locals, counters, history>>

-----------------------------------------------------------------------------
(* RestoreController *)

\* Offered unless the status is RUNNING.  The singleton is not in a run; an earlier
\* timer is not canceled.
StartImport ==
    /\ status # "running"
    /\ label = "idle"
    /\ starts < MaxStarts
    /\ starts' = starts + 1
    /\ timers' = timers + 1
    /\ UNCHANGED <<storeVars, documents, status, locals, losses, failures, history>>

\* Only the status is set, at any time of a run or between two.
CancelImportTimer ==
    /\ status = "running"
    /\ starts < MaxStarts
    /\ starts' = starts + 1
    /\ status' = "canceled"
    /\ timers' = timers - 1
    /\ UNCHANGED <<storeVars, documents, locals, losses, failures, history>>
CancelImport ==
    /\ status = "running"
    /\ starts < MaxStarts
    /\ starts' = starts + 1
    /\ status' = "canceled"
    /\ UNCHANGED <<storeVars, documents, timers, locals, losses, failures, history>>

-----------------------------------------------------------------------------
(* RestoreService.onTimeout *)

Fail ==
    /\ failures < MaxFailures
    /\ failures' = failures + 1
    /\ UNCHANGED <<starts, losses>>

\* The run is over, and what it has not brought back is not owed any more.
Leave ==
    /\ label' = "idle"
    /\ todo' = {}
    /\ held' = None
    /\ due' = Nothing
    /\ skipped' = {}

ImportTimeout ==
    /\ timers > 0
    /\ label = "idle"
    /\ status' = "running"
    /\ label' = "list"
    /\ UNCHANGED <<storeVars, documents, timers, todo, held, counters, history>>

ListFiles ==
    /\ label = "list"
    /\ todo' = { w \in Workitem : stored[w] # 0 }
    /\ due' = [w \in Workitem |-> IF w \in intact THEN stored[w] ELSE 0]
    /\ skipped' = {}
    /\ label' = "file"
    /\ UNCHANGED <<storeVars, documents, timers, status, held, counters, setBack>>

\* An IOException is caught: the timer is canceled, and the status is left RUNNING.
ConnectionFails ==
    /\ label \in {"list", "file"}
    /\ Fail
    /\ timers' = timers - 1
    /\ Leave
    /\ UNCHANGED <<storeVars, documents, status, setBack>>

\* A BackupException is not: the timer fires again.  The login is refused, or a
\* directory or a file cannot be read.
LoginFails ==
    /\ label \in {"list", "file"}
    /\ Fail
    /\ Leave
    /\ UNCHANGED <<storeVars, documents, timers, status, setBack>>

GetFile(w) ==
    /\ label = "file"
    /\ w \in todo \intersect intact
    /\ held' = <<w, stored[w]>>
    /\ todo' = todo \ {w}
    /\ label' = "exist"
    /\ UNCHANGED <<storeVars, documents, timers, status, counters, history>>

\* get returns null when it has received no bytes, and the run goes on with the next file.
SkipFile(w) ==
    /\ label = "file"
    /\ w \in todo
    /\ todo' = todo \ {w}
    /\ skipped' = skipped \union {w}
    /\ label' = "check"
    /\ UNCHANGED <<storeVars, documents, timers, status, held, due, setBack>>

\* A file was cut before its first byte.
GetEmptyFile(w) == w \notin intact /\ SkipFile(w) /\ UNCHANGED counters

\* The server refuses the file: nobody looks at the result of retrieveFile.
GetNothing(w) == Fail /\ SkipFile(w)

\* A part of a file is no XML document: a BackupException.
GetBrokenFile(w) ==
    /\ label = "file"
    /\ w \in todo \ intact
    /\ Leave
    /\ UNCHANGED <<storeVars, documents, timers, status, counters, setBack>>

\* existSnapshot asks for the snapshot, not for its workitem.
ExistSnapshot ==
    /\ label = "exist"
    /\ label' = IF held \in local THEN "check" ELSE "post"
    /\ UNCHANGED <<storeVars, documents, timers, status, todo, held, counters, history>>

\* A failing call counts as a snapshot that does not exist.
ExistSnapshotFailsFound ==
    /\ label = "exist"
    /\ Fail
    /\ label' = "check"
    /\ UNCHANGED <<storeVars, documents, timers, status, todo, held, history>>
ExistSnapshotFails ==
    /\ label = "exist"
    /\ Fail
    /\ label' = "post"
    /\ UNCHANGED <<storeVars, documents, timers, status, todo, held, history>>

\* postSnapshot stores the snapshot and updates the workitem, whatever it is now.
Post ==
    LET w == held[1]
    IN  /\ local' = local \union {held}
        /\ origin' = [origin EXCEPT ![w] = held[2]]
        /\ setBack' = IF origin[w] > held[2] THEN setBack \union {w} ELSE setBack

PostSnapshot ==
    /\ label = "post"
    /\ Post
    /\ label' = "check"
    /\ UNCHANGED <<storeVars, timers, status, todo, held, counters, due, skipped>>

\* A BackupException; the call, or only its answer, is lost.
PostSnapshotFails ==
    /\ label = "post"
    /\ Fail
    /\ Post \/ UNCHANGED <<documents, setBack>>
    /\ Leave
    /\ UNCHANGED <<storeVars, timers, status>>

\* The timer of this run is canceled.
StopImportTimerKept ==
    /\ status' = "stopped"
    /\ timers' = timers
    /\ Leave
StopImport ==
    /\ status' = "stopped"
    /\ timers' = timers - 1
    /\ Leave

NextFile ==
    /\ label = "check"
    /\ status # "canceled"
    /\ label' = "file"
    /\ held' = None
    /\ UNCHANGED <<storeVars, documents, timers, status, todo, counters, history>>

Canceled ==
    /\ label = "check"
    /\ status = "canceled"
    /\ StopImport
    /\ UNCHANGED <<storeVars, documents, counters, setBack>>

EndImport ==
    /\ label = "file"
    /\ todo = {}
    /\ StopImport
    /\ UNCHANGED <<storeVars, documents, counters, setBack>>

\* The timer is not persistent.
Restart ==
    /\ Fail
    /\ timers' = 0
    /\ status' = "none"
    /\ Leave
    /\ UNCHANGED <<storeVars, documents, setBack>>

ImportStep ==
    \/ ImportTimeout
    \/ ListFiles
    \/ \E w \in Workitem : GetFile(w) \/ GetEmptyFile(w) \/ GetBrokenFile(w)
    \/ ExistSnapshot
    \/ PostSnapshot
    \/ NextFile
    \/ Canceled
    \/ EndImport

Trouble ==
    \/ ConnectionFails
    \/ LoginFails
    \/ \E w \in Workitem : GetNothing(w)
    \/ ExistSnapshotFails
    \/ PostSnapshotFails
    \/ Restart

Next ==
    \/ \E w \in Workitem : SaveWorkitem(w) \/ LoseWorkitem(w) \/ WriteFile(w)
    \/ StartImport
    \/ CancelImport
    \/ ImportStep
    \/ Trouble

Spec == Init /\ [][Next]_vars

\* The timer fires, and a run that has begun goes on.
FairSpec == Spec /\ WF_vars(ImportStep)

-----------------------------------------------------------------------------

\* The variables hold values of their types; a snapshot is in hand when it is verified
\* and posted, and none is when a file is read.
TypeOK ==
    /\ saved \in [Workitem -> Nat]
    /\ stored \in [Workitem -> Nat]
    /\ intact \subseteq Workitem
    /\ removed = {}
    /\ origin \in [Workitem -> Nat]
    /\ local \subseteq Workitem \X Nat
    /\ timers \in Nat
    /\ status \in {"none", "running", "canceled", "stopped"}
    /\ label \in {"idle", "list", "file", "exist", "post", "check"}
    /\ label # "idle" => timers > 0
    /\ todo \subseteq Workitem
    /\ held \in (Workitem \X Nat) \union {None}
    /\ label \in {"idle", "list", "file"} => held = None
    /\ label \in {"exist", "post"} => held # None
    /\ starts \in 0 .. MaxStarts
    /\ losses \in 0 .. MaxLosses
    /\ failures \in 0 .. MaxFailures
    /\ due \in [Workitem -> Nat]
    /\ skipped \subseteq Workitem
    /\ setBack \subseteq Workitem

Recovered(w) == origin[w] # 0 /\ (origin[w] >= due[w] \/ w \in setBack)

\* When a run has no more files, each workitem whose whole file it listed is there again,
\* with the snapshot of that file or a newer one, whatever calls for a snapshot failed and
\* wherever earlier runs broke off.  It excuses a workitem an import has set back before
\* and one whose file the run got nothing of and skipped (RestoreService.java:212).
Imported ==
    label = "file" /\ todo = {} =>
        \A w \in Workitem : due[w] # 0 /\ w \notin skipped => Recovered(w)

NoBrokenFile == \A w \in Workitem : stored[w] # 0 => w \in intact

\* An import ends, whatever calls fail, unless a file stays broken.
ImportEnds == <>[]NoBrokenFile => (timers > 0 ~> timers = 0)

=============================================================================
