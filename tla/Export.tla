-------------------------------- MODULE Export --------------------------------
(***************************************************************************)
(* The export application (SchedulerService and FileService): it polls the   *)
(* entries "file.export" of the event log and writes the files of the current *)
(* snapshot of the workitem to a directory, which the entry names.  It may run *)
(* as several instances; an entry is locked while one of them works on it.     *)
(*                                                                         *)
(* A workitem has a directory of its own, and File are its files that match the *)
(* filter.  Each save changes the files.  The event log and the document service *)
(* are external.  The endpoint and the target are configured.                 *)
(*                                                                         *)
(* A definition whose name extends that of a following one is a mutant of it. *)
(***************************************************************************)
EXTENDS Integers, FiniteSets

CONSTANTS
    Workitem,      \* uniqueids of the workitems
    Plain,         \* workitems without a $snapshotid
    File,          \* names of the exported files of a workitem
    Instance,      \* instances of the export application
    PageSize,      \* entries of a page of the event log
    MaxSaves,      \* bound on the saves of a workitem
    MaxDeletions,  \* bound on the number of deleted workitems
    MaxStarts,     \* bound on the starts and stops by a user
    MaxFailures,   \* bound on the number of failing calls and restarts
    None           \* no entry

\* The entry that the processing writes with which the version v of w is saved.
Entry == Workitem \X (1 .. MaxSaves)

ASSUME ExportBounds ==
    /\ PageSize \in Nat \ {0}
    /\ MaxSaves \in Nat
    /\ MaxDeletions \in Nat
    /\ MaxStarts \in Nat
    /\ MaxFailures \in Nat

ASSUME NoEntry == None \notin Entry

VARIABLES
    saves,      \* saves[w]: number of saves of w, its version
    deleted,    \* workitems that are deleted
    event,      \* event[e]: the status of the entry e
    malformed,  \* entries with a filter that is no regular expression
    file,       \* file[w][n]: the version of the exported file n of w, 0 for no file
    partial,    \* files of which only a part was written
    failures,   \* number of failed calls and restarts
    starts,     \* number of starts and stops by a user
    scheduled,  \* instances that have a timer
    label,      \* label[i]: next statement of onTimeout of the instance i
    batch,      \* batch[i]: entries found and not yet processed
    entry,      \* entry[i]: the entry in progress
    version,    \* version[i]: the version of its workitem that was read
    todo,       \* todo[i]: files that are not yet written
    unguarded   \* workitems that were exported without the protection of a lock

server == <<saves, deleted>>
store == <<file, partial>>
counters == <<failures, starts>>
locals == <<label, batch, entry, version, todo>>
vars == <<server, event, malformed, store, counters, scheduled, locals, unguarded>>

Init ==
    /\ saves = [w \in Workitem |-> 0]
    /\ deleted = {}
    /\ event = [e \in Entry |-> "none"]
    /\ malformed = {}
    /\ file = [w \in Workitem |-> [n \in File |-> 0]]
    /\ partial = {}
    /\ failures = 0
    /\ starts = 0
    /\ scheduled = Instance
    /\ label = [i \in Instance |-> "idle"]
    /\ batch = [i \in Instance |-> {}]
    /\ entry = [i \in Instance |-> None]
    /\ version = [i \in Instance |-> 0]
    /\ todo = [i \in Instance |-> {}]
    /\ unguarded = {}

InLog(e) == event[e] \in {"queued", "locked", "stale"}

Goto(i, l) == label' = [label EXCEPT ![i] = l]

Fail ==
    /\ failures < MaxFailures
    /\ failures' = failures + 1
    /\ UNCHANGED starts

-----------------------------------------------------------------------------
(* The workflow server *)

\* A workitem is processed and saved, by an event with an entry for the export or by one
\* without.
Process(w) ==
    LET e == <<w, saves[w] + 1>>
    IN  /\ w \notin deleted
        /\ saves[w] < MaxSaves
        /\ saves' = [saves EXCEPT ![w] = @ + 1]
        /\ \/ UNCHANGED <<event, malformed>>
           \/ /\ event' = [event EXCEPT ![e] = "queued"]
              /\ malformed' \in {malformed, malformed \union {e}}
        /\ UNCHANGED <<deleted, store, counters, scheduled, locals, unguarded>>

DeleteWorkitem(w) ==
    /\ w \notin deleted
    /\ saves[w] > 0
    /\ Cardinality(deleted) < MaxDeletions
    /\ deleted' = deleted \union {w}
    /\ UNCHANGED <<saves, event, malformed, store, counters, scheduled, locals, unguarded>>

\* A lock that is kept gets older than the deadlock interval.
LockExpires(e) ==
    /\ event[e] = "locked"
    /\ event' = [event EXCEPT ![e] = "stale"]
    /\ UNCHANGED <<server, malformed, store, counters, scheduled, locals, unguarded>>

-----------------------------------------------------------------------------
(* SchedulerService.onTimeout *)

EndEntryKeepsList(i) ==
    /\ Goto(i, "next")
    /\ entry' = [entry EXCEPT ![i] = None]
    /\ version' = [version EXCEPT ![i] = 0]
    /\ UNCHANGED <<batch, todo>>
EndEntry(i) ==
    /\ Goto(i, "next")
    /\ entry' = [entry EXCEPT ![i] = None]
    /\ version' = [version EXCEPT ![i] = 0]
    /\ todo' = [todo EXCEPT ![i] = {}]
    /\ UNCHANGED batch

\* An exception leaves the timer alone, which fires again after its interval.
EndRun(i) ==
    /\ Goto(i, "idle")
    /\ batch' = [batch EXCEPT ![i] = {}]
    /\ entry' = [entry EXCEPT ![i] = None]
    /\ version' = [version EXCEPT ![i] = 0]
    /\ todo' = [todo EXCEPT ![i] = {}]

ReleasedNever(s) == s
Released(s) == IF s = "stale" THEN "queued" ELSE s

OnTimeout(i) ==
    /\ i \in scheduled
    /\ label[i] = "idle"
    /\ event' = [e \in Entry |-> Released(event[e])]
    /\ Goto(i, "search")
    /\ UNCHANGED <<server, malformed, store, counters, scheduled, batch, entry, version,
                   todo, unguarded>>

SearchEventLog(i) ==
    LET queued == { e \in Entry : event[e] = "queued" }
    IN  /\ label[i] = "search"
        /\ \E found \in SUBSET queued :
            /\ Cardinality(found) <= PageSize
            /\ found # queued => Cardinality(found) = PageSize
            /\ batch' = [batch EXCEPT ![i] = found]
        /\ Goto(i, "next")
        /\ UNCHANGED <<server, event, malformed, store, counters, scheduled, entry, version,
                       todo, unguarded>>

SearchFails(i) ==
    /\ label[i] = "search"
    /\ Fail
    /\ EndRun(i)
    /\ UNCHANGED <<server, event, malformed, store, scheduled, unguarded>>

\* The filter is compiled before the try block: the exception ends the run.
CompileFails(i) ==
    /\ label[i] = "next"
    /\ batch[i] \intersect malformed # {}
    /\ EndRun(i)
    /\ UNCHANGED <<server, event, malformed, store, counters, scheduled, unguarded>>

Take(i, e) ==
    /\ entry' = [entry EXCEPT ![i] = e]
    /\ batch' = [batch EXCEPT ![i] = @ \ {e}]

\* The instance i reads or writes files of w.
AtWork(i, w) == label[i] \in {"pull", "snapshot", "write"} /\ entry[i][1] = w

\* The lock is granted, or ignored because the entry is locked or gone.  The lock does
\* not protect from another entry of the workitem.
LockEntry(i) ==
    /\ label[i] = "next"
    /\ \E e \in batch[i] \ malformed :
        /\ Take(i, e)
        /\ event' = [event EXCEPT ![e] = IF @ = "queued" THEN "locked" ELSE @]
        /\ unguarded' =
               IF event[e] # "queued" \/ \E j \in Instance : AtWork(j, e[1])
               THEN unguarded \union {e[1]}
               ELSE unguarded
    /\ Goto(i, "pull")
    /\ UNCHANGED <<server, malformed, store, counters, scheduled, version, todo>>

\* The lock of such an entry is refused.
RefuseLock(i) ==
    /\ label[i] = "next"
    /\ \E e \in batch[i] \ malformed : event[e] # "queued" /\ Take(i, e)
    /\ Goto(i, "unlock")
    /\ UNCHANGED <<server, event, malformed, store, counters, scheduled, version, todo,
                   unguarded>>

\* The call fails, or only its answer is lost.
LockFails(i) ==
    /\ label[i] = "next"
    /\ Fail
    /\ \E e \in batch[i] \ malformed :
        /\ Take(i, e)
        /\ event' \in {event, [event EXCEPT ![e] = IF @ = "queued" THEN "locked" ELSE @]}
    /\ Goto(i, "unlock")
    /\ UNCHANGED <<server, malformed, store, scheduled, version, todo, unguarded>>

\* pullFileDataList reads the workitem, whose version is not that of the entry ...
GetWorkitem(i) ==
    LET w == entry[i][1]
    IN  /\ label[i] = "pull"
        /\ w \notin deleted
        /\ version' = [version EXCEPT ![i] = saves[w]]
        /\ IF w \in Plain
           THEN todo' = [todo EXCEPT ![i] = File] /\ Goto(i, "write")
           ELSE UNCHANGED todo /\ Goto(i, "snapshot")
        /\ UNCHANGED <<server, event, malformed, store, counters, scheduled, batch, entry,
                       unguarded>>

\* ... and its snapshot, which the local history may have kept after another save ...
GetSnapshot(i) ==
    /\ label[i] = "snapshot"
    /\ entry[i][1] \notin deleted
    /\ todo' = [todo EXCEPT ![i] = File]
    /\ Goto(i, "write")
    /\ UNCHANGED <<server, event, malformed, store, counters, scheduled, batch, entry,
                   version, unguarded>>

\* ... or removed; that it is not found is an ExportException like any other.
DocumentNotFound(i) ==
    LET w == entry[i][1]
    IN  /\ \/ label[i] \in {"pull", "snapshot"} /\ w \in deleted
           \/ label[i] = "snapshot" /\ version[i] # saves[w]
        /\ Goto(i, "unlock")
        /\ UNCHANGED <<server, event, malformed, store, counters, scheduled, batch, entry,
                       version, todo, unguarded>>

\* FileService.writeFileData: what is there already is not written again.
UnchangedByName(w, n, v) == file[w][n] # 0
Unchanged(w, n, v) == file[w][n] = v /\ <<w, n>> \notin partial

WriteFile(i) ==
    LET w == entry[i][1]
    IN  /\ label[i] = "write"
        /\ \E n \in todo[i] :
            /\ todo' = [todo EXCEPT ![i] = @ \ {n}]
            /\ IF Unchanged(w, n, version[i])
               THEN UNCHANGED store
               ELSE /\ file' = [file EXCEPT ![w][n] = version[i]]
                    /\ partial' = partial \ {<<w, n>>}
        /\ UNCHANGED <<server, event, malformed, counters, scheduled, label, batch, entry,
                       version, unguarded>>

\* The writing of a file is cut off.
WritePart(i) ==
    LET w == entry[i][1]
    IN  /\ label[i] = "write"
        /\ \E n \in todo[i] :
            /\ ~Unchanged(w, n, version[i])
            /\ file' = [file EXCEPT ![w][n] = version[i]]
            /\ partial' = partial \union {<<w, n>>}

WriteFails(i) ==
    /\ Fail
    /\ WritePart(i)
    /\ Goto(i, "unlock")
    /\ UNCHANGED <<server, event, malformed, scheduled, batch, entry, version, todo,
                   unguarded>>

DeleteEntry(i) ==
    /\ label[i] = "write"
    /\ todo[i] = {}
    /\ event' = [event EXCEPT ![entry[i]] = "deleted"]
    /\ EndEntry(i)
    /\ UNCHANGED <<server, malformed, store, counters, scheduled, unguarded>>

\* Any other call fails; of the deletion of the entry only the answer may be lost.
CallFails(i) ==
    /\ label[i] \in {"pull", "snapshot", "write"}
    /\ Fail
    /\ \/ UNCHANGED event
       \/ /\ label[i] = "write" /\ todo[i] = {}
          /\ event' = [event EXCEPT ![entry[i]] = "deleted"]
    /\ Goto(i, "unlock")
    /\ UNCHANGED <<server, malformed, store, scheduled, batch, entry, version, todo,
                   unguarded>>

\* The catch block takes the lock away, whoever holds it.
UnlockedDeleted(s) == "deleted"
Unlocked(s) == IF s \in {"locked", "stale"} THEN "queued" ELSE s

UnlockEntry(i) ==
    /\ label[i] = "unlock"
    /\ event' = [event EXCEPT ![entry[i]] = Unlocked(@)]
    /\ EndEntry(i)
    /\ UNCHANGED <<server, malformed, store, counters, scheduled, unguarded>>

\* The call fails, or there is no such entry any more: the exception ends the run.
UnlockFails(i) ==
    /\ label[i] = "unlock"
    /\ IF event[entry[i]] = "deleted" THEN UNCHANGED counters ELSE Fail
    /\ event' \in {event, [event EXCEPT ![entry[i]] = Unlocked(@)]}
    /\ EndRun(i)
    /\ UNCHANGED <<server, malformed, store, scheduled, unguarded>>

EndTimeout(i) ==
    /\ label[i] = "next"
    /\ batch[i] = {}
    /\ EndRun(i)
    /\ UNCHANGED <<server, event, malformed, store, counters, scheduled, unguarded>>

-----------------------------------------------------------------------------

\* ExportController.start and stop; the singleton is not in a run.
Toggle(i) ==
    /\ label[i] = "idle"
    /\ starts < MaxStarts
    /\ starts' = starts + 1
    /\ scheduled' = IF i \in scheduled THEN scheduled \ {i} ELSE scheduled \union {i}
    /\ UNCHANGED <<server, event, malformed, store, failures, locals, unguarded>>

\* An instance restarts, and is scheduled again.
Restart(i) ==
    /\ Fail
    /\ WritePart(i) \/ UNCHANGED store
    /\ EndRun(i)
    /\ scheduled' = scheduled \union {i}
    /\ UNCHANGED <<server, event, malformed, unguarded>>

Step(i) ==
    \/ OnTimeout(i)
    \/ SearchEventLog(i)
    \/ CompileFails(i)
    \/ LockEntry(i)
    \/ RefuseLock(i)
    \/ GetWorkitem(i)
    \/ GetSnapshot(i)
    \/ DocumentNotFound(i)
    \/ WriteFile(i)
    \/ DeleteEntry(i)
    \/ UnlockEntry(i)
    \/ EndTimeout(i)

Trouble(i) ==
    \/ SearchFails(i)
    \/ LockFails(i)
    \/ WriteFails(i)
    \/ CallFails(i)
    \/ UnlockFails(i)
    \/ Restart(i)

Next ==
    \/ \E w \in Workitem : Process(w) \/ DeleteWorkitem(w)
    \/ \E e \in Entry : LockExpires(e)
    \/ \E i \in Instance : Step(i) \/ Trouble(i) \/ Toggle(i)

Spec == Init /\ [][Next]_vars

\* The timer fires, a run that has begun goes on, a lock grows old.
Fairness ==
    /\ \A i \in Instance : WF_vars(Step(i))
    /\ \A e \in Entry : WF_vars(LockExpires(e))

FairSpec == Spec /\ Fairness

-----------------------------------------------------------------------------

EventStatus == {"none", "queued", "locked", "stale", "deleted"}
Labels == {"idle", "search", "next", "pull", "snapshot", "write", "unlock"}

\* The variables hold values of their types; an entry is in progress from its lock to the
\* end of its catch block, and files are only left to write once they are read.
TypeOK ==
    /\ saves \in [Workitem -> 0 .. MaxSaves]
    /\ deleted \subseteq Workitem
    /\ event \in [Entry -> EventStatus]
    /\ malformed \subseteq Entry
    /\ file \in [Workitem -> [File -> Nat]]
    /\ partial \subseteq Workitem \X File
    /\ failures \in 0 .. MaxFailures
    /\ starts \in 0 .. MaxStarts
    /\ scheduled \subseteq Instance
    /\ label \in [Instance -> Labels]
    /\ batch \in [Instance -> SUBSET Entry]
    /\ entry \in [Instance -> Entry \union {None}]
    /\ version \in [Instance -> 0 .. MaxSaves]
    /\ todo \in [Instance -> SUBSET File]
    /\ \A i \in Instance :
        /\ entry[i] = None <=> label[i] \in {"idle", "search", "next"}
        /\ todo[i] # {} => label[i] \in {"write", "unlock"}
    /\ unguarded \subseteq Workitem

Whole(w, v) == \A n \in File : file[w][n] >= v /\ <<w, n>> \notin partial

\* An entry only leaves the event log when the files of its workitem are exported as they
\* were then or later.  A later entry may be writing them anew, and leave a part of a file as
\* long as it is in the log itself.  Instances that are at work on one workitem at the same
\* time may undo this.
ExportedOrQueued ==
    \A e \in Entry : event[e] = "deleted" /\ e[1] \notin unguarded =>
        \/ Whole(e[1], e[2])
        \/ /\ \A n \in File : file[e[1]][n] >= e[2]
           /\ \E d \in Entry : d[1] = e[1] /\ InLog(d)

\* Entries that fail each time and stay in the log.
Stuck == { e \in Entry : InLog(e) /\ (e[1] \in deleted \/ e \in malformed) }

\* An entry is processed in the end, as long as an instance is scheduled, no filter is
\* malformed and the entries of deleted workitems do not fill a page.
EntriesEnd ==
    <>[](scheduled # {}) =>
        \A e \in Entry :
            InLog(e) ~> \/ ~InLog(e)
                        \/ \E d \in Stuck : d = e \/ d \in malformed
                        \/ Cardinality(Stuck) >= PageSize

=============================================================================
