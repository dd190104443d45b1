-------------------------------- MODULE Restore --------------------------------
(***************************************************************************)
(* The restore of archived snapshots into the workflow server               *)
(* (RestoreScheduler and RestoreController of imixs-archive-service,          *)
(* postSnapshot of SnapshotRestService), composed with Resync.  Both share   *)
(* the metadata row and the snapshots of the archive and the server.        *)
(*                                                                         *)
(* A restore goes from day to day.  For each snapshot that the archive lists *)
(* under the day it looks for the latest snapshot of the same workitem in   *)
(* the range of the restore, and posts it unless the workitem is already     *)
(* there with this snapshot.  After each day the row is written.            *)
(*                                                                         *)
(* RestoreScheduler is a singleton with the lock of the container: start,    *)
(* cancel and onTimeout exclude each other, so cancel waits for a timeout    *)
(* that is in progress.                                                    *)
(*                                                                         *)
(* Abstractions.  The filter options are the set of the snapshots they       *)
(* match.  The counters of the row are left out.  Data is lost on the server *)
(* for a workitem as a whole, once the archive has what is lost; a restore   *)
(* in another server starts from the same state.                           *)
(*                                                                         *)
(* A snapshot id is compared as the text it is: a time is a number of        *)
(* milliseconds in the code, in decimal digits, here a number of the clock   *)
(* with the digits of Radix.  The ids have one number of digits (13 in the   *)
(* code, from 2001 to 2286); the range of a restore may have fewer.  A day   *)
(* of the archive is one of UTC, a day of the restore one of the system's   *)
(* time zone, which is at a fixed offset: summer time is left out.          *)
(***************************************************************************)
EXTENDS Resync

CONSTANTS
    DayLength,     \* units of time of a day
    Zone,          \* offset of the time zone of the system to UTC
    Radix,         \* digits a snapshot id is written with (10)
    Range,         \* ranges <<from, to>> the user restores
    Filter,        \* sets of snapshots that a list of options may match
    MaxRestores    \* bound on restores

\* The restore items of the row; an item that is not there is read as 0.
RestoreAssumption ==
    /\ DayLength \in Nat \ {0}
    /\ Zone \in Int
    /\ Radix \in Nat \ {0, 1}
    /\ Range \subseteq Time \X Time
    /\ Filter \subseteq SUBSET Snapshot
    /\ MaxRestores \in Nat
    /\ RestoreItems = [from : Time, to : Time, point : 0 .. MaxTime + DayLength,
                       filter : Filter]
    /\ NoRestore = [from |-> 0, to |-> 0, point |-> 0, filter |-> Snapshot]
ASSUME RestoreAssumption

\* The number of digits of a time.
Digits ==
    [t \in Time |-> CHOOSE n \in 1 .. t + 1 : t < Radix ^ n /\ (n = 1 \/ Radix ^ (n - 1) <= t)]

ASSUME IdAssumption == \E n \in 1 .. MaxTime + 1 : \A s \in Snapshot : Digits[s[2]] = n

Workitem == { s[1] : s \in Snapshot }

VARIABLES
    origin,     \* $snapshotid of each workitem on the server, None: not there
    timerSet,   \* whether the timer of the restore exists
    label,      \* next statement of the scheduler
    metadata,   \* its copy of the row
    snapshotIDs,    \* snapshots of the current day it has still to look at
    latest,     \* the snapshot to post
    written,    \* history: the restore items the scheduler has written last
    due,        \* history: the snapshot each workitem is to be restored to
    undone,     \* history: whether somebody wrote back a row without these items
    restores    \* number of restores

restoring == <<timerSet, label, metadata, snapshotIDs, latest, written, undone, restores>>
allVars == <<vars, origin, restoring, due>>

RestoreInit ==
    /\ Init
    /\ origin = [u \in Workitem |-> None]
    /\ timerSet = FALSE
    /\ label = "idle"
    /\ metadata = EmptyRow
    /\ snapshotIDs = {}
    /\ latest = None
    /\ written = NoRestore
    /\ due = [u \in Workitem |-> None]
    /\ undone = FALSE
    /\ restores = 0

-----------------------------------------------------------------------------
(* What a restore selects *)

\* The order of two times as texts: the one with fewer digits is compared with the first
\* digits of the other one.
TextUpTo(a, b) ==
    LET m == Digits[a]
        n == Digits[b]
    IN  \/ a = 0
        \/ m = n /\ a <= b
        \/ m < n /\ a * Radix ^ (n - m) <= b
        \/ m > n /\ a < b * Radix ^ (m - n)

InRangeOpen(s, from, to) == TextUpTo(from, s[2]) /\ ~TextUpTo(to, s[2])
InRange(s, from, to) == TextUpTo(from, s[2]) /\ TextUpTo(s[2], to)

\* findLatestSnapshotID; None when the range has no snapshot.
LatestOf(u, items) ==
    LET found == { s \in Snapshot :
                    s[1] = u /\ archived[s] # 0 /\ InRange(s, items.from, items.to) }
    IN  IF found = {} THEN None
        ELSE CHOOSE s \in found : \A q \in found : TextUpTo(q[2], s[2])

\* saveSnapshot lists a snapshot under the day of its $modified in UTC; the restore asks
\* for the day of its own time zone.
Day(t) == t \div DayLength
LocalDay(t) == Day(t + Zone)

\* loadSnapshotsByDate for a point of the restore.
Listed(point) == { s \in Snapshot : archived[s] # 0 /\ Day(archived[s]) = LocalDay(point) }

NextPoint(point) == point + DayLength

\* History, not in the code: what a restore with these items is expected to do for u.
\* The days it visits start at the time of day of restore.from and end before restore.to.
\* u is due when one of its snapshots has its $modified in the UTC day that has the date
\* of such a day, and then with its latest snapshot of the range.  A range with fewer
\* digits than the ids promises nothing, unless it begins at 0.
Visited(items) ==
    { n \in Time : items.from + n * DayLength < items.to }
Comparable(items, s) ==
    /\ items.from = 0 \/ Digits[items.from] = Digits[s[2]]
    /\ Digits[items.to] = Digits[s[2]]
Promised(u, items) ==
    LET mine == { s \in Snapshot : s[1] = u /\ archived[s] # 0 }
        range == { s \in mine : s[2] \in items.from .. items.to }
        last == { s \in range : \A q \in range : q[2] <= s[2] }
    IN  IF /\ \E s \in mine, n \in Visited(items) :
                archived[s] \div DayLength = ((items.from + Zone) \div DayLength) + n
           /\ \A s \in mine : Comparable(items, s)
           /\ last # {} /\ last \subseteq items.filter
        THEN CHOOSE s \in last : TRUE
        ELSE None

Nothing == [u \in Workitem |-> None]

-----------------------------------------------------------------------------
(* start and cancel *)

\* An existing timer is canceled, the row is loaded and changed.
StartRestore(from, to, filter) ==
    /\ label = "idle"
    /\ restores < MaxRestores
    /\ restores' = restores + 1
    /\ timerSet' = FALSE
    /\ metadata' = [row EXCEPT !.restore =
                       [from |-> from, to |-> to, point |-> from, filter |-> filter]]
    /\ label' = "start"
    /\ due' = Nothing
    /\ UNCHANGED <<vars, origin, snapshotIDs, latest, written, undone>>

SaveStart ==
    /\ label = "start"
    /\ row' = metadata
    /\ timerSet' = TRUE
    /\ written' = metadata.restore
    /\ undone' = FALSE
    /\ due' = [u \in Workitem |-> Promised(u, metadata.restore)]
    /\ metadata' = EmptyRow
    /\ label' = "idle"
    /\ UNCHANGED <<source, archived, timing, controller, locals, history, bounds,
                   origin, snapshotIDs, latest, restores>>

\* The row is not written, and no timer is created.
SaveStartFails ==
    /\ label = "start"
    /\ Trouble
    /\ metadata' = EmptyRow
    /\ label' = "idle"
    /\ UNCHANGED <<source, archived, row, timing, controller, locals, history, restarts,
                   origin, timerSet, snapshotIDs, latest, written, due, undone, restores>>

CancelRestore ==
    /\ label = "idle"
    /\ timerSet
    /\ timerSet' = FALSE
    /\ due' = Nothing
    /\ UNCHANGED <<vars, origin, label, metadata, snapshotIDs, latest, written, undone, restores>>

-----------------------------------------------------------------------------
(* onTimeout *)

\* The row is loaded.  Another component may have written back a copy in which the
\* items of this restore are missing.
RestoreTimeout ==
    /\ label = "idle"
    /\ timerSet
    /\ metadata' = row
    /\ label' = "day"
    /\ undone' = (undone \/ row.restore # written)
    /\ UNCHANGED <<vars, origin, timerSet, snapshotIDs, latest, written, due, restores>>

LoadDay ==
    /\ label = "day"
    /\ metadata.restore.to > metadata.restore.point
    /\ snapshotIDs' = Listed(metadata.restore.point)
    /\ label' = "verify"
    /\ UNCHANGED <<vars, origin, timerSet, metadata, latest, written, due, undone, restores>>

\* The latest snapshot of the workitem is compared with the one on the server.
VerifySnapshot ==
    /\ label = "verify"
    /\ \E s \in snapshotIDs :
        LET found == LatestOf(s[1], metadata.restore)
        IN  /\ snapshotIDs' = snapshotIDs \ {s}
            /\ IF /\ found \in metadata.restore.filter
                  /\ origin[s[1]] # found
               THEN label' = "post" /\ latest' = found
               ELSE UNCHANGED <<label, latest>>
    /\ UNCHANGED <<vars, origin, timerSet, metadata, written, due, undone, restores>>

\* The server does not answer, which is taken for a workitem that is not there.
VerifySnapshotFails ==
    /\ label = "verify"
    /\ Trouble
    /\ \E s \in snapshotIDs :
        LET found == LatestOf(s[1], metadata.restore)
        IN  /\ snapshotIDs' = snapshotIDs \ {s}
            /\ found \in metadata.restore.filter
            /\ latest' = found
    /\ label' = "post"
    /\ UNCHANGED <<source, archived, row, timing, controller, locals, history, restarts,
                   origin, timerSet, metadata, written, due, undone, restores>>

\* postSnapshot: the snapshot is saved, with a new $modified, if it is not there, and
\* the workitem is overwritten whatever its snapshot was.
PostSnapshot ==
    /\ label = "post"
    /\ modified' = [modified EXCEPT ![latest] = IF @ = 0 THEN now ELSE @]
    /\ origin' = [origin EXCEPT ![latest[1]] = latest]
    /\ latest' = None
    /\ label' = "verify"
    /\ UNCHANGED <<now, archived, row, timing, controller, locals, history, bounds,
                   timerSet, metadata, snapshotIDs, written, due, undone, restores>>

\* loadSnapshot or the call fails; the error is counted.
PostSnapshotFails ==
    /\ label = "post"
    /\ Trouble
    /\ due' = [due EXCEPT ![latest[1]] = None]
    /\ latest' = None
    /\ label' = "verify"
    /\ UNCHANGED <<source, archived, row, timing, controller, locals, history, restarts,
                   origin, timerSet, metadata, snapshotIDs, written, undone, restores>>

\* The copy of the row that was loaded at the beginning is written as a whole, with the
\* next point of the restore.
NextRowSyncPoint(m) == [m EXCEPT !.sync = m.restore.point, !.restore.point = NextPoint(@)]
NextRow(m) == [m EXCEPT !.restore.point = NextPoint(@)]

NextDay ==
    /\ label = "verify"
    /\ snapshotIDs = {}
    /\ metadata' = NextRow(metadata)
    /\ row' = metadata'
    /\ written' = metadata'.restore
    /\ label' = "day"
    /\ UNCHANGED <<source, archived, timing, controller, locals, history, bounds,
                   origin, timerSet, snapshotIDs, latest, due, undone, restores>>

EndRestore ==
    /\ label = "day"
    /\ metadata.restore.to <= metadata.restore.point
    /\ timerSet' = FALSE
    /\ metadata' = EmptyRow
    /\ label' = "idle"
    /\ UNCHANGED <<vars, origin, snapshotIDs, latest, written, due, undone, restores>>

\* An exception outside of the restore of a snapshot cancels the timer.
RestoreFails ==
    /\ label \in {"day", "verify"}
    /\ Trouble
    /\ timerSet' = FALSE
    /\ metadata' = EmptyRow
    /\ snapshotIDs' = {}
    /\ label' = "idle"
    /\ due' = Nothing
    /\ UNCHANGED <<source, archived, row, timing, controller, locals, history, restarts,
                   origin, latest, written, undone, restores>>

-----------------------------------------------------------------------------
(* The other components *)

\* A snapshot is the new state of its workitem.
SaveWorkitem(s) ==
    /\ origin[s[1]] # None \/ \A q \in Snapshot : q[1] = s[1] => modified[q] = 0
    /\ \A q \in Snapshot :
         q[1] = s[1] /\ q[2] >= s[2] => modified[q] = 0 /\ archived[q] = 0
    /\ SaveDocument(s)
    /\ origin' = [origin EXCEPT ![s[1]] = s]
    /\ due' = [due EXCEPT ![s[1]] = None]
    /\ UNCHANGED restoring

\* The server loses a workitem with its snapshots.
LoseWorkitem(u) ==
    /\ origin[u] # None
    /\ \A s \in Snapshot : s[1] = u /\ modified[s] # 0 => archived[s] # 0
    /\ Trouble
    /\ modified' = [s \in Snapshot |-> IF s[1] = u THEN 0 ELSE modified[s]]
    /\ origin' = [origin EXCEPT ![u] = None]
    /\ due' = [due EXCEPT ![u] = None]
    /\ UNCHANGED <<now, archived, row, timing, controller, locals, history, restarts,
                   restoring>>

\* A step of another component.  It may change what the archive has of a workitem.
Other ==
    /\ \/ Tick
       \/ \E s \in Snapshot : Pull(s)
       \/ Controller
       \/ \E r \in Run : OnTimeout(r) \/ Step(r)
    /\ due' = [u \in Workitem |->
                 IF \E s \in Snapshot : s[1] = u /\ archived'[s] # archived[s]
                 THEN None ELSE due[u]]
    /\ UNCHANGED <<origin, restoring>>

\* The timer of the restore is persistent, too: it fires again and the restore goes on
\* with the day in the row.
RestartAll ==
    /\ Restart
    /\ label' = "idle"
    /\ metadata' = EmptyRow
    /\ snapshotIDs' = {}
    /\ latest' = None
    /\ UNCHANGED <<origin, timerSet, written, due, undone, restores>>

Scheduler ==
    \/ SaveStart
    \/ SaveStartFails
    \/ RestoreTimeout
    \/ LoadDay
    \/ VerifySnapshot
    \/ VerifySnapshotFails
    \/ PostSnapshot
    \/ PostSnapshotFails
    \/ NextDay
    \/ EndRestore
    \/ RestoreFails

RestoreNext ==
    \/ Scheduler
    \/ \E range \in Range, filter \in Filter : StartRestore(range[1], range[2], filter)
    \/ CancelRestore
    \/ \E s \in Snapshot : SaveWorkitem(s)
    \/ \E u \in Workitem : LoseWorkitem(u)
    \/ Other
    \/ RestartAll

RestoreSpec == RestoreInit /\ [][RestoreNext]_allVars

-----------------------------------------------------------------------------
(* Properties *)

\* The type invariant: the scheduler posts a snapshot only at one place, and has a list
\* only while it verifies a day.
RestoreTypeOK ==
    /\ TypeOK
    /\ origin \in [Workitem -> Snapshot \union {None}]
    /\ timerSet \in BOOLEAN
    /\ label \in {"idle", "start", "day", "verify", "post"}
    /\ metadata \in Row
    /\ snapshotIDs \in SUBSET Snapshot
    /\ latest \in Snapshot \union {None}
    /\ (label = "post") <=> (latest # None)
    /\ label # "verify" /\ label # "post" => snapshotIDs = {}
    /\ written \in RestoreItems
    /\ undone \in BOOLEAN
    /\ restores \in 0 .. MaxRestores
    /\ due \in [Workitem -> Snapshot \union {None}]

\* A restore that comes to its end has brought each workitem that is listed on one of its
\* days back to the latest archived snapshot of its range, also when it was interrupted
\* by a restart, unless somebody changed the workitem meanwhile, its snapshots in the
\* archive changed, a call failed, or another component wrote back an old metadata row
\* before the restore began (RestoreScheduler.onTimeout, findLatestSnapshotID).  It does
\* not say so of a range that has fewer digits than the ids, nor of a
\* snapshot whose $modified is in the range but whose UTC day has none of the dates the
\* restore visits in its own time zone.
Restored ==
    [][EndRestore /\ ~undone => \A u \in Workitem : due[u] \in {None, origin[u]}]_allVars

=============================================================================
