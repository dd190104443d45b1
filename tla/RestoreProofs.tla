----------------------------- MODULE RestoreProofs -----------------------------
(***************************************************************************)
(* The type invariant of Restore and the soundness of the syncpoint while a *)
(* restore writes back its copy of the metadata row, for any number of      *)
(* snapshots, runs, restores, failures and restarts.  The steps of Resync   *)
(* are those of ResyncProofs.                                              *)
(***************************************************************************)
EXTENDS Restore, ResyncProofs, WellFoundedInduction

\* A day is only verified within the range, and what is posted is in the archive.
RestoreLocals ==
    /\ label \in {"verify", "post"} => metadata.restore.point < metadata.restore.to
    /\ label = "post" => archived[latest] # 0

\* What the copy of the scheduler would claim if it were written now is kept, however
\* old it is, and it reaches no further than what was read.
CopyKept ==
    \A s \in Snapshot :
        (metadata.base < modified[s] /\ modified[s] <= metadata.sync) => Kept(s)
CopyRead == metadata.sync <= newest \/ metadata.sync <= metadata.base

RestoreInv ==
    /\ RestoreTypeOK
    /\ Locals
    /\ RestoreLocals
    /\ Claims
    /\ CopyKept
    /\ CopyRead

USE DEF source, timing, controller, locals, history, bounds, restoring, Labels, Time,
        Row, EmptyRow

\* The types of the variables of Restore alone.
RestoreTypes ==
    /\ origin \in [Workitem -> Snapshot \union {None}]
    /\ timerSet \in BOOLEAN
    /\ label \in {"idle", "start", "day", "verify", "post"}
    /\ metadata \in Row
    /\ snapshotIDs \in SUBSET Snapshot
    /\ latest \in Snapshot \union {None}
    /\ (label = "post") <=> (latest # None)
    /\ label # "verify" /\ label # "post" => snapshotIDs = {}
    /\ written \in RestoreItems
    /\ undone \in BOOLEAN
    /\ restores \in 0 .. MaxRestores
    /\ due \in [Workitem -> Snapshot \union {None}]

LEMMA SplitTypes == RestoreTypeOK <=> TypeOK /\ RestoreTypes
  BY DEF RestoreTypeOK, RestoreTypes

LEMMA Restores == MaxRestores \in Nat
  BY RestoreAssumption DEF RestoreAssumption

LEMMA Items ==
  /\ RestoreItems = [from : 0 .. MaxTime, to : 0 .. MaxTime,
                     point : 0 .. MaxTime + DayLength, filter : Filter]
  /\ DayLength \in Nat
  /\ Filter \subseteq SUBSET Snapshot
  /\ Range \subseteq (0 .. MaxTime) \X (0 .. MaxTime)
  BY RestoreAssumption DEF RestoreAssumption

LEMMA EmptyRowTyped == EmptyRow \in Row
  BY BoundAssumption

LEMMA InitRestoreInv == RestoreInit => RestoreInv
<1> SUFFICES ASSUME RestoreInit
             PROVE  RestoreInv
  OBVIOUS
<1>1. ResyncInv
  BY InitResyncInv DEF RestoreInit
<1>2. RestoreTypes
  <2>1. metadata \in Row /\ written \in RestoreItems
    BY EmptyRowTyped, BoundAssumption DEF RestoreInit
  <2>2. restores \in 0 .. MaxRestores
    BY Restores DEF RestoreInit
  <2>3. QED
    BY <2>1, <2>2 DEF RestoreInit, RestoreTypes
<1>3. RestoreLocals /\ CopyKept /\ CopyRead
  <2>1. \A s \in Snapshot : modified[s] = 0
    BY DEF RestoreInit, Init
  <2>2. QED
    BY <2>1 DEF RestoreInit, Init, RestoreLocals, CopyKept, CopyRead
<1>4. QED
  BY <1>1, <1>2, <1>3, SplitTypes DEF RestoreInv, ResyncInv, Claims

-----------------------------------------------------------------------------
(* What a restore selects *)

\* Among snapshots of a workitem there is a latest one: the times are bounded.
LEMMA LatestExists ==
  ASSUME NEW found, found \subseteq Snapshot, found # {}
  PROVE  \E s \in found : \A q \in found : q[2] <= s[2]
<1> DEFINE left == { MaxTime - s[2] : s \in found }
           less == OpToRel(<, Nat)
<1>1. left \subseteq Nat /\ left # {}
  BY SnapshotAssumption, BoundAssumption
<1>2. IsWellFoundedOn(less, Nat)
  BY NatLessThanWellFounded
<1>3. \A m, n \in Nat : m < n => <<m, n>> \in less
  BY DEF OpToRel
<1>4. PICK x \in left : \A y \in left : ~ (<<y, x>> \in less)
  <2> HIDE DEF left, less
  <2>1. QED
    BY <1>1, <1>2, WFMin
<1>5. PICK s \in found : x = MaxTime - s[2]
  OBVIOUS
<1>6. ASSUME NEW q \in found
      PROVE  q[2] <= s[2]
  <2>1. ~ (MaxTime - q[2] < MaxTime - s[2])
    <3> HIDE DEF less
    <3>1. QED
      BY <1>1, <1>3, <1>4, <1>5
  <2>2. q[2] \in Time /\ s[2] \in Time
    BY SnapshotAssumption
  <2>3. QED
    BY <2>1, <2>2, BoundAssumption
<1>7. QED
  BY <1>6

\* The ids have one number of digits, so as texts they are in the order of their times.
LEMMA TextOfIds ==
  ASSUME NEW s \in Snapshot, NEW q \in Snapshot
  PROVE  TextUpTo(q[2], s[2]) <=> q[2] <= s[2]
<1>1. PICK n \in 1 .. MaxTime + 1 : Digits[s[2]] = n /\ Digits[q[2]] = n
  BY IdAssumption
<1>2. q[2] # 0 /\ n \in Int
  BY SnapshotAssumption, BoundAssumption
<1>3. QED
  BY <1>1, <1>2 DEF TextUpTo

\* A range that can be compared with the id of s holds it if it holds its time.
LEMMA TextOfRange ==
  ASSUME NEW s \in Snapshot, NEW items \in RestoreItems, Comparable(items, s)
  PROVE  InRange(s, items.from, items.to) <=> s[2] \in items.from .. items.to
<1>1. PICK n \in 1 .. MaxTime + 1 : Digits[s[2]] = n
  BY IdAssumption
<1>2. /\ items.from \in Nat /\ items.to \in Nat /\ n \in Int
      /\ s[2] \in Nat \ {0}
  BY Items, SnapshotAssumption, BoundAssumption
<1>3. TextUpTo(items.from, s[2]) <=> items.from <= s[2]
  BY <1>1, <1>2 DEF TextUpTo, Comparable
<1>4. TextUpTo(s[2], items.to) <=> s[2] <= items.to
  BY <1>1, <1>2 DEF TextUpTo, Comparable
<1>5. QED
  BY <1>2, <1>3, <1>4 DEF InRange

\* What findLatestSnapshotID returns is in the archive and belongs to the workitem.
LEMMA LatestIsArchived ==
  ASSUME NEW u, NEW items, LatestOf(u, items) \in Snapshot
  PROVE  archived[LatestOf(u, items)] # 0 /\ LatestOf(u, items)[1] = u
<1> DEFINE found == { s \in Snapshot :
                        s[1] = u /\ archived[s] # 0 /\ InRange(s, items.from, items.to) }
<1>1. found # {}
  BY SnapshotAssumption DEF LatestOf
<1>2. LatestOf(u, items) = CHOOSE s \in found : \A q \in found : TextUpTo(q[2], s[2])
  BY <1>1 DEF LatestOf
<1>3. \E s \in found : \A q \in found : TextUpTo(q[2], s[2])
  BY <1>1, LatestExists, TextOfIds
<1>4. LatestOf(u, items) \in found
  BY <1>2, <1>3
<1>5. QED
  BY <1>4

-----------------------------------------------------------------------------
(* Types and labels of the scheduler *)

LEMMA StartTyping ==
  ASSUME RestoreInv, NEW range \in Range, NEW filter \in Filter,
         StartRestore(range[1], range[2], filter)
  PROVE  TypeOK' /\ Locals' /\ RestoreTypes' /\ RestoreLocals'
<1> DEFINE items == [from |-> range[1], to |-> range[2], point |-> range[1],
                     filter |-> filter]
<1>1. TypeOK /\ RestoreTypes /\ Locals
  BY SplitTypes DEF RestoreInv
<1>2. range[1] \in 0 .. MaxTime /\ range[2] \in 0 .. MaxTime
  BY Items
<1>3. items \in RestoreItems
  BY <1>2, Items, BoundAssumption
<1>4. metadata' = [sync |-> row.sync, base |-> row.base, restore |-> items]
  BY <1>1 DEF StartRestore, TypeOK
<1>5. metadata' \in Row
  BY <1>1, <1>3, <1>4 DEF TypeOK
<1>6. restores' \in 0 .. MaxRestores
  BY <1>1, Restores DEF StartRestore, RestoreTypes
<1>7. due' \in [Workitem -> Snapshot \union {None}]
  BY DEF StartRestore, Nothing
<1>8. TypeOK' /\ Locals'
  BY <1>1 DEF StartRestore, vars, TypeOK, Locals
<1>9. RestoreTypes' /\ RestoreLocals'
  BY <1>1, <1>5, <1>6, <1>7 DEF StartRestore, RestoreTypes, RestoreLocals
<1>10. QED
  BY <1>8, <1>9

LEMMA SaveTyping ==
  ASSUME RestoreInv, SaveStart \/ SaveStartFails
  PROVE  TypeOK' /\ Locals' /\ RestoreTypes' /\ RestoreLocals'
<1>1. TypeOK /\ RestoreTypes /\ Locals
  BY SplitTypes DEF RestoreInv
<1>2. CASE SaveStart
  <2>1. ASSUME NEW u \in Workitem
        PROVE  Promised(u, metadata.restore) \in Snapshot \union {None}
    BY DEF Promised
  <2>2. due' \in [Workitem -> Snapshot \union {None}]
    BY <1>2, <2>1 DEF SaveStart
  <2>3. row' \in Row /\ written' \in RestoreItems
    BY <1>1, <1>2 DEF SaveStart, RestoreTypes
  <2>4. TypeOK' /\ Locals'
    BY <1>1, <1>2, <2>3 DEF SaveStart, TypeOK, Locals
  <2>5. RestoreTypes' /\ RestoreLocals'
    BY <1>1, <1>2, <2>2, <2>3, EmptyRowTyped DEF SaveStart, RestoreTypes, RestoreLocals
  <2>6. QED
    BY <2>4, <2>5
<1>3. CASE SaveStartFails
  <2>1. TypeOK' /\ Locals'
    BY <1>1, <1>3, BoundAssumption DEF SaveStartFails, Trouble, TypeOK, Locals
  <2>2. RestoreTypes' /\ RestoreLocals'
    BY <1>1, <1>3, EmptyRowTyped DEF SaveStartFails, RestoreTypes, RestoreLocals
  <2>3. QED
    BY <2>1, <2>2
<1>4. QED
  BY <1>2, <1>3

LEMMA CancelTyping ==
  ASSUME RestoreInv, CancelRestore \/ RestoreTimeout \/ EndRestore
  PROVE  TypeOK' /\ Locals' /\ RestoreTypes' /\ RestoreLocals'
<1>1. TypeOK /\ RestoreTypes /\ Locals
  BY SplitTypes DEF RestoreInv
<1>2. TypeOK' /\ Locals'
  BY <1>1 DEF CancelRestore, RestoreTimeout, EndRestore, vars, TypeOK, Locals
<1>3. CASE CancelRestore
  BY <1>1, <1>2, <1>3 DEF CancelRestore, Nothing, RestoreTypes, RestoreLocals
<1>4. CASE RestoreTimeout
  BY <1>1, <1>2, <1>4 DEF RestoreTimeout, TypeOK, RestoreTypes, RestoreLocals
<1>5. CASE EndRestore
  BY <1>1, <1>2, <1>5, EmptyRowTyped DEF EndRestore, RestoreTypes, RestoreLocals
<1>6. QED
  BY <1>3, <1>4, <1>5

LEMMA DayTyping ==
  ASSUME RestoreInv, LoadDay \/ VerifySnapshot \/ VerifySnapshotFails
  PROVE  TypeOK' /\ Locals' /\ RestoreTypes' /\ RestoreLocals'
<1>1. TypeOK /\ RestoreTypes /\ Locals /\ RestoreLocals
  BY SplitTypes DEF RestoreInv
<1>2. metadata.restore.filter \subseteq Snapshot
  BY <1>1, Items DEF RestoreTypes
<1>3. TypeOK' /\ Locals'
  BY <1>1, BoundAssumption
     DEF LoadDay, VerifySnapshot, VerifySnapshotFails, Trouble, vars, TypeOK, Locals
<1>4. CASE LoadDay
  BY <1>1, <1>3, <1>4 DEF LoadDay, Listed, RestoreTypes, RestoreLocals
<1>5. CASE VerifySnapshot \/ VerifySnapshotFails
  <2>1. PICK s \in snapshotIDs :
          /\ snapshotIDs' = snapshotIDs \ {s}
          /\ \/ UNCHANGED <<label, latest>>
             \/ /\ LatestOf(s[1], metadata.restore) \in metadata.restore.filter
                /\ label' = "post"
                /\ latest' = LatestOf(s[1], metadata.restore)
    BY <1>5 DEF VerifySnapshot, VerifySnapshotFails
  <2>2. /\ label = "verify"
        /\ UNCHANGED <<archived, origin, timerSet, metadata, written, due, undone, restores>>
    BY <1>5 DEF VerifySnapshot, VerifySnapshotFails, vars
  <2>3. CASE UNCHANGED <<label, latest>>
    BY <1>1, <1>3, <2>1, <2>2, <2>3 DEF RestoreTypes, RestoreLocals
  <2>4. CASE /\ LatestOf(s[1], metadata.restore) \in metadata.restore.filter
             /\ label' = "post"
             /\ latest' = LatestOf(s[1], metadata.restore)
    <3>1. latest' \in Snapshot /\ latest' # None
      BY <1>2, <2>4, SnapshotAssumption
    <3>2. archived[latest'] # 0
      BY <2>4, <3>1, LatestIsArchived
    <3>3. QED
      BY <1>1, <1>3, <2>1, <2>2, <2>4, <3>1, <3>2 DEF RestoreTypes, RestoreLocals
  <2>5. QED
    BY <2>1, <2>3, <2>4
<1>6. QED
  BY <1>4, <1>5

LEMMA PostTyping ==
  ASSUME RestoreInv, PostSnapshot \/ PostSnapshotFails
  PROVE  TypeOK' /\ Locals' /\ RestoreTypes' /\ RestoreLocals'
<1>1. TypeOK /\ RestoreTypes /\ Locals /\ RestoreLocals
  BY SplitTypes DEF RestoreInv
<1>2. latest \in Snapshot /\ latest[1] \in Workitem
  BY <1>1 DEF PostSnapshot, PostSnapshotFails, RestoreTypes, Workitem
<1>3. CASE PostSnapshot
  <2>1. modified' \in [Snapshot -> Time]
    BY <1>1, <1>3 DEF PostSnapshot, TypeOK
  <2>2. TypeOK' /\ Locals'
    BY <1>1, <1>3, <2>1 DEF PostSnapshot, TypeOK, Locals
  <2>3. origin' \in [Workitem -> Snapshot \union {None}]
    BY <1>1, <1>2, <1>3 DEF PostSnapshot, RestoreTypes
  <2>4. RestoreTypes' /\ RestoreLocals'
    BY <1>1, <1>3, <2>3 DEF PostSnapshot, RestoreTypes, RestoreLocals
  <2>5. QED
    BY <2>2, <2>4
<1>4. CASE PostSnapshotFails
  <2>1. TypeOK' /\ Locals'
    BY <1>1, <1>4, BoundAssumption DEF PostSnapshotFails, Trouble, TypeOK, Locals
  <2>2. due' \in [Workitem -> Snapshot \union {None}]
    BY <1>1, <1>4 DEF PostSnapshotFails, RestoreTypes
  <2>3. RestoreTypes' /\ RestoreLocals'
    BY <1>1, <1>4, <2>2 DEF PostSnapshotFails, RestoreTypes, RestoreLocals
  <2>4. QED
    BY <2>1, <2>3
<1>5. QED
  BY <1>3, <1>4

LEMMA NextDayTyping ==
  ASSUME RestoreInv, NextDay \/ RestoreFails
  PROVE  TypeOK' /\ Locals' /\ RestoreTypes' /\ RestoreLocals'
<1>1. TypeOK /\ RestoreTypes /\ Locals /\ RestoreLocals
  BY SplitTypes DEF RestoreInv
<1>2. CASE NextDay
  <2> DEFINE old == metadata.restore
             new == [from |-> old.from, to |-> old.to, point |-> old.point + DayLength,
                     filter |-> old.filter]
  <2>1. old \in RestoreItems
    BY <1>1 DEF RestoreTypes
  <2>2. old.point < old.to
    BY <1>1, <1>2 DEF NextDay, RestoreLocals
  <2>3. new \in RestoreItems
    BY <2>1, <2>2, Items, BoundAssumption
  <2>4. metadata' = [sync |-> metadata.sync, base |-> metadata.base, restore |-> new]
    BY <1>1, <1>2, <2>1, Items DEF NextDay, NextRow, NextPoint, RestoreTypes
  <2>5. metadata' \in Row /\ metadata'.restore = new
    BY <1>1, <2>3, <2>4 DEF RestoreTypes
  <2>6. TypeOK' /\ Locals'
    BY <1>1, <1>2, <2>5 DEF NextDay, TypeOK, Locals
  <2>7. RestoreTypes' /\ RestoreLocals'
    BY <1>1, <1>2, <2>3, <2>5 DEF NextDay, RestoreTypes, RestoreLocals
  <2>8. QED
    BY <2>6, <2>7
<1>3. CASE RestoreFails
  <2>1. TypeOK' /\ Locals'
    BY <1>1, <1>3, BoundAssumption DEF RestoreFails, Trouble, TypeOK, Locals
  <2>2. latest = None
    BY <1>1, <1>3 DEF RestoreFails, RestoreTypes
  <2>3. RestoreTypes' /\ RestoreLocals'
    BY <1>1, <1>3, <2>2, EmptyRowTyped DEF RestoreFails, Nothing, RestoreTypes, RestoreLocals
  <2>4. QED
    BY <2>1, <2>3
<1>4. QED
  BY <1>2, <1>3

\* The archive only gains snapshots.
LEMMA ArchiveGrows ==
  ASSUME TypeOK, Locals,
         Environment \/ Controller \/ (\E r \in Run : OnTimeout(r) \/ Step(r)) \/ Restart,
         NEW s \in Snapshot, archived[s] # 0
  PROVE  archived'[s] # 0
<1>1. CASE Environment
  BY <1>1 DEF Environment, Tick, SaveDocument, Pull, TypeOK
<1>2. CASE Controller
  BY <1>2 DEF Controller, InitController, LeavePage, UpdateSyncPoint, RestartSync, Cancel
<1>3. ASSUME NEW r \in Run, OnTimeout(r) \/ Step(r)
      PROVE  archived'[s] # 0
  <2>1. CASE NextDocument(r) \/ SaveSnapshot(r) \/ SaveSnapshotFails(r)
    BY <2>1, DocumentFrame
  <2>2. CASE ~ (NextDocument(r) \/ SaveSnapshot(r) \/ SaveSnapshotFails(r))
    BY <1>3, <2>2
       DEF OnTimeout, Step, ReadSyncData, NoMoreData, ReadSyncDataFails, SaveMetadata,
           CheckStatus, Abort
  <2>3. QED
    BY <2>1, <2>2
<1>4. CASE Restart
  BY <1>4 DEF Restart
<1>5. QED
  BY <1>1, <1>2, <1>3, <1>4

LEMMA OtherTyping ==
  ASSUME RestoreInv,
         (\E s \in Snapshot : SaveWorkitem(s)) \/ (\E u \in Workitem : LoseWorkitem(u))
           \/ Other \/ RestartAll
  PROVE  TypeOK' /\ Locals' /\ RestoreTypes' /\ RestoreLocals'
<1>1. TypeOK /\ RestoreTypes /\ Locals /\ RestoreLocals
  BY SplitTypes DEF RestoreInv
<1>2. ASSUME NEW s \in Snapshot, SaveWorkitem(s)
      PROVE  TypeOK' /\ Locals' /\ RestoreTypes' /\ RestoreLocals'
  <2>1. TypeOK' /\ Locals'
    BY <1>1, <1>2, EnvironmentTyping DEF SaveWorkitem, Environment
  <2>2. /\ origin' \in [Workitem -> Snapshot \union {None}]
        /\ due' \in [Workitem -> Snapshot \union {None}]
        /\ UNCHANGED <<archived, restoring>>
    BY <1>1, <1>2 DEF SaveWorkitem, SaveDocument, RestoreTypes, Workitem
  <2>3. QED
    BY <1>1, <2>1, <2>2 DEF RestoreTypes, RestoreLocals
<1>3. ASSUME NEW u \in Workitem, LoseWorkitem(u)
      PROVE  TypeOK' /\ Locals' /\ RestoreTypes' /\ RestoreLocals'
  <2>1. modified' \in [Snapshot -> Time] /\ trouble' \in 0 .. MaxTrouble
    BY <1>1, <1>3, BoundAssumption DEF LoseWorkitem, Trouble, TypeOK
  <2>2. TypeOK' /\ Locals'
    BY <1>1, <1>3, <2>1 DEF LoseWorkitem, TypeOK, Locals
  <2>3. /\ origin' \in [Workitem -> Snapshot \union {None}]
        /\ due' \in [Workitem -> Snapshot \union {None}]
        /\ UNCHANGED <<archived, restoring>>
    BY <1>1, <1>3 DEF LoseWorkitem, RestoreTypes
  <2>4. QED
    BY <1>1, <2>2, <2>3 DEF RestoreTypes, RestoreLocals
<1>4. CASE Other
  <2>1. Environment \/ Controller \/ \E r \in Run : OnTimeout(r) \/ Step(r)
    BY <1>4 DEF Other, Environment
  <2>2. TypeOK' /\ Locals'
    BY <1>1, <2>1, EnvironmentTyping, ControllerTyping, ReadTyping, GroupTyping DEF Step
  <2>3. /\ due' \in [Workitem -> Snapshot \union {None}]
        /\ UNCHANGED <<origin, restoring>>
    BY <1>1, <1>4 DEF Other, RestoreTypes
  <2>4. latest # None => (archived[latest] # 0 => archived'[latest] # 0)
    BY <1>1, <2>1, ArchiveGrows DEF RestoreTypes
  <2>5. QED
    BY <1>1, <2>2, <2>3, <2>4 DEF RestoreTypes, RestoreLocals
<1>5. CASE RestartAll
  <2>1. TypeOK' /\ Locals'
    BY <1>1, <1>5, RestartTyping DEF RestartAll
  <2>2. QED
    BY <1>1, <1>5, <2>1, EmptyRowTyped DEF RestartAll, RestoreTypes, RestoreLocals
<1>6. QED
  BY <1>2, <1>3, <1>4, <1>5

-----------------------------------------------------------------------------
(* The claims of the row, of the runs and of the copy *)

AllClaims == Claims /\ CopyKept /\ CopyRead

\* The copy stays true when no $modified changes and nothing that was kept is lost.
LEMMA CopyStays ==
  ASSUME CopyKept, CopyRead, newest \in Time, newest' \in Time, newest <= newest',
         metadata \in Row, UNCHANGED <<modified, metadata>>,
         \A s \in Snapshot : Kept(s) => Kept(s)'
  PROVE  CopyKept' /\ CopyRead'
<1>1. CopyKept'
  BY DEF CopyKept
<1>2. CopyRead'
  BY BoundAssumption DEF CopyRead
<1>3. QED
  BY <1>1, <1>2

\* An empty copy claims nothing.
LEMMA EmptyCopy ==
  ASSUME metadata' = EmptyRow, modified' \in [Snapshot -> Time], newest' \in Time
  PROVE  CopyKept' /\ CopyRead'
  BY BoundAssumption DEF CopyKept, CopyRead

\* A step of the scheduler that touches neither the row nor the server.
LEMMA QuietClaims ==
  ASSUME RestoreInv, UNCHANGED <<modified, archived, row, locals, history>>
  PROVE  Claims' /\ (UNCHANGED metadata => CopyKept' /\ CopyRead')
  BY DEF RestoreInv, Claims, RowKept, RunKept, ClaimsRead, CopyKept, CopyRead, Kept, InGroup

\* The scheduler takes a copy of the row, keeps it, or forgets it.
LEMMA SchedulerClaims ==
  ASSUME RestoreInv,
         \/ \E range \in Range, filter \in Filter : StartRestore(range[1], range[2], filter)
         \/ SaveStartFails \/ CancelRestore \/ RestoreTimeout \/ LoadDay
         \/ VerifySnapshot \/ VerifySnapshotFails \/ PostSnapshotFails \/ EndRestore
         \/ RestoreFails
  PROVE  AllClaims'
<1>1. UNCHANGED <<modified, archived, row, locals, history>>
  BY DEF StartRestore, SaveStartFails, CancelRestore, RestoreTimeout, LoadDay,
         VerifySnapshot, VerifySnapshotFails, PostSnapshotFails, EndRestore, RestoreFails, vars
<1>2. \/ UNCHANGED metadata
      \/ metadata' = EmptyRow
      \/ metadata'.sync = row.sync /\ metadata'.base = row.base
  <2>1. ASSUME NEW range \in Range, NEW filter \in Filter,
               StartRestore(range[1], range[2], filter)
        PROVE  metadata'.sync = row.sync /\ metadata'.base = row.base
    <3>1. row \in Row
      BY DEF RestoreInv, RestoreTypeOK, TypeOK
    <3>2. QED
      BY <2>1, <3>1 DEF StartRestore
  <2>2. QED
    BY <2>1 DEF SaveStartFails, CancelRestore, RestoreTimeout, LoadDay, VerifySnapshot,
                VerifySnapshotFails, PostSnapshotFails, EndRestore, RestoreFails
<1>3. CASE UNCHANGED metadata
  BY <1>1, <1>3, QuietClaims DEF AllClaims
<1>4. CASE metadata' = EmptyRow
  <2>1. modified' \in [Snapshot -> Time] /\ newest' \in Time
    BY <1>1 DEF RestoreInv, RestoreTypeOK, TypeOK
  <2>2. QED
    BY <1>1, <1>4, <2>1, QuietClaims, EmptyCopy DEF AllClaims
<1>5. CASE metadata'.sync = row.sync /\ metadata'.base = row.base
  <2>1. \A s \in Snapshot : Kept(s) => Kept(s)'
    BY <1>1 DEF Kept, InGroup
  <2>2. CopyKept' /\ CopyRead'
    BY <1>1, <1>5, <2>1
       DEF RestoreInv, Claims, RowKept, ClaimsRead, CopyKept, CopyRead
  <2>3. QED
    BY <1>1, <2>2, QuietClaims DEF AllClaims
<1>6. QED
  BY <1>2, <1>3, <1>4, <1>5

\* The scheduler writes its copy, which may be older than the row.
LEMMA WriteClaims ==
  ASSUME RestoreInv, SaveStart \/ NextDay
  PROVE  AllClaims'
<1>1. /\ UNCHANGED <<modified, archived, locals, history>>
      /\ row'.sync = metadata.sync /\ row'.base = metadata.base
  <2>1. metadata \in Row
    BY DEF RestoreInv, RestoreTypeOK
  <2>2. QED
    BY <2>1 DEF SaveStart, NextDay, NextRow
<1>2. \A s \in Snapshot : Kept(s) => Kept(s)'
  BY <1>1 DEF Kept, InGroup
<1>3. RowKept'
  BY <1>1, <1>2 DEF RestoreInv, CopyKept, RowKept
<1>4. RunKept'
  BY <1>1, <1>2 DEF RestoreInv, Claims, RunKept, InGroup
<1>5. ClaimsRead'
  BY <1>1 DEF RestoreInv, Claims, CopyRead, ClaimsRead
<1>6. CopyKept' /\ CopyRead'
  <2>1. CASE SaveStart
    <3>1. modified' \in [Snapshot -> Time] /\ newest' \in Time
      BY <1>1 DEF RestoreInv, RestoreTypeOK, TypeOK
    <3>2. QED
      BY <2>1, <3>1, EmptyCopy DEF SaveStart
  <2>2. CASE NextDay
    <3>1. metadata' = row'
      BY <2>2 DEF NextDay
    <3>2. QED
      BY <1>3, <1>5, <3>1 DEF RowKept, ClaimsRead, CopyKept, CopyRead
  <2>3. QED
    BY <2>1, <2>2
<1>7. QED
  BY <1>3, <1>4, <1>5, <1>6 DEF AllClaims, Claims

\* The posted snapshot gets a new $modified, which a syncpoint may have passed; the
\* archive has it.  The other snapshots stay as they are, as with a loss.
LEMMA ServerClaims ==
  ASSUME RestoreInv,
         UNCHANGED <<archived, row, locals, history, metadata>>,
         modified' \in [Snapshot -> Time],
         \A s \in Snapshot :
            modified'[s] = modified[s] \/ modified'[s] = 0 \/ archived[s] # 0
  PROVE  AllClaims'
<1>1. ASSUME NEW s \in Snapshot, modified'[s] > 0
      PROVE  \/ archived'[s] # 0
             \/ /\ modified'[s] = modified[s]
                /\ Kept(s) => Kept(s)'
                /\ \A r \in Run : InGroup(r, s) => InGroup(r, s)'
  BY <1>1 DEF Kept, InGroup
<1>2. ASSUME NEW s \in Snapshot, archived'[s] # 0
      PROVE  Kept(s)'
  BY <1>2 DEF Kept
<1>3. /\ row.base \in Nat /\ metadata.base \in Nat
      /\ \A r \in Run : metaData[r].base \in Nat
      /\ \A s \in Snapshot : modified'[s] \in Nat
  BY BoundAssumption DEF RestoreInv, RestoreTypeOK, TypeOK
<1>4. RowKept'
  BY <1>1, <1>2, <1>3 DEF RestoreInv, Claims, RowKept
<1>5. RunKept'
  BY <1>1, <1>2, <1>3 DEF RestoreInv, Claims, RunKept
<1>6. CopyKept'
  BY <1>1, <1>2, <1>3 DEF RestoreInv, CopyKept
<1>7. ClaimsRead' /\ CopyRead'
  BY DEF RestoreInv, Claims, ClaimsRead, CopyRead
<1>8. QED
  BY <1>4, <1>5, <1>6, <1>7 DEF AllClaims, Claims

\* A snapshot that appears within the claim of the copy is late.
LEMMA SaveDocumentCopy ==
  ASSUME RestoreInv, NEW s \in Snapshot, SaveDocument(s), UNCHANGED metadata
  PROVE  CopyKept' /\ CopyRead'
<1>1. TypeOK /\ CopyKept /\ CopyRead
  BY DEF RestoreInv, RestoreTypeOK
<1>2. /\ modified' = [modified EXCEPT ![s] = s[2]]
      /\ s[2] \in Time
      /\ missed' = IF s[2] <= newest THEN missed \union {s} ELSE missed
      /\ UNCHANGED <<archived, metaData, syncPoint, group, current, newest>>
  BY SnapshotAssumption DEF SaveDocument
<1>3. ASSUME NEW q \in Snapshot, q # s
      PROVE  modified'[q] = modified[q] /\ (Kept(q) => Kept(q)')
  BY <1>1, <1>2, <1>3 DEF TypeOK, Kept, InGroup
<1>4. /\ modified'[s] = s[2]
      /\ s[2] <= newest => Kept(s)'
  BY <1>1, <1>2 DEF TypeOK, Kept
<1>5. CopyRead'
  BY <1>1, <1>2 DEF CopyRead
<1>6. metadata.sync \in Time /\ metadata.base \in Time /\ newest \in Time
  BY DEF RestoreInv, RestoreTypeOK, TypeOK
<1>7. CopyKept'
  <2> SUFFICES ASSUME NEW q \in Snapshot,
                      metadata.base < modified'[q], modified'[q] <= metadata.sync
               PROVE  Kept(q)'
    BY DEF CopyKept
  <2>1. CASE q = s
    BY <1>1, <1>2, <1>4, <1>6, <2>1, BoundAssumption DEF CopyRead
  <2>2. CASE q # s
    BY <1>1, <1>3, <2>2 DEF CopyKept
  <2>3. QED
    BY <2>1, <2>2
<1>8. QED
  BY <1>5, <1>7

\* No step of a run, of the controller or of SyncService takes back that s is safe.
LEMMA RunKeeps ==
  ASSUME TypeOK, Locals, NEW r \in Run, OnTimeout(r) \/ Step(r),
         NEW s \in Snapshot, Kept(s)
  PROVE  Kept(s)'
<1>1. CASE OnTimeout(r) \/ ReadSyncData(r)
  BY <1>1, ReadKept
<1>2. CASE NextDocument(r) \/ SaveSnapshot(r) \/ SaveSnapshotFails(r)
  BY <1>2, DocumentKept
<1>3. CASE SaveMetadata(r)
  BY <1>3, SaveMetadataKept
<1>4. CASE NoMoreData(r) \/ ReadSyncDataFails(r)
  <2>1. Cut(r) = {}
    BY <1>4 DEF NoMoreData, ReadSyncDataFails, Cut, TypeOK, Locals
  <2>2. QED
    BY <1>4, <2>1, EndKept DEF NoMoreData, ReadSyncDataFails
<1>5. CASE CheckStatus(r)
  <2>1. Cut(r) = {}
    BY <1>5 DEF CheckStatus, Cut, TypeOK, Locals
  <2>2. CASE status = "canceled"
    BY <1>5, <2>1, <2>2, EndKept DEF CheckStatus
  <2>3. CASE status # "canceled"
    BY <1>5, <2>3 DEF CheckStatus, Kept, InGroup
  <2>4. QED
    BY <2>2, <2>3
<1>6. CASE Abort(r)
  BY <1>6, EndKept DEF Abort
<1>7. QED
  BY <1>1, <1>2, <1>3, <1>4, <1>5, <1>6 DEF Step

\* newest only grows, and $modified changes only on the server.
LEMMA RunFrame ==
  ASSUME TypeOK, Locals, NEW r \in Run, OnTimeout(r) \/ Step(r)
  PROVE  UNCHANGED modified /\ newest' \in Time /\ newest <= newest'
<1>1. CASE ReadSyncData(r)
  BY <1>1 DEF ReadSyncData, SyncGroup, Later, TypeOK
<1>2. CASE ~ ReadSyncData(r)
  BY <1>2 DEF OnTimeout, Step, NoMoreData, ReadSyncDataFails, NextDocument, SaveSnapshot,
              SaveSnapshotFails, SaveMetadata, CheckStatus, Abort, TypeOK
<1>3. QED
  BY <1>1, <1>2

LEMMA OtherClaims ==
  ASSUME RestoreInv, Other \/ RestartAll
  PROVE  AllClaims'
<1>1. /\ ResyncInv /\ TypeOK /\ Locals /\ Claims /\ CopyKept /\ CopyRead
      /\ newest \in Time /\ metadata \in Row
  BY DEF RestoreInv, RestoreTypeOK, TypeOK, ResyncInv, Claims
<1>2. CASE Other /\ (Tick \/ (\E s \in Snapshot : Pull(s)) \/ Controller)
  <2>1. Claims'
    BY <1>1, <1>2, EnvironmentClaims, ControllerClaims DEF Environment
  <2>2. /\ UNCHANGED <<modified, metadata, newest, metaData, syncPoint, group, current, missed>>
        /\ \A s \in Snapshot : archived[s] # 0 => archived'[s] # 0
    BY <1>1, <1>2
       DEF Other, Tick, Pull, Controller, InitController, LeavePage, UpdateSyncPoint,
           RestartSync, Cancel, TypeOK
  <2>3. \A s \in Snapshot : Kept(s) => Kept(s)'
    BY <2>2 DEF Kept, InGroup
  <2>4. QED
    BY <1>1, <2>1, <2>2, <2>3, CopyStays, BoundAssumption DEF AllClaims
<1>3. ASSUME Other, NEW r \in Run, OnTimeout(r) \/ Step(r)
      PROVE  AllClaims'
  <2>1. Claims'
    BY <1>1, <1>3, RunResyncInv DEF ResyncInv, Claims
  <2>2. UNCHANGED metadata
    BY <1>3 DEF Other
  <2>3. QED
    BY <1>1, <1>3, <2>1, <2>2, RunKeeps, RunFrame, CopyStays DEF AllClaims
<1>4. CASE RestartAll
  <2>1. Claims'
    BY <1>1, <1>4, RestartClaims DEF RestartAll
  <2>2. modified' \in [Snapshot -> Time] /\ newest' \in Time
    BY <1>1, <1>4 DEF RestartAll, Restart, TypeOK
  <2>3. QED
    BY <1>4, <2>1, <2>2, EmptyCopy DEF RestartAll, AllClaims
<1>5. QED
  BY <1>2, <1>3, <1>4 DEF Other

-----------------------------------------------------------------------------
LEMMA NextRestoreInv == RestoreInv /\ [RestoreNext]_allVars => RestoreInv'
<1> SUFFICES ASSUME RestoreInv, [RestoreNext]_allVars
             PROVE  RestoreInv'
  OBVIOUS
<1>1. SUFFICES /\ TypeOK' /\ Locals' /\ RestoreTypes' /\ RestoreLocals'
               /\ AllClaims'
  BY SplitTypes DEF RestoreInv, RestoreTypeOK, RestoreTypes, AllClaims
<1>2. ASSUME NEW range \in Range, NEW filter \in Filter,
             StartRestore(range[1], range[2], filter)
      PROVE  TypeOK' /\ Locals' /\ RestoreTypes' /\ RestoreLocals' /\ AllClaims'
  BY <1>2, StartTyping, SchedulerClaims
<1>3. CASE SaveStart \/ NextDay
  BY <1>3, SaveTyping, NextDayTyping, WriteClaims
<1>4. CASE PostSnapshot
  <2>1. TypeOK' /\ Locals' /\ RestoreTypes' /\ RestoreLocals'
    BY <1>4, PostTyping
  <2>2. archived[latest] # 0 /\ modified \in [Snapshot -> Time]
    BY <1>4 DEF PostSnapshot, RestoreInv, RestoreLocals, RestoreTypeOK, TypeOK
  <2>3. AllClaims'
    BY <1>4, <2>1, <2>2, ServerClaims DEF PostSnapshot, TypeOK
  <2>4. QED
    BY <2>1, <2>3
<1>5. CASE SaveStartFails \/ CancelRestore \/ RestoreTimeout \/ LoadDay \/ VerifySnapshot
             \/ VerifySnapshotFails \/ PostSnapshotFails \/ EndRestore \/ RestoreFails
  BY <1>5, SaveTyping, CancelTyping, DayTyping, PostTyping, NextDayTyping, SchedulerClaims
<1>6. ASSUME NEW s \in Snapshot, SaveWorkitem(s)
      PROVE  TypeOK' /\ Locals' /\ RestoreTypes' /\ RestoreLocals' /\ AllClaims'
  <2>1. SaveDocument(s) /\ UNCHANGED metadata
    BY <1>6 DEF SaveWorkitem
  <2>2. Claims'
    BY <2>1, EnvironmentClaims DEF RestoreInv, RestoreTypeOK, Environment
  <2>3. QED
    BY <1>6, <2>1, <2>2, OtherTyping, SaveDocumentCopy DEF AllClaims
<1>7. ASSUME NEW u \in Workitem, LoseWorkitem(u)
      PROVE  TypeOK' /\ Locals' /\ RestoreTypes' /\ RestoreLocals' /\ AllClaims'
  <2>1. TypeOK' /\ Locals' /\ RestoreTypes' /\ RestoreLocals'
    BY <1>7, OtherTyping
  <2>2. AllClaims'
    BY <1>7, <2>1, ServerClaims DEF LoseWorkitem, TypeOK
  <2>3. QED
    BY <2>1, <2>2
<1>8. CASE Other \/ RestartAll
  BY <1>8, OtherTyping, OtherClaims
<1>9. CASE UNCHANGED allVars
  <2>1. TypeOK' /\ Locals' /\ RestoreTypes' /\ RestoreLocals'
    BY <1>9, SplitTypes DEF allVars, vars, RestoreInv, TypeOK, Locals, RestoreTypes, RestoreLocals
  <2>2. AllClaims'
    BY <1>9, QuietClaims DEF allVars, vars, AllClaims
  <2>3. QED
    BY <2>1, <2>2
<1>10. QED
  BY <1>2, <1>3, <1>4, <1>5, <1>6, <1>7, <1>8, <1>9 DEF RestoreNext, Scheduler

\* The type invariant: the scheduler posts a snapshot only at one place and has a list
\* only while it verifies a day (RestoreScheduler.onTimeout).
THEOREM RestoreTyping == RestoreSpec => []RestoreTypeOK
<1>1. RestoreInv => RestoreTypeOK
  BY DEF RestoreInv
<1>2. QED
  BY InitRestoreInv, NextRestoreInv, <1>1, PTL DEF RestoreSpec

\* The syncpoint stays sound while restores overlap with resyncs: the row that the
\* scheduler writes back may be older than the one it replaces, and the snapshots it
\* posts get a $modified behind or before the syncpoint, but what the row claims is
\* archived, waits in the group of a run, or was left out for a reason
\* (RestoreScheduler.onTimeout, SnapshotRestService.postSnapshot).
THEOREM RestoreKeepsSyncPoint == RestoreSpec => []SyncPointSound
<1>1. RestoreInv => SyncPointSound
  BY DEF RestoreInv, Claims, RowKept, Kept, InGroup, SyncPointSound, Pending
<1>2. QED
  BY InitRestoreInv, NextRestoreInv, <1>1, PTL DEF RestoreSpec

-----------------------------------------------------------------------------
(* What a restore brings back *)

\* s is the latest snapshot of u that the archive has in the range.
IsLatest(u, s, items) ==
    /\ s \in Snapshot /\ s[1] = u /\ archived[s] # 0 /\ InRange(s, items.from, items.to)
    /\ \A q \in Snapshot :
        q[1] = u /\ archived[q] # 0 /\ InRange(q, items.from, items.to) => q[2] <= s[2]

\* The day with number n of the restore is not done, or the snapshot m that is listed
\* there is still to be looked at, or the one looked for is about to be posted.
ToVisit(m, n, s) ==
    /\ Day(archived[m]) = LocalDay(written.from) + n
    /\ written.from + n * DayLength < written.to
    /\ written.point <= written.from + n * DayLength
    /\ label \in {"verify", "post"} /\ written.point = written.from + n * DayLength =>
         m \in snapshotIDs \/ latest = s

Ahead(u, s) ==
    /\ IsLatest(u, s, written) /\ s \in written.filter
    /\ \/ origin[u] = s
       \/ \E m \in Snapshot, n \in Time : m[1] = u /\ archived[m] # 0 /\ ToVisit(m, n, s)

\* While nobody has written back other restore items, the copy of the scheduler is what
\* it wrote last, and it is at the beginning of a day of the restore.
DueInv ==
    timerSet /\ ~undone =>
        /\ label \in {"day", "verify", "post"} => metadata.restore = written
        /\ \E k \in Nat : written.point = written.from + k * DayLength
        /\ label = "post" => due[latest[1]] \in {None, latest}
        /\ \A u \in Workitem, s \in Snapshot : due[u] = s => Ahead(u, s)

\* A timeout is only in progress while the timer exists, and start has canceled it.
TimerInv ==
    /\ label \in {"day", "verify", "post"} => timerSet
    /\ label = "start" => ~timerSet /\ metadata.restore.point = metadata.restore.from

\* n days after a point of time: the day of the calendar moves on by n as well, and
\* there is no point of the restore between two of them.
LEMMA Days ==
  /\ DayLength \in Nat \ {0}
  /\ \A f, n \in Nat : /\ f + n * DayLength \in Nat
                       /\ LocalDay(f + n * DayLength) = LocalDay(f) + n
  /\ \A f, n, k \in Nat :
       f + k * DayLength < f + n * DayLength =>
         f + k * DayLength + DayLength <= f + n * DayLength
  /\ \A f, k \in Nat : f + k * DayLength + DayLength = f + (k + 1) * DayLength
<1>1. DayLength \in Nat \ {0} /\ Zone \in Int
  BY RestoreAssumption DEF RestoreAssumption
<1>2. \A f \in Int, n \in Nat, d \in Nat \ {0} : (f + n * d) \div d = (f \div d) + n
  OBVIOUS
<1>3. \A f, n, k \in Nat, d \in Nat \ {0} : f + k * d < f + n * d => f + k * d + d <= f + n * d
  OBVIOUS
<1>4. \A f, k, d \in Nat : f + k * d + d = f + (k + 1) * d /\ f + k * d \in Nat
  OBVIOUS
<1>5. ASSUME NEW f \in Nat, NEW n \in Nat
      PROVE  LocalDay(f + n * DayLength) = LocalDay(f) + n
  <2>1. n * DayLength \in Int
    BY <1>1
  <2>2. f + n * DayLength + Zone = (f + Zone) + n * DayLength /\ f + Zone \in Int
    BY <1>1, <2>1
  <2>3. QED
    BY <1>1, <1>2, <2>2 DEF LocalDay, Day
<1>6. QED
  BY <1>1, <1>3, <1>4, <1>5

\* findLatestSnapshotID finds the one latest snapshot.
LEMMA LatestIsFound ==
  ASSUME NEW u, NEW s, NEW items, IsLatest(u, s, items)
  PROVE  LatestOf(u, items) = s
<1> DEFINE found == { q \in Snapshot :
                        q[1] = u /\ archived[q] # 0 /\ InRange(q, items.from, items.to) }
<1>1. s \in found /\ \A q \in found : q[2] <= s[2]
  BY DEF IsLatest
<1>2. LatestOf(u, items) = CHOOSE t \in found : \A q \in found : TextUpTo(q[2], t[2])
  BY <1>1 DEF LatestOf
<1>3. PICK t \in found : t = LatestOf(u, items) /\ \A q \in found : q[2] <= t[2]
  BY <1>1, <1>2, TextOfIds
<1>4. t[2] \in Nat /\ s[2] \in Nat /\ t = <<t[1], t[2]>> /\ s = <<s[1], s[2]>>
  BY <1>1, <1>3, SnapshotAssumption, BoundAssumption
<1>5. t[2] = s[2] /\ t[1] = s[1]
  <2>1. t[2] <= s[2] /\ s[2] <= t[2] /\ t[1] = u /\ s[1] = u
    BY <1>1, <1>3
  <2>2. QED
    BY <2>1, <1>4
<1>6. QED
  BY <1>3, <1>4, <1>5

\* What a restore promises is the snapshot the code looks for, and a day it visits lists
\* a snapshot of the workitem.
LEMMA PromiseIsLatest ==
  ASSUME NEW u, NEW items \in RestoreItems, Promised(u, items) # None
  PROVE  /\ IsLatest(u, Promised(u, items), items)
         /\ Promised(u, items) \in items.filter
         /\ \E m \in Snapshot, n \in Time :
              /\ m[1] = u /\ archived[m] # 0
              /\ Day(archived[m]) = LocalDay(items.from) + n
              /\ items.from + n * DayLength < items.to
<1> DEFINE mine == { s \in Snapshot : s[1] = u /\ archived[s] # 0 }
           range == { s \in mine : s[2] \in items.from .. items.to }
           last == { s \in range : \A q \in range : q[2] <= s[2] }
<1>1. /\ \E s \in mine, n \in Visited(items) :
            archived[s] \div DayLength = ((items.from + Zone) \div DayLength) + n
      /\ \A s \in mine : Comparable(items, s)
      /\ last # {} /\ last \subseteq items.filter
      /\ Promised(u, items) = CHOOSE s \in last : TRUE
  BY DEF Promised
<1>2. Promised(u, items) \in last
  BY <1>1
<1>3. \A s \in mine : s[2] \in items.from .. items.to <=> InRange(s, items.from, items.to)
  BY <1>1, TextOfRange
<1>4. IsLatest(u, Promised(u, items), items)
  BY <1>2, <1>3 DEF IsLatest
<1>5. QED
  BY <1>1, <1>2, <1>4 DEF Visited, Day, LocalDay

-----------------------------------------------------------------------------

LEMMA InitDueInv == RestoreInit => DueInv /\ TimerInv
BY DEF RestoreInit, DueInv, TimerInv

LEMMA NextTimerInv ==
  ASSUME RestoreInv, TimerInv, [RestoreNext]_allVars
  PROVE  TimerInv'
<1>1. metadata \in Row
  BY DEF RestoreInv, RestoreTypeOK
<1>2. ASSUME NEW range \in Range, NEW filter \in Filter,
             StartRestore(range[1], range[2], filter)
      PROVE  TimerInv'
  <2>1. row \in Row
    BY DEF RestoreInv, RestoreTypeOK, TypeOK
  <2>2. metadata'.restore = [from |-> range[1], to |-> range[2], point |-> range[1],
                             filter |-> filter]
    BY <1>2, <2>1 DEF StartRestore
  <2>3. QED
    BY <1>2, <2>2 DEF StartRestore, TimerInv
<1>3. CASE Scheduler
  BY <1>3
     DEF Scheduler, SaveStart, SaveStartFails, RestoreTimeout, LoadDay, VerifySnapshot,
         VerifySnapshotFails, PostSnapshot, PostSnapshotFails, NextDay, EndRestore,
         RestoreFails, TimerInv
<1>4. CASE \/ CancelRestore \/ (\E s \in Snapshot : SaveWorkitem(s))
           \/ (\E u \in Workitem : LoseWorkitem(u)) \/ Other \/ RestartAll
  BY <1>4 DEF CancelRestore, SaveWorkitem, LoseWorkitem, Other, RestartAll, TimerInv
<1>5. CASE UNCHANGED allVars
  BY <1>5 DEF allVars, TimerInv
<1>6. QED
  BY <1>2, <1>3, <1>4, <1>5 DEF RestoreNext

-----------------------------------------------------------------------------

\* The archive has the same of the workitem, and what is still to be looked at is not
\* forgotten unless the workitem is there.
LEMMA AheadStays ==
  ASSUME NEW u, NEW s, Ahead(u, s),
         written' = written,
         \A q \in Snapshot : q[1] = u => archived'[q] = archived[q],
         origin'[u] = origin[u] \/ origin'[u] = s,
         label' \in {"verify", "post"} =>
           /\ label \in {"verify", "post"}
           /\ \A m \in Snapshot :
                m[1] = u /\ (m \in snapshotIDs \/ latest = s) =>
                  m \in snapshotIDs' \/ latest' = s \/ origin'[u] = s
  PROVE  Ahead(u, s)'
<1>1. IsLatest(u, s, written)'
  BY DEF Ahead, IsLatest
<1>2. s \in written'.filter
  BY DEF Ahead
<1>3. CASE origin'[u] = s
  BY <1>1, <1>2, <1>3 DEF Ahead
<1>4. CASE origin'[u] # s
  <2>1. PICK m \in Snapshot, n \in Time : m[1] = u /\ archived[m] # 0 /\ ToVisit(m, n, s)
    BY <1>4 DEF Ahead
  <2>2. archived'[m] = archived[m]
    BY <2>1
  <2>3. Day(archived'[m]) = LocalDay(written'.from) + n
    BY <2>1, <2>2 DEF ToVisit
  <2>4. label' \in {"verify", "post"} /\ written'.point = written'.from + n * DayLength =>
          m \in snapshotIDs' \/ latest' = s
    BY <2>1, <1>4 DEF ToVisit
  <2>5. /\ written'.from + n * DayLength < written'.to
        /\ written'.point <= written'.from + n * DayLength
    BY <2>1 DEF ToVisit
  <2>6. m[1] = u /\ archived'[m] # 0 /\ ToVisit(m, n, s)'
    BY <2>1, <2>2, <2>3, <2>4, <2>5 DEF ToVisit, Day, LocalDay
  <2>7. QED
    BY <1>1, <1>2, <2>6 DEF Ahead
<1>5. QED
  BY <1>3, <1>4

\* A step that leaves the scheduler where it is, or interrupts it, and gives up what is
\* due for each workitem it changes.
LEMMA OthersKeepDue ==
  ASSUME RestoreInv, DueInv,
         \/ \E s \in Snapshot : SaveWorkitem(s)
         \/ \E u \in Workitem : LoseWorkitem(u)
         \/ Other
         \/ RestartAll
  PROVE  DueInv'
<1> SUFFICES ASSUME timerSet', ~undone'
             PROVE  /\ label' \in {"day", "verify", "post"} => metadata'.restore = written'
                    /\ \E k \in Nat : written'.point = written'.from + k * DayLength
                    /\ label' = "post" => due'[latest'[1]] \in {None, latest'}
                    /\ \A u \in Workitem, s \in Snapshot : due'[u] = s => Ahead(u, s)'
  BY DEF DueInv
<1>1. /\ UNCHANGED <<timerSet, undone, written>>
      /\ \/ UNCHANGED <<label, metadata, snapshotIDs, latest>>
         \/ label' = "idle"
  BY DEF SaveWorkitem, LoseWorkitem, Other, RestartAll
<1>2. /\ RestoreTypes
      /\ origin \in [Workitem -> Snapshot \union {None}]
      /\ due \in [Workitem -> Snapshot \union {None}]
  BY SplitTypes DEF RestoreInv, RestoreTypes
<1>3. ASSUME NEW u \in Workitem, due'[u] # None
      PROVE  /\ due'[u] = due[u] /\ origin'[u] = origin[u]
             /\ \A q \in Snapshot : q[1] = u => archived'[q] = archived[q]
  <2>1. ASSUME NEW s \in Snapshot, SaveWorkitem(s)
        PROVE  due'[u] = due[u] /\ origin'[u] = origin[u] /\ archived' = archived
    <3>1. s[1] \in Workitem
      BY DEF Workitem
    <3>2. QED
      BY <1>2, <1>3, <2>1, <3>1 DEF SaveWorkitem, SaveDocument
  <2>2. ASSUME NEW v \in Workitem, LoseWorkitem(v)
        PROVE  due'[u] = due[u] /\ origin'[u] = origin[u] /\ archived' = archived
    BY <1>2, <1>3, <2>2 DEF LoseWorkitem
  <2>3. CASE Other
    BY <1>3, <2>3 DEF Other
  <2>4. CASE RestartAll
    BY <2>4 DEF RestartAll, Restart
  <2>5. QED
    BY <2>1, <2>2, <2>3, <2>4
<1>4. ASSUME NEW u \in Workitem, NEW s \in Snapshot, due'[u] = s
      PROVE  Ahead(u, s)'
  <2>1. due'[u] # None
    BY <1>4, SnapshotAssumption
  <2>2. Ahead(u, s)
    BY <1>1, <1>3, <1>4, <2>1 DEF DueInv
  <2>3. QED
    BY <1>1, <1>3, <2>1, <2>2, AheadStays
<1>5. label' = "post" => due'[latest'[1]] \in {None, latest'}
  <2>1. label = "post" => latest[1] \in Workitem
    BY <1>2 DEF RestoreTypes, Workitem
  <2>2. QED
    BY <1>1, <1>3, <2>1 DEF DueInv
<1>6. QED
  BY <1>1, <1>4, <1>5 DEF DueInv

\* The row is written with the first day, and what is due is what it promises.
LEMMA StartKeepsDue ==
  ASSUME RestoreInv, TimerInv, SaveStart
  PROVE  DueInv'
<1>1. /\ RestoreTypes /\ label = "start" /\ label' = "idle"
      /\ metadata.restore \in RestoreItems /\ written' = metadata.restore
      /\ metadata.restore.point = metadata.restore.from
      /\ UNCHANGED <<archived, origin>>
  BY SplitTypes DEF SaveStart, RestoreInv, RestoreTypes, TimerInv
<1>2. written'.from \in Nat /\ written'.point = written'.from
  BY <1>1, Items, BoundAssumption
<1>3. written'.point = written'.from + 0 * DayLength
  BY <1>2, Days
<1>4. ASSUME NEW u \in Workitem, NEW s \in Snapshot, due'[u] = s
      PROVE  Ahead(u, s)'
  <2>1. s = Promised(u, metadata.restore) /\ s # None
    BY <1>4, SnapshotAssumption DEF SaveStart
  <2>2. IsLatest(u, s, metadata.restore) /\ s \in metadata.restore.filter
    BY <1>1, <2>1, PromiseIsLatest
  <2>3. PICK m \in Snapshot, n \in Time :
          /\ m[1] = u /\ archived[m] # 0
          /\ Day(archived[m]) = LocalDay(metadata.restore.from) + n
          /\ metadata.restore.from + n * DayLength < metadata.restore.to
    BY <1>1, <2>1, PromiseIsLatest
  <2>4. n \in Nat
    BY BoundAssumption
  <2>5. written'.point <= written'.from + n * DayLength
    <3>1. n * DayLength \in Nat
      BY <2>4, Days
    <3>2. QED
      BY <1>2, <3>1
  <2>6. ToVisit(m, n, s)'
    BY <1>1, <2>3, <2>5 DEF ToVisit, Day, LocalDay
  <2>7. IsLatest(u, s, written)' /\ s \in written'.filter
    BY <1>1, <2>2 DEF IsLatest
  <2>8. QED
    BY <1>1, <2>3, <2>6, <2>7 DEF Ahead
<1>5. QED
  BY <1>1, <1>3, <1>4 DEF DueInv

\* The row may have other items than the ones the scheduler wrote: then it is undone.
LEMMA TimeoutKeepsDue ==
  ASSUME RestoreInv, DueInv, RestoreTimeout
  PROVE  DueInv'
<1> SUFFICES ASSUME timerSet', ~undone'
             PROVE  DueInv'
  BY DEF DueInv
<1>1. /\ ~undone /\ row.restore = written
      /\ timerSet /\ label' = "day" /\ metadata' = row
      /\ UNCHANGED <<archived, origin, timerSet, snapshotIDs, latest, written, due>>
  BY DEF RestoreTimeout, vars
<1>2. ASSUME NEW u \in Workitem, NEW s \in Snapshot, due'[u] = s
      PROVE  Ahead(u, s)'
  <2>1. Ahead(u, s)
    BY <1>1, <1>2 DEF DueInv
  <2>2. QED
    BY <1>1, <2>1, AheadStays
<1>3. QED
  BY <1>1, <1>2 DEF DueInv

\* The day that is loaded lists what is to be visited on it.
LEMMA LoadKeepsDue ==
  ASSUME RestoreInv, TimerInv, DueInv, LoadDay
  PROVE  DueInv'
<1> SUFFICES ASSUME ~undone
             PROVE  DueInv'
  BY DEF DueInv, LoadDay
<1>1. /\ timerSet /\ label = "day" /\ label' = "verify" /\ metadata.restore = written
      /\ snapshotIDs' = Listed(written.point)
      /\ UNCHANGED <<archived, origin, timerSet, undone, metadata, latest, written, due>>
  BY DEF LoadDay, vars, TimerInv, DueInv
<1>2. written \in RestoreItems
  BY SplitTypes DEF RestoreInv, RestoreTypes
<1>3. ASSUME NEW u \in Workitem, NEW s \in Snapshot, due'[u] = s
      PROVE  Ahead(u, s)'
  <2>1. Ahead(u, s)
    BY <1>1, <1>3 DEF DueInv
  <2>2. IsLatest(u, s, written)' /\ s \in written'.filter
    BY <1>1, <2>1 DEF Ahead, IsLatest
  <2>3. CASE origin[u] = s
    BY <1>1, <2>2, <2>3 DEF Ahead
  <2>4. CASE origin[u] # s
    <3>1. PICK m \in Snapshot, n \in Time : m[1] = u /\ archived[m] # 0 /\ ToVisit(m, n, s)
      BY <2>1, <2>4 DEF Ahead
    <3>2. n \in Nat /\ written.from \in Nat
      BY <1>2, Items, BoundAssumption
    <3>3. written.point = written.from + n * DayLength => m \in Listed(written.point)
      <4>1. LocalDay(written.from + n * DayLength) = LocalDay(written.from) + n
        BY <3>2, Days
      <4>2. QED
        BY <3>1, <4>1 DEF ToVisit, Listed
    <3>4. ToVisit(m, n, s)'
      BY <1>1, <3>1, <3>3 DEF ToVisit, Day, LocalDay
    <3>5. QED
      BY <1>1, <2>2, <3>1, <3>4 DEF Ahead
  <2>5. QED
    BY <2>3, <2>4
<1>4. QED
  BY <1>1, <1>3 DEF DueInv

\* Looking at a snapshot of a workitem either leads to the one to post, or the workitem
\* is there with it.
LEMMA VerifyKeepsDue ==
  ASSUME RestoreInv, TimerInv, DueInv, VerifySnapshot \/ VerifySnapshotFails
  PROVE  DueInv'
<1>0. undone' = undone
  BY DEF VerifySnapshot, VerifySnapshotFails
<1> SUFFICES ASSUME ~undone
             PROVE  DueInv'
  BY <1>0 DEF DueInv
<1>1. /\ RestoreTypes /\ label = "verify" /\ latest = None /\ timerSet
      /\ metadata.restore = written
      /\ UNCHANGED <<archived, origin, timerSet, undone, metadata, written, due>>
  BY SplitTypes
     DEF VerifySnapshot, VerifySnapshotFails, vars, RestoreInv, RestoreTypes, TimerInv, DueInv
<1>2. written.filter \subseteq Snapshot
  BY <1>1, Items DEF RestoreTypes
<1>3. PICK s \in snapshotIDs :
        /\ snapshotIDs' = snapshotIDs \ {s}
        /\ \/ /\ LatestOf(s[1], written) \in written.filter
              /\ label' = "post"
              /\ latest' = LatestOf(s[1], written)
           \/ /\ ~ (LatestOf(s[1], written) \in written.filter
                      /\ origin[s[1]] # LatestOf(s[1], written))
              /\ UNCHANGED <<label, latest>>
  BY <1>1 DEF VerifySnapshot, VerifySnapshotFails
<1>4. s \in Snapshot /\ s[1] \in Workitem
  BY <1>1, <1>3 DEF RestoreTypes, Workitem
<1>5. ASSUME NEW u \in Workitem, NEW q \in Snapshot, due[u] = q
      PROVE  Ahead(u, q) /\ LatestOf(u, written) = q /\ q \in written.filter
  <2>1. Ahead(u, q)
    BY <1>1, <1>5 DEF DueInv
  <2>2. QED
    BY <2>1, LatestIsFound DEF Ahead
<1>6. ASSUME NEW u \in Workitem, NEW q \in Snapshot, due'[u] = q
      PROVE  Ahead(u, q)'
  <2>1. Ahead(u, q) /\ LatestOf(u, written) = q /\ q \in written.filter
    BY <1>1, <1>5, <1>6
  <2>2. ASSUME NEW m \in Snapshot, m[1] = u, m \in snapshotIDs \/ latest = q
        PROVE  m \in snapshotIDs' \/ latest' = q \/ origin'[u] = q
    <3>1. m \in snapshotIDs
      BY <1>1, <2>2, SnapshotAssumption
    <3>2. CASE m # s
      BY <1>3, <3>1, <3>2
    <3>3. CASE m = s
      BY <1>1, <1>3, <2>1, <2>2, <3>3
    <3>4. QED
      BY <3>2, <3>3
  <2>3. QED
    BY <1>1, <2>1, <2>2, AheadStays
<1>7. label' = "post" => due'[latest'[1]] \in {None, latest'}
  <2> SUFFICES ASSUME label' = "post"
               PROVE  due[latest'[1]] \in {None, latest'}
    BY <1>1
  <2>1. latest' = LatestOf(s[1], written) /\ latest' \in Snapshot
    BY <1>1, <1>2, <1>3
  <2>2. latest'[1] = s[1]
    BY <2>1, LatestIsArchived
  <2>3. due[s[1]] \in Snapshot \union {None}
    BY <1>1, <1>4 DEF RestoreTypes
  <2>4. due[s[1]] \in {None, latest'}
    BY <1>4, <1>5, <2>1, <2>3
  <2>5. QED
    BY <2>2, <2>4
<1>8. QED
  BY <1>1, <1>3, <1>6, <1>7 DEF DueInv

\* What is posted is what is due, and what cannot be posted is due no more.
LEMMA PostKeepsDue ==
  ASSUME RestoreInv, TimerInv, DueInv, PostSnapshot \/ PostSnapshotFails
  PROVE  DueInv'
<1>0. undone' = undone
  BY DEF PostSnapshot, PostSnapshotFails
<1> SUFFICES ASSUME ~undone
             PROVE  DueInv'
  BY <1>0 DEF DueInv
<1>1. /\ RestoreTypes /\ label = "post" /\ label' = "verify" /\ timerSet
      /\ latest' = None /\ metadata.restore = written
      /\ due[latest[1]] \in {None, latest}
      /\ UNCHANGED <<archived, timerSet, undone, metadata, snapshotIDs, written>>
  BY SplitTypes DEF PostSnapshot, PostSnapshotFails, RestoreInv, TimerInv, DueInv
<1>2. latest \in Snapshot /\ latest[1] \in Workitem
  BY <1>1 DEF RestoreTypes, Workitem
<1>3. ASSUME NEW u \in Workitem, NEW s \in Snapshot, due'[u] = s
      PROVE  Ahead(u, s)'
  <2>1. /\ due[u] = s
        /\ PostSnapshotFails => u # latest[1]
    BY <1>1, <1>2, <1>3, SnapshotAssumption DEF PostSnapshot, PostSnapshotFails, RestoreTypes
  <2>2. Ahead(u, s) /\ s[1] = u
    BY <1>1, <2>1 DEF DueInv, Ahead, IsLatest
  <2>3. CASE PostSnapshot
    <3>1. IF u = latest[1] THEN origin'[u] = latest ELSE origin'[u] = origin[u]
      BY <1>1, <1>2, <2>3 DEF PostSnapshot, RestoreTypes
    <3>2. u = latest[1] => latest = s
      BY <1>1, <2>1, SnapshotAssumption
    <3>3. origin'[u] = origin[u] \/ origin'[u] = s
      BY <3>1, <3>2
    <3>4. latest = s => origin'[u] = s
      BY <2>2, <3>1
    <3>5. QED
      BY <1>1, <2>2, <3>3, <3>4, AheadStays
  <2>4. CASE PostSnapshotFails
    <3>1. latest # s /\ origin' = origin
      BY <2>1, <2>2, <2>4 DEF PostSnapshotFails
    <3>2. QED
      BY <1>1, <2>2, <3>1, AheadStays
  <2>5. QED
    BY <2>3, <2>4
<1>4. QED
  BY <1>1, <1>3 DEF DueInv

\* A day on which nothing is left to look at is done; the next one begins DayLength later.
LEMMA NextDayKeepsDue ==
  ASSUME RestoreInv, TimerInv, DueInv, NextDay
  PROVE  DueInv'
<1> SUFFICES ASSUME ~undone
             PROVE  DueInv'
  BY DEF DueInv, NextDay
<1>1. /\ RestoreTypes /\ label = "verify" /\ label' = "day" /\ timerSet
      /\ latest = None /\ snapshotIDs = {} /\ metadata.restore = written
      /\ UNCHANGED <<archived, origin, timerSet, undone, due>>
  BY SplitTypes DEF NextDay, RestoreInv, RestoreTypes, TimerInv, DueInv
<1>2. written \in RestoreItems /\ metadata \in Row
  BY <1>1 DEF RestoreTypes
<1>3. /\ written' = [written EXCEPT !.point = @ + DayLength]
      /\ metadata'.restore = written'
  BY <1>1, <1>2 DEF NextDay, NextRow, NextPoint
<1>4. /\ written'.from = written.from /\ written'.to = written.to
      /\ written'.filter = written.filter /\ written'.point = written.point + DayLength
  BY <1>2, <1>3, Items
<1>5. PICK k \in Nat : written.point = written.from + k * DayLength
  BY <1>1 DEF DueInv
<1>6. written.from \in Nat /\ DayLength \in Nat \ {0}
  BY <1>2, Items, BoundAssumption, Days
<1>7. written'.point = written'.from + (k + 1) * DayLength
  BY <1>4, <1>5, <1>6, Days
<1>8. ASSUME NEW u \in Workitem, NEW s \in Snapshot, due'[u] = s
      PROVE  Ahead(u, s)'
  <2>1. Ahead(u, s) /\ s # None
    BY <1>1, <1>8, SnapshotAssumption DEF DueInv
  <2>2. IsLatest(u, s, written)' /\ s \in written'.filter
    BY <1>1, <1>4, <2>1 DEF Ahead, IsLatest, InRange
  <2>3. CASE origin[u] = s
    BY <1>1, <2>2, <2>3 DEF Ahead
  <2>4. CASE origin[u] # s
    <3>1. PICK m \in Snapshot, n \in Time : m[1] = u /\ archived[m] # 0 /\ ToVisit(m, n, s)
      BY <2>1, <2>4 DEF Ahead
    <3>2. written.point # written.from + n * DayLength
      BY <1>1, <2>1, <3>1 DEF ToVisit
    <3>3. n \in Nat /\ written.from + n * DayLength \in Nat
      <4>1. n \in Nat
        BY BoundAssumption
      <4>2. QED
        BY <1>6, <4>1, Days
    <3>4. written.point < written.from + n * DayLength
      <4>1. written.from + k * DayLength \in Nat
        BY <1>6, Days
      <4>2. QED
        BY <1>5, <3>1, <3>2, <3>3, <4>1 DEF ToVisit
    <3>5. written.point + DayLength <= written.from + n * DayLength
      BY <1>5, <1>6, <3>3, <3>4, Days
    <3>6. ToVisit(m, n, s)'
      BY <1>1, <1>4, <3>1, <3>5 DEF ToVisit, Day, LocalDay
    <3>7. QED
      BY <1>1, <2>2, <3>1, <3>6 DEF Ahead
  <2>5. QED
    BY <2>3, <2>4
<1>9. k + 1 \in Nat
  OBVIOUS
<1>10. QED
  BY <1>1, <1>3, <1>7, <1>8, <1>9 DEF DueInv

LEMMA NextDueInv ==
  ASSUME RestoreInv, TimerInv, DueInv, [RestoreNext]_allVars
  PROVE  DueInv'
<1>1. CASE \/ \E range \in Range, filter \in Filter : StartRestore(range[1], range[2], filter)
           \/ SaveStartFails \/ CancelRestore \/ EndRestore \/ RestoreFails
  BY <1>1
     DEF StartRestore, SaveStartFails, CancelRestore, EndRestore, RestoreFails, TimerInv, DueInv
<1>2. CASE UNCHANGED allVars
  BY <1>2 DEF allVars, vars, DueInv, Ahead, IsLatest, ToVisit
<1>3. QED
  BY <1>1, <1>2, OthersKeepDue, StartKeepsDue, TimeoutKeepsDue, LoadKeepsDue,
     VerifyKeepsDue, PostKeepsDue, NextDayKeepsDue
     DEF RestoreNext, Scheduler

\* At the end no day of the restore is left, so the workitem is there.
LEMMA EndIsRestored ==
  ASSUME RestoreInv, TimerInv, DueInv, EndRestore, ~undone, NEW u \in Workitem
  PROVE  due[u] \in {None, origin[u]}
<1>1. /\ RestoreTypes /\ timerSet /\ metadata.restore = written
      /\ written.to <= written.point
  BY SplitTypes DEF EndRestore, RestoreInv, TimerInv, DueInv
<1>2. SUFFICES ASSUME NEW s \in Snapshot, due[u] = s, origin[u] # s
               PROVE  FALSE
  BY <1>1 DEF RestoreTypes
<1>3. Ahead(u, s)
  BY <1>1, <1>2 DEF DueInv
<1>4. PICK m \in Snapshot, n \in Time : ToVisit(m, n, s)
  BY <1>2, <1>3 DEF Ahead
<1>5. written.from \in Nat /\ written.to \in Nat /\ written.point \in Nat /\ n \in Nat
  BY <1>1, Items, BoundAssumption DEF RestoreTypes
<1>6. written.from + n * DayLength \in Nat
  BY <1>5, Days
<1>7. QED
  BY <1>1, <1>4, <1>5, <1>6 DEF ToVisit

\* A restore that comes to its end has brought each workitem back that it promised, for
\* any days, ranges, options, failures and restarts: a day is left in the row until its
\* last snapshot is looked at, no day of the range is jumped over, and from any snapshot
\* of a workitem the scheduler finds the latest one of the range
\* (RestoreScheduler.onTimeout, findLatestSnapshotID).
THEOREM RestoreBringsBack == RestoreSpec => Restored
<1>1. RestoreInit => RestoreInv /\ TimerInv /\ DueInv
  BY InitRestoreInv, InitDueInv
<1>2. RestoreInv /\ TimerInv /\ DueInv /\ [RestoreNext]_allVars =>
        RestoreInv' /\ TimerInv' /\ DueInv'
  BY NextRestoreInv, NextTimerInv, NextDueInv
<1>3. RestoreInv /\ TimerInv /\ DueInv =>
        [EndRestore /\ ~undone => \A u \in Workitem : due[u] \in {None, origin[u]}]_allVars
  BY EndIsRestored
<1>4. QED
  BY <1>1, <1>2, <1>3, PTL DEF RestoreSpec, Restored

=============================================================================
