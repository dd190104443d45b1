----------------------------- MODULE ResyncProofs -----------------------------
(***************************************************************************)
(* The type invariant of Resync and the soundness of the syncpoint, for any *)
(* number of runs, snapshots, failures and restarts.                       *)
(***************************************************************************)
EXTENDS Resync, TLAPS

\* s waits in the group of r.
InGroup(r, s) ==
    /\ syncPoint[r] = modified[s]
    /\ s \in group[r] \union {current[r]}

\* s is safe whatever r does, unless r is the run that has to store it: a run that
\* ends while the row already holds its syncpoint adds the rest of its group to missed.
Kept(s) ==
    \/ archived[s] # 0
    \/ s \in missed
    \/ \E r \in Run : metaData[r].sync = syncPoint[r] /\ InGroup(r, s)

\* What the local variables hold at each label.
Locals ==
    \A r \in Run :
        /\ pc[r] \in {"idle", "read", "outer"} => group[r] = {}
        /\ pc[r] = "idle" => syncPoint[r] = 0
        /\ pc[r] \in {"next", "save", "meta"} => syncPoint[r] > 0

\* What the row claims is kept.
RowKept ==
    \A s \in Snapshot :
        (row.base < modified[s] /\ modified[s] <= row.sync) => Kept(s)

\* What the copy of a run would claim if it were written now is kept, or waits in the
\* group of this run.
RunKept ==
    \A r \in Run : \A s \in Snapshot :
        (metaData[r].base < modified[s] /\ modified[s] <= syncPoint[r])
            => Kept(s) \/ InGroup(r, s)

\* A claim reaches no further than what was read, so that a snapshot that appears
\* within it is late.
ClaimsRead ==
    /\ row.sync <= newest \/ row.sync <= row.base
    /\ \A r \in Run : syncPoint[r] <= newest \/ syncPoint[r] <= metaData[r].base

ResyncInv == TypeOK /\ Locals /\ RowKept /\ RunKept /\ ClaimsRead

USE DEF source, timing, controller, locals, history, bounds, Labels, Time, Row,
        EmptyRow

LEMMA InitResyncInv == Init => ResyncInv
<1> SUFFICES ASSUME Init
             PROVE  ResyncInv
  OBVIOUS
<1>1. TypeOK
  BY SnapshotAssumption, BoundAssumption DEF Init, TypeOK
<1>2. Locals /\ RowKept /\ RunKept /\ ClaimsRead
  BY BoundAssumption DEF Init, Locals, RowKept, RunKept, ClaimsRead
<1>3. QED
  BY <1>1, <1>2 DEF ResyncInv

-----------------------------------------------------------------------------
(* Types and labels *)

LEMMA EnvironmentTyping ==
  ASSUME TypeOK, Locals, Environment
  PROVE  TypeOK' /\ Locals'
<1>1. CASE Tick
  BY <1>1, BoundAssumption DEF Tick, TypeOK, Locals
<1>2. ASSUME NEW s \in Snapshot, SaveDocument(s)
      PROVE  TypeOK' /\ Locals'
  BY <1>2, SnapshotAssumption DEF SaveDocument, TypeOK, Locals
<1>3. ASSUME NEW s \in Snapshot, Pull(s)
      PROVE  TypeOK' /\ Locals'
  BY <1>3 DEF Pull, TypeOK, Locals
<1>4. QED
  BY <1>1, <1>2, <1>3 DEF Environment

LEMMA ControllerTyping ==
  ASSUME TypeOK, Locals, Controller
  PROVE  TypeOK' /\ Locals'
<1>1. CASE InitController
  BY <1>1 DEF InitController, TypeOK, Locals
<1>2. CASE LeavePage
  BY <1>2, BoundAssumption DEF LeavePage, TypeOK, Locals
<1>3. ASSUME NEW t \in NewSyncPoint, UpdateSyncPoint(t)
      PROVE  TypeOK' /\ Locals'
  <2>1. row' \in Row /\ form' \in Row
    <3>1. row' = [sync |-> t, base |-> t, restore |-> form.restore]
      BY <1>3 DEF UpdateSyncPoint, TypeOK
    <3>2. QED
      BY <1>3, <3>1, BoundAssumption DEF UpdateSyncPoint, TypeOK
  <2>2. QED
    BY <1>3, <2>1 DEF UpdateSyncPoint, TypeOK, Locals
<1>4. CASE RestartSync
  BY <1>4 DEF RestartSync, TypeOK, Locals
<1>5. CASE Cancel
  BY <1>5, BoundAssumption DEF Cancel, Trouble, TypeOK, Locals
<1>6. QED
  BY <1>1, <1>2, <1>3, <1>4, <1>5 DEF Controller

\* A run that ends leaves its variables in order.
LEMMA Cleared ==
  ASSUME TypeOK, Locals, NEW r \in Run, Stop(r), Clear(r)
  PROVE  /\ timer' \in {"none", "waiting"} \union Run
         /\ pc' \in [Run -> Labels]
         /\ metaData' \in [Run -> Row]
         /\ syncPoint' \in [Run -> Time]
         /\ group' \in [Run -> SUBSET Snapshot]
         /\ current' \in [Run -> Snapshot \union {None}]
         /\ \A q \in Run :
              /\ pc'[q] = "next" => group'[q] # {}
              /\ (pc'[q] = "save") <=> (current'[q] # None)
         /\ Locals'
  BY BoundAssumption DEF Stop, Clear, Goto, TypeOK, Locals

\* A run starts, reads and ends.
LEMMA ReadTyping ==
  ASSUME TypeOK, Locals, NEW r \in Run,
         OnTimeout(r) \/ ReadSyncData(r) \/ NoMoreData(r) \/ ReadSyncDataFails(r)
           \/ CheckStatus(r) \/ Abort(r)
  PROVE  TypeOK' /\ Locals'
<1>1. CASE OnTimeout(r)
  BY <1>1 DEF OnTimeout, Goto, TypeOK, Locals
<1>2. CASE ReadSyncData(r)
  <2>1. PICK s \in SyncGroup(syncPoint[r]) :
          /\ syncPoint' = [syncPoint EXCEPT ![r] = modified[s]]
          /\ newest' = IF modified[s] > newest THEN modified[s] ELSE newest
    BY <1>2 DEF ReadSyncData
  <2>2. s \in Snapshot /\ modified[s] \in Time /\ modified[s] > syncPoint[r]
    BY <2>1 DEF SyncGroup, Later, TypeOK
  <2>3. SyncGroup(syncPoint[r]) \in SUBSET Snapshot
    BY DEF SyncGroup, Later
  <2>4. QED
    BY <1>2, <2>1, <2>2, <2>3 DEF ReadSyncData, Goto, TypeOK, Locals
<1>3. CASE NoMoreData(r)
  BY <1>3, Cleared DEF NoMoreData, TypeOK
<1>4. CASE ReadSyncDataFails(r)
  <2>1. trouble' \in 0 .. MaxTrouble
    BY <1>4, BoundAssumption DEF ReadSyncDataFails, Trouble, TypeOK
  <2>2. QED
    BY <1>4, <2>1, Cleared DEF ReadSyncDataFails, TypeOK
<1>5. CASE CheckStatus(r)
  <2>1. CASE status = "canceled"
    BY <1>5, <2>1, Cleared DEF CheckStatus, TypeOK
  <2>2. CASE status # "canceled"
    BY <1>5, <2>2 DEF CheckStatus, Goto, TypeOK, Locals
  <2>3. QED
    BY <2>1, <2>2
<1>6. CASE Abort(r)
  <2>1. missed' \in SUBSET Snapshot
    BY <1>6 DEF Abort, Cut, TypeOK
  <2>2. QED
    BY <1>6, <2>1, Cleared, BoundAssumption DEF Abort, Trouble, TypeOK
<1>7. QED
  BY <1>1, <1>2, <1>3, <1>4, <1>5, <1>6

\* A run goes through a group.
LEMMA GroupTyping ==
  ASSUME TypeOK, Locals, NEW r \in Run,
         NextDocument(r) \/ SaveSnapshot(r) \/ SaveSnapshotFails(r) \/ SaveMetadata(r)
  PROVE  TypeOK' /\ Locals'
<1>1. CASE NextDocument(r)
  <2>1. PICK s \in group[r] :
          /\ group' = [group EXCEPT ![r] = @ \ {s}]
          /\ IF archived[s] # 0
             THEN Goto(r, "meta") /\ UNCHANGED current
             ELSE Goto(r, "save") /\ current' = [current EXCEPT ![r] = s]
    BY <1>1 DEF NextDocument
  <2>2. s \in Snapshot /\ s # None /\ syncPoint[r] > 0 /\ pc[r] = "next"
    BY <1>1, SnapshotAssumption DEF NextDocument, TypeOK, Locals
  <2>3. CASE archived[s] # 0
    BY <1>1, <2>1, <2>2, <2>3 DEF NextDocument, Goto, TypeOK, Locals
  <2>4. CASE archived[s] = 0
    BY <1>1, <2>1, <2>2, <2>4 DEF NextDocument, Goto, TypeOK, Locals
  <2>5. QED
    BY <2>3, <2>4
<1>2. CASE SaveSnapshot(r)
  BY <1>2 DEF SaveSnapshot, Stored, Goto, TypeOK, Locals
<1>3. CASE SaveSnapshotFails(r)
  BY <1>3, BoundAssumption DEF SaveSnapshotFails, Trouble, Goto, TypeOK, Locals
<1>4. CASE SaveMetadata(r)
  <2>1. row' \in Row
    BY <1>4 DEF SaveMetadata, TypeOK
  <2>2. CASE status = "canceled"
    <3>1. missed' \in SUBSET Snapshot
      BY <1>4, <2>2 DEF SaveMetadata, TypeOK
    <3>2. QED
      BY <1>4, <2>1, <2>2, <3>1, Cleared DEF SaveMetadata, TypeOK
  <2>3. CASE status # "canceled"
    <3>1. metaData' \in [Run -> Row]
      BY <1>4, <2>3 DEF SaveMetadata, TypeOK
    <3>2. PICK label \in {"outer", "next"} :
            /\ label = "outer" <=> group[r] = {}
            /\ pc' = [pc EXCEPT ![r] = label]
      BY <1>4, <2>3 DEF SaveMetadata, AfterDocument, Goto
    <3>3. pc[r] = "meta" /\ UNCHANGED <<syncPoint, group, current>>
      BY <1>4, <2>3 DEF SaveMetadata
    <3>4. Locals'
      BY <3>2, <3>3 DEF TypeOK, Locals
    <3>5. pc' \in [Run -> Labels]
      BY <3>2 DEF TypeOK
    <3>6. \A q \in Run :
            /\ pc'[q] = "next" => group'[q] # {}
            /\ (pc'[q] = "save") <=> (current'[q] # None)
      BY <3>2, <3>3 DEF TypeOK
    <3>7. QED
      BY <1>4, <2>1, <2>3, <3>1, <3>3, <3>4, <3>5, <3>6 DEF SaveMetadata, TypeOK
  <2>4. QED
    BY <2>2, <2>3
<1>5. QED
  BY <1>1, <1>2, <1>3, <1>4

LEMMA RestartTyping ==
  ASSUME TypeOK, Locals, Restart
  PROVE  TypeOK' /\ Locals'
<1>1. missed' \in SUBSET Snapshot
  BY DEF Restart, Cut, TypeOK
<1>2. QED
  BY <1>1, BoundAssumption DEF Restart, Refired, TypeOK, Locals

-----------------------------------------------------------------------------
(* Claims of the row and of the runs *)

Claims == RowKept /\ RunKept /\ ClaimsRead

\* A step keeps s safe when it forgets neither the archive nor the missed snapshots,
\* and stores or misses s whenever it takes it out of a group the row has reached.
LEMMA KeptStays ==
  ASSUME NEW s \in Snapshot, Kept(s),
         archived[s] # 0 => archived'[s] # 0,
         s \in missed => s \in missed',
         \A r \in Run :
            metaData[r].sync = syncPoint[r] /\ InGroup(r, s) => Kept(s)'
  PROVE  Kept(s)'
  BY DEF Kept

\* The clock, a new document, and the synchronisation.
LEMMA EnvironmentClaims ==
  ASSUME TypeOK, Claims, Environment
  PROVE  Claims'
<1> USE DEF Claims
<1>1. CASE Tick
  BY <1>1 DEF Tick, RowKept, RunKept, ClaimsRead, Kept, InGroup
<1>2. ASSUME NEW s \in Snapshot, SaveDocument(s)
      PROVE  Claims'
  <2>1. /\ modified' = [modified EXCEPT ![s] = s[2]]
        /\ s[2] \in Time
        /\ missed' = IF s[2] <= newest THEN missed \union {s} ELSE missed
        /\ UNCHANGED <<archived, row, metaData, syncPoint, group, current, newest>>
    BY <1>2, SnapshotAssumption DEF SaveDocument
  <2>2. ClaimsRead'
    BY <2>1 DEF ClaimsRead
  <2>3. ASSUME NEW q \in Snapshot, q # s
        PROVE  /\ modified'[q] = modified[q]
               /\ Kept(q) => Kept(q)'
               /\ \A r \in Run : InGroup(r, q) => InGroup(r, q)'
    BY <2>1, <2>3 DEF TypeOK, Kept, InGroup
  <2>4. /\ modified'[s] = s[2]
        /\ s[2] <= newest => Kept(s)'
    BY <2>1 DEF TypeOK, Kept
  <2>5. RowKept'
    <3> SUFFICES ASSUME NEW q \in Snapshot,
                        row.base < modified'[q], modified'[q] <= row.sync
                 PROVE  Kept(q)'
      BY <2>1 DEF RowKept
    <3>1. CASE q = s
      BY <2>1, <2>4, <3>1 DEF ClaimsRead, TypeOK
    <3>2. CASE q # s
      BY <2>3, <3>2 DEF RowKept
    <3>3. QED
      BY <3>1, <3>2
  <2>6. RunKept'
    <3> SUFFICES ASSUME NEW r \in Run, NEW q \in Snapshot,
                        metaData[r].base < modified'[q], modified'[q] <= syncPoint[r]
                 PROVE  Kept(q)' \/ InGroup(r, q)'
      BY <2>1 DEF RunKept
    <3>1. CASE q = s
      BY <2>1, <2>4, <3>1 DEF ClaimsRead, TypeOK
    <3>2. CASE q # s
      BY <2>3, <3>2 DEF RunKept
    <3>3. QED
      BY <3>1, <3>2
  <2>7. QED
    BY <2>2, <2>5, <2>6
<1>3. ASSUME NEW s \in Snapshot, Pull(s)
      PROVE  Claims'
  <2>1. /\ \A q \in Snapshot : archived[q] # 0 => archived'[q] # 0
        /\ UNCHANGED <<modified, row, metaData, syncPoint, group, current, newest, missed>>
    BY <1>3 DEF Pull, TypeOK
  <2>2. \A q \in Snapshot : Kept(q) => Kept(q)'
    BY <2>1 DEF Kept, InGroup
  <2>3. QED
    BY <2>1, <2>2 DEF RowKept, RunKept, ClaimsRead, InGroup
<1>4. QED
  BY <1>1, <1>2, <1>3 DEF Environment

\* A row that the controller writes claims nothing.
LEMMA ControllerClaims ==
  ASSUME TypeOK, Claims, Controller
  PROVE  Claims'
<1> USE DEF Claims
<1>1. UNCHANGED <<modified, archived, metaData, syncPoint, group, current, newest, missed>>
  BY DEF Controller, InitController, LeavePage, UpdateSyncPoint, RestartSync, Cancel
<1>2. \A s \in Snapshot : Kept(s) => Kept(s)'
  BY <1>1 DEF Kept, InGroup
<1>3. RunKept'
  BY <1>1, <1>2 DEF RunKept, InGroup
<1>4. CASE UNCHANGED row
  BY <1>1, <1>2, <1>3, <1>4 DEF RowKept, ClaimsRead
<1>5. ASSUME NEW t \in NewSyncPoint, UpdateSyncPoint(t)
      PROVE  Claims'
  <2>1. row' = [sync |-> t, base |-> t, restore |-> form.restore]
    BY <1>5 DEF UpdateSyncPoint, TypeOK
  <2>2. row'.sync = t /\ row'.base = t
    BY <2>1
  <2>3. RowKept'
    BY <1>1, <2>2, BoundAssumption DEF RowKept, TypeOK
  <2>4. ClaimsRead'
    BY <1>1, <2>2, BoundAssumption DEF ClaimsRead
  <2>5. QED
    BY <1>3, <2>3, <2>4
<1>6. QED
  BY <1>4, <1>5 DEF Controller, InitController, LeavePage, RestartSync, Cancel

\* A run ends.
LEMMA EndKept ==
  ASSUME TypeOK, NEW r \in Run, Clear(r), NEW s \in Snapshot, Kept(s),
         missed \subseteq missed', Cut(r) \subseteq missed',
         UNCHANGED <<modified, archived>>
  PROVE  Kept(s)'
<1>1. \A q \in Run \ {r} :
        /\ syncPoint'[q] = syncPoint[q] /\ metaData'[q] = metaData[q]
        /\ group'[q] = group[q] /\ current'[q] = current[q]
  BY DEF Clear, TypeOK
<1>2. metaData[r].sync = syncPoint[r] /\ InGroup(r, s) => s \in missed'
  BY SnapshotAssumption DEF Cut, InGroup
<1>3. QED
  BY <1>1, <1>2 DEF Kept, InGroup

LEMMA EndClaims ==
  ASSUME TypeOK, Claims, NEW r \in Run, Clear(r),
         missed \subseteq missed', Cut(r) \subseteq missed',
         UNCHANGED <<modified, archived, row, newest>>
  PROVE  Claims'
<1> USE DEF Claims
<1>1. /\ syncPoint'[r] = 0 /\ metaData'[r].base = 0
      /\ \A q \in Run \ {r} :
            /\ syncPoint'[q] = syncPoint[q] /\ metaData'[q] = metaData[q]
            /\ group'[q] = group[q] /\ current'[q] = current[q]
  BY DEF Clear, TypeOK
<1>2. ASSUME NEW s \in Snapshot, Kept(s)
      PROVE  Kept(s)'
  BY <1>2, EndKept
<1>3. RowKept'
  BY <1>2 DEF RowKept
<1>4. RunKept'
  <2> SUFFICES ASSUME NEW q \in Run, NEW s \in Snapshot,
                      metaData'[q].base < modified[s], modified[s] <= syncPoint'[q]
               PROVE  Kept(s)' \/ InGroup(q, s)'
    BY DEF RunKept
  <2>1. q # r
    BY <1>1 DEF TypeOK
  <2>2. QED
    BY <1>1, <1>2, <2>1 DEF RunKept, InGroup
<1>5. ClaimsRead'
  <2>1. 0 <= newest
    BY DEF TypeOK
  <2>2. QED
    BY <1>1, <2>1 DEF ClaimsRead
<1>6. QED
  BY <1>3, <1>4, <1>5

\* A run starts, or reads a group.
LEMMA ReadKept ==
  ASSUME TypeOK, Locals, NEW r \in Run, OnTimeout(r) \/ ReadSyncData(r),
         NEW s \in Snapshot, Kept(s)
  PROVE  Kept(s)'
<1>1. ~ InGroup(r, s)
  BY SnapshotAssumption DEF OnTimeout, ReadSyncData, InGroup, TypeOK, Locals
<1>2. /\ \A q \in Run \ {r} :
            /\ syncPoint'[q] = syncPoint[q] /\ metaData'[q] = metaData[q]
            /\ group'[q] = group[q] /\ current'[q] = current[q]
      /\ UNCHANGED <<modified, archived, missed>>
  BY DEF OnTimeout, ReadSyncData, TypeOK
<1>3. QED
  BY <1>1, <1>2 DEF Kept, InGroup

LEMMA OnTimeoutClaims ==
  ASSUME TypeOK, Locals, Claims, NEW r \in Run, OnTimeout(r)
  PROVE  Claims'
<1> USE DEF Claims
<1> DEFINE start == IF row.sync > now THEN now ELSE row.sync
<1>1. /\ syncPoint'[r] = start
      /\ metaData'[r] = IF row.sync > now THEN [row EXCEPT !.base = now] ELSE row
      /\ \A q \in Run \ {r} : syncPoint'[q] = syncPoint[q] /\ metaData'[q] = metaData[q]
      /\ UNCHANGED <<modified, archived, row, group, current, newest, missed>>
  BY DEF OnTimeout, TypeOK
<1>2. CASE row.sync > now
  <2>1. syncPoint'[r] = now /\ metaData'[r].base = now
    BY <1>1, <1>2 DEF TypeOK
  <2>2. QED
    <3>1. \A s \in Snapshot : ~ InGroup(r, s)
      BY SnapshotAssumption DEF OnTimeout, InGroup, TypeOK, Locals
    <3>2. \A s \in Snapshot : Kept(s) => Kept(s)'
      BY ReadKept
    <3>3. RunKept'
      BY <1>1, <2>1, <3>2 DEF RunKept, InGroup, TypeOK
    <3>4. ClaimsRead'
      BY <1>1, <2>1 DEF ClaimsRead, TypeOK
    <3>5. QED
      BY <1>1, <3>2, <3>3, <3>4 DEF RowKept
<1>3. CASE ~(row.sync > now)
  <2>1. syncPoint'[r] = row.sync /\ metaData'[r] = row
    BY <1>1, <1>3
  <2>2. QED
    <3>1. \A s \in Snapshot : ~ InGroup(r, s)
      BY SnapshotAssumption DEF OnTimeout, InGroup, TypeOK, Locals
    <3>2. \A s \in Snapshot : Kept(s) => Kept(s)'
      BY ReadKept
    <3>3. RunKept'
      BY <1>1, <2>1, <3>2 DEF RunKept, RowKept, InGroup
    <3>4. ClaimsRead'
      BY <1>1, <2>1 DEF ClaimsRead
    <3>5. QED
      BY <1>1, <3>2, <3>3, <3>4 DEF RowKept
<1>4. QED
  BY <1>2, <1>3

\* All snapshots of a group have one $modified, and none lies between it and the
\* syncpoint it was read after.
LEMMA ReadSyncDataClaims ==
  ASSUME TypeOK, Locals, Claims, NEW r \in Run, ReadSyncData(r)
  PROVE  Claims'
<1> USE DEF Claims
<1>1. PICK first \in SyncGroup(syncPoint[r]) :
        /\ syncPoint' = [syncPoint EXCEPT ![r] = modified[first]]
        /\ newest' = IF modified[first] > newest THEN modified[first] ELSE newest
  BY DEF ReadSyncData
<1>2. /\ syncPoint'[r] = modified[first]
      /\ group'[r] = SyncGroup(syncPoint[r])
      /\ \A q \in Run \ {r} : syncPoint'[q] = syncPoint[q] /\ group'[q] = group[q]
      /\ UNCHANGED <<modified, archived, row, metaData, current, missed>>
  BY <1>1 DEF ReadSyncData, TypeOK
<1>3. newest' \in Time /\ newest <= newest' /\ modified[first] <= newest'
  BY <1>1 DEF SyncGroup, Later, TypeOK
<1>4. ASSUME NEW s \in Snapshot,
             modified[s] > syncPoint[r], modified[s] <= modified[first]
      PROVE  InGroup(r, s)'
  <2>1. modified[s] = modified[first] /\ s \in SyncGroup(syncPoint[r])
    <3>1. s \in Later(syncPoint[r])
      BY <1>4 DEF Later
    <3>2. \A q \in Later(syncPoint[r]) : modified[first] <= modified[q]
      BY <1>1 DEF SyncGroup
    <3>3. modified[s] \in Int /\ modified[first] \in Int
      BY <1>1 DEF SyncGroup, Later, TypeOK
    <3>4. modified[s] = modified[first]
      BY <1>4, <3>1, <3>2, <3>3
    <3>5. QED
      BY <3>1, <3>2, <3>4 DEF SyncGroup
  <2>2. QED
    BY <1>2, <2>1 DEF InGroup
<1>5. \A s \in Snapshot : ~ InGroup(r, s)
  BY SnapshotAssumption DEF ReadSyncData, InGroup, TypeOK, Locals
<1>6. \A s \in Snapshot : Kept(s) => Kept(s)'
  BY ReadKept
<1>7. RowKept'
  BY <1>2, <1>6 DEF RowKept
<1>8. RunKept'
  <2> SUFFICES ASSUME NEW q \in Run, NEW s \in Snapshot,
                      metaData[q].base < modified[s], modified[s] <= syncPoint'[q]
               PROVE  Kept(s)' \/ InGroup(q, s)'
    BY <1>2 DEF RunKept
  <2>1. CASE q # r
    BY <1>2, <1>6, <2>1 DEF RunKept, InGroup
  <2>2. CASE q = r /\ modified[s] > syncPoint[r]
    BY <1>2, <1>4, <2>2
  <2>3. CASE q = r /\ modified[s] <= syncPoint[r]
    BY <1>5, <1>6, <2>3 DEF RunKept
  <2>4. QED
    BY <2>1, <2>2, <2>3 DEF TypeOK
<1>9. ClaimsRead'
  <2>1. row.sync <= newest' \/ row.sync <= row.base
    BY <1>3 DEF ClaimsRead, TypeOK
  <2>2. ASSUME NEW q \in Run
        PROVE  syncPoint'[q] <= newest' \/ syncPoint'[q] <= metaData[q].base
    <3>1. CASE q = r
      BY <1>2, <1>3, <3>1
    <3>2. CASE q # r
      BY <1>2, <1>3, <3>2 DEF ClaimsRead, TypeOK
    <3>3. QED
      BY <3>1, <3>2
  <2>3. QED
    BY <1>2, <2>1, <2>2 DEF ClaimsRead
<1>10. QED
  BY <1>7, <1>8, <1>9

\* A snapshot is taken from the group, stored, or given up.
LEMMA DocumentFrame ==
  ASSUME TypeOK, Locals, NEW r \in Run,
         NextDocument(r) \/ SaveSnapshot(r) \/ SaveSnapshotFails(r)
  PROVE  /\ UNCHANGED <<modified, row, metaData, syncPoint, newest>>
         /\ \A q \in Run \ {r} : group'[q] = group[q] /\ current'[q] = current[q]
         /\ \A s \in Snapshot : archived[s] # 0 => archived'[s] # 0
         /\ missed \subseteq missed'
         /\ \A s \in Snapshot :
              InGroup(r, s) => archived'[s] # 0 \/ s \in missed' \/ InGroup(r, s)'
<1>1. /\ UNCHANGED <<modified, row, metaData, syncPoint, newest>>
      /\ \A q \in Run \ {r} : group'[q] = group[q] /\ current'[q] = current[q]
      /\ \A s \in Snapshot : archived[s] # 0 => archived'[s] # 0
      /\ missed \subseteq missed'
  BY DEF NextDocument, SaveSnapshot, SaveSnapshotFails, Stored, TypeOK, Locals
<1>2. ASSUME NEW s \in Snapshot, InGroup(r, s)
      PROVE  archived'[s] # 0 \/ s \in missed' \/ InGroup(r, s)'
  <2>1. CASE NextDocument(r)
    <3>1. PICK next \in group[r] :
            /\ group'[r] = group[r] \ {next}
            /\ archived[next] = 0 => current'[r] = next
      BY <2>1 DEF NextDocument, TypeOK
    <3>2. s # current[r]
      BY <2>1, SnapshotAssumption DEF NextDocument, TypeOK
    <3>3. QED
      BY <1>1, <1>2, <3>1, <3>2 DEF InGroup
  <2>2. CASE SaveSnapshot(r)
    <3>1. s = current[r] => archived'[s] # 0
      BY <2>2 DEF SaveSnapshot, Stored, TypeOK, Locals
    <3>2. QED
      BY <1>1, <1>2, <2>2, <3>1 DEF SaveSnapshot, InGroup
  <2>3. CASE SaveSnapshotFails(r)
    BY <1>1, <1>2, <2>3 DEF SaveSnapshotFails, InGroup
  <2>4. QED
    BY <2>1, <2>2, <2>3
<1>3. QED
  BY <1>1, <1>2

LEMMA DocumentKept ==
  ASSUME TypeOK, Locals, NEW r \in Run,
         NextDocument(r) \/ SaveSnapshot(r) \/ SaveSnapshotFails(r),
         NEW s \in Snapshot, Kept(s)
  PROVE  Kept(s)'
<1>1. ASSUME NEW q \in Run, metaData[q].sync = syncPoint[q], InGroup(q, s)
      PROVE  Kept(s)'
  BY <1>1, DocumentFrame DEF Kept, InGroup
<1>2. QED
  BY <1>1, DocumentFrame, KeptStays

LEMMA DocumentClaims ==
  ASSUME TypeOK, Locals, Claims, NEW r \in Run,
         NextDocument(r) \/ SaveSnapshot(r) \/ SaveSnapshotFails(r)
  PROVE  Claims'
<1> USE DEF Claims
<1>1. /\ UNCHANGED <<modified, row, metaData, syncPoint, newest>>
      /\ \A q \in Run \ {r} : group'[q] = group[q] /\ current'[q] = current[q]
  BY DocumentFrame
<1>2. ASSUME NEW s \in Snapshot, InGroup(r, s)
      PROVE  archived'[s] # 0 \/ s \in missed' \/ InGroup(r, s)'
  BY <1>2, DocumentFrame
<1>3. ASSUME NEW s \in Snapshot, Kept(s)
      PROVE  Kept(s)'
  BY <1>3, DocumentKept
<1>4. RowKept'
  BY <1>1, <1>3 DEF RowKept
<1>5. RunKept'
  <2> SUFFICES ASSUME NEW q \in Run, NEW s \in Snapshot,
                      metaData[q].base < modified[s], modified[s] <= syncPoint[q]
               PROVE  Kept(s)' \/ InGroup(q, s)'
    BY <1>1 DEF RunKept
  <2>1. Kept(s) \/ InGroup(q, s)
    BY DEF RunKept
  <2>2. CASE InGroup(q, s)
    BY <1>1, <1>2, <2>2 DEF Kept, InGroup
  <2>3. QED
    BY <1>3, <2>1, <2>2
<1>6. ClaimsRead'
  BY <1>1 DEF ClaimsRead
<1>7. QED
  BY <1>4, <1>5, <1>6

\* The row takes over what the run claims; the rest of its group is missed when the
\* run is canceled here.
LEMMA SaveMetadataKept ==
  ASSUME TypeOK, Locals, NEW r \in Run, SaveMetadata(r),
         NEW s \in Snapshot, InGroup(r, s) \/ Kept(s)
  PROVE  Kept(s)'
<1>1. /\ UNCHANGED <<modified, archived>>
      /\ InGroup(r, s) => s \in group[r]
  BY SnapshotAssumption DEF SaveMetadata, InGroup, TypeOK
<1>2. CASE status = "canceled"
  <2>1. /\ missed' = missed \union group[r]
        /\ \A q \in Run \ {r} :
              /\ syncPoint'[q] = syncPoint[q] /\ metaData'[q] = metaData[q]
              /\ group'[q] = group[q] /\ current'[q] = current[q]
    BY <1>2 DEF SaveMetadata, Clear, TypeOK
  <2>2. QED
    BY <1>1, <2>1 DEF Kept, InGroup
<1>3. CASE status # "canceled"
  <2>1. /\ metaData'[r] = [metaData[r] EXCEPT !.sync = syncPoint[r]]
        /\ metaData'[r].sync = syncPoint[r]
        /\ \A q \in Run \ {r} : metaData'[q] = metaData[q]
        /\ UNCHANGED <<syncPoint, group, current, missed>>
    BY <1>3 DEF SaveMetadata, TypeOK
  <2>2. QED
    BY <1>1, <2>1 DEF Kept, InGroup
<1>4. QED
  BY <1>2, <1>3

LEMMA SaveMetadataClaims ==
  ASSUME TypeOK, Locals, Claims, NEW r \in Run, SaveMetadata(r)
  PROVE  Claims'
<1> USE DEF Claims
<1>1. /\ row' = [sync |-> syncPoint[r], base |-> metaData[r].base,
                 restore |-> metaData[r].restore]
      /\ row' = [metaData[r] EXCEPT !.sync = syncPoint[r]]
  BY DEF SaveMetadata, TypeOK
<1>2. /\ row'.sync = syncPoint[r] /\ row'.base = metaData[r].base
      /\ UNCHANGED <<modified, archived, newest>>
  BY <1>1 DEF SaveMetadata
<1>3. CASE status = "canceled"
  <2>1. /\ syncPoint'[r] = 0 /\ metaData'[r].base = 0
        /\ missed' = missed \union group[r]
        /\ \A q \in Run \ {r} :
              /\ syncPoint'[q] = syncPoint[q] /\ metaData'[q] = metaData[q]
              /\ group'[q] = group[q] /\ current'[q] = current[q]
    BY <1>3 DEF SaveMetadata, Clear, TypeOK
  <2>2. \A s \in Snapshot : InGroup(r, s) \/ Kept(s) => Kept(s)'
    BY SaveMetadataKept
  <2>3. RowKept'
    BY <1>2, <2>2 DEF RowKept, RunKept
  <2>4. RunKept'
    <3> SUFFICES ASSUME NEW q \in Run, NEW s \in Snapshot,
                        metaData'[q].base < modified[s], modified[s] <= syncPoint'[q]
                 PROVE  Kept(s)' \/ InGroup(q, s)'
      BY <1>2 DEF RunKept
    <3>1. q # r
      BY <2>1 DEF TypeOK
    <3>2. QED
      BY <1>2, <2>1, <2>2, <3>1 DEF RunKept, InGroup
  <2>5. ClaimsRead'
    <3>1. 0 <= newest
      BY DEF TypeOK
    <3>2. QED
      BY <1>2, <2>1, <3>1 DEF ClaimsRead
  <2>6. QED
    BY <2>3, <2>4, <2>5
<1>4. CASE status # "canceled"
  <2>1. /\ metaData'[r] = row'
        /\ \A q \in Run \ {r} : metaData'[q] = metaData[q]
        /\ UNCHANGED <<syncPoint, group, current, missed>>
    BY <1>1, <1>4 DEF SaveMetadata, TypeOK
  <2>2. \A s \in Snapshot : InGroup(r, s) \/ Kept(s) => Kept(s)'
    BY SaveMetadataKept
  <2>3. RowKept'
    BY <1>2, <2>2 DEF RowKept, RunKept
  <2>4. RunKept'
    BY <1>2, <2>1, <2>2 DEF RunKept, InGroup
  <2>5. ClaimsRead'
    BY <1>2, <2>1 DEF ClaimsRead
  <2>6. QED
    BY <2>3, <2>4, <2>5
<1>5. QED
  BY <1>3, <1>4

\* All runs end at once.
LEMMA RestartKept ==
  ASSUME TypeOK, Restart, NEW s \in Snapshot, Kept(s)
  PROVE  Kept(s)'
<1>1. /\ UNCHANGED <<modified, archived>>
      /\ missed \subseteq missed'
      /\ \A r \in Run : Cut(r) \subseteq missed'
  BY DEF Restart
<1>2. ASSUME NEW r \in Run, metaData[r].sync = syncPoint[r], InGroup(r, s)
      PROVE  s \in missed'
  BY <1>1, <1>2, SnapshotAssumption DEF Cut, InGroup
<1>3. QED
  BY <1>1, <1>2 DEF Kept

LEMMA RestartClaims ==
  ASSUME TypeOK, Claims, Restart
  PROVE  Claims'
<1> USE DEF Claims
<1>1. /\ UNCHANGED <<modified, archived, row, newest>>
      /\ missed \subseteq missed'
      /\ \A r \in Run : Cut(r) \subseteq missed' /\ syncPoint'[r] = 0
      /\ \A r \in Run : metaData'[r].base = 0
  BY DEF Restart
<1>2. ASSUME NEW s \in Snapshot, Kept(s)
      PROVE  Kept(s)'
  BY <1>2, RestartKept
<1>3. RowKept'
  BY <1>1, <1>2 DEF RowKept
<1>4. RunKept'
  BY <1>1 DEF RunKept, TypeOK
<1>5. ClaimsRead'
  <2>1. 0 <= newest
    BY DEF TypeOK
  <2>2. QED
    BY <1>1, <2>1 DEF ClaimsRead
<1>6. QED
  BY <1>3, <1>4, <1>5

-----------------------------------------------------------------------------
LEMMA RunResyncInv ==
  ASSUME ResyncInv, NEW r \in Run, OnTimeout(r) \/ Step(r)
  PROVE  ResyncInv'
<1> USE DEF ResyncInv
<1>1. TypeOK' /\ Locals'
  BY ReadTyping, GroupTyping DEF Step
<1>2. CASE OnTimeout(r)
  BY <1>1, <1>2, OnTimeoutClaims DEF Claims
<1>3. CASE ReadSyncData(r)
  BY <1>1, <1>3, ReadSyncDataClaims DEF Claims
<1>4. CASE NextDocument(r) \/ SaveSnapshot(r) \/ SaveSnapshotFails(r)
  BY <1>1, <1>4, DocumentClaims DEF Claims
<1>5. CASE SaveMetadata(r)
  BY <1>1, <1>5, SaveMetadataClaims DEF Claims
<1>6. CASE NoMoreData(r) \/ ReadSyncDataFails(r)
  <2>1. Cut(r) = {}
    BY <1>6 DEF NoMoreData, ReadSyncDataFails, Cut, TypeOK, Locals
  <2>2. QED
    BY <1>1, <1>6, <2>1, EndClaims DEF NoMoreData, ReadSyncDataFails, Claims
<1>7. CASE CheckStatus(r)
  <2>1. Cut(r) = {}
    BY <1>7 DEF CheckStatus, Cut, TypeOK, Locals
  <2>2. CASE status = "canceled"
    BY <1>1, <1>7, <2>1, <2>2, EndClaims DEF CheckStatus, Claims
  <2>3. CASE status # "canceled"
    BY <1>1, <1>7, <2>3
       DEF CheckStatus, RowKept, RunKept, ClaimsRead, Kept, InGroup
  <2>4. QED
    BY <2>2, <2>3
<1>8. CASE Abort(r)
  BY <1>1, <1>8, EndClaims DEF Abort, Claims
<1>9. QED
  BY <1>2, <1>3, <1>4, <1>5, <1>6, <1>7, <1>8 DEF Step

LEMMA NextResyncInv == ResyncInv /\ [Next]_vars => ResyncInv'
<1> SUFFICES ASSUME ResyncInv, [Next]_vars
             PROVE  ResyncInv'
  OBVIOUS
<1> USE DEF ResyncInv
<1>1. CASE Environment
  BY <1>1, EnvironmentTyping, EnvironmentClaims DEF Claims
<1>2. CASE Controller
  BY <1>2, ControllerTyping, ControllerClaims DEF Claims
<1>3. ASSUME NEW r \in Run, OnTimeout(r) \/ Step(r)
      PROVE  ResyncInv'
  BY <1>3, RunResyncInv
<1>4. CASE Restart
  BY <1>4, RestartTyping, RestartClaims DEF Claims
<1>5. CASE UNCHANGED vars
  BY <1>5 DEF vars, TypeOK, Locals, RowKept, RunKept, ClaimsRead, Kept, InGroup
<1>6. QED
  BY <1>1, <1>2, <1>3, <1>4, <1>5 DEF Next

\* The type invariant: a run that takes or stores a snapshot has one, for any number of
\* runs (ResyncService.onTimeout).
THEOREM ResyncTyping == Spec => []TypeOK
<1>1. ResyncInv => TypeOK
  BY DEF ResyncInv
<1>2. QED
  BY InitResyncInv, NextResyncInv, <1>1, PTL DEF Spec

\* The syncpoint is sound: a snapshot it has passed is archived, waits in the group of
\* a run, or was left out for a reason, whatever runs overlap, are canceled, fail or are
\* killed, and whichever of them wrote the metadata row last (ResyncService.onTimeout,
\* ResyncController.updateSyncPoint, getDocumentsBySyncPoint).
THEOREM SyncPointIsSound == Spec => []SyncPointSound
<1>1. ResyncInv => SyncPointSound
  BY DEF ResyncInv, RowKept, Kept, InGroup, SyncPointSound, Pending
<1>2. QED
  BY InitResyncInv, NextResyncInv, <1>1, PTL DEF Spec

=============================================================================
