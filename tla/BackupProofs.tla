----------------------------- MODULE BackupProofs -----------------------------
(* Proofs about Backup, for any number of workitems, saves, failures, starts   *)
(* and restarts.                                                           *)
EXTENDS Backup, FiniteSetTheorems, TLAPS

\* The workflow server keeps the latest snapshot only: this is its default.
OneSnapshot == LocalHistory = 1 /\ ~Refusals

LocalIsLatest == local = { Latest(w) : w \in Present }

\* Entries and files are of snapshots that exist or have existed.
NothingAhead ==
    /\ \A e \in Entry : InLog(e) \/ e \in batch \/ e = entry => e[1][2] <= saves[e[1][1]]
    /\ \A s \in page : s[2] <= saves[s[1]]
    /\ \A w \in Workitem : file[w].saved <= saves[w]

Asked(w) == w \in Present /\ saves[w] >= FirstAsked[w]

\* A file of the latest snapshot that was not broken off, or its entry.
HasFile(w) == file[w].saved = saves[w] /\ file[w].content # "partial"
FileOrQueued ==
    \A w \in Present :
        saves[w] >= FirstAsked[w] => HasFile(w) \/ InLog(<<Latest(w), 0>>)

\* A file or a snapshot in hand has four items only when a full backup began to query
\* while pullSnapshot was reading.
CutIsOverlapped ==
    /\ \A w \in Workitem :
         file[w].content = "cut" => <<w, file[w].saved>> \in overlapped
    /\ pulled = "cut" => entry[1] \in overlapped
    /\ label = "get" /\ shared /\ items # "all" => entry[1] \in overlapped

\* An entry in progress is in the event log: BackupService alone deletes it.
HeldIsInLog == entry # None => InLog(entry)

\* A snapshot about to be written is not older than the file, and when the workitem was
\* saved since it was pulled, that save has its entry; once it is written, its own
\* entry is not needed any more.
HeldIsCovered ==
    /\ label = "put" =>
        LET w == entry[1][1]
        IN  /\ file[w].saved <= entry[1][2]
            /\ Asked(w) => entry[1] = Latest(w) \/ InLog(<<Latest(w), 0>>)
    /\ label = "delete" =>
        LET w == entry[1][1]
        IN  Asked(w) =>
              \/ HasFile(w)
              \/ InLog(<<Latest(w), 0>>) /\ entry # <<Latest(w), 0>>

BackupInv ==
    /\ TypeOK
    /\ LocalIsLatest
    /\ NothingAhead
    /\ FileOrQueued
    /\ HeldIsInLog
    /\ HeldIsCovered

-----------------------------------------------------------------------------
USE DEF server, counters, locals, full

\* A snapshot is a workitem and the number of its save, an entry a snapshot and a copy.
LEMMA Pairs ==
  /\ \A s \in Snapshot :
       s = <<s[1], s[2]>> /\ s[1] \in Workitem /\ s[2] \in 1 .. MaxSaves[s[1]]
  /\ \A w \in Workitem : \A n \in 1 .. MaxSaves[w] : <<w, n>> \in Snapshot
  /\ \A e \in Entry : e = <<e[1], e[2]>> /\ e[1] \in Snapshot /\ e[2] \in 0 .. MaxCopies
  /\ \A s \in Snapshot : \A c \in 0 .. MaxCopies : <<s, c>> \in Entry
  /\ \A s \in Snapshot : s[2] \in Nat \ {0}
  /\ 0 \in 0 .. MaxCopies
<1>1. MaxSaves \in [Workitem -> Nat \ {0}] /\ MaxCopies \in Nat
  BY BackupBounds
<1>2. \A s \in Snapshot :
        s = <<s[1], s[2]>> /\ s[1] \in Workitem /\ s[2] \in 1 .. MaxSaves[s[1]]
  BY DEF Snapshot
<1>3. \A w \in Workitem : \A n \in 1 .. MaxSaves[w] : <<w, n>> \in Snapshot
  BY DEF Snapshot
<1>4. QED
  BY <1>1, <1>2, <1>3 DEF Entry

LEMMA Leq == \A i, j, k \in Nat : i <= j /\ j <= k => i <= k
OBVIOUS

LEMMA PresentHasLatest ==
  ASSUME TypeOK, NEW w \in Present
  PROVE  Latest(w) \in Snapshot /\ Latest(w)[1] = w /\ Latest(w)[2] = saves[w]
BY Pairs, BackupBounds DEF TypeOK, Present, Latest

LEMMA PageIsLatest ==
  ASSUME QueryDocuments
  PROVE  page' \subseteq { Latest(w) : w \in Present }
<1>1. PICK result \in SUBSET FirstPage(After(syncPoint)) :
        page' = {} \/ page' = { Latest(w) : w \in result }
  BY DEF QueryDocuments, StopFull
<1>2. result \subseteq Present
  BY <1>1 DEF FirstPage, After
<1>3. QED
  BY <1>1, <1>2

LEMMA InitBackupInv == Init => BackupInv
<1> SUFFICES ASSUME Init
             PROVE  BackupInv
  OBVIOUS
<1>1. TypeOK
  <2>1. \A w \in Workitem : saves[w] \in Nat /\ saves[w] <= MaxSaves[w]
    BY BackupBounds DEF Init
  <2>2. local \subseteq Snapshot
    BY Pairs, CreatedAssumption, BackupBounds DEF Init
  <2>3. failures \in 0 .. MaxFailures /\ crashes \in 0 .. MaxCrashes /\ starts \in 0 .. MaxStarts
    BY BackupBounds DEF Init
  <2>4. QED
    BY <2>1, <2>2, <2>3 DEF Init, TypeOK, EventStatus, Labels
<1>2. LocalIsLatest
  BY CreatedAssumption DEF Init, LocalIsLatest, Latest, Present
<1>3. NothingAhead
  BY NoEntry DEF Init, NothingAhead, InLog, NoFile
<1>4. FileOrQueued /\ HeldIsInLog /\ HeldIsCovered
  BY DEF Init, FileOrQueued, HeldIsInLog, HeldIsCovered, FirstAsked, Present
<1>5. QED
  BY <1>1, <1>2, <1>3, <1>4 DEF BackupInv

-----------------------------------------------------------------------------
(* Types *)

LEMMA ServerTyping ==
  /\ \A w \in Workitem : TypeOK /\ (OnSave(w) \/ OnDelete(w)) => TypeOK'
  /\ \A e \in Entry : TypeOK /\ LockExpires(e) => TypeOK'
<1>1. ASSUME NEW w \in Workitem, TypeOK, OnSave(w)
      PROVE  TypeOK'
  <2> DEFINE s == <<w, saves[w] + 1>>
  <2>1. saves[w] + 1 \in 1 .. MaxSaves[w] /\ s \in Snapshot
    <3>1. saves[w] \in Nat /\ saves[w] < MaxSaves[w] /\ MaxSaves[w] \in Nat
      BY <1>1, BackupBounds DEF OnSave, TypeOK
    <3>2. saves[w] + 1 \in 1 .. MaxSaves[w]
      BY <3>1
    <3>3. QED
      BY <3>2, Pairs
  <2>2. saves' \in [Workitem -> Nat] /\ \A u \in Workitem : saves'[u] <= MaxSaves[u]
    BY <1>1, <2>1, BackupBounds DEF OnSave, TypeOK
  <2>3. local' \subseteq Snapshot
    BY <1>1, <2>1 DEF OnSave, TypeOK
  <2>4. <<s, 0>> \in Entry /\ event' \in [Entry -> EventStatus]
    BY <1>1, <2>1, Pairs DEF OnSave, TypeOK, EventStatus
  <2>5. QED
    BY <1>1, <2>2, <2>3, <2>4 DEF OnSave, TypeOK
<1>2. ASSUME NEW w \in Workitem, TypeOK, OnDelete(w)
      PROVE  TypeOK'
  BY <1>2 DEF OnDelete, TypeOK
<1>3. ASSUME NEW e \in Entry, TypeOK, LockExpires(e)
      PROVE  TypeOK'
  BY <1>3 DEF LockExpires, TypeOK, EventStatus
<1>4. QED
  BY <1>1, <1>2, <1>3

LEMMA Counted ==
  ASSUME TypeOK
  PROVE  /\ Fail => failures' \in 0 .. MaxFailures /\ crashes' = crashes /\ starts' = starts
         /\ ByUser => starts' \in 0 .. MaxStarts /\ crashes' = crashes /\ failures' = failures
BY BackupBounds DEF TypeOK, Fail, ByUser

LEMMA StepTyping == TypeOK /\ BackupStep => TypeOK'
<1> SUFFICES ASSUME TypeOK, BackupStep
             PROVE  TypeOK'
  OBVIOUS
<1>1. CASE OnTimeout
  <2>1. event' \in [Entry -> EventStatus]
    BY <1>1 DEF OnTimeout, TypeOK, EventStatus, Released
  <2>2. QED
    BY <1>1, <2>1 DEF OnTimeout, TypeOK, Labels
<1>2. CASE SearchEventLog
  BY <1>2 DEF SearchEventLog, TypeOK, Labels
<1>3. CASE LockEntry
  <2>1. PICK e \in batch : entry' = e /\ batch' = batch \ {e}
                             /\ event' = [event EXCEPT ![e] = "locked"]
    BY <1>3 DEF LockEntry
  <2>2. QED
    BY <1>3, <2>1, NoEntry DEF LockEntry, TypeOK, Labels, EventStatus
<1>4. CASE ResetItems
  BY <1>4 DEF ResetItems, TypeOK, Labels
<1>5. CASE GetDocument
  BY <1>5 DEF GetDocument, TypeOK, Labels, Content
<1>6. CASE DocumentNotFound
  <2>1. entry \in Entry /\ event' \in [Entry -> EventStatus]
    BY <1>6 DEF DocumentNotFound, TypeOK, EventStatus
  <2>2. QED
    BY <1>6, <2>1 DEF DocumentNotFound, EndEntry, TypeOK, Labels
<1>7. CASE Put
  <2>1. entry \in Entry /\ entry[1] \in Snapshot /\ entry[1][2] \in Nat \ {0}
    BY <1>7, Pairs DEF Put, TypeOK
  <2>2. Stored(entry[1], pulled) \in [saved : Nat \ {0}, content : Contents]
    BY <1>7, <2>1 DEF Put, Stored, TypeOK, Contents
  <2>3. file' \in [Workitem -> {NoFile} \union [saved : Nat \ {0}, content : Contents]]
    BY <1>7, <2>2 DEF Put, TypeOK
  <2>4. QED
    BY <1>7, <2>3 DEF Put, TypeOK, Labels
<1>8. CASE DeleteEntry
  <2>1. entry \in Entry /\ event' \in [Entry -> EventStatus]
    BY <1>8 DEF DeleteEntry, TypeOK, EventStatus
  <2>2. QED
    BY <1>8, <2>1 DEF DeleteEntry, EndEntry, TypeOK, Labels
<1>9. CASE EndTimeout
  BY <1>9 DEF EndTimeout, EndRun, TypeOK, Labels
<1>10. QED
  BY <1>1, <1>2, <1>3, <1>4, <1>5, <1>6, <1>7, <1>8, <1>9 DEF BackupStep

\* A part of a file has the type of a file.
LEMMA BrokenTyping ==
  ASSUME TypeOK, label = "put", NEW w,
         file' = [file EXCEPT ![w] = Stored(entry[1], "partial")]
  PROVE  file' \in [Workitem -> {NoFile} \union [saved : Nat \ {0}, content : Contents]]
<1>1. entry \in Entry /\ entry[1] \in Snapshot /\ entry[1][2] \in Nat \ {0}
  BY Pairs DEF TypeOK
<1>2. Stored(entry[1], "partial") \in [saved : Nat \ {0}, content : Contents]
  BY <1>1 DEF Stored, Contents
<1>3. QED
  BY <1>2 DEF TypeOK

LEMMA TroubleTyping == TypeOK /\ Trouble => TypeOK'
<1> SUFFICES ASSUME TypeOK, Trouble
             PROVE  TypeOK'
  OBVIOUS
<1>1. CASE RestartScheduler
  BY <1>1, Counted DEF RestartScheduler, EndRun, TypeOK, Labels
<1>2. CASE LockFails
  BY <1>2, Counted DEF LockFails, TypeOK
<1>3. CASE PutFails
  <2>1. file' \in [Workitem -> {NoFile} \union [saved : Nat \ {0}, content : Contents]]
    BY <1>3, BrokenTyping DEF PutFails, TypeOK
  <2>2. QED
    BY <1>3, <2>1, Counted DEF PutFails, EndEntry, TypeOK, Labels
<1>4. CASE EntryFails
  BY <1>4, Counted DEF EntryFails, EndEntry, TypeOK, Labels
<1>5. CASE FullFails
  BY <1>5, Counted DEF FullFails, StopFull, TypeOK
<1>6. CASE LoginFails
  BY <1>6, Counted DEF LoginFails, TypeOK
<1>7. CASE Restart
  <2>1. file' \in [Workitem -> {NoFile} \union [saved : Nat \ {0}, content : Contents]]
    BY <1>7, BrokenTyping DEF Restart, TypeOK
  <2>2. crashes' \in 0 .. MaxCrashes
    BY <1>7, BackupBounds DEF Restart, TypeOK
  <2>3. QED
    BY <1>7, <2>1, <2>2 DEF Restart, EndRun, StopFull, TypeOK, Labels
<1>8. QED
  BY <1>1, <1>2, <1>3, <1>4, <1>5, <1>6, <1>7 DEF Trouble

LEMMA FullTyping == TypeOK /\ (FullStep \/ User) => TypeOK'
<1> SUFFICES ASSUME TypeOK, FullStep \/ User
             PROVE  TypeOK'
  OBVIOUS
<1>1. CASE FullTimeout
  <2>1. label = "get" => entry[1] \in Snapshot
    BY Pairs DEF TypeOK
  <2>2. overlapped' \subseteq Snapshot
    BY <1>1, <2>1 DEF FullTimeout, TypeOK
  <2>3. QED
    BY <1>1, <2>2 DEF FullTimeout, TypeOK
<1>2. CASE QueryDocuments
  <2>1. page' \subseteq { Latest(w) : w \in Present }
    BY <1>2, PageIsLatest
  <2>2. page' \subseteq Snapshot
    BY <2>1, PresentHasLatest
  <2>3. QED
    BY <1>2, <2>2 DEF QueryDocuments, StopFull, TypeOK
<1>3. CASE CreateRequest
  <2>1. PICK s \in page, c \in 1 .. MaxCopies :
          event' = [event EXCEPT ![<<s, c>>] = "queued"] /\ page' = page \ {s}
            /\ IF page' = {}
               THEN syncPoint' = Created[s[1]] /\ fullLabel' = "idle"
               ELSE UNCHANGED <<syncPoint, fullLabel>>
    BY <1>3 DEF CreateRequest
  <2>2. s \in Snapshot /\ Created[s[1]] \in Nat
    BY <2>1, Pairs, CreatedAssumption DEF TypeOK
  <2>3. event' \in [Entry -> EventStatus]
    BY <2>1 DEF TypeOK, EventStatus
  <2>4. syncPoint' \in Nat /\ fullLabel' \in {"idle", "query", "create"}
    BY <2>1, <2>2 DEF TypeOK
  <2>5. page' \subseteq Snapshot
    BY <2>1 DEF TypeOK
  <2>6. QED
    BY <1>3, <2>3, <2>4, <2>5 DEF CreateRequest, TypeOK
<1>4. CASE StartScheduler \/ StopScheduler
  BY <1>4, Counted DEF StartScheduler, StopScheduler, TypeOK
<1>5. CASE StartFullBackup
  BY <1>5, Counted DEF StartFullBackup, TypeOK
<1>6. CASE StopFullBackup
  BY <1>6, Counted DEF StopFullBackup, StopFull, TypeOK
<1>7. QED
  BY <1>1, <1>2, <1>3, <1>4, <1>5, <1>6 DEF FullStep, User

LEMMA NextTyping == TypeOK /\ [Next]_vars => TypeOK'
<1> SUFFICES ASSUME TypeOK, [Next]_vars
             PROVE  TypeOK'
  OBVIOUS
<1>1. CASE UNCHANGED vars
  BY <1>1 DEF vars, TypeOK
<1>2. QED
  BY <1>1, ServerTyping, StepTyping, TroubleTyping, FullTyping DEF Next

\* The variables of the backup application, of its event log and of its files keep
\* their types: BackupService.onTimeout never writes a file without a snapshot in hand.
THEOREM BackupTyping == Spec => []TypeOK
<1>1. Init => TypeOK
  BY InitBackupInv DEF BackupInv
<1>2. QED
  BY <1>1, NextTyping, PTL DEF Spec

-----------------------------------------------------------------------------
(* The latest snapshot is in the file or asked for *)

\* An old snapshot is the only older one, and removed with the save.
LEMMA OneIsKept ==
  ASSUME OneSnapshot, BackupInv, NEW w \in Workitem, OnSave(w)
  PROVE  /\ saves[w] + 1 \in 1 .. MaxSaves[w]
         /\ Present' = Present \union {w}
         /\ LocalIsLatest'
<1> DEFINE s == <<w, saves[w] + 1>>
<1>1. saves[w] \in Nat /\ saves[w] + 1 \in 1 .. MaxSaves[w]
  <2>1. saves[w] \in Nat /\ saves[w] < MaxSaves[w] /\ MaxSaves[w] \in Nat
    BY BackupBounds DEF OnSave, BackupInv, TypeOK
  <2>2. QED
    BY <2>1
<1>2. Present' = Present \union {w}
  BY <1>1 DEF OnSave, Present, BackupInv, TypeOK
<1>3. Older(s) = IF w \in Present THEN {Latest(w)} ELSE {}
  <2>1. ASSUME NEW t \in local, t[1] = w
        PROVE  w \in Present /\ t = Latest(w)
    BY <2>1 DEF BackupInv, LocalIsLatest, Latest
  <2>2. ASSUME w \in Present
        PROVE  Latest(w) \in local /\ Latest(w)[1] = w /\ Latest(w)[2] < s[2]
    BY <2>2, <1>1 DEF BackupInv, LocalIsLatest, Latest
  <2>3. QED
    BY <2>1, <2>2 DEF Older
<1>4. Deprecated(s) = Older(s)
  <2>1. ASSUME NEW t \in Older(s)
        PROVE  Cardinality(Older(s) \ Older(t)) >= LocalHistory
    <3>1. t \notin Older(t)
      <4>1. t = Latest(w) /\ t[2] = saves[w]
        BY <1>3, <2>1 DEF Latest
      <4>2. QED
        BY <4>1, <1>1 DEF Older
    <3>2. Older(s) = {t}
      BY <1>3, <2>1
    <3>3. Older(s) \ Older(t) = {t}
      BY <3>1, <3>2
    <3>4. Cardinality({t}) = 1
      BY FS_Singleton
    <3>5. QED
      BY <3>3, <3>4 DEF OneSnapshot
  <2>2. QED
    BY <2>1 DEF Deprecated, OneSnapshot
<1>5. local' = (local \union {s}) \ Older(s)
  BY <1>4 DEF OnSave, OneSnapshot
<1>6. ASSUME NEW u \in Workitem, u # w
      PROVE  Latest(u)' = Latest(u)
  BY <1>6 DEF OnSave, Latest, BackupInv, TypeOK
<1>7. Latest(w)' = s
  BY <1>1 DEF OnSave, Latest, BackupInv, TypeOK
<1>8. local' = { Latest(u)' : u \in Present \union {w} }
  <2>1. Present \subseteq Workitem
    BY DEF Present
  <2>2. local = { Latest(u) : u \in Present }
    BY DEF BackupInv, LocalIsLatest
  <2>3. ASSUME NEW t \in local'
        PROVE  t \in { Latest(u)' : u \in Present \union {w} }
    <3>1. CASE t = s
      BY <3>1, <1>7
    <3>2. CASE t # s
      <4>1. t \in local /\ t \notin Older(s)
        BY <3>2, <2>3, <1>5
      <4>2. PICK u \in Present : t = Latest(u)
        BY <4>1, <2>2
      <4>3. u # w
        BY <4>1, <4>2, <1>3
      <4>4. QED
        BY <4>2, <4>3, <1>6, <2>1
    <3>3. QED
      BY <3>1, <3>2
  <2>4. ASSUME NEW u \in Present \union {w}
        PROVE  Latest(u)' \in local'
    <3>1. CASE u = w
      <4>1. s \notin Older(s)
        BY <1>1 DEF Older
      <4>2. QED
        BY <3>1, <4>1, <1>7, <1>5
    <3>2. CASE u # w
      <4>1. u \in Workitem /\ Latest(u) \in local /\ Latest(u)[1] = u
        BY <3>2, <2>1, <2>2 DEF Latest
      <4>2. Latest(u) \notin Older(s)
        BY <4>1, <3>2 DEF Older
      <4>3. QED
        BY <4>1, <4>2, <3>2, <1>5, <1>6
    <3>3. QED
      BY <3>1, <3>2
  <2>5. QED
    BY <2>3, <2>4
<1>9. QED
  BY <1>1, <1>2, <1>8 DEF LocalIsLatest

\* What is known of the other workitems stays known.
LEMMA SaveKeeps ==
  ASSUME OneSnapshot, BackupInv, NEW w \in Workitem, OnSave(w)
  PROVE  BackupInv'
<1> DEFINE s == <<w, saves[w] + 1>>
<1>1. TypeOK' /\ LocalIsLatest'
  BY ServerTyping, OneIsKept DEF BackupInv
<1>2. saves[w] \in Nat /\ s \in Snapshot /\ <<s, 0>> \in Entry /\ s[2] > saves[w]
  BY OneIsKept, Pairs DEF BackupInv, TypeOK
<1>3. \A u \in Workitem : saves[u] \in Nat /\ saves'[u] \in Nat /\ saves[u] <= saves'[u]
  <2>1. \A u \in Workitem : saves[u] \in Nat /\ (saves'[u] = saves[u] \/ saves'[u] = saves[u] + 1)
    BY <1>2 DEF OnSave, BackupInv, TypeOK
  <2>2. QED
    BY <2>1
<1>4. \A e \in Entry : InLog(e)' <=> InLog(e) \/ e = <<s, 0>>
  BY <1>2 DEF OnSave, InLog, BackupInv, TypeOK
<1>5. /\ Latest(w)' = s
      /\ \A u \in Workitem : u # w => Latest(u)' = Latest(u) /\ (Asked(u)' <=> Asked(u))
      /\ \A u \in Workitem : u # w => saves'[u] = saves[u]
  BY <1>2 DEF OnSave, Latest, Asked, Present, FirstAsked, BackupInv, TypeOK
<1>6. NothingAhead'
  <2>1. ASSUME NEW e \in Entry, InLog(e)' \/ e \in batch \/ e = entry
        PROVE  e[1][2] <= saves'[e[1][1]]
    <3>1. e[1][1] \in Workitem /\ e[1][2] \in Nat
      BY Pairs
    <3>2. CASE e = <<s, 0>>
      BY <3>2, <1>2 DEF OnSave, BackupInv, TypeOK
    <3>3. CASE e # <<s, 0>>
      <4>1. e[1][2] <= saves[e[1][1]]
        BY <3>3, <2>1, <1>4 DEF BackupInv, NothingAhead
      <4>2. QED
        BY <4>1, <3>1, <1>3, Leq
    <3>4. QED
      BY <3>2, <3>3
  <2>2. \A t \in page : t[2] <= saves'[t[1]]
    <3>1. ASSUME NEW t \in page
          PROVE  t[2] <= saves'[t[1]]
      <4>1. t[1] \in Workitem /\ t[2] \in Nat /\ t[2] <= saves[t[1]]
        BY Pairs DEF BackupInv, TypeOK, NothingAhead
      <4>2. QED
        BY <4>1, <1>3, Leq
    <3>2. QED
      BY <3>1
  <2>3. \A u \in Workitem : file[u].saved <= saves'[u]
    <3>1. ASSUME NEW u \in Workitem
          PROVE  file[u].saved <= saves'[u]
      <4>1. file[u].saved \in Nat /\ file[u].saved <= saves[u]
        BY DEF BackupInv, TypeOK, NothingAhead, NoFile
      <4>2. QED
        BY <4>1, <1>3, Leq
    <3>2. QED
      BY <3>1
  <2>4. QED
    BY <2>1, <2>2, <2>3 DEF OnSave, NothingAhead
<1>7. FileOrQueued'
  <2>1. ASSUME NEW u \in Workitem, Asked(u)'
        PROVE  HasFile(u)' \/ InLog(<<Latest(u), 0>>)'
    <3>1. CASE u = w
      BY <3>1, <1>2, <1>4, <1>5
    <3>2. CASE u # w
      <4>1. Asked(u) /\ u \in Present
        BY <3>2, <2>1, <1>5 DEF Asked
      <4>2. <<Latest(u), 0>> \in Entry
        BY <4>1, PresentHasLatest, Pairs DEF BackupInv
      <4>3. QED
        BY <4>1, <4>2, <3>2, <1>4, <1>5
           DEF BackupInv, FileOrQueued, Asked, HasFile, OnSave
    <3>3. QED
      BY <3>1, <3>2
  <2>2. QED
    BY <2>1 DEF FileOrQueued, Asked, Present
<1>8. HeldIsCovered'
  <2>1. ASSUME NEW u \in Workitem, label \in {"put", "delete"}, u = entry[1][1], Asked(u)'
        PROVE  /\ label = "put" => entry[1] = Latest(u)' \/ InLog(<<Latest(u), 0>>)'
               /\ label = "delete" =>
                    \/ HasFile(u)'
                    \/ InLog(<<Latest(u), 0>>)' /\ entry # <<Latest(u)', 0>>
    <3>1. entry \in Entry
      BY <2>1 DEF BackupInv, TypeOK
    <3>2. CASE u = w
      <4>1. InLog(<<Latest(u), 0>>)'
        BY <3>2, <1>2, <1>4, <1>5
      <4>2. entry # <<s, 0>>
        BY <3>1, <1>2, <3>2, <2>1 DEF BackupInv, NothingAhead
      <4>3. QED
        BY <4>1, <4>2, <3>2, <1>5
    <3>3. CASE u # w
      <4>1. Asked(u) /\ u \in Present
        BY <3>3, <2>1, <1>5 DEF Asked
      <4>2. <<Latest(u), 0>> \in Entry
        BY <4>1, PresentHasLatest, Pairs DEF BackupInv
      <4>3. QED
        BY <4>1, <4>2, <3>3, <2>1, <1>4, <1>5
           DEF BackupInv, HeldIsCovered, HasFile, OnSave
    <3>4. QED
      BY <3>2, <3>3
  <2>2. label \in {"put", "delete"} => entry[1][1] \in Workitem
    BY Pairs DEF BackupInv, TypeOK
  <2>3. label = "put" => file[entry[1][1]].saved <= entry[1][2]
    BY DEF BackupInv, HeldIsCovered
  <2>4. QED
    BY <2>1, <2>2, <2>3 DEF HeldIsCovered, OnSave
<1>9. HeldIsInLog'
  <2>1. entry # None => entry \in Entry
    BY DEF BackupInv, TypeOK
  <2>2. QED
    BY <2>1, <1>4 DEF BackupInv, HeldIsInLog, OnSave
<1>10. QED
  BY <1>1, <1>6, <1>7, <1>8, <1>9 DEF BackupInv

\* A deleted workitem is asked for no more.
LEMMA DeleteKeeps ==
  ASSUME BackupInv, NEW w \in Workitem, OnDelete(w)
  PROVE  BackupInv'
<1>1. TypeOK'
  BY ServerTyping DEF BackupInv
<1>2. /\ Present' = Present \ {w}
      /\ \A u : Latest(u)' = Latest(u)
      /\ \A u \in Workitem : (HasFile(u)' <=> HasFile(u)) /\ (Asked(u)' => Asked(u))
      /\ \A e : InLog(e)' <=> InLog(e)
  BY DEF OnDelete, Present, Latest, HasFile, Asked, FirstAsked, InLog
<1>3. LocalIsLatest'
  <2>1. local = { Latest(u) : u \in Present } /\ \A u : Latest(u)[1] = u
    BY DEF BackupInv, LocalIsLatest, Latest
  <2>2. local' = { t \in local : t[1] # w }
    BY DEF OnDelete
  <2>3. local' = { Latest(u) : u \in Present \ {w} }
    BY <2>1, <2>2
  <2>4. QED
    BY <2>3, <1>2 DEF LocalIsLatest
<1>4. NothingAhead' /\ HeldIsInLog'
  BY <1>2 DEF BackupInv, NothingAhead, HeldIsInLog, OnDelete
<1>5. FileOrQueued'
  <2>1. ASSUME NEW u \in Workitem, Asked(u)'
        PROVE  HasFile(u)' \/ InLog(<<Latest(u), 0>>)'
    BY <2>1, <1>2 DEF BackupInv, FileOrQueued, Asked
  <2>2. QED
    BY <2>1 DEF FileOrQueued, Asked, Present
<1>6. HeldIsCovered'
  <2>1. label \in {"put", "delete"} => entry[1][1] \in Workitem
    BY Pairs DEF BackupInv, TypeOK
  <2>2. QED
    BY <2>1, <1>2 DEF BackupInv, HeldIsCovered, OnDelete
<1>7. QED
  BY <1>1, <1>3, <1>4, <1>5, <1>6 DEF BackupInv

\* A step that writes no file, drops no entry and pulls no snapshot.
LEMMA QuietKeeps ==
  ASSUME BackupInv, TypeOK', UNCHANGED <<server, file>>,
         \A e \in Entry : InLog(e) => InLog(e)',
         \A e \in Entry : InLog(e)' \/ e \in batch' \/ e = entry' =>
            InLog(e) \/ e \in batch \/ e = entry \/ e[1] \in page,
         page' \subseteq page \union { Latest(w) : w \in Present },
         entry' # None => entry' = entry \/ InLog(entry)',
         label' \in {"put", "delete"} => label' = label /\ entry' = entry
  PROVE  BackupInv'
<1>1. /\ Present' = Present
      /\ \A w : Latest(w)' = Latest(w)
      /\ \A w \in Workitem : (HasFile(w)' <=> HasFile(w)) /\ (Asked(w)' <=> Asked(w))
  BY DEF Present, Latest, HasFile, Asked, FirstAsked
<1>2. \A w \in Present : <<Latest(w), 0>> \in Entry /\ w \in Workitem
  BY PresentHasLatest, Pairs DEF BackupInv, Present
<1>3. LocalIsLatest'
  BY <1>1 DEF BackupInv, LocalIsLatest
<1>4. NothingAhead'
  <2>1. ASSUME NEW s \in page'
        PROVE  s[2] <= saves[s[1]]
    <3>1. CASE s \in page
      BY <3>1 DEF BackupInv, NothingAhead
    <3>2. CASE s \in { Latest(w) : w \in Present }
      BY <3>2 DEF Latest, Present, BackupInv, TypeOK
    <3>3. QED
      BY <2>1, <3>1, <3>2
  <2>2. QED
    BY <2>1 DEF BackupInv, NothingAhead
<1>5. FileOrQueued'
  <2>1. ASSUME NEW w \in Workitem, Asked(w)'
        PROVE  HasFile(w)' \/ InLog(<<Latest(w), 0>>)'
    BY <2>1, <1>1, <1>2 DEF BackupInv, FileOrQueued, Asked
  <2>2. QED
    BY <2>1 DEF FileOrQueued, Asked, Present
<1>6. HeldIsInLog'
  <2>1. entry # None => entry \in Entry /\ InLog(entry)
    BY DEF BackupInv, HeldIsInLog, TypeOK
  <2>2. entry' = entry => (InLog(entry)' <=> event'[entry] # "none")
    BY DEF InLog
  <2>3. QED
    BY <2>1, <2>2 DEF HeldIsInLog, InLog
<1>7. HeldIsCovered'
  <2>1. ASSUME label' \in {"put", "delete"}
        PROVE  entry[1][1] \in Workitem /\ label' = label /\ entry' = entry
    BY <2>1, Pairs DEF BackupInv, TypeOK
  <2>2. ASSUME NEW w \in Workitem, Asked(w), InLog(<<Latest(w), 0>>)
        PROVE  InLog(<<Latest(w), 0>>)'
    BY <2>2, <1>1, <1>2 DEF Asked
  <2>3. ASSUME label' = "put"
        PROVE  LET w == entry[1][1]
               IN  /\ file[w].saved <= entry[1][2]
                   /\ Asked(w) => entry[1] = Latest(w) \/ InLog(<<Latest(w), 0>>)'
    BY <2>1, <2>2, <2>3 DEF BackupInv, HeldIsCovered
  <2>4. ASSUME label' = "delete"
        PROVE  LET w == entry[1][1]
               IN  Asked(w) =>
                     \/ HasFile(w)
                     \/ InLog(<<Latest(w), 0>>)' /\ entry # <<Latest(w), 0>>
    BY <2>1, <2>2, <2>4 DEF BackupInv, HeldIsCovered
  <2>5. QED
    BY <2>1, <2>3, <2>4, <1>1 DEF HeldIsCovered
<1>8. QED
  BY <1>3, <1>4, <1>5, <1>6, <1>7 DEF BackupInv

LEMMA GetKeeps ==
  ASSUME BackupInv, GetDocument
  PROVE  BackupInv'
<1>1. TypeOK'
  BY StepTyping DEF BackupInv, BackupStep
<1>2. /\ Present' = Present
      /\ \A w : Latest(w)' = Latest(w)
      /\ \A w : InLog(w)' <=> InLog(w)
      /\ \A w \in Workitem : (HasFile(w)' <=> HasFile(w)) /\ (Asked(w)' <=> Asked(w))
  BY DEF GetDocument, Present, Latest, HasFile, Asked, FirstAsked, InLog
<1>3. LocalIsLatest' /\ NothingAhead' /\ HeldIsInLog'
  BY <1>2 DEF GetDocument, BackupInv, LocalIsLatest, NothingAhead, HeldIsInLog
<1>4. FileOrQueued'
  <2>1. ASSUME NEW w \in Workitem, Asked(w)'
        PROVE  HasFile(w)' \/ InLog(<<Latest(w), 0>>)'
    BY <2>1, <1>2 DEF BackupInv, FileOrQueued, Asked
  <2>2. QED
    BY <2>1 DEF FileOrQueued, Asked, Present
<1>5. HeldIsCovered'
  <2>1. PICK w \in Present : entry[1] = Latest(w)
    BY DEF GetDocument, BackupInv, LocalIsLatest
  <2>2. entry[1][1] = w /\ entry[1][2] = saves[w] /\ w \in Workitem
    BY <2>1 DEF Latest, Present
  <2>3. file[w].saved <= entry[1][2]
    BY <2>2 DEF BackupInv, NothingAhead
  <2>4. QED
    BY <2>1, <2>2, <2>3, <1>2 DEF GetDocument, HeldIsCovered
<1>6. QED
  BY <1>1, <1>3, <1>4, <1>5 DEF BackupInv

\* The entry that is deleted is not the one the latest snapshot still needs.
LEMMA RemovalKeeps ==
  ASSUME BackupInv, TypeOK', UNCHANGED <<server, file, page, batch>>,
         entry \in Entry, event' = [event EXCEPT ![entry] = "none"],
         entry' = None, label' = "next",
         \A w \in Workitem : Asked(w) /\ entry = <<Latest(w), 0>> => HasFile(w)
  PROVE  BackupInv'
<1>1. /\ Present' = Present
      /\ \A w : Latest(w)' = Latest(w)
      /\ \A w \in Workitem : (HasFile(w)' <=> HasFile(w)) /\ (Asked(w)' <=> Asked(w))
  BY DEF Present, Latest, HasFile, Asked, FirstAsked
<1>2. \A e \in Entry : InLog(e)' <=> InLog(e) /\ e # entry
  BY DEF InLog, BackupInv, TypeOK
<1>3. LocalIsLatest' /\ HeldIsInLog' /\ HeldIsCovered'
  BY <1>1 DEF BackupInv, LocalIsLatest, HeldIsInLog, HeldIsCovered
<1>4. NothingAhead'
  BY <1>2, NoEntry DEF BackupInv, NothingAhead
<1>5. FileOrQueued'
  <2>1. ASSUME NEW w \in Workitem, Asked(w)
        PROVE  HasFile(w) \/ InLog(<<Latest(w), 0>>)'
    <3>1. <<Latest(w), 0>> \in Entry
      BY <2>1, PresentHasLatest, Pairs DEF Asked, BackupInv
    <3>2. QED
      BY <2>1, <3>1, <1>1, <1>2 DEF BackupInv, FileOrQueued, Asked
  <2>2. QED
    BY <2>1, <1>1 DEF FileOrQueued, Asked, Present
<1>6. QED
  BY <1>3, <1>4, <1>5 DEF BackupInv

LEMMA RemoveKeeps ==
  ASSUME BackupInv, DocumentNotFound \/ DeleteEntry
  PROVE  BackupInv'
<1>1. TypeOK'
  BY StepTyping DEF BackupInv, BackupStep
<1>2. entry \in Entry
  BY DEF DocumentNotFound, DeleteEntry, BackupInv, TypeOK
<1>3. ASSUME NEW w \in Workitem, Asked(w), entry = <<Latest(w), 0>>
      PROVE  HasFile(w)
  <2>1. CASE DocumentNotFound
    BY <1>3, <2>1 DEF DocumentNotFound, BackupInv, LocalIsLatest, Asked
  <2>2. CASE DeleteEntry
    BY <1>3, <2>2 DEF DeleteEntry, BackupInv, HeldIsCovered, Latest
  <2>3. QED
    BY <2>1, <2>2
<1>4. CASE DocumentNotFound
  BY <1>1, <1>2, <1>3, <1>4, RemovalKeeps DEF DocumentNotFound, EndEntry
<1>5. CASE DeleteEntry
  BY <1>1, <1>2, <1>3, <1>5, RemovalKeeps DEF DeleteEntry, EndEntry
<1>6. QED
  BY <1>4, <1>5

\* A file of the snapshot in hand, whole or not, that leaves the workitem covered.
LEMMA WriteKeeps ==
  ASSUME BackupInv, TypeOK', label = "put", UNCHANGED <<server, event>>,
         entry' \in {entry, None},
         batch' \subseteq batch, page' \subseteq page,
         label' # "put",
         NEW v \in Workitem, v = entry[1][1],
         NEW content, file' = [file EXCEPT ![v] = Stored(entry[1], content)],
         Asked(v) => HasFile(v)' \/ InLog(<<Latest(v), 0>>),
         label' = "delete" =>
           /\ entry' = entry
           /\ Asked(v) =>
                HasFile(v)' \/ (InLog(<<Latest(v), 0>>) /\ entry # <<Latest(v), 0>>)
  PROVE  BackupInv'
<1>1. entry \in Entry
  BY DEF BackupInv, TypeOK
<1>2. /\ Present' = Present
      /\ \A w : Latest(w)' = Latest(w)
      /\ \A e : InLog(e)' <=> InLog(e)
      /\ \A w : InLog(<<Latest(w), 0>>)' <=> InLog(<<Latest(w), 0>>)
      /\ \A w \in Workitem : Asked(w)' <=> Asked(w)
  BY DEF Present, Latest, Asked, FirstAsked, InLog
<1>3. \A w \in Workitem : w # v => file'[w] = file[w]
  BY DEF BackupInv, TypeOK
<1>4. file'[v] = Stored(entry[1], content)
  BY <1>1 DEF BackupInv, TypeOK
<1>5. LocalIsLatest'
  BY <1>2 DEF BackupInv, LocalIsLatest
<1>6. HeldIsInLog'
  BY <1>2 DEF BackupInv, HeldIsInLog, InLog
<1>7. NothingAhead'
  <2>1. ASSUME NEW w \in Workitem
        PROVE  file'[w].saved <= saves[w]
    <3>1. CASE w = v
      BY <3>1, <1>1, <1>4 DEF Stored, BackupInv, NothingAhead
    <3>2. CASE w # v
      BY <3>2, <1>3 DEF BackupInv, NothingAhead
    <3>3. QED
      BY <3>1, <3>2
  <2>2. \A e \in Entry : InLog(e)' \/ e \in batch' \/ e = entry' =>
            InLog(e) \/ e \in batch \/ e = entry
    BY <1>2, NoEntry
  <2>3. QED
    BY <2>1, <2>2 DEF BackupInv, NothingAhead
<1>8. FileOrQueued'
  <2>1. ASSUME NEW w \in Workitem, Asked(w)
        PROVE  HasFile(w)' \/ InLog(<<Latest(w), 0>>)
    <3>1. CASE w = v
      BY <3>1, <2>1
    <3>2. CASE w # v
      BY <3>2, <2>1, <1>3 DEF BackupInv, FileOrQueued, Asked, HasFile
    <3>3. QED
      BY <3>1, <3>2
  <2>2. QED
    BY <2>1, <1>2 DEF FileOrQueued, Asked, Present
<1>9. HeldIsCovered'
  BY <1>1, <1>2 DEF HeldIsCovered
<1>10. QED
  BY <1>5, <1>6, <1>7, <1>8, <1>9 DEF BackupInv

LEMMA PutKeeps ==
  ASSUME BackupInv, Put
  PROVE  BackupInv'
<1>1. TypeOK' /\ label = "put" /\ label' = "delete"
  BY StepTyping DEF BackupInv, BackupStep, Put
<1>2. PICK w \in Workitem :
        entry \in Entry /\ w = entry[1][1] /\ entry[1] = <<w, entry[1][2]>>
  BY <1>1, Pairs DEF BackupInv, TypeOK
<1>3. entry = <<entry[1], entry[2]>>
  BY <1>2, Pairs
<1>4. CASE Skip(w, entry)
  <2>1. file' = file
    BY <1>2, <1>4 DEF Put
  <2>2. /\ Present' = Present
        /\ \A u : Latest(u)' = Latest(u)
        /\ \A e : InLog(e)' <=> InLog(e)
        /\ \A u : InLog(<<Latest(u), 0>>)' <=> InLog(<<Latest(u), 0>>)
        /\ \A u \in Workitem : (HasFile(u)' <=> HasFile(u)) /\ (Asked(u)' <=> Asked(u))
    BY <2>1 DEF Put, Present, Latest, HasFile, Asked, FirstAsked, InLog
  <2>3. LocalIsLatest' /\ NothingAhead' /\ HeldIsInLog'
    BY <2>1, <2>2 DEF Put, BackupInv, LocalIsLatest, NothingAhead, HeldIsInLog
  <2>4. FileOrQueued'
    <3>1. ASSUME NEW u \in Workitem, Asked(u)'
          PROVE  HasFile(u)' \/ InLog(<<Latest(u), 0>>)'
      BY <3>1, <2>2 DEF BackupInv, FileOrQueued, Asked
    <3>2. QED
      BY <3>1 DEF FileOrQueued, Asked, Present
  <2>5. HeldIsCovered'
    <3>1. entry # <<Latest(w), 0>>
      BY <1>4 DEF Skip, Overwrite
    <3>2. Asked(w) => HasFile(w) \/ InLog(<<Latest(w), 0>>)
      BY DEF BackupInv, FileOrQueued, Asked
    <3>3. QED
      BY <3>1, <3>2, <2>2, <1>1, <1>2 DEF HeldIsCovered, Put
  <2>6. QED
    BY <1>1, <2>3, <2>4, <2>5 DEF BackupInv
<1>5. CASE ~Skip(w, entry)
  <2>1. file' = [file EXCEPT ![w] = Stored(entry[1], pulled)]
    BY <1>2, <1>5 DEF Put
  <2>2. Asked(w) => entry[1] = Latest(w) \/ InLog(<<Latest(w), 0>>)
    BY <1>1, <1>2 DEF BackupInv, HeldIsCovered
  <2>3. file'[w] = Stored(entry[1], pulled) /\ pulled # "partial" /\ saves' = saves
    BY <1>1, <1>2, <2>1 DEF Put, BackupInv, TypeOK
  <2>4. entry[1] = Latest(w) => HasFile(w)'
    BY <1>2, <2>3 DEF HasFile, Stored, Latest
  <2>5. Asked(w) => HasFile(w)' \/ (InLog(<<Latest(w), 0>>) /\ entry # <<Latest(w), 0>>)
    BY <2>2, <2>4
  <2>6. QED
    BY <1>1, <1>2, <2>1, <2>5, WriteKeeps DEF Put
<1>6. QED
  BY <1>4, <1>5

\* A part of a file is written while the entry is in the event log.
LEMMA PartLeavesAsked ==
  ASSUME BackupInv, label = "put", ~Skip(entry[1][1], entry), Asked(entry[1][1])
  PROVE  InLog(<<Latest(entry[1][1]), 0>>)
<1> DEFINE w == entry[1][1]
<1>1. entry \in Entry /\ entry # None /\ InLog(entry)
  BY NoEntry DEF BackupInv, TypeOK, HeldIsInLog
<1>2. entry = <<entry[1], entry[2]>>
  BY <1>1, Pairs
<1>3. CASE entry[1] # Latest(w)
  BY <1>3 DEF BackupInv, HeldIsCovered
<1>4. CASE entry[1] = Latest(w) /\ Overwrite(entry)
  BY <1>1, <1>2, <1>4 DEF Overwrite
<1>5. CASE file[w] = NoFile
  <2>1. ~HasFile(w)
    BY <1>5 DEF HasFile, NoFile, Asked, Present
  <2>2. QED
    BY <2>1 DEF BackupInv, FileOrQueued, Asked
<1>6. QED
  BY <1>3, <1>4, <1>5 DEF Skip

LEMMA StepKeeps ==
  ASSUME BackupInv, BackupStep
  PROVE  BackupInv'
<1>1. TypeOK /\ TypeOK'
  BY StepTyping DEF BackupInv
<1>2. CASE OnTimeout
  <2>1. \A e \in Entry : InLog(e)' <=> InLog(e)
    BY <1>2 DEF OnTimeout, InLog, Released
  <2>2. QED
    BY <1>1, <1>2, <2>1, QuietKeeps DEF OnTimeout
<1>3. CASE SearchEventLog
  <2>1. \A e : InLog(e)' <=> InLog(e)
    BY <1>3 DEF SearchEventLog, InLog
  <2>2. \A e \in batch' : InLog(e)
    BY <1>3 DEF SearchEventLog, InLog
  <2>3. QED
    BY <1>1, <1>3, <2>1, <2>2, QuietKeeps DEF SearchEventLog
<1>4. CASE LockEntry
  <2>1. PICK e \in batch : entry' = e /\ batch' = batch \ {e}
                             /\ event' = [event EXCEPT ![e] = "locked"]
    BY <1>4 DEF LockEntry
  <2>2. e \in Entry /\ event'[e] = "locked"
    BY <2>1, <1>1 DEF TypeOK
  <2>3. \A d \in Entry : d # e => (InLog(d)' <=> InLog(d))
    BY <2>1, <1>1 DEF TypeOK, InLog
  <2>4. InLog(e)' /\ (entry' = entry \/ event'[entry'] # "none")
    BY <2>1, <2>2 DEF InLog
  <2>5. label' = "pull" /\ UNCHANGED <<server, file, page>>
    BY <1>4 DEF LockEntry
  <2>6. QED
    BY <1>1, <2>1, <2>2, <2>3, <2>4, <2>5, QuietKeeps
<1>5. CASE ResetItems
  BY <1>1, <1>5, QuietKeeps DEF ResetItems, InLog
<1>6. CASE EndTimeout
  BY <1>1, <1>6, NoEntry, QuietKeeps DEF EndTimeout, EndRun, InLog
<1>7. QED
  BY <1>2, <1>3, <1>4, <1>5, <1>6, GetKeeps, RemoveKeeps, PutKeeps DEF BackupStep

\* A transfer that breaks off keeps its entry.
LEMMA BrokenKeeps ==
  ASSUME BackupInv, TypeOK', label = "put", ~Skip(entry[1][1], entry),
         file' = [file EXCEPT ![entry[1][1]] = Stored(entry[1], "partial")],
         UNCHANGED <<server, event>>,
         entry' = None, batch' \subseteq batch, page' \subseteq page,
         label' \in {"next", "idle"}
  PROVE  BackupInv'
<1>1. PICK w \in Workitem : w = entry[1][1]
  BY Pairs DEF BackupInv, TypeOK
<1>2. Asked(w) => InLog(<<Latest(w), 0>>)
  BY <1>1, PartLeavesAsked
<1>3. QED
  BY <1>1, <1>2, WriteKeeps

LEMMA TroubleKeeps ==
  ASSUME BackupInv, Trouble
  PROVE  BackupInv'
<1>1. TypeOK /\ TypeOK'
  BY TroubleTyping DEF BackupInv
<1>2. \A e : event' = event => (InLog(e)' <=> InLog(e))
  BY DEF InLog
<1>3. CASE RestartScheduler
  BY <1>1, <1>2, <1>3, NoEntry, QuietKeeps DEF RestartScheduler, EndRun
<1>4. CASE LockFails
  BY <1>1, <1>2, <1>4, QuietKeeps DEF LockFails
<1>5. CASE PutFails
  <2>1. CASE file' = file
    BY <1>1, <1>2, <1>5, <2>1, NoEntry, QuietKeeps DEF PutFails, EndEntry
  <2>2. CASE file' # file
    BY <1>1, <1>5, <2>2, BrokenKeeps DEF PutFails, EndEntry
  <2>3. QED
    BY <2>1, <2>2
<1>6. CASE EntryFails
  BY <1>1, <1>2, <1>6, NoEntry, QuietKeeps DEF EntryFails, EndEntry
<1>7. CASE FullFails
  BY <1>1, <1>2, <1>7, QuietKeeps DEF FullFails, StopFull
<1>8. CASE LoginFails
  BY <1>1, <1>2, <1>8, QuietKeeps DEF LoginFails
<1>9. CASE Restart
  <2>1. CASE file' = file
    BY <1>1, <1>2, <1>9, <2>1, NoEntry, QuietKeeps DEF Restart, EndRun, StopFull
  <2>2. CASE file' # file
    BY <1>1, <1>9, <2>2, BrokenKeeps DEF Restart, EndRun, StopFull
  <2>3. QED
    BY <2>1, <2>2
<1>10. QED
  BY <1>3, <1>4, <1>5, <1>6, <1>7, <1>8, <1>9 DEF Trouble

LEMMA FullKeeps ==
  ASSUME BackupInv, FullStep \/ User
  PROVE  BackupInv'
<1>1. TypeOK /\ TypeOK'
  BY FullTyping DEF BackupInv
<1>2. \A e : event' = event => (InLog(e)' <=> InLog(e))
  BY DEF InLog
<1>3. CASE FullTimeout
  BY <1>1, <1>2, <1>3, QuietKeeps DEF FullTimeout
<1>4. CASE QueryDocuments
  BY <1>1, <1>2, <1>4, PageIsLatest, QuietKeeps DEF QueryDocuments
<1>5. CASE CreateRequest
  <2>1. PICK s \in page, c \in 1 .. MaxCopies :
          event' = [event EXCEPT ![<<s, c>>] = "queued"] /\ page' = page \ {s}
    BY <1>5 DEF CreateRequest
  <2>2. c \in 0 .. MaxCopies /\ s \in Snapshot
    BY <2>1, <1>1, BackupBounds DEF TypeOK
  <2>3. <<s, c>> \in Entry
    BY <2>2, Pairs
  <2>4. \A e \in Entry : InLog(e)' <=> InLog(e) \/ e = <<s, c>>
    BY <2>1, <2>3, <1>1 DEF TypeOK, InLog
  <2>5. <<s, c>>[1] \in page
    BY <2>1
  <2>6. QED
    BY <1>1, <1>5, <2>1, <2>4, <2>5, QuietKeeps DEF CreateRequest
<1>6. CASE User
  BY <1>1, <1>2, <1>6, QuietKeeps
     DEF User, StartScheduler, StopScheduler, StartFullBackup, StopFullBackup, StopFull
<1>7. QED
  BY <1>3, <1>4, <1>5, <1>6 DEF FullStep

LEMMA NextKeeps ==
  ASSUME OneSnapshot, BackupInv, [Next]_vars
  PROVE  BackupInv'
<1>1. \A w \in Workitem : OnSave(w) \/ OnDelete(w) => BackupInv'
  BY SaveKeeps, DeleteKeeps
<1>2. ASSUME NEW e \in Entry, LockExpires(e)
      PROVE  BackupInv'
  <2>1. TypeOK /\ TypeOK'
    BY <1>2, ServerTyping DEF BackupInv
  <2>2. \A d \in Entry : InLog(d)' <=> InLog(d)
    BY <1>2, <2>1 DEF LockExpires, InLog, TypeOK
  <2>3. QED
    BY <1>2, <2>1, <2>2, QuietKeeps DEF LockExpires
<1>3. CASE UNCHANGED vars
  <2>1. TypeOK'
    BY NextTyping DEF BackupInv
  <2>2. QED
    BY <1>3, <2>1, QuietKeeps DEF vars, InLog
<1>4. QED
  BY <1>1, <1>2, <1>3, StepKeeps, TroubleKeeps, FullKeeps DEF Next

\* Nothing is taken out of the history.
LEMMA OverlappedStays ==
  ASSUME [Next]_vars
  PROVE  overlapped \subseteq overlapped'
<1>1. CASE UNCHANGED vars \/ (\E w \in Workitem : OnSave(w) \/ OnDelete(w))
             \/ \E e \in Entry : LockExpires(e)
  BY <1>1 DEF vars, OnSave, OnDelete, LockExpires
<1>2. CASE BackupStep
  BY <1>2
     DEF BackupStep, OnTimeout, SearchEventLog, LockEntry, ResetItems, GetDocument,
         DocumentNotFound, Put, DeleteEntry, EndTimeout
<1>3. CASE Trouble
  BY <1>3
     DEF Trouble, RestartScheduler, LockFails, PutFails, EntryFails, FullFails,
         LoginFails, Restart
<1>4. CASE FullStep \/ User
  BY <1>4
     DEF FullStep, User, FullTimeout, QueryDocuments, CreateRequest, StartScheduler,
         StopScheduler, StartFullBackup, StopFullBackup
<1>5. QED
  BY <1>1, <1>2, <1>3, <1>4 DEF Next

\* Only put writes four items into a file, those of the snapshot in hand.
LEMMA CutFile ==
  ASSUME TypeOK, CutIsOverlapped, [Next]_vars, NEW w \in Workitem, file'[w].content = "cut"
  PROVE  <<w, file'[w].saved>> \in overlapped'
<1>1. overlapped \subseteq overlapped'
  BY OverlappedStays
<1>2. CASE file' = file
  BY <1>1, <1>2 DEF CutIsOverlapped
<1>3. ASSUME label = "put", file' = [file EXCEPT ![entry[1][1]] = Stored(entry[1], pulled)]
      PROVE  <<w, file'[w].saved>> \in overlapped'
  <2>1. entry \in Entry /\ entry[1] = <<entry[1][1], entry[1][2]>>
    BY <1>3, Pairs DEF TypeOK
  <2>2. CASE w = entry[1][1]
    <3>1. file'[w] = Stored(entry[1], pulled)
      BY <1>3, <2>2 DEF TypeOK
    <3>2. pulled = "cut" /\ file'[w].saved = entry[1][2]
      BY <3>1 DEF Stored
    <3>3. QED
      BY <1>1, <2>1, <2>2, <3>2 DEF CutIsOverlapped
  <2>3. CASE w # entry[1][1]
    BY <1>1, <1>3, <2>3 DEF CutIsOverlapped, TypeOK
  <2>4. QED
    BY <2>2, <2>3
<1>4. ASSUME NEW s, file' = [file EXCEPT ![entry[1][1]] = Stored(s, "partial")]
      PROVE  <<w, file'[w].saved>> \in overlapped'
  <2>1. file'[w] = file[w]
    BY <1>4 DEF Stored, TypeOK
  <2>2. QED
    BY <1>1, <2>1 DEF CutIsOverlapped
<1>5. CASE Put
  BY <1>2, <1>3, <1>5 DEF Put
<1>6. CASE PutFails
  BY <1>2, <1>4, <1>6 DEF PutFails
<1>7. CASE Restart
  BY <1>2, <1>4, <1>7 DEF Restart
<1>8. CASE UNCHANGED vars \/ (\E u \in Workitem : OnSave(u) \/ OnDelete(u))
             \/ \E e \in Entry : LockExpires(e)
  BY <1>2, <1>8 DEF vars, OnSave, OnDelete, LockExpires
<1>9. CASE BackupStep
  BY <1>2, <1>5, <1>9
     DEF BackupStep, OnTimeout, SearchEventLog, LockEntry, ResetItems, GetDocument,
         DocumentNotFound, DeleteEntry, EndTimeout
<1>10. CASE Trouble
  BY <1>2, <1>6, <1>7, <1>10
     DEF Trouble, RestartScheduler, LockFails, EntryFails, FullFails, LoginFails
<1>11. CASE FullStep \/ User
  BY <1>2, <1>11
     DEF FullStep, User, FullTimeout, QueryDocuments, CreateRequest, StartScheduler,
         StopScheduler, StartFullBackup, StopFullBackup
<1>12. QED
  BY <1>8, <1>9, <1>10, <1>11 DEF Next

\* pullSnapshot resets the items before it reads; what sets them again while it does is a
\* full backup that begins to query.
LEMMA CutInHand ==
  ASSUME TypeOK, CutIsOverlapped, [Next]_vars
  PROVE  /\ pulled' = "cut" => entry'[1] \in overlapped'
         /\ label' = "get" /\ shared' /\ items' # "all" => entry'[1] \in overlapped'
<1>1. overlapped \subseteq overlapped'
  BY OverlappedStays
<1>2. CASE /\ label' = label /\ pulled' = pulled /\ entry' = entry
           /\ shared' => shared
           /\ items' \in {items, "all"}
  BY <1>1, <1>2 DEF CutIsOverlapped
<1>3. CASE UNCHANGED vars \/ (\E w \in Workitem : OnSave(w) \/ OnDelete(w))
             \/ \E e \in Entry : LockExpires(e)
  <2>1. UNCHANGED <<label, pulled, entry, shared, items>>
    BY <1>3 DEF vars, OnSave, OnDelete, LockExpires
  <2>2. QED
    BY <1>2, <2>1
<1>4. CASE GetDocument
  BY <1>1, <1>4 DEF GetDocument, Content, CutIsOverlapped
<1>5. CASE Put
  BY <1>1, <1>5 DEF Put, CutIsOverlapped
<1>6. CASE LockEntry
  BY <1>6 DEF LockEntry, TypeOK
<1>7. CASE OnTimeout \/ SearchEventLog
  BY <1>7 DEF OnTimeout, SearchEventLog, TypeOK
<1>8. CASE ResetItems
  BY <1>8 DEF ResetItems, TypeOK
<1>9. CASE DocumentNotFound \/ DeleteEntry \/ EndTimeout
  BY <1>9 DEF DocumentNotFound, DeleteEntry, EndTimeout, EndEntry, EndRun
<1>10. CASE Trouble
  <2>1. CASE RestartScheduler \/ PutFails \/ EntryFails \/ Restart
    BY <2>1 DEF RestartScheduler, PutFails, EntryFails, Restart, EndEntry, EndRun
  <2>2. CASE LockFails \/ FullFails \/ LoginFails
    BY <1>2, <2>2 DEF LockFails, FullFails, LoginFails
  <2>3. QED
    BY <1>10, <2>1, <2>2 DEF Trouble
<1>11. CASE FullTimeout
  BY <1>1, <1>11 DEF FullTimeout, CutIsOverlapped
<1>12. CASE QueryDocuments \/ CreateRequest
  BY <1>2, <1>12 DEF QueryDocuments, CreateRequest
<1>13. CASE StartFullBackup
  BY <1>1, <1>13 DEF StartFullBackup, CutIsOverlapped
<1>14. CASE StartScheduler \/ StopScheduler \/ StopFullBackup
  BY <1>2, <1>14 DEF StartScheduler, StopScheduler, StopFullBackup
<1>15. QED
  BY <1>3, <1>4, <1>5, <1>6, <1>7, <1>8, <1>9, <1>10, <1>11, <1>12, <1>13, <1>14
     DEF Next, BackupStep, FullStep, User

LEMMA NextKeepsCut == TypeOK /\ CutIsOverlapped /\ [Next]_vars => CutIsOverlapped'
BY CutFile, CutInHand DEF CutIsOverlapped

\* A file that was not broken off is whole or cut.
LEMMA FileIsWholeOrCut ==
  ASSUME BackupInv, CutIsOverlapped
  PROVE  BackedUpOrQueued
<1> SUFFICES ASSUME NEW w \in Present, saves[w] >= FirstAsked[w], HasFile(w)
             PROVE  HasLatest(w) \/ MetadataOnly(w)
  BY DEF BackupInv, FileOrQueued, BackedUpOrQueued
<1>1. w \in Workitem /\ saves[w] # 0
  BY DEF Present, BackupInv, TypeOK
<1>2. file[w] # NoFile
  BY <1>1 DEF HasFile, NoFile
<1>3. file[w] \in [saved : Nat \ {0}, content : Contents]
  BY <1>1, <1>2 DEF BackupInv, TypeOK
<1>4. /\ file[w] = [saved |-> saves[w], content |-> file[w].content]
      /\ file[w].content \in {"whole", "cut"}
  BY <1>3 DEF HasFile, Contents
<1>5. CASE file[w].content = "whole"
  BY <1>4, <1>5 DEF HasLatest, Stored, Latest
<1>6. CASE file[w].content = "cut"
  <2>1. <<w, saves[w]>> \in overlapped
    BY <1>1, <1>4, <1>6 DEF CutIsOverlapped, HasFile
  <2>2. QED
    BY <1>4, <1>6, <2>1 DEF MetadataOnly, Stored, Latest
<1>7. QED
  BY <1>4, <1>5, <1>6

\* The latest snapshot of a workitem is in its file, all of it, or in the event log,
\* whatever is retried, restarted or requested by a full backup, when the workflow server
\* keeps the latest snapshot only (cleanSnaphostHistory with snapshot.history=1).  The one
\* excuse is the race of the shared client: pullSnapshot was reading that snapshot when
\* a full backup set its items (BackedUpOrQueued names it).
THEOREM LatestIsCovered == OneSnapshot /\ Spec => []BackedUpOrQueued
<1>1. OneSnapshot /\ BackupInv /\ [Next]_vars => BackupInv'
  BY NextKeeps
<1>2. BackupInv /\ CutIsOverlapped => BackedUpOrQueued
  BY FileIsWholeOrCut
<1>3. OneSnapshot => [](OneSnapshot)
  <2>1. OneSnapshot => OneSnapshot'
    BY DEF OneSnapshot
  <2>2. QED
    BY <2>1, PTL DEF OneSnapshot
<1>4. Init => CutIsOverlapped
  BY DEF Init, CutIsOverlapped, NoFile
<1>5. BackupInv /\ CutIsOverlapped /\ [Next]_vars => CutIsOverlapped'
  BY NextKeepsCut DEF BackupInv
<1>6. QED
  BY InitBackupInv, <1>1, <1>2, <1>3, <1>4, <1>5, PTL DEF Spec

-----------------------------------------------------------------------------
(* Refinement of BackupStore *)

storedNow == [w \in Workitem |-> file[w].saved]
intactNow == { w \in Workitem : file[w].content = "whole" }

\* Writing the snapshot in hand is a step of the store: it is not older than the file.
LEMMA WriteIsStore ==
  ASSUME BackupInv, label = "put", UNCHANGED server, NEW content,
         file' = [file EXCEPT ![entry[1][1]] = Stored(entry[1], content)]
  PROVE  Store!StoreNext
<1>1. PICK w \in Workitem : entry \in Entry /\ w = entry[1][1]
  BY Pairs DEF BackupInv, TypeOK
<1> DEFINE v == entry[1][2]
<1>2. v \in Nat \ {0} /\ v <= saves[w] /\ file[w].saved <= v /\ saves[w] \in Nat
  BY <1>1, Pairs DEF BackupInv, NothingAhead, HeldIsCovered, TypeOK
<1>3. file[w].saved \in Nat
  BY <1>1 DEF BackupInv, TypeOK, NoFile
<1>4. v \in 1 .. saves[w] /\ v >= file[w].saved
  BY <1>2, <1>3
<1>5. file' = [file EXCEPT ![w] = Stored(entry[1], content)]
  BY <1>1
<1>6. storedNow' = [storedNow EXCEPT ![w] = v] /\ storedNow[w] = file[w].saved
  BY <1>1, <1>5 DEF storedNow, Stored, BackupInv, TypeOK
<1>7. intactNow' \in {intactNow \union {w}, intactNow \ {w}}
  <2>1. file'[w].content = content /\ \A u \in Workitem : u # w => file'[u] = file[u]
    BY <1>1, <1>5 DEF Stored, BackupInv, TypeOK
  <2>2. CASE content = "whole"
    BY <2>1, <2>2 DEF intactNow
  <2>3. CASE content # "whole"
    BY <2>1, <2>3 DEF intactNow
  <2>4. QED
    BY <2>2, <2>3
<1>8. Store!Store(w)
  BY <1>4, <1>6, <1>7 DEF Store!Store, storedNow, intactNow
<1>9. QED
  BY <1>1, <1>8 DEF Store!StoreNext

LEMMA NextIsStore ==
  ASSUME BackupInv, [Next]_vars
  PROVE  [Store!StoreNext]_(Store!storeVars)
<1>1. UNCHANGED <<server, file>> => UNCHANGED Store!storeVars
  BY DEF Store!storeVars
<1>2. ASSUME NEW w \in Workitem, OnSave(w)
      PROVE  Store!Save(w)
  BY <1>2 DEF OnSave, Store!Save
<1>3. ASSUME NEW w \in Workitem, OnDelete(w)
      PROVE  Store!Remove(w)
  BY <1>3 DEF OnDelete, Store!Remove
<1>4. CASE Put
  BY <1>1, <1>4, WriteIsStore DEF Put
<1>5. CASE PutFails
  BY <1>1, <1>5, WriteIsStore DEF PutFails
<1>6. CASE Restart
  BY <1>1, <1>6, WriteIsStore DEF Restart
<1>7. CASE UNCHANGED vars \/ \E e \in Entry : LockExpires(e)
  BY <1>1, <1>7 DEF vars, LockExpires
<1>8. CASE BackupStep
  BY <1>1, <1>4, <1>8
     DEF BackupStep, OnTimeout, SearchEventLog, LockEntry, ResetItems, GetDocument,
         DocumentNotFound, DeleteEntry, EndTimeout
<1>9. CASE Trouble
  BY <1>1, <1>5, <1>6, <1>9
     DEF Trouble, RestartScheduler, LockFails, EntryFails, FullFails, LoginFails
<1>10. CASE FullStep \/ User
  BY <1>1, <1>10
     DEF FullStep, User, FullTimeout, QueryDocuments, CreateRequest, StartScheduler,
         StopScheduler, StartFullBackup, StopFullBackup
<1>11. QED
  BY <1>2, <1>3, <1>7, <1>8, <1>9, <1>10 DEF Next, Store!StoreNext

\* A file is only replaced by the one of the same or a newer snapshot: the backup
\* application implements the store, when the workflow server keeps the latest snapshot
\* only.  The writing of pullSnapshot and FTPConnector.put is the one step of it.
THEOREM BackupImplementsStore == OneSnapshot /\ Spec => ImplementsStore
<1>1. Init => Store!StoreInit
  BY DEF Init, Store!StoreInit, FirstAsked, NoFile
<1>2. OneSnapshot /\ BackupInv /\ [Next]_vars => BackupInv'
  BY NextKeeps
<1>3. BackupInv /\ [Next]_vars => [Store!StoreNext]_(Store!storeVars)
  BY NextIsStore
<1>4. OneSnapshot => [](OneSnapshot)
  <2>1. OneSnapshot => OneSnapshot'
    BY DEF OneSnapshot
  <2>2. QED
    BY <2>1, PTL DEF OneSnapshot
<1>5. QED
  BY InitBackupInv, <1>1, <1>2, <1>3, <1>4, PTL DEF Spec, ImplementsStore, Store!StoreSpec

-----------------------------------------------------------------------------
(* The full backup *)

\* The query compares in whole seconds, and a workitem created at the very beginning of
\* one is not found again behind itself.
InSecond == \A w \in Workitem : Created[w] % Second # 0

Covered(w) == file[w] # NoFile \/ \E e \in Entry : e[1][1] = w /\ InLog(e)

\* The snapshot that was put has made its workitem a file.
PutHasFile == label = "delete" => file[entry[1][1]] # NoFile

\* What the query leaves out is covered.
BehindIsCovered ==
    \A w \in Present : Created[w] <= Truncate(syncPoint) => Covered(w)

\* The syncpoint is the time of a workitem that has had its request.
Reached == syncPoint # 0 => \E w \in Present : Created[w] = syncPoint /\ Covered(w)

\* A page leaves no workitem out, and is worked through in the order of $created.
PageInOrder ==
    \A s \in page : \A w \in Present :
        Created[w] < Created[s[1]] => Covered(w) \/ \E t \in page : t[1] = w

StoppedIsComplete ==
    status = "stopped" /\ Cardinality(Existing) > 1 => \A w \in Present : Covered(w)

FullInv ==
    /\ \A w \in Existing : saves[w] > 0
    /\ PutHasFile
    /\ deleted = {} =>
         /\ BehindIsCovered
         /\ Reached
         /\ PageInOrder
         /\ StoppedIsComplete

\* A page holds more than one workitem; FullBackupService asks for 100.
Pages == PageSize > 1 /\ IsFiniteSet(Workitem)

LEMMA WholeSeconds ==
  /\ \A t \in Nat : Truncate(t) \in Nat /\ Truncate(t) <= t
  /\ \A t \in Nat : t % Second # 0 => Truncate(t) < t
  /\ Truncate(0) = 0
  /\ 0 % Second = 0
<1>1. Second \in Nat \ {0}
  BY BackupBounds
<1>2. \A n \in Nat \ {0}, t \in Nat : (t \div n) * n \in Nat /\ (t \div n) * n <= t
  OBVIOUS
<1>3. \A n \in Nat \ {0}, t \in Nat : t % n # 0 => (t \div n) * n < t
  OBVIOUS
<1>4. \A n \in Nat \ {0} : (0 \div n) * n = 0 /\ 0 % n = 0
  OBVIOUS
<1>5. QED
  BY <1>1, <1>2, <1>3, <1>4 DEF Truncate

\* Nothing is created at the time the full backup begins with.
LEMMA NoneBehindStart ==
  ASSUME InSecond, NEW w \in Workitem
  PROVE  /\ ~(Created[w] <= Truncate(0))
         /\ Truncate(Created[w]) < Created[w]
         /\ Created[w] \in Nat
<1>1. Created[w] \in Nat /\ Created[w] % Second # 0
  BY CreatedAssumption DEF InSecond
<1>2. Created[w] # 0
  BY <1>1, WholeSeconds
<1>3. QED
  BY <1>1, <1>2, WholeSeconds

LEMMA InitFullInv ==
  ASSUME Init, InSecond
  PROVE  FullInv
<1>1. \A w \in Existing : saves[w] > 0
  BY CreatedAssumption DEF Init
<1>2. BehindIsCovered
  BY NoneBehindStart DEF Init, BehindIsCovered, Present
<1>3. QED
  BY <1>1, <1>2 DEF Init, FullInv, PutHasFile, Reached, PageInOrder, StoppedIsComplete

-----------------------------------------------------------------------------

\* A file is not taken away again.
LEMMA FileStays ==
  ASSUME BackupInv, [Next]_vars, NEW w \in Workitem, file[w] # NoFile
  PROVE  file'[w] # NoFile
<1>1. ASSUME label = "put", NEW content,
             file' = [file EXCEPT ![entry[1][1]] = Stored(entry[1], content)]
      PROVE  file'[w] # NoFile
  <2>1. entry \in Entry /\ entry[1][2] \in Nat \ {0}
    BY <1>1, Pairs DEF BackupInv, TypeOK
  <2>2. Stored(entry[1], content) # NoFile
    BY <2>1 DEF Stored, NoFile
  <2>3. file'[w] \in {file[w], Stored(entry[1], content)}
    BY <1>1 DEF BackupInv, TypeOK
  <2>4. QED
    BY <2>2, <2>3
<1>2. CASE file' = file
  BY <1>2
<1>3. CASE Put
  BY <1>1, <1>2, <1>3 DEF Put
<1>4. CASE PutFails
  BY <1>1, <1>2, <1>4 DEF PutFails
<1>5. CASE Restart
  BY <1>1, <1>2, <1>5 DEF Restart
<1>6. CASE UNCHANGED vars \/ (\E u \in Workitem : OnSave(u) \/ OnDelete(u))
             \/ \E e \in Entry : LockExpires(e)
  BY <1>2, <1>6 DEF vars, OnSave, OnDelete, LockExpires
<1>7. CASE BackupStep
  BY <1>2, <1>3, <1>7
     DEF BackupStep, OnTimeout, SearchEventLog, LockEntry, ResetItems, GetDocument,
         DocumentNotFound, DeleteEntry, EndTimeout
<1>8. CASE Trouble
  BY <1>2, <1>4, <1>5, <1>8
     DEF Trouble, RestartScheduler, LockFails, EntryFails, FullFails, LoginFails
<1>9. CASE FullStep \/ User
  BY <1>2, <1>9
     DEF FullStep, User, FullTimeout, QueryDocuments, CreateRequest, StartScheduler,
         StopScheduler, StartFullBackup, StopFullBackup
<1>10. QED
  BY <1>6, <1>7, <1>8, <1>9 DEF Next

\* An entry leaves the event log only when BackupService is done with it.
LEMMA EntryStays ==
  ASSUME BackupInv, [Next]_vars, NEW e \in Entry, InLog(e)
  PROVE  InLog(e)' \/ (e = entry /\ (DocumentNotFound \/ DeleteEntry))
<1>1. TypeOK /\ event \in [Entry -> EventStatus]
  BY DEF BackupInv, TypeOK
<1>2. CASE event' = event
  BY <1>2 DEF InLog
<1>3. ASSUME NEW x, NEW status2, status2 # "none", event' = [event EXCEPT ![x] = status2]
      PROVE  InLog(e)'
  BY <1>1, <1>3 DEF InLog
<1>4. CASE \E w \in Workitem : OnSave(w) \/ OnDelete(w)
  BY <1>2, <1>3, <1>4 DEF OnSave, OnDelete
<1>5. CASE \E d \in Entry : LockExpires(d)
  BY <1>3, <1>5 DEF LockExpires
<1>6. CASE OnTimeout
  BY <1>1, <1>6 DEF OnTimeout, InLog, Released
<1>7. CASE LockEntry
  BY <1>3, <1>7 DEF LockEntry
<1>8. CASE DocumentNotFound \/ DeleteEntry
  BY <1>1, <1>8 DEF DocumentNotFound, DeleteEntry, InLog
<1>9. CASE CreateRequest
  BY <1>3, <1>9 DEF CreateRequest
<1>10. CASE UNCHANGED vars
  BY <1>2, <1>10 DEF vars
<1>11. CASE BackupStep
  BY <1>2, <1>6, <1>7, <1>8, <1>11
     DEF BackupStep, SearchEventLog, ResetItems, GetDocument, Put, EndTimeout
<1>12. CASE Trouble
  BY <1>2, <1>12
     DEF Trouble, RestartScheduler, LockFails, PutFails, EntryFails, FullFails,
         LoginFails, Restart
<1>13. CASE FullStep \/ User
  BY <1>2, <1>9, <1>13
     DEF FullStep, User, FullTimeout, QueryDocuments, StartScheduler, StopScheduler,
         StartFullBackup, StopFullBackup
<1>14. QED
  BY <1>4, <1>5, <1>10, <1>11, <1>12, <1>13 DEF Next

\* When nothing was deleted, an entry without a snapshot is one of an older save, and
\* the latest one has its file or its own entry.
LEMMA CoveredStays ==
  ASSUME OneSnapshot, BackupInv, PutHasFile, deleted = {}, [Next]_vars,
         NEW w \in Workitem, Covered(w)
  PROVE  Covered(w)'
<1>1. CASE file[w] # NoFile
  BY <1>1, FileStays DEF Covered
<1>2. CASE file[w] = NoFile
  <2>1. PICK e \in Entry : e[1][1] = w /\ InLog(e)
    BY <1>2 DEF Covered
  <2>2. CASE InLog(e)'
    BY <2>1, <2>2 DEF Covered
  <2>3. CASE e = entry /\ DeleteEntry
    BY <1>2, <2>1, <2>3 DEF DeleteEntry, PutHasFile
  <2>4. CASE e = entry /\ DocumentNotFound
    <3>1. e[1] \in Snapshot /\ e[1] = <<w, e[1][2]>> /\ e[1][2] \in Nat \ {0}
      BY <2>1, Pairs
    <3>2. e[1][2] <= saves[w] /\ saves[w] \in Nat
      BY <2>1 DEF BackupInv, NothingAhead, TypeOK
    <3>3. w \in Present
      BY <3>1, <3>2 DEF Present
    <3>4. e[1] # Latest(w)
      BY <2>4, <3>3 DEF DocumentNotFound, BackupInv, LocalIsLatest
    <3>5. saves[w] >= 2
      BY <3>1, <3>2, <3>4 DEF Latest
    <3>6. ~HasFile(w)
      BY <1>2, <3>5 DEF HasFile, NoFile
    <3>7. InLog(<<Latest(w), 0>>)
      <4>1. saves[w] >= FirstAsked[w]
        BY <3>2, <3>5 DEF FirstAsked
      <4>2. QED
        BY <3>3, <3>6, <4>1 DEF BackupInv, FileOrQueued
    <3>8. <<Latest(w), 0>> \in Entry /\ Latest(w)[1] = w
      BY <3>3, PresentHasLatest, Pairs DEF BackupInv
    <3>9. InLog(<<Latest(w), 0>>)'
      <4>1. <<Latest(w), 0>> # entry
        BY <2>4, <3>4
      <4>2. event' = [event EXCEPT ![entry] = "none"] /\ saves' = saves
        BY <2>4 DEF DocumentNotFound
      <4>3. event'[<<Latest(w), 0>>] = event[<<Latest(w), 0>>]
        BY <4>1, <4>2, <3>8 DEF BackupInv, TypeOK
      <4>4. Latest(w)' = Latest(w)
        BY <4>2 DEF Latest
      <4>5. QED
        BY <4>3, <4>4, <3>7 DEF InLog
    <3>10. (<<Latest(w), 0>>)' = <<Latest(w), 0>>
      BY <2>4 DEF DocumentNotFound, Latest
    <3>11. \E d \in Entry : d[1][1] = w /\ InLog(d)'
      <4>1. <<Latest(w), 0>>[1][1] = w
        BY <3>8
      <4>2. event'[<<Latest(w), 0>>] # "none"
        BY <3>9, <3>10 DEF InLog
      <4>3. QED
        BY <3>8, <4>1, <4>2 DEF InLog
    <3>12. QED
      BY <3>11 DEF Covered
  <2>5. QED
    BY <2>1, <2>2, <2>3, <2>4, EntryStays
<1>3. QED
  BY <1>1, <1>2

\* What was put is there when the entry is deleted.
LEMMA PutMadeFile ==
  ASSUME BackupInv, PutHasFile, [Next]_vars
  PROVE  PutHasFile'
<1> SUFFICES ASSUME label' = "delete"
             PROVE  file'[entry'[1][1]] # NoFile
  BY DEF PutHasFile
<1>1. CASE label = "delete" /\ entry' = entry
  <2>1. entry[1][1] \in Workitem
    BY <1>1, Pairs DEF BackupInv, TypeOK
  <2>2. QED
    BY <1>1, <2>1, FileStays DEF PutHasFile
<1>2. CASE Put
  <2>1. entry \in Entry /\ entry[1][1] \in Workitem /\ entry[1][2] \in Nat \ {0}
    BY <1>2, Pairs DEF Put, BackupInv, TypeOK
  <2>2. CASE Skip(entry[1][1], entry)
    BY <1>2, <2>2 DEF Put, Skip
  <2>3. CASE ~Skip(entry[1][1], entry)
    BY <1>2, <2>1, <2>3 DEF Put, Stored, NoFile, BackupInv, TypeOK
  <2>4. QED
    BY <2>2, <2>3
<1>3. CASE UNCHANGED vars \/ (\E w \in Workitem : OnSave(w) \/ OnDelete(w))
             \/ \E e \in Entry : LockExpires(e)
  BY <1>1, <1>3 DEF vars, OnSave, OnDelete, LockExpires
<1>4. CASE BackupStep
  BY <1>2, <1>4
     DEF BackupStep, OnTimeout, SearchEventLog, LockEntry, ResetItems, GetDocument,
         DocumentNotFound, DeleteEntry, EndTimeout, EndEntry, EndRun
<1>5. CASE Trouble
  BY <1>1, <1>5
     DEF Trouble, RestartScheduler, LockFails, PutFails, EntryFails, FullFails,
         LoginFails, Restart, EndEntry, EndRun
<1>6. CASE FullStep \/ User
  BY <1>1, <1>6
     DEF FullStep, User, FullTimeout, QueryDocuments, CreateRequest, StartScheduler,
         StopScheduler, StartFullBackup, StopFullBackup
<1>7. QED
  BY <1>3, <1>4, <1>5, <1>6 DEF Next

-----------------------------------------------------------------------------

\* A step that saves nothing, asks for no page and creates no request: it may forget the
\* page and the syncpoint.
LEMMA FullQuietKeeps ==
  ASSUME InSecond, FullInv, deleted = {}, UNCHANGED <<saves, deleted>>,
         \A w \in Workitem : Covered(w) => Covered(w)',
         page' \in {page, {}}, syncPoint' \in {syncPoint, 0},
         status' = "stopped" => status = "stopped"
  PROVE  /\ BehindIsCovered'
         /\ Reached'
         /\ PageInOrder'
         /\ StoppedIsComplete'
<1>1. Present' = Present /\ Present \subseteq Workitem
  BY DEF Present
<1>2. BehindIsCovered'
  <2>1. ASSUME NEW w \in Present, Created[w] <= Truncate(syncPoint')
        PROVE  Covered(w)'
    <3>1. syncPoint' = syncPoint
      BY <1>1, <2>1, NoneBehindStart
    <3>2. QED
      BY <1>1, <2>1, <3>1 DEF FullInv, BehindIsCovered
  <2>2. QED
    BY <1>1, <2>1 DEF BehindIsCovered, Truncate
<1>3. Reached'
  BY <1>1 DEF FullInv, Reached
<1>4. PageInOrder'
  <2>1. CASE page' = {}
    BY <2>1 DEF PageInOrder
  <2>2. CASE page' = page
    BY <1>1, <2>2 DEF FullInv, PageInOrder
  <2>3. QED
    BY <2>1, <2>2
<1>5. StoppedIsComplete'
  BY <1>1 DEF FullInv, StoppedIsComplete
<1>6. QED
  BY <1>2, <1>3, <1>4, <1>5

\* A workitem is created together with its entry.
LEMMA NewIsCovered ==
  ASSUME BackupInv, NEW w \in Workitem, OnSave(w)
  PROVE  Covered(w)'
<1> DEFINE s == <<w, saves[w] + 1>>
<1>1. saves[w] + 1 \in 1 .. MaxSaves[w]
  <2>1. saves[w] \in Nat /\ saves[w] < MaxSaves[w] /\ MaxSaves[w] \in Nat
    BY BackupBounds DEF OnSave, BackupInv, TypeOK
  <2>2. QED
    BY <2>1
<1>2. <<s, 0>> \in Entry
  BY <1>1, Pairs
<1>3. event'[<<s, 0>>] = "queued"
  BY <1>2 DEF OnSave, BackupInv, TypeOK
<1>4. \E e \in Entry : e[1][1] = w /\ InLog(e)'
  BY <1>2, <1>3 DEF InLog
<1>5. QED
  BY <1>4 DEF Covered

LEMMA SaveKeepsFull ==
  ASSUME OneSnapshot, BackupInv, FullInv, deleted = {}, NEW v \in Workitem, OnSave(v)
  PROVE  /\ BehindIsCovered'
         /\ Reached'
         /\ PageInOrder'
         /\ StoppedIsComplete'
<1>1. /\ Present \subseteq Present' /\ Present' \subseteq Workitem
      /\ UNCHANGED <<syncPoint, page, status>>
  BY OneIsKept DEF Present, OnSave
<1>2. ASSUME NEW w \in Workitem, Covered(w)
      PROVE  Covered(w)'
  BY <1>2, CoveredStays DEF FullInv, Next
<1>3. \A w \in Present' : w \in Present \/ Covered(w)'
  BY OneIsKept, NewIsCovered
<1>4. BehindIsCovered'
  BY <1>1, <1>2, <1>3 DEF FullInv, BehindIsCovered, Truncate
<1>5. Reached'
  BY <1>1, <1>2 DEF FullInv, Reached
<1>6. PageInOrder'
  BY <1>1, <1>2, <1>3 DEF FullInv, PageInOrder
<1>7. StoppedIsComplete'
  BY <1>1, <1>2, <1>3 DEF FullInv, StoppedIsComplete
<1>8. QED
  BY <1>4, <1>5, <1>6, <1>7

\* A short result is all that is left, and it is at most the workitem at the syncpoint.
LEMMA ShortResultIsLast ==
  ASSUME InSecond, Pages, BackupInv, FullInv, deleted = {}, Cardinality(Existing) > 1,
         NEW result \in SUBSET After(syncPoint), Complete(result),
         result # After(syncPoint) => Cardinality(result) = PageSize,
         NEW w \in Present
  PROVE  Covered(w)
<1>1. IsFiniteSet(result) /\ Present \subseteq Workitem
  BY FS_Subset DEF Pages, After, Present
<1>2. result = After(syncPoint)
  <2>1. Cardinality(result) \in Nat /\ PageSize \in Nat
    BY <1>1, FS_CardinalityType, BackupBounds
  <2>2. QED
    BY <2>1 DEF Complete, Pages
<1>3. CASE w \notin After(syncPoint)
  <2>1. syncPoint \in Nat /\ Truncate(syncPoint) \in Nat /\ Created[w] \in Nat
    BY <1>1, WholeSeconds, NoneBehindStart DEF BackupInv, TypeOK
  <2>2. Created[w] <= Truncate(syncPoint)
    BY <1>3, <2>1 DEF After
  <2>3. QED
    BY <2>2 DEF FullInv, BehindIsCovered
<1>4. CASE w \in After(syncPoint) /\ syncPoint = 0
  <2>1. Existing \subseteq After(syncPoint)
    <3>1. ASSUME NEW u \in Existing
          PROVE  u \in After(syncPoint)
      <4>1. u \in Workitem /\ u \in Present
        BY <3>1, CreatedAssumption DEF FullInv, Present
      <4>2. Created[u] \in Nat /\ Truncate(0) \in Nat /\ ~(Created[u] <= Truncate(0))
        BY <4>1, NoneBehindStart, WholeSeconds
      <4>3. QED
        BY <1>4, <4>1, <4>2 DEF After
    <3>2. QED
      BY <3>1
  <2>2. Cardinality(Existing) <= Cardinality(result) /\ Cardinality(result) \in Nat
    BY <1>2, <1>1, <2>1, FS_Subset, FS_CardinalityType
  <2>3. Cardinality(Existing) \in Nat
    BY <1>2, <1>1, <2>1, FS_Subset, FS_CardinalityType
  <2>4. QED
    BY <2>2, <2>3 DEF Complete
<1>5. CASE w \in After(syncPoint) /\ syncPoint # 0
  <2>1. PICK x \in Present : Created[x] = syncPoint /\ Covered(x)
    BY <1>5 DEF FullInv, Reached
  <2>2. x \in Workitem /\ Truncate(Created[x]) < Created[x]
    BY <1>1, <2>1, NoneBehindStart
  <2>3. x \in After(syncPoint)
    BY <2>1, <2>2 DEF After
  <2>4. w = x
    <3>1. SUFFICES ASSUME w # x
                   PROVE  FALSE
      OBVIOUS
    <3>2. IsFiniteSet({x}) /\ Cardinality({x}) = 1
      BY FS_Singleton
    <3>3. IsFiniteSet({x} \union {w}) /\ Cardinality({x} \union {w}) = 2
      BY <3>1, <3>2, FS_AddElement
    <3>4. {x} \union {w} \subseteq result
      BY <1>2, <1>5, <2>3
    <3>5. 2 <= Cardinality(result) /\ Cardinality(result) \in Nat
      BY <1>1, <3>3, <3>4, FS_Subset, FS_CardinalityType
    <3>6. QED
      BY <3>5 DEF Complete
  <2>5. QED
    BY <2>1, <2>4
<1>6. QED
  BY <1>3, <1>4, <1>5

LEMMA QueryKeepsFull ==
  ASSUME OneSnapshot, InSecond, Pages, BackupInv, FullInv, deleted = {}, QueryDocuments
  PROVE  /\ BehindIsCovered'
         /\ Reached'
         /\ PageInOrder'
         /\ StoppedIsComplete'
<1>1. /\ UNCHANGED <<saves, deleted, event, file, syncPoint>>
      /\ Present' = Present /\ Present \subseteq Workitem
      /\ \A w : Covered(w)' <=> Covered(w)
  BY DEF QueryDocuments, Present, Covered, InLog
<1>2. BehindIsCovered' /\ Reached'
  BY <1>1 DEF FullInv, BehindIsCovered, Reached, Truncate
<1>3. PICK result \in SUBSET FirstPage(After(syncPoint)) :
        /\ result # After(syncPoint) => Cardinality(result) = PageSize
        /\ \A w \in result, u \in After(syncPoint) \ result : Created[w] <= Created[u]
        /\ \/ Complete(result) /\ StopFull("stopped")
           \/ page' = { Latest(w) : w \in result } /\ UNCHANGED status
  BY DEF QueryDocuments
<1>4. result \subseteq After(syncPoint) /\ After(syncPoint) \subseteq Present
  BY <1>3 DEF FirstPage, After
<1>5. CASE Complete(result) /\ StopFull("stopped")
  <2>1. PageInOrder'
    BY <1>5 DEF StopFull, PageInOrder
  <2>2. StoppedIsComplete'
    BY <1>1, <1>3, <1>4, <1>5, ShortResultIsLast DEF StoppedIsComplete
  <2>3. QED
    BY <1>2, <2>1, <2>2
<1>6. CASE page' = { Latest(w) : w \in result } /\ UNCHANGED status
  <2>1. StoppedIsComplete'
    BY <1>1, <1>6 DEF FullInv, StoppedIsComplete
  <2>2. ASSUME NEW v \in result, NEW w \in Present, Created[w] < Created[v]
        PROVE  Covered(w) \/ w \in result
    <3>1. v \in Workitem /\ Created[v] \in Nat /\ Created[w] \in Nat
      BY <1>1, <1>4, CreatedAssumption
    <3>2. CASE w \in After(syncPoint)
      BY <1>3, <2>2, <3>1, <3>2
    <3>3. CASE w \notin After(syncPoint)
      <4>1. syncPoint \in Nat /\ Truncate(syncPoint) \in Nat
        BY WholeSeconds DEF BackupInv, TypeOK
      <4>2. Created[w] <= Truncate(syncPoint)
        BY <3>1, <3>3, <4>1 DEF After
      <4>3. QED
        BY <4>2 DEF FullInv, BehindIsCovered
    <3>4. QED
      BY <3>2, <3>3
  <2>3. ASSUME NEW s \in page', NEW w \in Present, Created[w] < Created[s[1]]
        PROVE  Covered(w) \/ \E t \in page' : t[1] = w
    <3>1. PICK v \in result : s = Latest(v) /\ s[1] = v
      BY <1>6, <2>3 DEF Latest
    <3>2. CASE w \in result
      <4>1. Latest(w) \in page' /\ Latest(w)[1] = w
        BY <1>6, <3>2 DEF Latest
      <4>2. QED
        BY <4>1
    <3>3. CASE Covered(w)
      BY <3>3
    <3>4. Created[w] < Created[v]
      BY <2>3, <3>1
    <3>5. QED
      BY <2>2, <3>1, <3>2, <3>3, <3>4
  <2>4. PageInOrder'
    BY <1>1, <2>3 DEF PageInOrder
  <2>5. QED
    BY <1>2, <2>1, <2>4
<1>7. QED
  BY <1>3, <1>5, <1>6

LEMMA RequestKeepsFull ==
  ASSUME OneSnapshot, InSecond, BackupInv, FullInv, deleted = {}, CreateRequest
  PROVE  /\ BehindIsCovered'
         /\ Reached'
         /\ PageInOrder'
         /\ StoppedIsComplete'
<1>1. PICK s \in page, c \in 1 .. MaxCopies :
        /\ \A t \in page : Created[s[1]] <= Created[t[1]]
        /\ event' = [event EXCEPT ![<<s, c>>] = "queued"]
        /\ page' = page \ {s}
        /\ IF page' = {}
           THEN syncPoint' = Created[s[1]] /\ fullLabel' = "idle"
           ELSE UNCHANGED <<syncPoint, fullLabel>>
  BY DEF CreateRequest
<1>2. /\ UNCHANGED <<saves, deleted, file, status>>
      /\ Present' = Present /\ Present \subseteq Workitem
  BY DEF CreateRequest, Present
<1>3. /\ s \in Snapshot /\ s[1] \in Workitem /\ s[1] \in Present
      /\ <<s, c>> \in Entry
  <2>1. s \in Snapshot /\ c \in 0 .. MaxCopies
    BY <1>1, BackupBounds DEF BackupInv, TypeOK
  <2>2. s[1] \in Workitem /\ s[2] \in Nat \ {0} /\ <<s, c>> \in Entry
    BY <2>1, Pairs
  <2>3. saves[s[1]] \in Nat /\ s[2] <= saves[s[1]]
    BY <1>1, <2>2 DEF BackupInv, TypeOK, NothingAhead
  <2>4. QED
    BY <2>1, <2>2, <2>3 DEF Present
<1>4. ASSUME NEW w \in Workitem, Covered(w)
      PROVE  Covered(w)'
  BY <1>4, CoveredStays DEF FullInv, Next, FullStep
<1>5. ASSUME NEW w, w = s[1]
      PROVE  Covered(w)'
  <2>1. event'[<<s, c>>] = "queued" /\ <<s, c>>[1][1] = w
    BY <1>1, <1>3, <1>5 DEF BackupInv, TypeOK
  <2>2. \E e \in Entry : e[1][1] = w /\ InLog(e)'
    BY <1>3, <2>1 DEF InLog
  <2>3. QED
    BY <2>2 DEF Covered
<1>6. PageInOrder'
  <2>1. ASSUME NEW r \in page', NEW w \in Present, Created[w] < Created[r[1]]
        PROVE  Covered(w)' \/ \E t \in page' : t[1] = w
    <3>1. r \in page /\ w \in Workitem
      BY <1>1, <1>2, <2>1
    <3>2. CASE Covered(w)
      BY <3>1, <3>2, <1>4
    <3>3. CASE \E t \in page : t[1] = w
      BY <3>1, <3>3, <1>1, <1>5
    <3>4. QED
      BY <2>1, <3>1, <3>2, <3>3 DEF FullInv, PageInOrder
  <2>2. QED
    BY <1>2, <2>1 DEF PageInOrder
<1>7. StoppedIsComplete'
  BY <1>2, <1>4 DEF FullInv, StoppedIsComplete
<1>8. CASE page' = {}
  <2>1. syncPoint' = Created[s[1]]
    BY <1>1, <1>8
  <2>2. Reached'
    BY <1>2, <1>3, <1>5, <2>1 DEF Reached
  <2>3. ASSUME NEW w \in Present, Created[w] <= Truncate(syncPoint')
        PROVE  Covered(w)'
    <3>1. w \in Workitem /\ Created[w] \in Nat /\ Created[s[1]] \in Nat
      BY <1>2, <1>3, NoneBehindStart
    <3>2. Created[w] < Created[s[1]]
      <4>1. Truncate(Created[s[1]]) < Created[s[1]] /\ Truncate(Created[s[1]]) \in Nat
        BY <1>3, <3>1, NoneBehindStart, WholeSeconds
      <4>2. QED
        BY <2>1, <2>3, <3>1, <4>1
    <3>3. CASE Covered(w)
      BY <3>1, <3>3, <1>4
    <3>4. CASE \E t \in page : t[1] = w
      BY <3>4, <1>1, <1>8, <1>5
    <3>5. QED
      BY <1>1, <3>2, <3>3, <3>4 DEF FullInv, PageInOrder
  <2>4. BehindIsCovered'
    BY <1>2, <2>3 DEF BehindIsCovered, Truncate
  <2>5. QED
    BY <1>6, <1>7, <2>2, <2>4
<1>9. CASE page' # {}
  <2>1. syncPoint' = syncPoint
    BY <1>1, <1>9
  <2>2. BehindIsCovered'
    BY <1>2, <1>4, <2>1 DEF FullInv, BehindIsCovered, Truncate
  <2>3. Reached'
    BY <1>2, <1>4, <2>1 DEF FullInv, Reached
  <2>4. QED
    BY <1>6, <1>7, <2>2, <2>3
<1>10. QED
  BY <1>8, <1>9

LEMMA NextKeepsFull ==
  ASSUME OneSnapshot, InSecond, Pages, BackupInv, FullInv, [Next]_vars
  PROVE  FullInv'
<1>1. PutHasFile'
  BY PutMadeFile DEF FullInv
<1>2. \A w \in Existing : saves'[w] > 0
  <2>1. \A w \in Workitem : saves[w] \in Nat
    BY DEF BackupInv, TypeOK
  <2>2. CASE saves' = saves
    BY <2>2 DEF FullInv
  <2>3. CASE \E v \in Workitem : OnSave(v)
    <3>1. PICK v \in Workitem : saves' = [saves EXCEPT ![v] = @ + 1]
      BY <2>3 DEF OnSave
    <3>2. \A w \in Workitem : saves'[w] \in {saves[w], saves[w] + 1}
      BY <3>1 DEF BackupInv, TypeOK
    <3>3. QED
      BY <2>1, <3>2, CreatedAssumption DEF FullInv
  <2>4. CASE UNCHANGED vars \/ (\E w \in Workitem : OnDelete(w))
               \/ \E e \in Entry : LockExpires(e)
    BY <2>2, <2>4 DEF vars, OnDelete, LockExpires
  <2>5. CASE BackupStep
    BY <2>2, <2>5
       DEF BackupStep, OnTimeout, SearchEventLog, LockEntry, ResetItems, GetDocument,
           DocumentNotFound, Put, DeleteEntry, EndTimeout
  <2>6. CASE Trouble
    BY <2>2, <2>6
       DEF Trouble, RestartScheduler, LockFails, PutFails, EntryFails, FullFails,
           LoginFails, Restart
  <2>7. CASE FullStep \/ User
    BY <2>2, <2>7
       DEF FullStep, User, FullTimeout, QueryDocuments, CreateRequest, StartScheduler,
           StopScheduler, StartFullBackup, StopFullBackup
  <2>8. QED
    BY <2>3, <2>4, <2>5, <2>6, <2>7 DEF Next
<1>3. ASSUME deleted' = {}
      PROVE  /\ BehindIsCovered'
             /\ Reached'
             /\ PageInOrder'
             /\ StoppedIsComplete'
  <2>1. CASE \E v \in Workitem : OnDelete(v)
    BY <1>3, <2>1 DEF OnDelete
  <2>2. CASE deleted = {} /\ \E v \in Workitem : OnSave(v)
    BY <2>2, SaveKeepsFull
  <2>3. CASE deleted = {} /\ QueryDocuments
    BY <2>3, QueryKeepsFull
  <2>4. CASE deleted = {} /\ CreateRequest
    BY <2>4, RequestKeepsFull
  <2>5. CASE /\ deleted = {} /\ UNCHANGED <<saves, deleted>>
             /\ page' \in {page, {}} /\ syncPoint' \in {syncPoint, 0}
             /\ status' = "stopped" => status = "stopped"
    <3>1. \A w \in Workitem : Covered(w) => Covered(w)'
      BY <2>5, CoveredStays DEF FullInv
    <3>2. QED
      BY <2>5, <3>1, FullQuietKeeps
  <2>6. CASE UNCHANGED vars \/ \E e \in Entry : LockExpires(e)
    BY <1>3, <2>5, <2>6 DEF vars, LockExpires
  <2>7. CASE BackupStep
    BY <1>3, <2>5, <2>7
       DEF BackupStep, OnTimeout, SearchEventLog, LockEntry, ResetItems, GetDocument,
           DocumentNotFound, Put, DeleteEntry, EndTimeout
  <2>8. CASE Trouble
    BY <1>3, <2>5, <2>8
       DEF Trouble, RestartScheduler, LockFails, PutFails, EntryFails, FullFails,
           LoginFails, Restart, StopFull
  <2>9. CASE User
    BY <1>3, <2>5, <2>9
       DEF User, StartScheduler, StopScheduler, StartFullBackup, StopFullBackup, StopFull
  <2>10. CASE FullTimeout
    BY <1>3, <2>5, <2>10 DEF FullTimeout
  <2>11. CASE QueryDocuments \/ CreateRequest
    BY <1>3, <2>3, <2>4, <2>11 DEF QueryDocuments, CreateRequest
  <2>12. CASE \E v \in Workitem : OnSave(v)
    BY <1>3, <2>2, <2>12 DEF OnSave
  <2>13. QED
    BY <2>1, <2>6, <2>7, <2>8, <2>9, <2>10, <2>11, <2>12 DEF Next, FullStep
<1>4. QED
  BY <1>1, <1>2, <1>3 DEF FullInv

\* A full backup that FullBackupService ends itself has left no workitem without a file
\* or an entry, however its pages were cut, whatever was saved, retried or restarted in
\* between, and as long as nothing is deleted: the query begins again with the second of
\* the last workitem, and one that it alone returns has had its request.
THEOREM FullBackupLeavesNone ==
  ASSUME OneSnapshot, InSecond, Pages
  PROVE  Spec => []FullBackupComplete
<1>1. Init => BackupInv /\ FullInv
  BY InitBackupInv, InitFullInv
<1>2. BackupInv /\ FullInv /\ [Next]_vars => BackupInv' /\ FullInv'
  BY NextKeeps, NextKeepsFull
<1>3. BackupInv /\ FullInv => FullBackupComplete
  BY DEF FullInv, StoppedIsComplete, FullBackupComplete, Covered
<1>4. QED
  BY <1>1, <1>2, <1>3, PTL DEF Spec

=============================================================================
