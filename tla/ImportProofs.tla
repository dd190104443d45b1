----------------------------- MODULE ImportProofs -----------------------------
(* Proofs about Import, for any number of workitems, saves, losses, starts,    *)
(* cancels, failures and restarts.                                          *)
EXTENDS Import, TLAPS

\* The workflow server has no snapshot of a workitem it does not have, and none that is
\* newer than the workitem unless an import has set it back.
LocalKnown ==
    \A s \in local : origin[s[1]] # 0 /\ (origin[s[1]] >= s[2] \/ s[1] \in setBack)

\* A file is of a snapshot that exists or has existed, and only gets newer.
FilesKnown ==
    /\ \A w \in Workitem : stored[w] <= saved[w] /\ due[w] <= stored[w]
    /\ \A w \in intact : stored[w] # 0

\* A snapshot in hand is not older than the one its file had when it was listed.
HeldIsDue == held # None => held[2] # 0 /\ due[held[1]] <= held[2]

\* The workitem of the snapshot in hand, as long as it may have to be posted.
InHand(w) == label \in {"exist", "post"} /\ held[1] = w

\* What a run has listed and is done with, it has brought back or skipped.
DoneIsRecovered ==
    \A w \in Workitem :
        due[w] # 0 /\ w \notin todo \union skipped /\ ~InHand(w) => Recovered(w)

ImportInv ==
    /\ TypeOK
    /\ LocalKnown
    /\ FilesKnown
    /\ HeldIsDue
    /\ DoneIsRecovered

-----------------------------------------------------------------------------
USE DEF storeVars, documents, locals, counters, history

LEMMA Leq == \A i, j, k \in Nat : i <= j /\ j <= k => i <= k
OBVIOUS

LEMMA InitImportInv == Init => ImportInv
<1> SUFFICES ASSUME Init
             PROVE  ImportInv
  OBVIOUS
<1>1. saved = [w \in Workitem |-> 0] /\ stored = [w \in Workitem |-> 0]
  BY ImportBounds DEF Init, StoreInit
<1>2. starts \in 0 .. MaxStarts /\ losses \in 0 .. MaxLosses /\ failures \in 0 .. MaxFailures
  BY ImportBounds DEF Init
<1>3. TypeOK
  BY <1>1, <1>2 DEF Init, StoreInit, TypeOK, Nothing
<1>4. LocalKnown /\ FilesKnown /\ HeldIsDue /\ DoneIsRecovered
  BY <1>1 DEF Init, StoreInit, Nothing, LocalKnown, FilesKnown, HeldIsDue, DoneIsRecovered
<1>5. QED
  BY <1>3, <1>4 DEF ImportInv

-----------------------------------------------------------------------------
(* Types *)

LEMMA Counted ==
  ASSUME TypeOK, Fail
  PROVE  failures' \in 0 .. MaxFailures /\ starts' = starts /\ losses' = losses
BY ImportBounds DEF TypeOK, Fail

LEMMA SaveTyping ==
  ASSUME TypeOK, NEW w \in Workitem, SaveWorkitem(w)
  PROVE  /\ TypeOK'
         /\ saved'[w] = saved[w] + 1
         /\ \A u \in Workitem : u # w => saved'[u] = saved[u]
<1>1. saved' = [saved EXCEPT ![w] = saved[w] + 1] /\ UNCHANGED <<stored, intact, removed>>
  BY DEF SaveWorkitem, Save
<1>2. saved[w] + 1 \in Nat /\ saved' \in [Workitem -> Nat] /\ saved'[w] = saved[w] + 1
  BY <1>1 DEF TypeOK
<1>3. origin' \in [Workitem -> Nat] /\ local' \subseteq Workitem \X Nat
  BY <1>2 DEF SaveWorkitem, TypeOK
<1>4. QED
  BY <1>1, <1>2, <1>3 DEF SaveWorkitem, TypeOK

LEMMA WriteTyping ==
  ASSUME TypeOK, NEW w \in Workitem, WriteFile(w)
  PROVE  TypeOK'
<1>1. PICK v \in 1 .. saved[w] : v >= stored[w] /\ stored' = [stored EXCEPT ![w] = v]
  BY DEF WriteFile, Store
<1>2. stored' \in [Workitem -> Nat]
  BY <1>1 DEF TypeOK
<1>3. intact' \subseteq Workitem
  BY DEF WriteFile, Store, TypeOK
<1>4. QED
  BY <1>2, <1>3 DEF WriteFile, Store, TypeOK

LEMMA UserTyping ==
  ASSUME TypeOK, StartImport \/ CancelImport \/ \E w \in Workitem : LoseWorkitem(w)
  PROVE  TypeOK'
<1>1. CASE StartImport
  BY <1>1, ImportBounds DEF StartImport, TypeOK
<1>2. CASE CancelImport
  BY <1>2, ImportBounds DEF CancelImport, TypeOK
<1>3. CASE \E w \in Workitem : LoseWorkitem(w)
  BY <1>3, ImportBounds DEF LoseWorkitem, TypeOK
<1>4. QED
  BY <1>1, <1>2, <1>3

LEMMA PostTyping ==
  ASSUME TypeOK, label = "post", Post
  PROVE  /\ held \in Workitem \X Nat
         /\ local' \subseteq Workitem \X Nat
         /\ origin' \in [Workitem -> Nat]
         /\ setBack' \subseteq Workitem
BY DEF TypeOK, Post

LEMMA SkipTyping ==
  ASSUME TypeOK, NEW w \in Workitem, SkipFile(w)
  PROVE  /\ todo' \subseteq Workitem /\ skipped' \subseteq Workitem
         /\ label' = "check" /\ label = "file"
         /\ UNCHANGED <<storeVars, documents, timers, status, held, due, setBack>>
BY DEF TypeOK, SkipFile

LEMMA StepTyping ==
  ASSUME TypeOK, ImportStep
  PROVE  TypeOK'
<1>1. CASE ImportTimeout \/ ListFiles
  BY <1>1 DEF ImportTimeout, ListFiles, TypeOK
<1>2. ASSUME NEW w \in Workitem, GetFile(w)
      PROVE  TypeOK'
  BY <1>2, ImportBounds DEF GetFile, TypeOK
<1>3. ASSUME NEW w \in Workitem, GetBrokenFile(w)
      PROVE  TypeOK'
  BY <1>3 DEF GetBrokenFile, Leave, Nothing, TypeOK
<1>4. CASE ExistSnapshot \/ NextFile
  BY <1>4 DEF ExistSnapshot, NextFile, TypeOK
<1>5. CASE PostSnapshot
  BY <1>5, PostTyping DEF PostSnapshot, TypeOK
<1>6. CASE Canceled \/ EndImport
  BY <1>6 DEF Canceled, EndImport, StopImport, Leave, Nothing, TypeOK
<1>7. ASSUME NEW w \in Workitem, GetEmptyFile(w)
      PROVE  TypeOK'
  BY <1>7, SkipTyping DEF GetEmptyFile, TypeOK
<1>8. QED
  BY <1>1, <1>2, <1>3, <1>4, <1>5, <1>6, <1>7 DEF ImportStep

LEMMA TroubleTyping ==
  ASSUME TypeOK, Trouble
  PROVE  TypeOK'
<1>1. CASE ConnectionFails
  BY <1>1, Counted DEF ConnectionFails, Leave, Nothing, TypeOK
<1>2. CASE LoginFails
  BY <1>2, Counted DEF LoginFails, Leave, Nothing, TypeOK
<1>3. CASE ExistSnapshotFails
  BY <1>3, Counted DEF ExistSnapshotFails, TypeOK
<1>4. CASE PostSnapshotFails
  BY <1>4, Counted, PostTyping DEF PostSnapshotFails, Leave, Nothing, TypeOK
<1>5. CASE Restart
  BY <1>5, Counted DEF Restart, Leave, Nothing, TypeOK
<1>6. ASSUME NEW w \in Workitem, GetNothing(w)
      PROVE  TypeOK'
  BY <1>6, Counted, SkipTyping DEF GetNothing, TypeOK
<1>7. QED
  BY <1>1, <1>2, <1>3, <1>4, <1>5, <1>6 DEF Trouble

LEMMA NextTyping == TypeOK /\ [Next]_vars => TypeOK'
<1>1. TypeOK /\ UNCHANGED vars => TypeOK'
  BY DEF vars, TypeOK
<1>2. QED
  BY <1>1, SaveTyping, WriteTyping, UserTyping, StepTyping, TroubleTyping DEF Next

\* Each variable keeps its type, and a run only goes on while the timer that it will
\* cancel is there, however often RestoreController starts and cancels.
THEOREM ImportTyping == Spec => []TypeOK
<1>1. Init => TypeOK
  BY InitImportInv DEF ImportInv
<1>2. QED
  BY <1>1, NextTyping, PTL DEF Spec

-----------------------------------------------------------------------------
(* What a run has listed *)

LEMMA SaveKeeps ==
  ASSUME ImportInv, NEW w \in Workitem, SaveWorkitem(w)
  PROVE  ImportInv'
<1> USE DEF ImportInv
<1>1. TypeOK /\ TypeOK' /\ saved'[w] = saved[w] + 1
      /\ \A u \in Workitem : u # w => saved'[u] = saved[u]
  BY SaveTyping
<1>2. UNCHANGED <<stored, due, skipped, held, label, todo>>
  BY DEF SaveWorkitem, Save
<1>3. origin'[w] = saved[w] + 1 /\ \A u \in Workitem : u # w => origin'[u] = origin[u]
  BY <1>1 DEF SaveWorkitem, TypeOK
<1>4. local' = { s \in local : s[1] # w } \union { <<w, saved[w] + 1>> }
      /\ setBack' = setBack \ {w}
  BY <1>1 DEF SaveWorkitem
<1>5. FilesKnown'
  <2> SUFFICES ASSUME NEW u \in Workitem
               PROVE  stored[u] <= saved'[u] /\ due[u] <= stored[u]
    BY <1>2 DEF FilesKnown, SaveWorkitem, Save
  <2>1. stored[u] <= saved[u] /\ due[u] <= stored[u]
    BY DEF FilesKnown
  <2>2. saved[u] \in Nat /\ stored[u] \in Nat
    BY <1>1 DEF TypeOK
  <2>3. QED
    BY <1>1, <2>1, <2>2
<1>6. LocalKnown'
  <2> SUFFICES ASSUME NEW s \in local'
               PROVE  origin'[s[1]] # 0 /\ (origin'[s[1]] >= s[2] \/ s[1] \in setBack')
    BY DEF LocalKnown
  <2>1. saved[w] \in Nat
    BY <1>1 DEF TypeOK
  <2>2. CASE s = <<w, saved[w] + 1>>
    BY <1>3, <2>1, <2>2
  <2>3. CASE s \in local /\ s[1] # w
    <3>1. s[1] \in Workitem
      BY <1>1, <2>3 DEF TypeOK
    <3>2. QED
      BY <1>3, <1>4, <2>3, <3>1 DEF LocalKnown
  <2>4. QED
    BY <1>4, <2>2, <2>3
<1>7. DoneIsRecovered'
  <2> SUFFICES ASSUME NEW u \in Workitem, due[u] # 0, u \notin todo \union skipped,
                      ~InHand(u)
               PROVE  Recovered(u)'
    BY <1>2 DEF DoneIsRecovered, InHand
  <2>1. CASE u = w
    <3>1. due[w] <= stored[w] /\ stored[w] <= saved[w]
      BY DEF FilesKnown
    <3>2. due[w] \in Nat /\ stored[w] \in Nat /\ saved[w] \in Nat
      BY <1>1 DEF TypeOK
    <3>3. QED
      BY <1>2, <1>3, <2>1, <3>1, <3>2 DEF Recovered
  <2>2. CASE u # w
    BY <1>2, <1>3, <1>4, <2>2 DEF DoneIsRecovered, Recovered
  <2>3. QED
    BY <2>1, <2>2
<1>8. QED
  BY <1>1, <1>2, <1>5, <1>6, <1>7 DEF HeldIsDue

LEMMA WriteKeeps ==
  ASSUME ImportInv, NEW w \in Workitem, WriteFile(w)
  PROVE  ImportInv'
<1> USE DEF ImportInv
<1>1. TypeOK /\ TypeOK'
  BY WriteTyping
<1>2. PICK v \in 1 .. saved[w] : v >= stored[w] /\ stored' = [stored EXCEPT ![w] = v]
  BY DEF WriteFile, Store
<1>3. UNCHANGED <<saved, documents, locals, history>>
  BY DEF WriteFile, Store
<1>4. FilesKnown'
  <2> SUFFICES ASSUME NEW u \in Workitem
               PROVE  /\ stored'[u] <= saved[u] /\ due[u] <= stored'[u]
                      /\ u \in intact' => stored'[u] # 0
    <3>1. intact' \subseteq Workitem
      BY <1>1 DEF TypeOK
    <3>2. QED
      BY <1>3, <3>1 DEF FilesKnown
  <2>1. stored[u] <= saved[u] /\ due[u] <= stored[u]
        /\ (u \in intact' /\ u # w => stored[u] # 0)
    BY DEF FilesKnown, WriteFile, Store
  <2>2. saved[u] \in Nat /\ stored[u] \in Nat /\ due[u] \in Nat /\ stored \in [Workitem -> Nat]
    BY <1>1 DEF TypeOK
  <2>3. stored'[u] = IF u = w THEN v ELSE stored[u]
    BY <1>2, <2>2
  <2>4. QED
    BY <1>2, <2>1, <2>2, <2>3
<1>5. QED
  BY <1>1, <1>3, <1>4 DEF LocalKnown, HeldIsDue, DoneIsRecovered, InHand, Recovered

LEMMA UserKeeps ==
  ASSUME ImportInv, StartImport \/ CancelImport
  PROVE  ImportInv'
<1>1. TypeOK'
  BY UserTyping DEF ImportInv
<1>2. UNCHANGED <<storeVars, documents, locals, history>>
  BY DEF StartImport, CancelImport
<1>3. QED
  BY <1>1, <1>2
     DEF ImportInv, LocalKnown, FilesKnown, HeldIsDue, DoneIsRecovered, InHand, Recovered

LEMMA LoseKeeps ==
  ASSUME ImportInv, NEW w \in Workitem, LoseWorkitem(w)
  PROVE  ImportInv'
<1> USE DEF ImportInv
<1>1. TypeOK /\ TypeOK'
  BY UserTyping
<1>2. UNCHANGED <<storeVars, held, label, todo, skipped>>
  BY DEF LoseWorkitem
<1>3. /\ origin' = [origin EXCEPT ![w] = 0]
      /\ due' = [due EXCEPT ![w] = 0]
      /\ local' = { s \in local : s[1] # w }
      /\ setBack' = setBack \ {w}
  BY DEF LoseWorkitem
<1>4. \A u \in Workitem : IF u = w THEN due'[u] = 0
                                   ELSE due'[u] = due[u] /\ origin'[u] = origin[u]
  BY <1>1, <1>3 DEF TypeOK
<1>5. FilesKnown'
  BY <1>1, <1>2, <1>4 DEF FilesKnown, TypeOK
<1>6. LocalKnown'
  <2> SUFFICES ASSUME NEW s \in local, s[1] # w
               PROVE  origin'[s[1]] # 0 /\ (origin'[s[1]] >= s[2] \/ s[1] \in setBack')
    BY <1>3 DEF LocalKnown
  <2>1. s[1] \in Workitem
    BY <1>1 DEF TypeOK
  <2>2. QED
    BY <1>3, <1>4, <2>1 DEF LocalKnown
<1>7. HeldIsDue'
  <2> SUFFICES ASSUME held # None
               PROVE  held[2] # 0 /\ due'[held[1]] <= held[2]
    BY <1>2 DEF HeldIsDue
  <2>1. held[1] \in Workitem /\ held[2] \in Nat
    BY <1>1 DEF TypeOK
  <2>2. QED
    BY <1>4, <2>1 DEF HeldIsDue
<1>8. DoneIsRecovered'
  BY <1>2, <1>3, <1>4 DEF DoneIsRecovered, InHand, Recovered
<1>9. QED
  BY <1>1, <1>5, <1>6, <1>7, <1>8

\* The end of a run leaves nothing in hand and owes nothing.
LEMMA LeaveKeeps ==
  ASSUME ImportInv, TypeOK', LocalKnown', Leave, UNCHANGED storeVars
  PROVE  ImportInv'
<1>1. due' = [w \in Workitem |-> 0] /\ held' = None
  BY DEF Leave, Nothing
<1>2. FilesKnown'
  BY <1>1 DEF ImportInv, FilesKnown, TypeOK
<1>3. HeldIsDue' /\ DoneIsRecovered'
  BY <1>1 DEF HeldIsDue, DoneIsRecovered
<1>4. QED
  BY <1>2, <1>3 DEF ImportInv

LEMMA StopKeeps ==
  ASSUME ImportInv, TypeOK', Leave, UNCHANGED <<storeVars, documents, setBack>>
  PROVE  ImportInv'
<1>1. LocalKnown'
  BY DEF ImportInv, LocalKnown
<1>2. QED
  BY <1>1, LeaveKeeps

\* A posted snapshot replaces its workitem; a newer snapshot that stays is one of a
\* workitem that is set back.
LEMMA PostKnown ==
  ASSUME ImportInv, label = "post", Post
  PROVE  /\ LocalKnown'
         /\ held \in Workitem \X Nat /\ held # None
         /\ origin'[held[1]] = held[2] /\ held[2] # 0
         /\ \A u \in Workitem : u # held[1] => origin'[u] = origin[u]
         /\ setBack \subseteq setBack'
<1> USE DEF ImportInv
<1>1. held \in Workitem \X Nat /\ held # None
  BY PostTyping DEF TypeOK
<1>2. held[2] # 0
  BY <1>1 DEF HeldIsDue
<1>3. /\ local' = local \union {held}
      /\ origin' = [origin EXCEPT ![held[1]] = held[2]]
      /\ setBack' = IF origin[held[1]] > held[2] THEN setBack \union {held[1]} ELSE setBack
  BY DEF Post
<1>4. origin'[held[1]] = held[2]
      /\ \A u \in Workitem : u # held[1] => origin'[u] = origin[u]
  BY <1>1, <1>3 DEF TypeOK
<1>5. setBack \subseteq setBack'
  BY <1>3
<1>6. LocalKnown'
  <2> SUFFICES ASSUME NEW s \in local'
               PROVE  origin'[s[1]] # 0 /\ (origin'[s[1]] >= s[2] \/ s[1] \in setBack')
    BY DEF LocalKnown
  <2>1. CASE s = held
    BY <1>1, <1>2, <1>4, <2>1
  <2>2. CASE s \in local /\ s[1] # held[1]
    <3>1. s[1] \in Workitem
      BY <2>2 DEF TypeOK
    <3>2. QED
      BY <1>4, <1>5, <2>2, <3>1 DEF LocalKnown
  <2>3. CASE s \in local /\ s[1] = held[1]
    <3>1. s[2] \in Nat /\ held[2] \in Nat /\ origin[held[1]] \in Nat
      BY <1>1, <2>3 DEF TypeOK
    <3>2. CASE origin[held[1]] > held[2]
      BY <1>2, <1>3, <1>4, <2>3, <3>2
    <3>3. CASE ~(origin[held[1]] > held[2])
      <4>1. origin[held[1]] >= s[2] \/ held[1] \in setBack
        BY <2>3 DEF LocalKnown
      <4>2. QED
        BY <1>2, <1>4, <1>5, <2>3, <3>1, <3>3, <4>1
    <3>4. QED
      BY <3>2, <3>3
  <2>4. QED
    BY <1>3, <2>1, <2>2, <2>3
<1>7. QED
  BY <1>1, <1>2, <1>4, <1>5, <1>6

\* A step of a run that leaves the documents and the list of what is owed alone, and
\* loses no workitem from sight.
LEMMA StepQuietKeeps ==
  ASSUME ImportInv, TypeOK', HeldIsDue', UNCHANGED <<storeVars, documents, history>>,
         \A w \in Workitem : due[w] # 0 /\ (w \in todo \/ InHand(w)) =>
                              w \in todo' \/ InHand(w)' \/ Recovered(w)
  PROVE  ImportInv'
<1>1. LocalKnown' /\ FilesKnown'
  BY DEF ImportInv, LocalKnown, FilesKnown
<1>2. DoneIsRecovered'
  BY DEF ImportInv, DoneIsRecovered, Recovered
<1>3. QED
  BY <1>1, <1>2 DEF ImportInv

\* A file of which the run gets nothing is no longer one of those it brings back.
LEMMA SkipKeeps ==
  ASSUME ImportInv, TypeOK', NEW w \in Workitem, SkipFile(w)
  PROVE  ImportInv'
<1>1. /\ UNCHANGED <<storeVars, documents, held, due, setBack>>
      /\ todo' = todo \ {w} /\ skipped' = skipped \union {w}
      /\ label = "file" /\ label' = "check"
  BY DEF SkipFile
<1>2. LocalKnown' /\ FilesKnown' /\ HeldIsDue'
  BY <1>1 DEF ImportInv, LocalKnown, FilesKnown, HeldIsDue
<1>3. DoneIsRecovered'
  BY <1>1 DEF ImportInv, DoneIsRecovered, InHand, Recovered
<1>4. QED
  BY <1>2, <1>3 DEF ImportInv

LEMMA StepKeeps ==
  ASSUME ImportInv, ImportStep
  PROVE  ImportInv'
<1> USE DEF ImportInv
<1>1. TypeOK /\ TypeOK'
  BY StepTyping
<1>2. CASE ImportTimeout
  <2>1. HeldIsDue'
    BY <1>2 DEF ImportTimeout, HeldIsDue
  <2>2. \A w \in Workitem : ~InHand(w) /\ UNCHANGED todo
    BY <1>2 DEF ImportTimeout, InHand
  <2>3. QED
    BY <1>1, <1>2, <2>1, <2>2, StepQuietKeeps DEF ImportTimeout
<1>3. CASE ListFiles
  <2>1. FilesKnown'
    BY <1>1, <1>3 DEF ListFiles, FilesKnown, TypeOK
  <2>2. HeldIsDue'
    BY <1>1, <1>3 DEF ListFiles, HeldIsDue, TypeOK
  <2>3. DoneIsRecovered'
    BY <1>3 DEF ListFiles, DoneIsRecovered
  <2>4. LocalKnown'
    BY <1>3 DEF ListFiles, LocalKnown
  <2>5. QED
    BY <1>1, <2>1, <2>2, <2>3, <2>4
<1>4. ASSUME NEW w \in Workitem, GetFile(w)
      PROVE  ImportInv'
  <2>1. held' = <<w, stored[w]>> /\ todo' = todo \ {w} /\ label = "file" /\ label' = "exist"
    BY <1>4 DEF GetFile
  <2>2. stored[w] # 0
    BY <1>4 DEF GetFile, FilesKnown
  <2>3. HeldIsDue'
    BY <1>4, <2>1, <2>2 DEF GetFile, HeldIsDue, FilesKnown
  <2>4. \A u \in Workitem : u \in todo \/ InHand(u) => u \in todo' \/ InHand(u)'
    BY <2>1 DEF InHand
  <2>5. QED
    BY <1>1, <1>4, <2>3, <2>4, StepQuietKeeps DEF GetFile
<1>5. ASSUME NEW w \in Workitem, GetBrokenFile(w)
      PROVE  ImportInv'
  BY <1>1, <1>5, StopKeeps DEF GetBrokenFile
<1>6. CASE ExistSnapshot
  <2>1. HeldIsDue'
    BY <1>6 DEF ExistSnapshot, HeldIsDue
  <2>2. CASE held \in local
    <3>1. held # None /\ held[1] \in Workitem /\ held[2] \in Nat
      BY <1>1, <1>6 DEF ExistSnapshot, TypeOK
    <3>2. due[held[1]] <= held[2]
      BY <3>1 DEF HeldIsDue
    <3>3. origin[held[1]] \in Nat /\ due[held[1]] \in Nat
      BY <1>1, <3>1 DEF TypeOK
    <3>4. origin[held[1]] # 0 /\ (origin[held[1]] >= held[2] \/ held[1] \in setBack)
      BY <2>2 DEF LocalKnown
    <3>5. Recovered(held[1])
      BY <3>1, <3>2, <3>3, <3>4 DEF Recovered
    <3>6. \A w \in Workitem : w \in todo \/ InHand(w) => w \in todo' \/ Recovered(w)
      BY <1>6, <3>5 DEF ExistSnapshot, InHand
    <3>7. QED
      BY <1>1, <1>6, <2>1, <3>6, StepQuietKeeps DEF ExistSnapshot
  <2>3. CASE held \notin local
    <3>1. \A w \in Workitem : w \in todo \/ InHand(w) => w \in todo' \/ InHand(w)'
      BY <1>6, <2>3 DEF ExistSnapshot, InHand
    <3>2. QED
      BY <1>1, <1>6, <2>1, <3>1, StepQuietKeeps DEF ExistSnapshot
  <2>4. QED
    BY <2>2, <2>3
<1>7. CASE PostSnapshot
  <2>1. /\ LocalKnown'
        /\ held \in Workitem \X Nat /\ held # None
        /\ origin'[held[1]] = held[2] /\ held[2] # 0
        /\ \A u \in Workitem : u # held[1] => origin'[u] = origin[u]
        /\ setBack \subseteq setBack'
    BY <1>7, PostKnown DEF PostSnapshot
  <2>2. UNCHANGED <<storeVars, held, todo, due, skipped>> /\ label = "post"
    BY <1>7 DEF PostSnapshot
  <2>3. HeldIsDue' /\ FilesKnown'
    BY <2>2 DEF HeldIsDue, FilesKnown
  <2>4. DoneIsRecovered'
    <3> SUFFICES ASSUME NEW u \in Workitem, due[u] # 0, u \notin todo \union skipped
                 PROVE  Recovered(u)'
      BY <2>2 DEF DoneIsRecovered
    <3>1. CASE u = held[1]
      <4>1. due[u] <= held[2]
        BY <2>1, <3>1 DEF HeldIsDue
      <4>2. due[u] \in Nat /\ held[2] \in Nat
        BY <1>1, <2>1 DEF TypeOK
      <4>3. QED
        BY <2>1, <2>2, <3>1, <4>1, <4>2 DEF Recovered
    <3>2. CASE u # held[1]
      BY <2>1, <2>2, <3>2 DEF DoneIsRecovered, InHand, Recovered
    <3>3. QED
      BY <3>1, <3>2
  <2>5. QED
    BY <1>1, <2>1, <2>3, <2>4
<1>8. CASE NextFile
  <2>1. HeldIsDue'
    BY <1>8 DEF NextFile, HeldIsDue
  <2>2. \A w \in Workitem : ~InHand(w) /\ UNCHANGED todo
    BY <1>8 DEF NextFile, InHand
  <2>3. QED
    BY <1>1, <1>8, <2>1, <2>2, StepQuietKeeps DEF NextFile
<1>9. CASE Canceled \/ EndImport
  BY <1>1, <1>9, StopKeeps DEF Canceled, EndImport, StopImport
<1>10. ASSUME NEW w \in Workitem, GetEmptyFile(w)
       PROVE  ImportInv'
  BY <1>1, <1>10, SkipKeeps DEF GetEmptyFile
<1>11. QED
  BY <1>2, <1>3, <1>4, <1>5, <1>6, <1>7, <1>8, <1>9, <1>10 DEF ImportStep

LEMMA TroubleKeeps ==
  ASSUME ImportInv, Trouble
  PROVE  ImportInv'
<1> USE DEF ImportInv
<1>1. TypeOK /\ TypeOK'
  BY TroubleTyping
<1>2. CASE ConnectionFails \/ LoginFails \/ Restart
  BY <1>1, <1>2, StopKeeps DEF ConnectionFails, LoginFails, Restart
<1>3. CASE ExistSnapshotFails
  <2>1. HeldIsDue'
    BY <1>3 DEF ExistSnapshotFails, HeldIsDue
  <2>2. \A w \in Workitem : w \in todo \/ InHand(w) => w \in todo' \/ InHand(w)'
    BY <1>3 DEF ExistSnapshotFails, InHand
  <2>3. UNCHANGED <<storeVars, documents, history>>
    BY <1>3 DEF ExistSnapshotFails
  <2>4. QED
    BY <1>1, <2>1, <2>2, <2>3, StepQuietKeeps
<1>4. CASE PostSnapshotFails
  <2>1. label = "post" /\ Leave /\ UNCHANGED storeVars
        /\ (Post \/ UNCHANGED <<documents, setBack>>)
    BY <1>4 DEF PostSnapshotFails
  <2>2. LocalKnown'
    BY <2>1, PostKnown DEF LocalKnown
  <2>3. QED
    BY <1>1, <2>1, <2>2, LeaveKeeps
<1>5. ASSUME NEW w \in Workitem, GetNothing(w)
      PROVE  ImportInv'
  BY <1>1, <1>5, SkipKeeps DEF GetNothing
<1>6. QED
  BY <1>2, <1>3, <1>4, <1>5 DEF Trouble

LEMMA NextKeeps == ImportInv /\ [Next]_vars => ImportInv'
<1>1. ImportInv /\ UNCHANGED vars => ImportInv'
  BY NextTyping
     DEF vars, ImportInv, LocalKnown, FilesKnown, HeldIsDue, DoneIsRecovered, InHand, Recovered
<1>2. QED
  BY <1>1, SaveKeeps, WriteKeeps, UserKeeps, LoseKeeps, StepKeeps, TroubleKeeps DEF Next

\* A run that comes to its last file has brought back every workitem whose whole file it
\* listed and did not skip, with the snapshot of that file or a newer one: while users
\* save, the backup writes files, calls for a snapshot fail, and earlier runs broke off
\* anywhere.  A file it gets nothing of is skipped, whatever it holds.
THEOREM AllImported == Spec => []Imported
<1>1. ImportInv => Imported
  BY DEF ImportInv, DoneIsRecovered, InHand, Imported
<1>2. QED
  BY <1>1, InitImportInv, NextKeeps, PTL DEF Spec

=============================================================================
