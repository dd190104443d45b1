----------------------------- MODULE ExportProofs -----------------------------
(* Proofs about Export, for any number of workitems, files, instances, failures *)
(* and restarts.                                                            *)
EXTENDS Export, TLAPS

Holding(i) == label[i] \in {"pull", "snapshot", "write"}
Guarded(i) == Holding(i) /\ entry[i][1] \notin unguarded

\* Entries are of versions that exist.
NamesKnown ==
    /\ \A e \in Entry : event[e] # "none" => e[2] <= saves[e[1]]
    /\ \A i \in Instance : \A e \in batch[i] : e[2] <= saves[e[1]]
    /\ \A i \in Instance : entry[i] # None => entry[i][2] <= saves[entry[i][1]]

OneAtWork ==
    \A i, j \in Instance :
        Guarded(i) /\ Holding(j) /\ entry[j][1] = entry[i][1] => i = j

WorkInLog == \A i \in Instance : Guarded(i) => InLog(entry[i])

\* What an instance has read is not older than any entry that is done.
ReadNewest ==
    \A i \in Instance : Guarded(i) /\ label[i] # "pull" =>
        /\ entry[i][2] <= version[i]
        /\ \A e \in Entry :
               e[1] = entry[i][1] /\ event[e] = "deleted" => e[2] <= version[i]

WrittenWhole ==
    \A i \in Instance : Guarded(i) /\ label[i] = "write" =>
        \A n \in File \ todo[i] :
            file[entry[i][1]][n] = version[i] /\ <<entry[i][1], n>> \notin partial

ExportInv ==
    /\ TypeOK
    /\ NamesKnown
    /\ OneAtWork
    /\ WorkInLog
    /\ ReadNewest
    /\ WrittenWhole
    /\ ExportedOrQueued

-----------------------------------------------------------------------------
USE DEF server, store, counters, locals

LEMMA InitExportInv == Init => ExportInv
<1> SUFFICES ASSUME Init
             PROVE  ExportInv
  OBVIOUS
<1>1. TypeOK
  BY ExportBounds DEF Init, TypeOK, EventStatus, Labels
<1>2. \A i \in Instance : ~Holding(i)
  BY DEF Init, Holding
<1>3. NamesKnown /\ ExportedOrQueued
  BY DEF Init, NamesKnown, ExportedOrQueued
<1>4. OneAtWork /\ WorkInLog /\ ReadNewest /\ WrittenWhole
  BY <1>2 DEF OneAtWork, WorkInLog, ReadNewest, WrittenWhole, Guarded
<1>5. QED
  BY <1>1, <1>3, <1>4 DEF ExportInv

-----------------------------------------------------------------------------
(* Types *)

LEMMA Counted ==
  ASSUME TypeOK, Fail
  PROVE  failures' \in 0 .. MaxFailures /\ starts' = starts
BY ExportBounds DEF TypeOK, Fail

LEMMA UserTyping ==
  ASSUME TypeOK, NEW w \in Workitem, Process(w) \/ DeleteWorkitem(w)
  PROVE  TypeOK'
<1>1. CASE Process(w)
  <2>1. saves' = [saves EXCEPT ![w] = saves[w] + 1] /\ saves[w] < MaxSaves
    BY <1>1 DEF Process
  <2>2. saves[w] + 1 \in 1 .. MaxSaves /\ <<w, saves[w] + 1>> \in Entry
    BY <2>1, ExportBounds DEF TypeOK, Entry
  <2>3. saves' \in [Workitem -> 0 .. MaxSaves]
    BY <2>1, <2>2 DEF TypeOK
  <2>4. event' \in [Entry -> EventStatus] /\ malformed' \subseteq Entry
    BY <1>1, <2>2 DEF Process, TypeOK, EventStatus
  <2>5. QED
    BY <1>1, <2>3, <2>4 DEF Process, TypeOK
<1>2. CASE DeleteWorkitem(w)
  BY <1>2 DEF DeleteWorkitem, TypeOK
<1>3. QED
  BY <1>1, <1>2

LEMMA ExpireTyping ==
  ASSUME TypeOK, NEW e \in Entry, LockExpires(e)
  PROVE  TypeOK'
<1>1. event' \in [Entry -> EventStatus]
  BY DEF LockExpires, TypeOK, EventStatus
<1>2. QED
  BY <1>1 DEF LockExpires, TypeOK

LEMMA ToggleTyping ==
  ASSUME TypeOK, NEW i \in Instance, Toggle(i)
  PROVE  TypeOK'
BY ExportBounds DEF Toggle, TypeOK

\* The locals of an instance whose run or entry ends, or goes on with an entry.
LocalsTyped ==
    /\ label \in [Instance -> Labels]
    /\ batch \in [Instance -> SUBSET Entry]
    /\ entry \in [Instance -> Entry \union {None}]
    /\ version \in [Instance -> 0 .. MaxSaves]
    /\ todo \in [Instance -> SUBSET File]
    /\ \A i \in Instance :
        /\ entry[i] = None <=> label[i] \in {"idle", "search", "next"}
        /\ todo[i] # {} => label[i] \in {"write", "unlock"}

LEMMA EndTyping ==
  ASSUME TypeOK, NEW i \in Instance, EndRun(i) \/ EndEntry(i)
  PROVE  LocalsTyped'
<1>1. 0 \in 0 .. MaxSaves
  BY ExportBounds
<1>2. PICK l \in {"idle", "next"} : label' = [label EXCEPT ![i] = l]
  BY DEF EndRun, EndEntry, Goto
<1>3. /\ entry' = [entry EXCEPT ![i] = None]
      /\ version' = [version EXCEPT ![i] = 0]
      /\ todo' = [todo EXCEPT ![i] = {}]
      /\ batch' \in {batch, [batch EXCEPT ![i] = {}]}
  BY DEF EndRun, EndEntry
<1>4. label' \in [Instance -> Labels] /\ batch' \in [Instance -> SUBSET Entry]
  BY <1>2, <1>3 DEF TypeOK, Labels
<1>5. /\ entry' \in [Instance -> Entry \union {None}]
      /\ version' \in [Instance -> 0 .. MaxSaves]
      /\ todo' \in [Instance -> SUBSET File]
  BY <1>1, <1>3 DEF TypeOK
<1>6. ASSUME NEW j \in Instance
      PROVE  /\ entry'[j] = None <=> label'[j] \in {"idle", "search", "next"}
             /\ todo'[j] # {} => label'[j] \in {"write", "unlock"}
  BY <1>2, <1>3 DEF TypeOK
<1>7. QED
  BY <1>4, <1>5, <1>6 DEF LocalsTyped

LEMMA TakeTyping ==
  ASSUME TypeOK, NEW i \in Instance, label[i] = "next", NEW e \in batch[i], Take(i, e),
         NEW l \in {"pull", "unlock"}, Goto(i, l), UNCHANGED <<version, todo>>
  PROVE  LocalsTyped'
BY NoEntry DEF Take, Goto, TypeOK, LocalsTyped, Labels

LEMMA StoreTyping ==
  ASSUME TypeOK, NEW i \in Instance, entry[i] # None, NEW n \in File,
         file' = [file EXCEPT ![entry[i][1]][n] = version[i]]
  PROVE  file' \in [Workitem -> [File -> Nat]] /\ <<entry[i][1], n>> \in Workitem \X File
<1>1. entry[i][1] \in Workitem /\ version[i] \in Nat
  BY ExportBounds DEF TypeOK, Entry
<1>2. /\ file[entry[i][1]] \in [File -> Nat]
      /\ file' = [file EXCEPT ![entry[i][1]] = [file[entry[i][1]] EXCEPT ![n] = version[i]]]
  BY <1>1 DEF TypeOK
<1>3. [file[entry[i][1]] EXCEPT ![n] = version[i]] \in [File -> Nat]
  BY <1>1, <1>2
<1>4. QED
  BY <1>1, <1>2, <1>3 DEF TypeOK

LEMMA PartTyping ==
  ASSUME TypeOK, NEW i \in Instance, WritePart(i)
  PROVE  file' \in [Workitem -> [File -> Nat]] /\ partial' \subseteq Workitem \X File
<1>1. PICK n \in todo[i] :
         /\ file' = [file EXCEPT ![entry[i][1]][n] = version[i]]
         /\ partial' = partial \union {<<entry[i][1], n>>}
  BY DEF WritePart
<1>2. n \in File /\ entry[i] # None
  BY DEF TypeOK, WritePart
<1>3. file' \in [Workitem -> [File -> Nat]] /\ <<entry[i][1], n>> \in Workitem \X File
  BY <1>1, <1>2, StoreTyping
<1>4. QED
  BY <1>1, <1>3 DEF TypeOK

LEMMA StepTyping ==
  ASSUME TypeOK, NEW i \in Instance, Step(i)
  PROVE  TypeOK'
<1>1. CASE OnTimeout(i)
  <2>1. event' \in [Entry -> EventStatus]
    BY <1>1 DEF OnTimeout, Released, TypeOK, EventStatus
  <2>2. QED
    BY <1>1, <2>1 DEF OnTimeout, Goto, TypeOK, Labels
<1>2. CASE SearchEventLog(i)
  BY <1>2 DEF SearchEventLog, Goto, TypeOK, Labels
<1>3. CASE CompileFails(i) \/ EndTimeout(i)
  BY <1>3, EndTyping DEF CompileFails, EndTimeout, TypeOK, LocalsTyped
<1>4. CASE LockEntry(i)
  <2>1. PICK e \in batch[i] \ malformed :
           /\ Take(i, e)
           /\ event' = [event EXCEPT ![e] = IF @ = "queued" THEN "locked" ELSE @]
           /\ unguarded' \subseteq unguarded \union {e[1]}
    BY <1>4 DEF LockEntry
  <2>2. e \in Entry /\ e[1] \in Workitem
    BY DEF TypeOK, Entry
  <2>3. event' \in [Entry -> EventStatus]
    BY <2>1, <2>2 DEF TypeOK, EventStatus
  <2>4. LocalsTyped'
    BY <1>4, <2>1, TakeTyping DEF LockEntry
  <2>5. QED
    BY <1>4, <2>1, <2>2, <2>3, <2>4 DEF LockEntry, TypeOK, LocalsTyped
<1>5. CASE RefuseLock(i)
  <2>1. PICK e \in batch[i] : Take(i, e)
    BY <1>5 DEF RefuseLock
  <2>2. LocalsTyped'
    BY <1>5, <2>1, TakeTyping DEF RefuseLock
  <2>3. QED
    BY <1>5, <2>2 DEF RefuseLock, TypeOK, LocalsTyped
<1>6. CASE GetWorkitem(i)
  <2>1. entry[i][1] \in Workitem
    BY <1>6 DEF GetWorkitem, TypeOK, Entry
  <2>2. saves[entry[i][1]] \in 0 .. MaxSaves
    BY <2>1 DEF TypeOK
  <2>3. version' \in [Instance -> 0 .. MaxSaves] /\ todo' \in [Instance -> SUBSET File]
    BY <1>6, <2>2 DEF GetWorkitem, TypeOK
  <2>4. PICK l \in {"write", "snapshot"} :
           /\ label' = [label EXCEPT ![i] = l]
           /\ todo' = IF l = "write" THEN [todo EXCEPT ![i] = File] ELSE todo
    BY <1>6 DEF GetWorkitem, Goto
  <2>5. label' \in [Instance -> Labels] /\ label[i] = "pull"
    BY <1>6, <2>4 DEF GetWorkitem, TypeOK, Labels
  <2>6. ASSUME NEW j \in Instance
        PROVE  /\ entry[j] = None <=> label'[j] \in {"idle", "search", "next"}
               /\ todo'[j] # {} => label'[j] \in {"write", "unlock"}
    BY <2>4, <2>5 DEF TypeOK
  <2>7. QED
    BY <1>6, <2>3, <2>5, <2>6 DEF GetWorkitem, TypeOK
<1>7. CASE GetSnapshot(i) \/ DocumentNotFound(i)
  BY <1>7 DEF GetSnapshot, DocumentNotFound, Goto, TypeOK, Labels
<1>8. CASE WriteFile(i)
  <2>1. PICK n \in todo[i] :
           /\ todo' = [todo EXCEPT ![i] = @ \ {n}]
           /\ \/ UNCHANGED store
              \/ /\ file' = [file EXCEPT ![entry[i][1]][n] = version[i]]
                 /\ partial' = partial \ {<<entry[i][1], n>>}
    BY <1>8 DEF WriteFile
  <2>2. n \in File /\ entry[i] # None
    BY <1>8 DEF WriteFile, TypeOK
  <2>3. file' \in [Workitem -> [File -> Nat]] /\ partial' \subseteq Workitem \X File
    BY <2>1, <2>2, StoreTyping DEF TypeOK
  <2>4. QED
    BY <1>8, <2>1, <2>3 DEF WriteFile, TypeOK
<1>9. CASE DeleteEntry(i)
  <2>1. entry[i] \in Entry
    BY <1>9 DEF DeleteEntry, TypeOK
  <2>2. event' \in [Entry -> EventStatus]
    BY <1>9, <2>1 DEF DeleteEntry, TypeOK, EventStatus
  <2>3. QED
    BY <1>9, <2>2, EndTyping DEF DeleteEntry, TypeOK, LocalsTyped
<1>10. CASE UnlockEntry(i)
  <2>1. entry[i] \in Entry
    BY <1>10 DEF UnlockEntry, TypeOK
  <2>2. event' \in [Entry -> EventStatus]
    BY <1>10, <2>1 DEF UnlockEntry, Unlocked, TypeOK, EventStatus
  <2>3. QED
    BY <1>10, <2>2, EndTyping DEF UnlockEntry, TypeOK, LocalsTyped
<1>11. QED
  BY <1>1, <1>2, <1>3, <1>4, <1>5, <1>6, <1>7, <1>8, <1>9, <1>10 DEF Step

LEMMA TroubleTyping ==
  ASSUME TypeOK, NEW i \in Instance, Trouble(i)
  PROVE  TypeOK'
<1>1. CASE SearchFails(i)
  BY <1>1, Counted, EndTyping DEF SearchFails, TypeOK, LocalsTyped
<1>2. CASE LockFails(i)
  <2>1. PICK e \in batch[i] :
           /\ Take(i, e)
           /\ event' \in {event, [event EXCEPT ![e] = IF @ = "queued" THEN "locked" ELSE @]}
    BY <1>2 DEF LockFails
  <2>2. e \in Entry
    BY DEF TypeOK
  <2>3. event' \in [Entry -> EventStatus]
    BY <2>1, <2>2 DEF TypeOK, EventStatus
  <2>4. LocalsTyped'
    BY <1>2, <2>1, TakeTyping DEF LockFails
  <2>5. QED
    BY <1>2, <2>3, <2>4, Counted DEF LockFails, TypeOK, LocalsTyped
<1>3. CASE WriteFails(i)
  <2>1. LocalsTyped'
    BY <1>3 DEF WriteFails, WritePart, Goto, TypeOK, LocalsTyped, Labels
  <2>2. QED
    BY <1>3, <2>1, PartTyping, Counted DEF WriteFails, TypeOK, LocalsTyped
<1>4. CASE CallFails(i)
  <2>1. entry[i] \in Entry
    BY <1>4 DEF CallFails, TypeOK
  <2>2. event' \in [Entry -> EventStatus]
    BY <1>4, <2>1 DEF CallFails, TypeOK, EventStatus
  <2>3. LocalsTyped'
    BY <1>4 DEF CallFails, Goto, TypeOK, LocalsTyped, Labels
  <2>4. QED
    BY <1>4, <2>2, <2>3, Counted DEF CallFails, TypeOK, LocalsTyped
<1>5. CASE UnlockFails(i)
  <2>1. entry[i] \in Entry
    BY <1>5 DEF UnlockFails, TypeOK
  <2>2. event' \in [Entry -> EventStatus]
    BY <1>5, <2>1 DEF UnlockFails, Unlocked, TypeOK, EventStatus
  <2>3. failures' \in 0 .. MaxFailures /\ starts' = starts
    BY <1>5, Counted DEF UnlockFails, TypeOK
  <2>4. QED
    BY <1>5, <2>2, <2>3, EndTyping DEF UnlockFails, TypeOK, LocalsTyped
<1>6. CASE Restart(i)
  <2>1. file' \in [Workitem -> [File -> Nat]] /\ partial' \subseteq Workitem \X File
    BY <1>6, PartTyping DEF Restart, TypeOK
  <2>2. QED
    BY <1>6, <2>1, Counted, EndTyping DEF Restart, TypeOK, LocalsTyped
<1>7. QED
  BY <1>1, <1>2, <1>3, <1>4, <1>5, <1>6 DEF Trouble

LEMMA NextTyping == TypeOK /\ [Next]_vars => TypeOK'
<1>1. TypeOK /\ UNCHANGED vars => TypeOK'
  BY DEF vars, TypeOK
<1>2. QED
  BY <1>1, UserTyping, ExpireTyping, StepTyping, TroubleTyping, ToggleTyping DEF Next

\* Each variable keeps its type, and a catch block always has an entry to unlock, whatever
\* call of a run of onTimeout fails and whatever other instances do.
THEOREM ExportTyping == Spec => []TypeOK
<1>1. Init => TypeOK
  BY InitExportInv DEF ExportInv
<1>2. QED
  BY <1>1, NextTyping, PTL DEF Spec

-----------------------------------------------------------------------------
(* Which entries are known *)

OthersKeep(i) ==
    \A j \in Instance \ {i} :
        /\ label'[j] = label[j]
        /\ batch'[j] = batch[j]
        /\ entry'[j] = entry[j]
        /\ version'[j] = version[j]
        /\ todo'[j] = todo[j]

\* No entry leaves the event log.
LogKept ==
    \A e \in Entry :
        /\ InLog(e) => InLog(e)'
        /\ event'[e] = "deleted" => event[e] = "deleted"

\* The entries an instance names were in the log or named before.
NamesFrom(i) ==
    /\ \A e \in Entry : event'[e] # "none" => event[e] # "none" \/ e = entry[i]
    /\ \A e \in batch'[i] : e \in batch[i] \/ (e \in Entry /\ event[e] # "none")
    /\ entry'[i] \in {None, entry[i]} \union batch[i]

LEMMA NamesKeep ==
  ASSUME TypeOK, NamesKnown, NEW i \in Instance, OthersKeep(i), NamesFrom(i), UNCHANGED saves
  PROVE  NamesKnown'
<1>1. ASSUME NEW e \in Entry, event'[e] # "none"
      PROVE  e[2] <= saves[e[1]]
  <2>1. CASE event[e] # "none"
    BY <2>1 DEF NamesKnown
  <2>2. CASE e = entry[i]
    BY <2>2, NoEntry DEF NamesKnown
  <2>3. QED
    BY <1>1, <2>1, <2>2 DEF NamesFrom
<1>2. ASSUME NEW j \in Instance, NEW e \in batch'[j]
      PROVE  e[2] <= saves[e[1]]
  BY <1>2 DEF NamesFrom, NamesKnown, OthersKeep
<1>3. ASSUME NEW j \in Instance, entry'[j] # None
      PROVE  entry'[j][2] <= saves[entry'[j][1]]
  BY <1>3 DEF NamesFrom, NamesKnown, OthersKeep
<1>4. QED
  BY <1>1, <1>2, <1>3 DEF NamesKnown

-----------------------------------------------------------------------------
(* Steps that leave the files alone *)

\* No step of an instance; the log may grow.
LEMMA FrameKeeps ==
  ASSUME ExportInv, TypeOK', NamesKnown', LogKept, UNCHANGED <<store, locals, unguarded>>
  PROVE  ExportInv'
<1> USE DEF ExportInv
<1>1. OneAtWork'
  BY DEF OneAtWork, Guarded, Holding
<1>2. WorkInLog'
  <2> SUFFICES ASSUME NEW i \in Instance, Guarded(i)
               PROVE  InLog(entry[i])'
    BY DEF WorkInLog, Guarded, Holding, InLog
  <2>1. PICK e \in Entry : e = entry[i] /\ InLog(e)
    BY DEF WorkInLog, Guarded, Holding, TypeOK
  <2>2. InLog(e)' /\ entry'[i] = e
    BY <2>1 DEF LogKept
  <2>3. QED
    BY <2>2 DEF InLog
<1>3. ReadNewest'
  BY DEF ReadNewest, Guarded, Holding, LogKept
<1>4. WrittenWhole'
  BY DEF WrittenWhole, Guarded, Holding
<1>5. ExportedOrQueued'
  BY DEF ExportedOrQueued, Whole, LogKept
<1>6. QED
  BY <1>1, <1>2, <1>3, <1>4, <1>5

\* An instance that goes on holds what it held: its claims stay what they were.
LEMMA StillGuarded ==
  ASSUME TypeOK, NEW i \in Instance, OthersKeep(i), ~Holding(i)',
         unguarded \subseteq unguarded', NEW j \in Instance, Guarded(j)'
  PROVE  /\ j # i /\ Guarded(j) /\ entry'[j] = entry[j]
         /\ entry[j] \in Entry /\ entry[j][1] \in Workitem
<1>1. j # i /\ Guarded(j) /\ entry'[j] = entry[j]
  BY DEF OthersKeep, Guarded, Holding
<1>2. entry[j] \in Entry
  BY <1>1 DEF Guarded, Holding, TypeOK
<1>3. QED
  BY <1>1, <1>2 DEF Entry

\* A step after which the instance does not work on a workitem.
LEMMA StopKeeps ==
  ASSUME ExportInv, TypeOK', NamesKnown', NEW i \in Instance, OthersKeep(i), ~Holding(i)',
         LogKept, UNCHANGED <<store, unguarded>>
  PROVE  ExportInv'
<1> USE DEF ExportInv
<1>1. \A j \in Instance : Holding(j)' => j # i /\ Holding(j) /\ entry'[j] = entry[j]
  BY DEF OthersKeep, Holding
<1>2. \A j \in Instance : Guarded(j)' =>
          j # i /\ Guarded(j) /\ entry'[j] = entry[j] /\ entry[j] \in Entry
  BY StillGuarded
<1>3. OneAtWork'
  BY <1>1, <1>2 DEF OneAtWork
<1>4. WorkInLog'
  <2> SUFFICES ASSUME NEW j \in Instance, Guarded(j)'
               PROVE  InLog(entry[j])'
    BY <1>2 DEF WorkInLog, InLog
  <2>1. PICK e \in Entry : e = entry[j] /\ InLog(e)
    BY <1>2 DEF WorkInLog
  <2>2. InLog(e)' /\ entry'[j] = e
    BY <1>2, <2>1 DEF LogKept
  <2>3. QED
    BY <2>2 DEF InLog
<1>5. ReadNewest'
  BY <1>2 DEF ReadNewest, OthersKeep, LogKept
<1>6. WrittenWhole'
  BY <1>2 DEF WrittenWhole, OthersKeep
<1>7. ExportedOrQueued'
  BY DEF ExportedOrQueued, Whole, LogKept
<1>8. QED
  BY <1>3, <1>4, <1>5, <1>6, <1>7

-----------------------------------------------------------------------------
(* Steps that write files, or are the first or the last for an entry *)

\* While an instance works on a guarded workitem, no other one does.
LEMMA Alone ==
  ASSUME ExportInv, NEW i \in Instance, Holding(i), NEW j \in Instance, j # i, Guarded(j)
  PROVE  entry[j][1] # entry[i][1]
BY DEF ExportInv, OneAtWork

\* A cut file leaves the entry that is in progress in the log.
LEMMA PartKeeps ==
  ASSUME ExportInv, TypeOK', NamesKnown', NEW i \in Instance, OthersKeep(i), ~Holding(i)',
         WritePart(i), UNCHANGED <<event, unguarded>>
  PROVE  ExportInv'
<1> USE DEF ExportInv
<1>1. PICK n \in todo[i] :
         /\ file' = [file EXCEPT ![entry[i][1]][n] = version[i]]
         /\ partial' = partial \union {<<entry[i][1], n>>}
  BY DEF WritePart
<1>2. label[i] = "write" /\ Holding(i) /\ entry[i] \in Entry
  BY DEF WritePart, Holding, TypeOK
<1>3. PICK w \in Workitem : w = entry[i][1]
  BY <1>2 DEF Entry
<1>4. \A u \in Workitem, m \in File :
        /\ file'[u][m] = IF u = w /\ m = n THEN version[i] ELSE file[u][m]
        /\ <<u, m>> \in partial' <=> <<u, m>> \in partial \/ (u = w /\ m = n)
  <2>1. file \in [Workitem -> [File -> Nat]] /\ file[w] \in [File -> Nat]
    BY DEF TypeOK
  <2>2. file' = [file EXCEPT ![w] = [file[w] EXCEPT ![n] = version[i]]]
    BY <1>1, <1>3
  <2>3. ASSUME NEW u \in Workitem, NEW m \in File
        PROVE  file'[u][m] = IF u = w /\ m = n THEN version[i] ELSE file[u][m]
    BY <2>1, <2>2
  <2>4. QED
    BY <1>1, <1>3, <2>3
<1>5. \A j \in Instance : Holding(j)' => j # i /\ Holding(j) /\ entry'[j] = entry[j]
  BY DEF OthersKeep, Holding
<1>6. \A j \in Instance : Guarded(j)' =>
          /\ j # i /\ Guarded(j) /\ entry'[j] = entry[j]
          /\ entry[j] \in Entry /\ entry[j][1] \in Workitem
  BY StillGuarded
<1>7. OneAtWork'
  BY <1>5, <1>6 DEF OneAtWork
<1>8. WorkInLog'
  BY <1>6 DEF WorkInLog, InLog
<1>9. ReadNewest'
  BY <1>6 DEF ReadNewest, OthersKeep
<1>10. WrittenWhole'
  <2> SUFFICES ASSUME NEW j \in Instance, Guarded(j)', label'[j] = "write",
                      NEW m \in File, m \notin todo'[j]
               PROVE  file'[entry'[j][1]][m] = version'[j] /\ <<entry'[j][1], m>> \notin partial'
    BY DEF WrittenWhole
  <2>1. j # i /\ Guarded(j) /\ entry'[j] = entry[j] /\ entry[j][1] \in Workitem
    BY <1>6
  <2>2. entry[j][1] # w
    BY <1>2, <1>3, <2>1, Alone
  <2>3. label[j] = "write" /\ m \notin todo[j] /\ version'[j] = version[j]
    BY <2>1 DEF OthersKeep
  <2>4. file[entry[j][1]][m] = version[j] /\ <<entry[j][1], m>> \notin partial
    BY <2>1, <2>3 DEF WrittenWhole
  <2>5. QED
    BY <1>4, <2>1, <2>2, <2>3, <2>4
<1>11. ExportedOrQueued'
  <2> SUFFICES ASSUME NEW e \in Entry, event[e] = "deleted", e[1] \notin unguarded
               PROVE  \/ Whole(e[1], e[2])'
                      \/ /\ \A m \in File : file'[e[1]][m] >= e[2]
                         /\ \E d \in Entry : d[1] = e[1] /\ InLog(d)'
    BY DEF ExportedOrQueued
  <2>1. e[1] \in Workitem /\ \A m \in File : file[e[1]][m] >= e[2]
    BY DEF ExportedOrQueued, Whole, Entry
  <2>2. CASE e[1] # w
    <3>1. \A m \in File :
              /\ file'[e[1]][m] = file[e[1]][m]
              /\ <<e[1], m>> \in partial' => <<e[1], m>> \in partial
      BY <1>4, <2>1, <2>2
    <3>2. \A d \in Entry : InLog(d) => InLog(d)'
      BY DEF InLog
    <3>3. CASE Whole(e[1], e[2])
      BY <3>1, <3>3 DEF Whole
    <3>4. CASE ~Whole(e[1], e[2])
      <4>1. \E d \in Entry : d[1] = e[1] /\ InLog(d)'
        BY <3>2, <3>4 DEF ExportedOrQueued
      <4>2. \A m \in File : file'[e[1]][m] >= e[2]
        BY <2>1, <3>1
      <4>3. QED
        BY <4>1, <4>2
    <3>5. QED
      BY <3>3, <3>4
  <2>3. CASE e[1] = w
    <3>1. Guarded(i)
      BY <1>2, <1>3, <2>3 DEF Guarded
    <3>2. InLog(entry[i])
      BY <3>1 DEF WorkInLog
    <3>3. \E d \in Entry : d[1] = e[1] /\ InLog(d)'
      BY <1>2, <1>3, <2>3, <3>2 DEF InLog
    <3>4. e[2] <= version[i]
      BY <1>2, <1>3, <2>3, <3>1 DEF ReadNewest
    <3>5. version[i] \in Int /\ e[2] \in Int
      BY ExportBounds DEF Entry, TypeOK
    <3>6. \A m \in File : file'[e[1]][m] >= e[2]
      BY <1>4, <2>1, <2>3, <3>4, <3>5
    <3>7. QED
      BY <3>3, <3>6
  <2>4. QED
    BY <2>2, <2>3
<1>12. QED
  BY <1>7, <1>8, <1>9, <1>10, <1>11

\* The entry is deleted when all its files are written.
LEMMA DoneKeeps ==
  ASSUME ExportInv, TypeOK', NamesKnown', NEW i \in Instance, OthersKeep(i), ~Holding(i)',
         label[i] = "write", todo[i] = {}, event' = [event EXCEPT ![entry[i]] = "deleted"],
         UNCHANGED <<store, unguarded>>
  PROVE  ExportInv'
<1> USE DEF ExportInv
<1>1. Holding(i) /\ entry[i] \in Entry
  BY DEF Holding, TypeOK
<1>2. PICK f \in Entry : f = entry[i]
  BY <1>1
<1>3. \A e \in Entry : IF e = f THEN event'[e] = "deleted"
                               ELSE event'[e] = event[e] /\ (InLog(e)' <=> InLog(e))
  BY <1>2 DEF TypeOK, InLog
<1>4. \A j \in Instance : Holding(j)' => j # i /\ Holding(j) /\ entry'[j] = entry[j]
  BY DEF OthersKeep, Holding
<1>5. \A j \in Instance : Guarded(j)' =>
          j # i /\ Guarded(j) /\ entry'[j] = entry[j] /\ entry[j] \in Entry
  BY StillGuarded
<1>6. \A j \in Instance : Guarded(j)' => entry[j][1] # f[1]
  BY <1>1, <1>2, <1>5, Alone
<1>7. OneAtWork'
  BY <1>4, <1>5 DEF OneAtWork
<1>8. WorkInLog'
  <2> SUFFICES ASSUME NEW j \in Instance, Guarded(j)'
               PROVE  InLog(entry[j])'
    BY <1>5 DEF WorkInLog, InLog
  <2>1. PICK e \in Entry : e = entry[j] /\ InLog(e) /\ e # f
    BY <1>5, <1>6 DEF WorkInLog
  <2>2. InLog(e)' /\ entry'[j] = e
    BY <1>3, <1>5, <2>1
  <2>3. QED
    BY <2>2 DEF InLog
<1>9. ReadNewest'
  BY <1>3, <1>5, <1>6 DEF ReadNewest, OthersKeep
<1>10. WrittenWhole'
  BY <1>5 DEF WrittenWhole, OthersKeep
<1>11. ExportedOrQueued'
  <2> SUFFICES ASSUME NEW e \in Entry, event'[e] = "deleted", e[1] \notin unguarded
               PROVE  \/ Whole(e[1], e[2])
                      \/ /\ \A m \in File : file[e[1]][m] >= e[2]
                         /\ \E d \in Entry : d[1] = e[1] /\ InLog(d)'
    BY DEF ExportedOrQueued, Whole
  <2>1. CASE e[1] # f[1]
    BY <1>3, <2>1 DEF ExportedOrQueued
  <2>2. CASE e[1] = f[1]
    <3>1. Guarded(i)
      BY <1>1, <1>2, <2>2 DEF Guarded
    <3>2. f[2] <= version[i] /\ (event[e] = "deleted" => e[2] <= version[i])
      BY <1>2, <2>2, <3>1 DEF ReadNewest
    <3>3. e[2] <= version[i]
      BY <1>3, <3>2
    <3>4. \A m \in File : file[f[1]][m] = version[i] /\ <<f[1], m>> \notin partial
      BY <1>2, <3>1 DEF WrittenWhole
    <3>5. e[2] \in Int /\ version[i] \in Int
      BY ExportBounds DEF Entry, TypeOK
    <3>6. QED
      BY <2>2, <3>3, <3>4, <3>5 DEF Whole
  <2>3. QED
    BY <2>1, <2>2
<1>12. QED
  BY <1>7, <1>8, <1>9, <1>10, <1>11

\* The lock of an entry protects its workitem, or is recorded not to.
LEMMA LockKeeps ==
  ASSUME ExportInv, TypeOK', NamesKnown', NEW i \in Instance, LockEntry(i)
  PROVE  ExportInv'
<1> USE DEF ExportInv
<1>1. PICK e \in batch[i] \ malformed :
         /\ Take(i, e)
         /\ event' = [event EXCEPT ![e] = IF @ = "queued" THEN "locked" ELSE @]
         /\ unguarded' =
                IF event[e] # "queued" \/ \E j \in Instance : AtWork(j, e[1])
                THEN unguarded \union {e[1]}
                ELSE unguarded
  BY DEF LockEntry
<1>2. e \in Entry
  BY DEF TypeOK
<1>3. /\ label' = [label EXCEPT ![i] = "pull"]
      /\ label'[i] = "pull" /\ entry'[i] = e
      /\ label[i] = "next" /\ ~Holding(i)
  BY <1>1 DEF LockEntry, Goto, Take, TypeOK, Holding
<1>4. OthersKeep(i) /\ UNCHANGED store /\ unguarded \subseteq unguarded'
  BY <1>1, <1>3 DEF LockEntry, OthersKeep, Take, TypeOK
<1>5. LogKept
  BY <1>1, <1>2 DEF LogKept, InLog, TypeOK
<1>6. \A j \in Instance : j # i =>
          /\ entry'[j] = entry[j] /\ (Holding(j)' <=> Holding(j))
          /\ Guarded(j)' => Guarded(j)
  BY <1>4 DEF OthersKeep, Holding, Guarded
<1>7. Guarded(i)' => event[e] = "queued"
  BY <1>1, <1>3 DEF Guarded
<1>8. \A j \in Instance : j # i /\ Holding(j) /\ entry[j][1] = e[1] => e[1] \in unguarded'
  BY <1>1 DEF AtWork, Holding
<1>9. OneAtWork'
  <2> SUFFICES ASSUME NEW j \in Instance, NEW k \in Instance, Guarded(j)', Holding(k)',
                      entry'[k][1] = entry'[j][1], j # k
               PROVE  FALSE
    BY DEF OneAtWork
  <2>1. entry'[j][1] \notin unguarded' /\ Holding(j)'
    BY DEF Guarded
  <2>2. CASE j = i
    BY <1>3, <1>6, <1>8, <2>1, <2>2
  <2>3. CASE k = i
    BY <1>3, <1>6, <1>8, <2>1, <2>3
  <2>4. CASE j # i /\ k # i
    BY <1>6, <2>4 DEF OneAtWork
  <2>5. QED
    BY <2>2, <2>3, <2>4
<1>10. WorkInLog'
  <2> SUFFICES ASSUME NEW j \in Instance, Guarded(j)'
               PROVE  InLog(entry[j])'
    BY DEF WorkInLog, InLog
  <2>1. CASE j = i
    BY <1>1, <1>2, <1>3, <1>7, <2>1 DEF InLog, TypeOK
  <2>2. CASE j # i
    <3>1. entry'[j] = entry[j] /\ InLog(entry[j])
      BY <1>6, <2>2 DEF WorkInLog
    <3>2. PICK d \in Entry : d = entry[j]
      BY <1>6, <2>2 DEF Guarded, Holding, TypeOK
    <3>3. InLog(d)' /\ entry'[j] = d
      BY <1>5, <3>1, <3>2 DEF LogKept
    <3>4. QED
      BY <3>3 DEF InLog
  <2>3. QED
    BY <2>1, <2>2
<1>11. ReadNewest'
  <2> SUFFICES ASSUME NEW j \in Instance, Guarded(j)', label'[j] # "pull"
               PROVE  /\ entry'[j][2] <= version'[j]
                      /\ \A d \in Entry : d[1] = entry'[j][1] /\ event'[d] = "deleted" =>
                                              d[2] <= version'[j]
    BY DEF ReadNewest
  <2>1. /\ Guarded(j) /\ label[j] # "pull"
        /\ entry'[j] = entry[j] /\ version'[j] = version[j]
    BY <1>3, <1>4, <1>6 DEF OthersKeep
  <2>2. QED
    BY <1>5, <2>1 DEF ReadNewest, LogKept
<1>12. WrittenWhole'
  <2> SUFFICES ASSUME NEW j \in Instance, Guarded(j)', label'[j] = "write"
               PROVE  \A m \in File \ todo'[j] : /\ file'[entry'[j][1]][m] = version'[j]
                                                 /\ <<entry'[j][1], m>> \notin partial'
    BY DEF WrittenWhole
  <2>1. /\ Guarded(j) /\ label[j] = "write" /\ todo'[j] = todo[j]
        /\ entry'[j] = entry[j] /\ version'[j] = version[j]
    BY <1>3, <1>4, <1>6 DEF OthersKeep
  <2>2. QED
    BY <1>4, <2>1 DEF WrittenWhole
<1>13. ExportedOrQueued'
  BY <1>4, <1>5 DEF ExportedOrQueued, Whole, LogKept
<1>14. QED
  BY <1>9, <1>10, <1>11, <1>12, <1>13

\* A document is read, which leaves the files to be written.
LEMMA ReadKeeps ==
  ASSUME ExportInv, TypeOK', NamesKnown', NEW i \in Instance, OthersKeep(i),
         Holding(i), Holding(i)', UNCHANGED <<event, store, entry, unguarded>>,
         entry[i][2] <= version'[i],
         \A e \in Entry :
             e[1] = entry[i][1] /\ event[e] = "deleted" => e[2] <= version'[i],
         label'[i] = "write" => todo'[i] = File
  PROVE  ExportInv'
<1> USE DEF ExportInv
<1>1. \A j \in Instance : (Holding(j)' <=> Holding(j)) /\ (Guarded(j)' <=> Guarded(j))
  BY DEF OthersKeep, Holding, Guarded
<1>2. OneAtWork' /\ WorkInLog'
  BY <1>1 DEF OneAtWork, WorkInLog, InLog
<1>3. ReadNewest'
  <2> SUFFICES ASSUME NEW j \in Instance, Guarded(j)', label'[j] # "pull"
               PROVE  /\ entry[j][2] <= version'[j]
                      /\ \A d \in Entry : d[1] = entry[j][1] /\ event[d] = "deleted" =>
                                              d[2] <= version'[j]
    BY DEF ReadNewest
  <2>1. CASE j = i
    BY <2>1
  <2>2. CASE j # i
    BY <1>1, <2>2 DEF ReadNewest, OthersKeep
  <2>3. QED
    BY <2>1, <2>2
<1>4. WrittenWhole'
  BY <1>1 DEF WrittenWhole, OthersKeep
<1>5. ExportedOrQueued'
  BY DEF ExportedOrQueued, Whole, InLog
<1>6. QED
  BY <1>2, <1>3, <1>4, <1>5

\* A file is written, or known to be written already.
LEMMA WriteKeeps ==
  ASSUME ExportInv, TypeOK', NamesKnown', NEW i \in Instance, WriteFile(i)
  PROVE  ExportInv'
<1> USE DEF ExportInv
<1>1. label[i] = "write" /\ Holding(i) /\ entry[i] \in Entry
  BY DEF WriteFile, Holding, TypeOK
<1>2. PICK w \in Workitem : w = entry[i][1]
  BY <1>1 DEF Entry
<1>3. PICK n \in todo[i] :
         /\ todo' = [todo EXCEPT ![i] = @ \ {n}]
         /\ IF Unchanged(w, n, version[i])
            THEN UNCHANGED store
            ELSE /\ file' = [file EXCEPT ![w][n] = version[i]]
                 /\ partial' = partial \ {<<w, n>>}
  BY <1>2 DEF WriteFile
<1>4. \A u \in Workitem, m \in File :
        /\ file'[u][m] = IF u = w /\ m = n THEN version[i] ELSE file[u][m]
        /\ <<u, m>> \in partial' <=> <<u, m>> \in partial /\ ~(u = w /\ m = n)
  <2>1. file \in [Workitem -> [File -> Nat]] /\ file[w] \in [File -> Nat] /\ n \in File
    BY DEF TypeOK
  <2>2. CASE Unchanged(w, n, version[i])
    BY <1>3, <2>2 DEF Unchanged
  <2>3. CASE ~Unchanged(w, n, version[i])
    <3>1. /\ file' = [file EXCEPT ![w] = [file[w] EXCEPT ![n] = version[i]]]
          /\ partial' = partial \ {<<w, n>>}
      BY <1>3, <2>3
    <3>2. ASSUME NEW u \in Workitem, NEW m \in File
          PROVE  file'[u][m] = IF u = w /\ m = n THEN version[i] ELSE file[u][m]
      BY <2>1, <3>1
    <3>3. QED
      BY <3>1, <3>2
  <2>4. QED
    BY <2>2, <2>3
<1>5. UNCHANGED <<event, label, entry, version, unguarded>>
  BY DEF WriteFile
<1>6. \A j \in Instance : /\ Holding(j)' <=> Holding(j)
                          /\ Guarded(j)' <=> Guarded(j)
  BY <1>5 DEF Holding, Guarded
<1>7. OneAtWork' /\ WorkInLog' /\ ReadNewest'
  BY <1>5, <1>6 DEF OneAtWork, WorkInLog, ReadNewest, InLog
<1>8. WrittenWhole'
  <2> SUFFICES ASSUME NEW j \in Instance, Guarded(j), label[j] = "write",
                      NEW m \in File, m \notin todo'[j]
               PROVE  file'[entry[j][1]][m] = version[j] /\ <<entry[j][1], m>> \notin partial'
    BY <1>5, <1>6 DEF WrittenWhole
  <2>1. PICK u \in Workitem : u = entry[j][1]
    BY DEF TypeOK, Entry
  <2>2. CASE j = i /\ m = n
    BY <1>2, <1>4, <2>2
  <2>3. CASE j = i /\ m # n
    <3>1. m \notin todo[i]
      BY <1>3, <2>3 DEF TypeOK
    <3>2. file[w][m] = version[i] /\ <<w, m>> \notin partial
      BY <1>2, <2>3, <3>1 DEF WrittenWhole
    <3>3. QED
      BY <1>2, <1>4, <2>3, <3>2
  <2>4. CASE j # i
    <3>1. u # w
      BY <1>1, <1>2, <2>1, <2>4, Alone
    <3>2. m \notin todo[j]
      BY <1>3, <2>4 DEF TypeOK
    <3>3. file[u][m] = version[j] /\ <<u, m>> \notin partial
      BY <2>1, <3>2 DEF WrittenWhole
    <3>4. QED
      BY <1>4, <2>1, <3>1, <3>3
  <2>5. QED
    BY <2>2, <2>3, <2>4
<1>9. ExportedOrQueued'
  <2> SUFFICES ASSUME NEW e \in Entry, event[e] = "deleted", e[1] \notin unguarded
               PROVE  \/ Whole(e[1], e[2])'
                      \/ /\ \A m \in File : file'[e[1]][m] >= e[2]
                         /\ \E d \in Entry : d[1] = e[1] /\ InLog(d)
    BY <1>5 DEF ExportedOrQueued, InLog
  <2>1. e[1] \in Workitem /\ \A m \in File : file[e[1]][m] >= e[2]
    BY DEF ExportedOrQueued, Whole, Entry
  <2>2. e[1] = w => e[2] <= version[i]
    BY <1>1, <1>2 DEF ReadNewest, Guarded
  <2>3. version[i] \in Int /\ e[2] \in Int
    BY ExportBounds DEF Entry, TypeOK
  <2>4. \A m \in File : file'[e[1]][m] >= e[2]
    BY <1>4, <2>1, <2>2, <2>3
  <2>5. \A m \in File : <<e[1], m>> \in partial' => <<e[1], m>> \in partial
    BY <1>4, <2>1
  <2>6. QED
    BY <2>4, <2>5 DEF ExportedOrQueued, Whole
<1>10. QED
  BY <1>7, <1>8, <1>9

-----------------------------------------------------------------------------
(* Every step keeps the invariant *)

LEMMA UserKeeps ==
  ASSUME ExportInv, TypeOK', NEW w \in Workitem, Process(w) \/ DeleteWorkitem(w)
  PROVE  ExportInv'
<1> USE DEF ExportInv
<1>1. UNCHANGED <<store, locals, unguarded>>
  BY DEF Process, DeleteWorkitem
<1>2. CASE Process(w)
  <2>1. PICK v \in 1 .. MaxSaves : v = saves[w] + 1 /\ <<w, v>> \in Entry
    BY <1>2, ExportBounds DEF Process, TypeOK, Entry
  <2>2. /\ saves' = [saves EXCEPT ![w] = v]
        /\ event' \in {event, [event EXCEPT ![<<w, v>>] = "queued"]}
    BY <1>2, <2>1 DEF Process
  <2>3. \A e \in Entry : event'[e] = event[e] \/ (e = <<w, v>> /\ event'[e] = "queued")
    BY <2>1, <2>2 DEF TypeOK
  <2>4. LogKept
    BY <2>3 DEF LogKept, InLog
  <2>5. \A e \in Entry : /\ e[1] \in Workitem /\ e[2] \in Int
                         /\ saves[e[1]] \in Int
                         /\ saves'[e[1]] = IF e[1] = w THEN saves[w] + 1 ELSE saves[e[1]]
    BY <2>1, <2>2, ExportBounds DEF Entry, TypeOK
  <2>6. \A e \in Entry : e[2] <= saves[e[1]] => e[2] <= saves'[e[1]]
    BY <2>5
  <2>7. \A e \in Entry : event'[e] # "none" => e[2] <= saves'[e[1]]
    BY <2>1, <2>3, <2>5, <2>6 DEF NamesKnown
  <2>8. ASSUME NEW i \in Instance
        PROVE  /\ \A e \in batch[i] : e[2] <= saves'[e[1]]
               /\ entry[i] # None => entry[i][2] <= saves'[entry[i][1]]
    BY <2>6 DEF NamesKnown, TypeOK
  <2>9. NamesKnown'
    BY <1>1, <2>7, <2>8 DEF NamesKnown
  <2>10. QED
    BY <1>1, <2>4, <2>9, FrameKeeps
<1>3. CASE DeleteWorkitem(w)
  <2>1. UNCHANGED <<saves, event>>
    BY <1>3 DEF DeleteWorkitem
  <2>2. LogKept /\ NamesKnown'
    BY <1>1, <2>1 DEF LogKept, InLog, NamesKnown
  <2>3. QED
    BY <1>1, <2>2, FrameKeeps
<1>4. QED
  BY <1>2, <1>3

LEMMA ExpireKeeps ==
  ASSUME ExportInv, TypeOK', NEW e \in Entry, LockExpires(e)
  PROVE  ExportInv'
<1>1. UNCHANGED <<saves, store, locals, unguarded>>
  BY DEF LockExpires
<1>2. \A d \in Entry : event'[d] = event[d] \/ (event[d] = "locked" /\ event'[d] = "stale")
  BY DEF LockExpires, ExportInv, TypeOK
<1>3. LogKept
  BY <1>2 DEF LogKept, InLog
<1>4. NamesKnown'
  BY <1>1, <1>2 DEF NamesKnown, ExportInv
<1>5. QED
  BY <1>1, <1>3, <1>4, FrameKeeps

\* What a step of an instance leaves to the others, and which entries it names.
LEMMA StepNames ==
  ASSUME TypeOK, NEW i \in Instance, Step(i)
  PROVE  OthersKeep(i) /\ NamesFrom(i) /\ UNCHANGED saves
<1> USE DEF OthersKeep, NamesFrom, TypeOK
<1>1. CASE OnTimeout(i)
  BY <1>1 DEF OnTimeout, Goto, Released
<1>2. CASE SearchEventLog(i)
  <2>1. PICK found \in SUBSET Entry :
           /\ \A e \in found : event[e] = "queued"
           /\ batch' = [batch EXCEPT ![i] = found]
    BY <1>2 DEF SearchEventLog
  <2>2. QED
    BY <1>2, <2>1 DEF SearchEventLog, Goto
<1>3. CASE CompileFails(i) \/ EndTimeout(i)
  BY <1>3 DEF CompileFails, EndTimeout, EndRun, Goto
<1>4. CASE LockEntry(i)
  <2>1. PICK e \in batch[i] :
           /\ Take(i, e)
           /\ event' = [event EXCEPT ![e] = IF @ = "queued" THEN "locked" ELSE @]
    BY <1>4 DEF LockEntry
  <2>2. \A d \in Entry : event'[d] # "none" => event[d] # "none"
    BY <2>1
  <2>3. QED
    BY <1>4, <2>1, <2>2 DEF LockEntry, Goto, Take
<1>5. CASE RefuseLock(i)
  BY <1>5 DEF RefuseLock, Goto, Take
<1>6. CASE GetWorkitem(i)
  BY <1>6 DEF GetWorkitem, Goto
<1>7. CASE GetSnapshot(i) \/ DocumentNotFound(i)
  BY <1>7 DEF GetSnapshot, DocumentNotFound, Goto
<1>8. CASE WriteFile(i)
  BY <1>8 DEF WriteFile
<1>9. CASE DeleteEntry(i) \/ UnlockEntry(i)
  <2>1. \A d \in Entry : event'[d] # "none" => event[d] # "none" \/ d = entry[i]
    BY <1>9 DEF DeleteEntry, UnlockEntry
  <2>2. QED
    BY <1>9, <2>1 DEF DeleteEntry, UnlockEntry, EndEntry, Goto
<1>10. QED
  BY <1>1, <1>2, <1>3, <1>4, <1>5, <1>6, <1>7, <1>8, <1>9 DEF Step

LEMMA TroubleNames ==
  ASSUME TypeOK, NEW i \in Instance, Trouble(i)
  PROVE  OthersKeep(i) /\ NamesFrom(i) /\ UNCHANGED saves
<1> USE DEF OthersKeep, NamesFrom, TypeOK
<1>1. CASE SearchFails(i) \/ Restart(i)
  BY <1>1 DEF SearchFails, Restart, EndRun, Goto
<1>2. CASE LockFails(i)
  <2>1. PICK e \in batch[i] :
           /\ Take(i, e)
           /\ event' \in {event, [event EXCEPT ![e] = IF @ = "queued" THEN "locked" ELSE @]}
    BY <1>2 DEF LockFails
  <2>2. \A d \in Entry : event'[d] # "none" => event[d] # "none"
    BY <2>1
  <2>3. QED
    BY <1>2, <2>1, <2>2 DEF LockFails, Goto, Take
<1>3. CASE WriteFails(i)
  BY <1>3 DEF WriteFails, Goto
<1>4. CASE CallFails(i) \/ UnlockFails(i)
  <2>1. \A d \in Entry : event'[d] # "none" => event[d] # "none" \/ d = entry[i]
    BY <1>4 DEF CallFails, UnlockFails
  <2>2. QED
    BY <1>4, <2>1 DEF CallFails, UnlockFails, EndRun, Goto
<1>5. QED
  BY <1>1, <1>2, <1>3, <1>4 DEF Trouble

\* The catch block, whether its call fails or not, leaves the entry in the log.
LEMMA UnlockedKept ==
  ASSUME TypeOK, NEW i \in Instance, label[i] = "unlock",
         event' \in {event, [event EXCEPT ![entry[i]] = Unlocked(@)]}
  PROVE  LogKept
<1>1. PICK f \in Entry : f = entry[i]
  BY DEF TypeOK
<1>2. \A e \in Entry : event'[e] \in {event[e], Unlocked(event[e])}
  BY <1>1 DEF TypeOK
<1>3. QED
  BY <1>2 DEF LogKept, InLog, Unlocked

LEMMA StepKeeps ==
  ASSUME ExportInv, TypeOK', NEW i \in Instance, Step(i)
  PROVE  ExportInv'
<1>1. TypeOK /\ OthersKeep(i) /\ NamesKnown' /\ i \in DOMAIN label
  BY StepNames, NamesKeep DEF ExportInv, TypeOK
<1>2. CASE OnTimeout(i)
  <2>1. LogKept
    BY <1>2 DEF OnTimeout, Released, LogKept, InLog
  <2>2. ~Holding(i)' /\ UNCHANGED <<store, unguarded>>
    BY <1>1, <1>2 DEF OnTimeout, Goto, Holding
  <2>3. QED
    BY <1>1, <2>1, <2>2, StopKeeps
<1>3. CASE SearchEventLog(i) \/ CompileFails(i) \/ RefuseLock(i) \/ DocumentNotFound(i)
             \/ EndTimeout(i)
  <2>1. UNCHANGED <<event, store, unguarded>>
    BY <1>3 DEF SearchEventLog, CompileFails, RefuseLock, DocumentNotFound, EndTimeout
  <2>2. ~Holding(i)'
    BY <1>1, <1>3 DEF SearchEventLog, CompileFails, RefuseLock, DocumentNotFound, EndTimeout,
                      EndRun, Goto, Holding
  <2>3. LogKept
    BY <2>1 DEF LogKept, InLog
  <2>4. QED
    BY <1>1, <2>1, <2>2, <2>3, StopKeeps
<1>4. CASE LockEntry(i)
  BY <1>1, <1>4, LockKeeps
<1>5. CASE GetWorkitem(i)
  <2>1. PICK f \in Entry : f = entry[i]
    BY <1>1, <1>5 DEF GetWorkitem, TypeOK
  <2>2. UNCHANGED <<event, store, entry, unguarded>> /\ Holding(i) /\ Holding(i)'
    BY <1>1, <1>5 DEF GetWorkitem, Goto, Holding
  <2>3. version'[i] = saves[f[1]]
    BY <1>1, <1>5, <2>1 DEF GetWorkitem, TypeOK
  <2>4. label'[i] = "write" => todo'[i] = File
    BY <1>1, <1>5 DEF GetWorkitem, Goto, TypeOK
  <2>5. f[2] <= version'[i]
    BY <2>1, <2>3, NoEntry DEF ExportInv, NamesKnown
  <2>6. \A e \in Entry : e[1] = f[1] /\ event[e] = "deleted" => e[2] <= version'[i]
    BY <2>3 DEF ExportInv, NamesKnown
  <2>7. QED
    BY <1>1, <2>1, <2>2, <2>4, <2>5, <2>6, ReadKeeps
<1>6. CASE GetSnapshot(i)
  <2>1. UNCHANGED <<event, store, entry, version, unguarded>> /\ Holding(i) /\ Holding(i)'
    BY <1>1, <1>6 DEF GetSnapshot, Goto, Holding
  <2>2. todo'[i] = File
    BY <1>1, <1>6 DEF GetSnapshot, TypeOK
  <2>3. CASE Guarded(i)
    <3>1. /\ entry[i][2] <= version[i]
          /\ \A e \in Entry :
                 e[1] = entry[i][1] /\ event[e] = "deleted" => e[2] <= version[i]
      BY <1>6, <2>3 DEF ExportInv, ReadNewest, GetSnapshot
    <3>2. QED
      BY <1>1, <2>1, <2>2, <3>1, ReadKeeps
  <2>4. CASE ~Guarded(i)
    <3> USE DEF ExportInv
    <3>1. \A j \in Instance : (Holding(j)' <=> Holding(j)) /\ (Guarded(j)' <=> Guarded(j))
      BY <1>1, <2>1 DEF OthersKeep, Holding, Guarded
    <3>2. OneAtWork' /\ WorkInLog' /\ ExportedOrQueued'
      BY <2>1, <3>1 DEF OneAtWork, WorkInLog, InLog, ExportedOrQueued, Whole
    <3>3. ReadNewest' /\ WrittenWhole'
      BY <1>1, <2>1, <2>4, <3>1 DEF ReadNewest, WrittenWhole, OthersKeep
    <3>4. QED
      BY <1>1, <3>2, <3>3
  <2>5. QED
    BY <2>3, <2>4
<1>7. CASE WriteFile(i)
  BY <1>1, <1>7, WriteKeeps
<1>8. CASE DeleteEntry(i)
  <2>1. ~Holding(i)'
    BY <1>1, <1>8 DEF DeleteEntry, EndEntry, Goto, Holding
  <2>2. QED
    BY <1>1, <1>8, <2>1, DoneKeeps DEF DeleteEntry
<1>9. CASE UnlockEntry(i)
  <2>1. ~Holding(i)' /\ UNCHANGED <<store, unguarded>>
    BY <1>1, <1>9 DEF UnlockEntry, EndEntry, Goto, Holding
  <2>2. LogKept
    BY <1>1, <1>9, UnlockedKept DEF UnlockEntry
  <2>3. QED
    BY <1>1, <2>1, <2>2, StopKeeps
<1>10. QED
  BY <1>2, <1>3, <1>4, <1>5, <1>6, <1>7, <1>8, <1>9 DEF Step

LEMMA TroubleKeeps ==
  ASSUME ExportInv, TypeOK', NEW i \in Instance, Trouble(i)
  PROVE  ExportInv'
<1>1. TypeOK /\ OthersKeep(i) /\ NamesKnown' /\ i \in DOMAIN label
  BY TroubleNames, NamesKeep DEF ExportInv, TypeOK
<1>2. ~Holding(i)'
  BY <1>1 DEF Trouble, SearchFails, LockFails, WriteFails, CallFails, UnlockFails, Restart,
              EndRun, Goto, Holding
<1>3. UNCHANGED unguarded
  BY DEF Trouble, SearchFails, LockFails, WriteFails, CallFails, UnlockFails, Restart
<1>4. CASE UNCHANGED <<event, store>>
  <2>1. LogKept
    BY <1>4 DEF LogKept, InLog
  <2>2. QED
    BY <1>1, <1>2, <1>3, <1>4, <2>1, StopKeeps
<1>5. CASE WritePart(i) /\ UNCHANGED event
  BY <1>1, <1>2, <1>3, <1>5, PartKeeps
<1>6. CASE LockFails(i)
  <2>1. PICK e \in Entry :
           event' \in {event, [event EXCEPT ![e] = IF @ = "queued" THEN "locked" ELSE @]}
    BY <1>1, <1>6 DEF LockFails, TypeOK
  <2>2. \A d \in Entry : event'[d] = event[d] \/ (event[d] = "queued" /\ event'[d] = "locked")
    BY <1>1, <2>1 DEF TypeOK
  <2>3. LogKept /\ UNCHANGED store
    BY <1>6, <2>2 DEF LogKept, InLog, LockFails
  <2>4. QED
    BY <1>1, <1>2, <1>3, <2>3, StopKeeps
<1>7. CASE CallFails(i) /\ event' # event
  <2>1. /\ label[i] = "write" /\ todo[i] = {} /\ UNCHANGED store
        /\ event' = [event EXCEPT ![entry[i]] = "deleted"]
    BY <1>7 DEF CallFails
  <2>2. QED
    BY <1>1, <1>2, <1>3, <2>1, DoneKeeps
<1>8. CASE UnlockFails(i)
  <2>1. LogKept /\ UNCHANGED store
    BY <1>1, <1>8, UnlockedKept DEF UnlockFails
  <2>2. QED
    BY <1>1, <1>2, <1>3, <2>1, StopKeeps
<1>9. QED
  BY <1>4, <1>5, <1>6, <1>7, <1>8 DEF Trouble, SearchFails, WriteFails, CallFails, Restart

LEMMA ToggleKeeps ==
  ASSUME ExportInv, TypeOK',
         (\E i \in Instance : Toggle(i)) \/ UNCHANGED vars
  PROVE  ExportInv'
<1>1. UNCHANGED <<saves, event, store, locals, unguarded>>
  BY DEF Toggle, vars
<1>2. LogKept /\ NamesKnown'
  BY <1>1 DEF LogKept, InLog, NamesKnown, ExportInv
<1>3. QED
  BY <1>1, <1>2, FrameKeeps

LEMMA NextKeeps == ExportInv /\ [Next]_vars => ExportInv'
<1> SUFFICES ASSUME ExportInv, [Next]_vars
             PROVE  ExportInv'
  OBVIOUS
<1>1. TypeOK'
  BY NextTyping DEF ExportInv
<1>2. QED
  BY <1>1, UserKeeps, ExpireKeeps, StepKeeps, TroubleKeeps, ToggleKeeps DEF Next

\* However many instances there are, and whatever calls fail or runs are cut off, no entry
\* is deleted before the files of its workitem are exported whole, unless instances were at
\* work on one workitem without a lock between them.
THEOREM EntriesExported == Spec => []ExportedOrQueued
<1>1. ExportInv => ExportedOrQueued
  BY DEF ExportInv
<1>2. QED
  BY InitExportInv, NextKeeps, <1>1, PTL DEF Spec

-----------------------------------------------------------------------------
(* A sole instance *)

Sole == \A i, j \in Instance : i = j

SoleInv ==
    /\ TypeOK
    /\ unguarded = {}
    /\ \A i \in Instance : \A e \in batch[i] : event[e] = "queued" /\ e # entry[i]

LEMMA InitSole == Init => SoleInv
BY InitExportInv DEF ExportInv, Init, SoleInv

LEMMA StepSole ==
  ASSUME Sole, SoleInv, TypeOK', NEW i \in Instance, Step(i) \/ Trouble(i)
  PROVE  SoleInv'
<1> USE DEF SoleInv
<1>1. \A j \in Instance : j = i
  BY DEF Sole
<1>2. SUFFICES /\ unguarded' = {}
               /\ \A e \in batch'[i] : event'[e] = "queued" /\ e # entry'[i]
  BY <1>1
<1>3. CASE OnTimeout(i)
  BY <1>3 DEF OnTimeout, Released, TypeOK
<1>4. CASE SearchEventLog(i)
  <2>1. PICK found \in SUBSET Entry :
           /\ \A e \in found : event[e] = "queued"
           /\ batch' = [batch EXCEPT ![i] = found]
    BY <1>4 DEF SearchEventLog
  <2>2. batch'[i] = found /\ UNCHANGED <<event, entry, unguarded>> /\ entry[i] = None
    BY <1>4, <2>1 DEF SearchEventLog, TypeOK
  <2>3. QED
    BY <2>1, <2>2, NoEntry
<1>5. CASE SearchFails(i) \/ CompileFails(i) \/ EndTimeout(i) \/ UnlockFails(i) \/ Restart(i)
  <2>1. batch'[i] = {} /\ UNCHANGED unguarded
    BY <1>5 DEF SearchFails, CompileFails, EndTimeout, UnlockFails, Restart, EndRun, TypeOK
  <2>2. QED
    BY <2>1
<1>6. CASE LockEntry(i)
  <2>1. PICK e \in batch[i] :
           /\ Take(i, e)
           /\ event' = [event EXCEPT ![e] = IF @ = "queued" THEN "locked" ELSE @]
           /\ (event[e] = "queued" /\ ~\E j \in Instance : AtWork(j, e[1])) =>
                  unguarded' = unguarded
    BY <1>6 DEF LockEntry
  <2>2. ~\E j \in Instance : AtWork(j, e[1])
    BY <1>1, <1>6 DEF LockEntry, AtWork
  <2>3. QED
    BY <2>1, <2>2 DEF Take, TypeOK
<1>7. CASE RefuseLock(i)
  BY <1>7 DEF RefuseLock
<1>8. CASE LockFails(i)
  <2>1. PICK e \in batch[i] :
           /\ Take(i, e)
           /\ event' \in {event, [event EXCEPT ![e] = IF @ = "queued" THEN "locked" ELSE @]}
    BY <1>8 DEF LockFails
  <2>2. QED
    BY <1>8, <2>1 DEF LockFails, Take, TypeOK
<1>9. CASE GetWorkitem(i) \/ GetSnapshot(i) \/ DocumentNotFound(i) \/ WriteFile(i)
             \/ WriteFails(i)
  BY <1>9 DEF GetWorkitem, GetSnapshot, DocumentNotFound, WriteFile, WriteFails
<1>10. CASE DeleteEntry(i) \/ UnlockEntry(i) \/ CallFails(i)
  <2>1. PICK f \in Entry : f = entry[i]
    BY <1>10 DEF DeleteEntry, UnlockEntry, CallFails, TypeOK
  <2>2. \A e \in Entry : e # f => event'[e] = event[e]
    BY <1>10, <2>1 DEF DeleteEntry, UnlockEntry, CallFails, TypeOK
  <2>3. entry'[i] \in {None, f} /\ UNCHANGED <<batch, unguarded>>
    BY <1>10, <2>1 DEF DeleteEntry, UnlockEntry, CallFails, EndEntry, TypeOK
  <2>4. \A e \in batch[i] : e \in Entry /\ e # f /\ event[e] = "queued"
    BY <2>1 DEF TypeOK
  <2>5. QED
    BY <2>2, <2>3, <2>4, NoEntry
<1>11. QED
  BY <1>3, <1>4, <1>5, <1>6, <1>7, <1>8, <1>9, <1>10 DEF Step, Trouble

LEMMA OtherSole ==
  ASSUME SoleInv, TypeOK',
         \/ \E w \in Workitem : Process(w) \/ DeleteWorkitem(w)
         \/ \E e \in Entry : LockExpires(e)
         \/ \E i \in Instance : Toggle(i)
         \/ UNCHANGED vars
  PROVE  SoleInv'
<1>1. UNCHANGED <<batch, entry, unguarded>>
  BY DEF Process, DeleteWorkitem, LockExpires, Toggle, vars
<1>2. \A d \in Entry : event[d] = "queued" => event'[d] = "queued"
  BY DEF Process, DeleteWorkitem, LockExpires, Toggle, vars, SoleInv, TypeOK
<1>3. QED
  BY <1>1, <1>2 DEF SoleInv, TypeOK

\* With one instance of the application no workitem is ever exported without the protection
\* of a lock, so that ExportedOrQueued makes no exception.
THEOREM SoleInstanceGuarded == Sole /\ Spec => [](unguarded = {})
<1>1. Sole /\ SoleInv /\ [Next]_vars => SoleInv'
  <2> SUFFICES ASSUME Sole, SoleInv, [Next]_vars
               PROVE  SoleInv'
    OBVIOUS
  <2>1. TypeOK'
    BY NextTyping DEF SoleInv
  <2>2. QED
    BY <2>1, StepSole, OtherSole DEF Next
<1>2. SoleInv => unguarded = {}
  BY DEF SoleInv
<1>3. Sole => [](Sole)
  <2>1. Sole => Sole'
    BY DEF Sole
  <2>2. QED
    BY <2>1, PTL DEF Sole
<1>4. QED
  BY InitSole, <1>1, <1>2, <1>3, PTL DEF Spec

=============================================================================
