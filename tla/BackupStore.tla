----------------------------- MODULE BackupStore -----------------------------
(***************************************************************************)
(* What the backup promises for each workitem, without an event log, locks   *)
(* and retries: the store keeps one version of it, which is only replaced   *)
(* by the same or a newer one.  Writing is not atomic: it may leave a part of *)
(* the version it was writing, or of what it was to write.                   *)
(***************************************************************************)
EXTENDS Naturals

CONSTANTS
    Workitem,
    Asked       \* Asked[w]: the first version for which a backup is asked

VARIABLES
    saved,      \* the latest version of each workitem
    stored,     \* the version that was written last, 0 for none
    intact,     \* workitems for which all of it was written
    removed     \* workitems that are removed

storeVars == <<saved, stored, intact, removed>>

StoreInit ==
    /\ saved = [w \in Workitem |-> Asked[w] - 1]
    /\ stored = [w \in Workitem |-> 0]
    /\ intact = {}
    /\ removed = {}

Save(w) ==
    /\ w \notin removed
    /\ saved' = [saved EXCEPT ![w] = @ + 1]
    /\ UNCHANGED <<stored, intact, removed>>

Remove(w) ==
    /\ removed' = removed \union {w}
    /\ UNCHANGED <<saved, stored, intact>>

\* A version is written, or a part of it.
Store(w) ==
    /\ \E v \in 1 .. saved[w] :
        /\ v >= stored[w]
        /\ stored' = [stored EXCEPT ![w] = v]
    /\ intact' \in {intact \union {w}, intact \ {w}}
    /\ UNCHANGED <<saved, removed>>

StoreNext == \E w \in Workitem : Save(w) \/ Remove(w) \/ Store(w)

StoreSpec == StoreInit /\ [][StoreNext]_storeVars

=============================================================================
