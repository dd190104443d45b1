---------------------------- MODULE SnapshotArchive ----------------------------
(***************************************************************************)
(* What the archive promises to its clients, without its tables: a snapshot *)
(* is absent, partial (its row is stored, but some attached document cannot *)
(* be read back) or complete.                                              *)
(*                                                                         *)
(* imixs-archive-service/docs/CORECONCEPT.md calls the archive "a immutable *)
(* snapshot of all workflow data": a complete snapshot never loses a        *)
(* document again.  WriteOnceSpec is the archive that keeps everything,     *)
(* ImmutableSpec the one that also removes whole snapshots.                 *)
(***************************************************************************)
CONSTANT Snapshot

VARIABLE archive

Status == {"absent", "partial", "complete"}

Init == archive = [s \in Snapshot |-> "absent"]

\* A snapshot enters the archive, with or without all of its documents.
Add(s) ==
    /\ archive[s] = "absent"
    /\ \E status \in {"partial", "complete"} :
           archive' = [archive EXCEPT ![s] = status]

\* A document becomes readable: it may complete several snapshots at once.
Complete(S) ==
    /\ \A s \in S : archive[s] = "partial"
    /\ archive' = [s \in Snapshot |-> IF s \in S THEN "complete" ELSE archive[s]]

\* A snapshot leaves the archive.
Remove(s) == archive' = [archive EXCEPT ![s] = "absent"]

Grow ==
    \/ \E s \in Snapshot : Add(s)
    \/ \E S \in SUBSET Snapshot : Complete(S)

WriteOnceSpec == Init /\ [][Grow]_archive

ImmutableSpec == Init /\ [][Grow \/ \E s \in Snapshot : Remove(s)]_archive

=============================================================================
