---------------------------- MODULE MCSnapshotSync ----------------------------
(***************************************************************************)
(* Instances of SnapshotSync for TLC.                                       *)
(***************************************************************************)
EXTENDS SnapshotSync

=============================================================================
