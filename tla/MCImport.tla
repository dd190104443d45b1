------------------------------ MODULE MCImport ------------------------------
(* Constants of Import for TLC. *)
EXTENDS Import

\* A backup is asked for from the first save on.
AskedFirst == [w \in Workitem |-> 1]
=============================================================================
