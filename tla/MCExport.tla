------------------------------ MODULE MCExport ------------------------------
(* Constants of Export for TLC. *)
EXTENDS Export
=============================================================================
