------------------------------- MODULE MCResync -------------------------------
(***************************************************************************)
(* Instances of Resync for TLC: snapshot ids and the symmetry of the runs.  *)
(***************************************************************************)
EXTENDS Resync, TLC

CONSTANTS u1, u2, u3

Three == { <<u1, 1>>, <<u2, 1>>, <<u1, 2>> }
Four == { <<u1, 1>>, <<u2, 1>>, <<u3, 1>>, <<u1, 2>> }

RunSymmetry == Permutations(Run)

=============================================================================
