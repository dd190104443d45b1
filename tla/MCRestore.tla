------------------------------ MODULE MCRestore ------------------------------
(***************************************************************************)
(* Instances of Restore for TLC.                                           *)
(***************************************************************************)
EXTENDS Restore

CONSTANT u1

TwoDigits == { <<u1, 3>>, <<u1, 4>> }    \* "10" and "11" with the digits of 3
Ranges == { <<0, 5>>, <<3, 4>>, <<2, 5>> }    \* the third one begins with "2"
NoOptions == { Snapshot }
Items ==
    [from : Time, to : Time, point : 0 .. MaxTime + DayLength, filter : Filter]
NoItems == [from |-> 0, to |-> 0, point |-> 0, filter |-> Snapshot]

=============================================================================
