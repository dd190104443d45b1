------------------------------ MODULE MCBackup ------------------------------
(* Constants of Backup for TLC. *)
EXTENDS Backup

CONSTANTS a, b, c

\* Two units of time are a second; the three workitems have a second each.
CreatedSpread == [w \in Workitem |-> CASE w = a -> 1 [] w = b -> 3 [] OTHER -> 5]

\* The last one is saved again, once or several times.
LastTwice == [w \in Workitem |-> IF w = c THEN 2 ELSE 1]
LastThrice == [w \in Workitem |-> IF w = c THEN 3 ELSE 1]
=============================================================================
