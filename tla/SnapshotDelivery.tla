--------------------------- MODULE SnapshotDelivery ---------------------------
(***************************************************************************)
(* What the event log "snapshot.add" promises for each snapshot, without    *)
(* locks, timers and instances: once the snapshot is created it is queued   *)
(* until it is delivered to the archive or given up, and one of the two     *)
(* happens.  A snapshot given up may still be delivered by a call that had  *)
(* read it before; one that is delivered stays delivered.                   *)
(***************************************************************************)
CONSTANT Snapshot

VARIABLE status

Status == {"none", "queued", "delivered", "lost"}

Init == status = [s \in Snapshot |-> "none"]

Move(s, from, to) ==
    /\ status[s] \in from
    /\ status' = [status EXCEPT ![s] = to]

Create(s) == Move(s, {"none"}, "queued")
Deliver(s) == Move(s, {"queued", "lost"}, "delivered")
GiveUp(s) == Move(s, {"queued"}, "lost")
Resolve(s) == Deliver(s) \/ GiveUp(s)

Next == \E s \in Snapshot : Create(s) \/ Resolve(s)

\* A queued snapshot is resolved in the end.
Resolution == \A s \in Snapshot : (status[s] = "queued") ~> (status[s] # "queued")

SafeSpec == Init /\ [][Next]_status

Spec == SafeSpec /\ Resolution

=============================================================================
