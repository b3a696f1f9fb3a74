---------------------------- MODULE RideLifecycle ----------------------------
(***************************************************************************)
(* What RidesService promises of a ride: it is offered, accepted, started  *)
(* and completed, each once and in this order, and its rider may cancel it *)
(* until it is started.                                                    *)
(***************************************************************************)
CONSTANT Rides
VARIABLE life

Move(r, from, to) == life[r] \in from /\ life' = [life EXCEPT ![r] = to]

Init == life = [r \in Rides |-> "none"]

Request(r)  == Move(r, {"none"}, "pending")
Schedule(r) == Move(r, {"none"}, "scheduled")
Offer(r)    == Move(r, {"scheduled"}, "pending")
Accept(r)   == Move(r, {"pending"}, "accepted")
Begin(r)    == Move(r, {"accepted"}, "in_progress")
Complete(r) == Move(r, {"in_progress"}, "completed")
Cancel(r)   == Move(r, {"pending", "accepted"}, "cancelled")

Next == \E r \in Rides : Request(r) \/ Schedule(r) \/ Offer(r) \/ Accept(r)
                           \/ Begin(r) \/ Complete(r) \/ Cancel(r)

Spec == Init /\ [][Next]_life
=============================================================================
