---------------------------- MODULE CallLifecycle ----------------------------
(***************************************************************************)
(* What the comments of CallService promise of a call: it rings once, is   *)
(* answered, canceled, rejected or timed out while it rings, and is        *)
(* finished, or found to have an offline caller, once it is answered.      *)
(***************************************************************************)
CONSTANT Calls
VARIABLE life

Move(c, from, to) == life[c] \in from /\ life' = [life EXCEPT ![c] = to]

Init == life = [c \in Calls |-> "none"]

Place(c)  == Move(c, {"none"}, "Ring")
Answer(c) == Move(c, {"Ring"}, "InCall")
Cancel(c) == Move(c, {"Ring"}, "Canceled")
Reject(c) == Move(c, {"Ring"}, "Rejected")
Expire(c) == Move(c, {"Ring"}, "Timeout")
HangUp(c) == Move(c, {"InCall"}, "Finished")
Drop(c)   == Move(c, {"InCall"}, "Offline")

Next == \E c \in Calls : Place(c) \/ Answer(c) \/ Cancel(c) \/ Reject(c)
                           \/ Expire(c) \/ HangUp(c) \/ Drop(c)

Spec == Init /\ [][Next]_life
=============================================================================
