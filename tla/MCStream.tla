------------------------------ MODULE MCStream ------------------------------
(* Small instances of Stream: which kind of stream, and which requests. *)
EXTENDS Stream, TLC
CONSTANTS host, v1, v2

Kind(type, private, approval) == [type |-> type, isPrivate |-> private, approval |-> approval]
Scene(kind, menu, n) == [kind |-> kind, menu |-> menu, restarts |-> n]

Open     == Kind("public", FALSE, FALSE)
ByLeave  == Kind("public", FALSE, TRUE)
Paid     == Kind("paid", TRUE, FALSE)
Private  == Kind("private", TRUE, FALSE)

MCScenes ==
  { Scene(Open, {"join", "leave", "cohost"}, 0),
    Scene(Open, {"join", "remove", "ban", "delete"}, 0),
    Scene(Open, {"pin", "message", "delete"}, 0),
    Scene(Open, {"like"}, 0),
    Scene(ByLeave, {"join", "ask", "record"}, 0),
    Scene(Paid, {"join", "ban"}, 1),
    Scene(Paid, {"join", "gift", "leave"}, 0),
    Scene(Private, {"join"}, 1) }

MCWallet == host :> 0 @@ v1 :> 2 @@ v2 :> 1

StreamSymmetry == Permutations(Slots)
=============================================================================
