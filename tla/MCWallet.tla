------------------------------ MODULE MCWallet ------------------------------
(* Small instances of Wallet: which requests meet. *)
EXTENDS Wallet
CONSTANTS u1, u2

Scene(menu, topups, n) == [menu |-> menu, topups |-> topups, restarts |-> n]

MCScenes ==
  { Scene({"mpesa"}, 1, 1),
    Scene({"mpesa", "plan"}, 1, 0),
    Scene({"mpesa", "card"}, 2, 0),
    Scene({"card", "book"}, 2, 0),
    Scene({"card"}, 2, 1),
    Scene({"gift", "subtract", "add"}, 0, 0),
    Scene({"ad", "verify"}, 0, 1),
    Scene({"ad", "book"}, 0, 0),
    Scene({"ride", "add"}, 0, 0) }

\* What a callback names, which need not be the amount asked.
MCAmounts == {5, -2}

\* Amounts of which no two sums are easily confused.
MCPrice == [k \in Kinds |->
  CASE k = "mpesa" -> 7 [] k = "card" -> 11 [] k = "gift" -> 5 [] k = "adjust" -> 1
    [] k = "ad" -> 4 [] k = "fee" -> 6 [] k = "plan" -> 9 [] k = "book" -> 3
    [] k = "fare" -> 8 [] k = "earnings" -> 2]

MCWallet0 == [u \in Users |-> IF u = u1 THEN 8 ELSE 3]
=============================================================================
