----------------------------- MODULE RideSerial -----------------------------
(***************************************************************************)
(* Rides when handlers do not overlap: each request is handled to its end  *)
(* before the next one begins.                                             *)
(***************************************************************************)
EXTENDS Ride, FiniteSetsExt

ActiveSlots == {s \in Slots : req[s].pc # "idle"}
SerialNext == Next /\ Cardinality(ActiveSlots') <= 1
SerialSpec == Init /\ [][SerialNext]_vars

Lifecycle == INSTANCE RideLifecycle WITH life <- status

\* Without overlap the service implements the lifecycle it promises.
ImplementsLifecycle == Lifecycle!Spec

Total(S, Amount(_)) == MapThenSumSet(Amount, S)

\* What the rides a user drove and took say of the user's balance and points.
BalanceOf(u) ==
  LET Driven(r) == driver[r] = u /\ status[r] \in {"in_progress", "completed"}
      Share(r) == Commission[estimate[r]]
      PaidTo(r) == driver[r] = u /\ status[r] = "completed" /\ method[r] # "cash"
      Earned(r) == fare[r] - Share(r)
      PaidBy(r) == rider[r] = u /\ status[r] = "completed" /\ method[r] = "online"
      Paid(r) == fare[r]
  IN Wallet[u] - Total({r \in Rides : Driven(r)}, Share)
               + Total({r \in Rides : PaidTo(r)}, Earned)
               - Total({r \in Rides : PaidBy(r)}, Paid)

PointsOf(u) ==
  LET Price(r) == PointPrice[fare[r]]
  IN PointsPerRide * Cardinality({r \in Rides : rider[r] = u /\ redeemed[r]})
       - Total({r \in Rides : /\ rider[r] = u /\ status[r] = "completed"
                              /\ method[r] = "points"}, Price)

DroveThemselves(u) == \E r \in Rides : rider[r] = u /\ driver[r] = u

\* Without overlap and restarts, whenever no handler is in progress the
\* wallets agree with the rides: each started ride was charged once, each
\* completed one settled once, each redeemed one rewarded once.  (Nothing
\* keeps a driver from accepting a ride of their own; completeRide then reads
\* one wallet twice, and its second save undoes the first.)
WalletsMatchRides ==
  ActiveSlots = {} /\ restarts = 0 =>
    \A u \in Users : ~DroveThemselves(u) =>
      balance[u] = BalanceOf(u) /\ points[u] = PointsOf(u)
=============================================================================
