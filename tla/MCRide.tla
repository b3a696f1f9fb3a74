------------------------------- MODULE MCRide -------------------------------
(* Small instances of Ride and RideSerial. *)
EXTENDS RideSerial, TLC
CONSTANTS rider1, driver1, driver2

\* A commission of half the estimate and a price of two points per unit: the
\* amounts of a fare, a commission and a reward are all different.
HalfFare == [f \in Fares |-> f \div 2]
TwicePoints == [f \in Fares |-> 2 * f]
OneEach == [u \in Users |-> 1]

SlotSymmetry == Permutations(Slots)
RideSymmetry == Permutations(Rides)
=============================================================================
