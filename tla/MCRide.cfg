SPECIFICATION Spec
CONSTANTS
  Users = {rider1, driver1}
  Drivers = {driver1}
  Rides = {r1}
  Methods = {"online", "points"}
  Fares = {2}
  Commission <- HalfFare
  PointPrice <- TwicePoints
  PointsPerRide = 3
  Wallet <- OneEach
  Slots = {s1, s2}
  MaxRestarts = 1
  NoUser = NoUser
  NoRide = NoRide
  rider1 = rider1
  driver1 = driver1
  driver2 = driver2
SYMMETRY SlotSymmetry
INVARIANTS
  TypeOK
  SettledBeforeMarked
