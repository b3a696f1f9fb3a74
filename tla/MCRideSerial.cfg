SPECIFICATION SerialSpec
CONSTANTS
  Users = {rider1, driver1}
  Drivers = {driver1}
  Rides = {r1, r2}
  Methods = {"cash", "online", "points"}
  Fares = {2, 4}
  Commission <- HalfFare
  PointPrice <- TwicePoints
  PointsPerRide = 3
  Wallet <- OneEach
  Slots = {s1}
  MaxRestarts = 0
  NoUser = NoUser
  NoRide = NoRide
  rider1 = rider1
  driver1 = driver1
  driver2 = driver2
SYMMETRY RideSymmetry
INVARIANTS
  OneActiveRide
  WalletsMatchRides
PROPERTIES
  ImplementsLifecycle
