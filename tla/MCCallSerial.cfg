SPECIFICATION SerialSpec
CONSTANTS
  Users = {u1, u2, u3}
  Mobile = {u1, u2}
  Rooms <- StarRooms
  GroupRooms = {}
  MembersOf <- StarMembers
  Denies <- StarDenies
  Calls = {c1, c2}
  Slots = {s1}
  MaxRestarts = 0
  Bannable = {}
  NoUser = NoUser
  NoRoom = NoRoom
  NoCall = NoCall
  u1 = u1
  u2 = u2
  u3 = u3
  r12 = r12
  r13 = r13
  g = g
SYMMETRY CallSymmetry
INVARIANTS
  CalleeIsFreed
PROPERTIES
  ImplementsLifecycle
