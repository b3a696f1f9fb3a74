SPECIFICATION Spec
CONSTANTS
  Users = {u1, u2}
  Mobile = {u1, u2}
  Rooms <- PairRooms
  GroupRooms = {}
  MembersOf <- PairMembers
  Denies <- PairDenies
  Calls = {c1}
  Slots = {s1}
  MaxRestarts = 0
  Bannable = {}
  NoUser = NoUser
  NoRoom = NoRoom
  NoCall = NoCall
  u1 = u1
  u2 = u2
  u3 = u3
  r12 = r12
  r13 = r13
  g = g
PROPERTIES
  TimeoutOnlyRinging
