SPECIFICATION FairSpec
CONSTANTS
  Users = {u1, u2, u3}
  Mobile = {u1, u2}
  Rooms <- StarRooms
  GroupRooms = {}
  MembersOf <- StarMembers
  Denies <- StarDenies
  Calls = {c1}
  Slots = {s1}
  MaxRestarts = 0
  Bannable = {r12}
  NoUser = NoUser
  NoRoom = NoRoom
  NoCall = NoCall
  u1 = u1
  u2 = u2
  u3 = u3
  r12 = r12
  r13 = r13
  g = g
PROPERTIES
  RingResolves
  OutcomePosted
