SPECIFICATION Spec
CONSTANTS
  Users = {u1, u2}
  Mobile = {u1, u2}
  Rooms <- DuoRooms
  GroupRooms = {g}
  MembersOf <- DuoMembers
  Denies <- PairDenies
  Calls = {c1}
  Slots = {s1, s2}
  MaxRestarts = 1
  Bannable = {}
  NoUser = NoUser
  NoRoom = NoRoom
  NoCall = NoCall
  u1 = u1
  u2 = u2
  u3 = u3
  r12 = r12
  r13 = r13
  g = g
SYMMETRY DuoSymmetry
INVARIANTS
  TypeOK
  OwnCalls
  InCallIsAnswered
  RingingIsTimed
