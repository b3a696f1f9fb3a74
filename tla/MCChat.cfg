SPECIFICATION Spec
CONSTANTS
  Users = {u1, u2, u3}
  Creator = u1
  Peer = u2
  Rooms = {ra, rb, rc}
  LocalIds = {l1, l2}
  Scenes <- MCScenes
  Slots = {s1, s2}
  NoUser = NoUser
  NoRoom = NoRoom
  NoId = NoId
CHECK_DEADLOCK FALSE
INVARIANTS
  TypeOK
  NothingTwice
  
  ListenersAreMembers
  ReadIsSeen
  ShownAgain
