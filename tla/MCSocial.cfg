SPECIFICATION Spec
CONSTANTS
  u1 = u1
  u2 = u2
  u3 = u3
  Users = {u1, u2, u3}
  Scenes <- MCScenes
  Slots = {s1, s2}
  NoUser = NoUser
  Limits = {2}
  Groups = {g1}
  MaxChannels = 1
  MaxBroadcasts = 2
  MaxStories = 1
  Seller = u1
  Ratings = {1, 5}
  MaxRecords = 3
  MaxFiles = 4
  Sizes = {1, 2}
  MaxStorage = 2
CHECK_DEADLOCK FALSE
INVARIANTS
  TypeOK
  MembersStay
  PostsAreWhole
  MarketAgrees
  FilesAgree
