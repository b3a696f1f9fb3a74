SPECIFICATION Spec
CONSTANTS
  u1 = u1
  u2 = u2
  Users = {u1, u2}
  Handsets = {h1, h2}
  MaxDevices = 4
  MaxCodes = 3
  Scenes <- MCScenes
  Slots = {s1, s2}
  NoUser = NoUser
  NoHandset = NoHandset
CHECK_DEADLOCK FALSE
INVARIANTS
  TypeOK
  CodesWorkOnce
  LoggedOutStaysOut
  ProfileIsCopied
