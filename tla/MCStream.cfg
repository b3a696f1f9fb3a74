SPECIFICATION Spec
CONSTANTS
  host = host
  v1 = v1
  v2 = v2
  Host = host
  Viewers = {v1, v2}
  Subscribed = {v1}
  Rows = {p1, p2, p3}
  Messages = {m1, m2}
  Asks = {a1, a2}
  Scenes <- MCScenes
  Price = 1
  GiftPrice = 2
  Wallet <- MCWallet
  Slots = {s1, s2}
  MaxCount = 2
  NoUser = NoUser
  NoRow = NoRow
  NoMessage = NoMessage
  NoAsk = NoAsk
CHECK_DEADLOCK FALSE
SYMMETRY StreamSymmetry
INVARIANTS
  TypeOK
  ApprovedOnly
  EntryIsPaid
  CreditsAreCharged
  CountersAgree
  OnlyTheAllowed
