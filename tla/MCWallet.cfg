SPECIFICATION FairSpec
CONSTANTS
  u1 = u1
  u2 = u2
  Users = {u1, u2}
  Rider = u1
  Driver = u2
  Payments = {t1, t2}
  Ads = {a1, a2}
  Scenes <- MCScenes
  Price <- MCPrice
  Wallet0 <- MCWallet0
  MaxAdjust = 2
  Amounts <- MCAmounts
  MaxCredits = 2
  Slots = {s1, s2}
  NoUser = NoUser
  NoDoc = NoDoc
CHECK_DEADLOCK FALSE
INVARIANTS
  TypeOK
  TopUpsAreBacked
  ChargesAreLogged
  LedgerAgrees
PROPERTY
  CreditIsMarked
