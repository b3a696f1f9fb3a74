---------------------------- MODULE WalletProofs ----------------------------
(***************************************************************************)
(* Theorems about the wallets, for any number of users, payments, ads,     *)
(* handlers in progress and restarts, and any prices.                      *)
(***************************************************************************)
EXTENDS Wallet, Sums, FiniteSetTheorems, TLAPS

Handlers == [pc : PC, user : Users \cup {NoUser}, doc : Payments \cup {NoDoc},
             seen : Int, other : Int, done : SUBSET {"mark", "credit"}]

TopupPcs == {"topup_fail", "topup_credit", "topup_mark"}
CardPcs == {"card_charge", "card_settle", "card_fail"}

\* These have a payment for themselves.
OwnerPcs == {"push_create"} \cup CardPcs

\* What a handler knows of the payment it works on, whatever others do.
Knows(s) ==
  LET h == req[s]
      t == h.doc
  IN /\ h.pc # "idle" => h.user \in Users
     /\ h.pc \in OwnerPcs \cup TopupPcs => t \in Payments /\ t \in asked
     /\ h.pc = "push_create" => payment[t] = NoPayment
     /\ h.pc \in TopupPcs => payment[t].provider = "mpesa" /\ h.user = payment[t].user
     /\ h.pc \in {"topup_credit", "topup_mark"} => Receipt(h.seen) \in told[t]
     /\ h.pc = "card_settle" => Receipt(Price["card"]) \in told[t]
     /\ h.pc = "topup_mark" => h.seen \in Credits(t)
     /\ h.pc \in CardPcs => payment[t].provider = "card" /\ h.user = payment[t].user
     /\ h.pc \in CardPcs => payment[t].amount = Price["card"]
     /\ h.pc = "card_charge" => h.done = {}
     /\ h.pc = "card_settle" => h.done \in {{}, {"mark"}, {"credit"}}

OneOwner ==
  \A s, t \in Slots :
    req[s].pc \in OwnerPcs /\ req[t].pc \in OwnerPcs /\ req[s].doc = req[t].doc => s = t

\* A payment no provider has been asked for does not exist.
Asked == \A t \in Payments \ asked : payment[t] = NoPayment

Backed == TypeOK /\ (\A s \in Slots : Knows(s)) /\ OneOwner /\ Asked /\ TopUpsAreBacked

-----------------------------------------------------------------------------
(* Handlers *)

LEMMA IdleTyped == Idle \in Handlers /\ Idle.pc = "idle"
BY DEF Idle, For, Handlers, PC

LEMMA ForTyped ==
  ASSUME NEW pc \in PC, NEW u \in Users
  PROVE  For(pc, u) \in Handlers /\ For(pc, u).pc = pc /\ For(pc, u).user = u
BY DEF For, Handlers

LEMMA BeginTyped ==
  ASSUME TypeOK, NEW s \in Slots, NEW h \in Handlers, Begin(s, h)
  PROVE  /\ req' \in [Slots -> Handlers] /\ req'[s] = h
         /\ \A t \in Slots \ {s} : req'[t] = req[t]
         /\ overlapped' \in BOOLEAN /\ restarts' = restarts
BY DEF Begin, TypeOK, Handlers

LEMMA ResumeTyped ==
  ASSUME TypeOK, NEW s \in Slots, NEW h \in Handlers, Resume(s, h)
  PROVE  /\ req' \in [Slots -> Handlers] /\ req'[s] = h
         /\ \A t \in Slots \ {s} : req'[t] = req[t]
         /\ overlapped' = overlapped /\ restarts' = restarts
BY DEF Resume, TypeOK, Handlers, process

\* What is added to the end of the credits is one of them from then on.
LEMMA CreditAdded ==
  ASSUME NEW t \in Payments, credited[t] \in Seq(Int), NEW a \in Int,
         credited'[t] = Append(credited[t], a)
  PROVE  credited'[t] \in Seq(Int) /\ Credits(t)' = Credits(t) \cup {a}
<1>. DEFINE c == credited[t]
            d == credited'[t]
<1>1. /\ c \in Seq(Int) /\ d \in Seq(Int) /\ Len(c) \in Nat /\ Len(d) = Len(c) + 1
      /\ \A i \in 1..Len(c) : d[i] = c[i]
      /\ d[Len(c) + 1] = a
  OBVIOUS
<1>. HIDE DEF c, d
<1>2. \A i : i \in 1..Len(d) <=> i \in 1..Len(c) \/ i = Len(c) + 1
  BY <1>1
<1>. DEFINE C == {c[i] : i \in 1..Len(c)}
            D == {d[i] : i \in 1..Len(d)}
<1>3. D = C \cup {a}
  <2>1. ASSUME NEW x \in D PROVE x \in C \cup {a}
    BY <1>1, <1>2
  <2>2. ASSUME NEW x \in C \cup {a} PROVE x \in D
    BY <1>1, <1>2
  <2>. QED
    BY <2>1, <2>2
<1>. QED
  BY <1>1, <1>3 DEF Credits, c, d

LEMMA PriceTyped ==
  /\ Price["mpesa"] \in Nat /\ Price["card"] \in Nat /\ Price["gift"] \in Nat
  /\ Price["adjust"] \in Nat /\ Price["ad"] \in Nat /\ Price["fee"] \in Nat
  /\ Price["plan"] \in Nat /\ Price["book"] \in Nat /\ Price["fare"] \in Nat
  /\ Price["earnings"] \in Nat
BY WalletAssumption DEF WalletAssumption, Kinds

-----------------------------------------------------------------------------
(* A step that leaves the payments alone *)

LEMMA PlainStep ==
  ASSUME Backed, TypeOK', NEW s \in Slots, NEW h \in Handlers, req'[s] = h,
         \A t \in Slots \ {s} : req'[t] = req[t], UNCHANGED payments,
         h.pc \notin OwnerPcs \cup TopupPcs, h.pc # "idle" => h.user \in Users
  PROVE  Backed'
<1>1. \A t \in Slots : Knows(t)'
  BY DEF Backed, Knows, payments, OwnerPcs, TopupPcs, CardPcs, Credits
<1>2. OneOwner'
  BY DEF Backed, OneOwner
<1>3. Asked' /\ TopUpsAreBacked'
  BY DEF Backed, payments, Asked, TopUpsAreBacked, Credits
<1>. QED
  BY <1>1, <1>2, <1>3 DEF Backed

LEMMA SlotlessStep ==
  ASSUME Backed, TypeOK', UNCHANGED <<payments, req>>
  PROVE  Backed'
<1>1. \A t \in Slots : Knows(t)'
  BY DEF Backed, Knows, payments, Credits
<1>2. OneOwner' /\ Asked' /\ TopUpsAreBacked'
  BY DEF Backed, OneOwner, payments, Asked, TopUpsAreBacked, Credits
<1>. QED
  BY <1>1, <1>2 DEF Backed

LEMMA BeginPlain ==
  ASSUME Backed, NEW s \in Slots, NEW h \in Handlers, Begin(s, h),
         UNCHANGED <<scene, balance, payments, charges, others>>,
         h.pc \notin OwnerPcs \cup TopupPcs, h.user \in Users
  PROVE  Backed'
<1>1. TypeOK /\ scene' = scene
  BY DEF Backed
<1>2. /\ req' \in [Slots -> Handlers] /\ req'[s] = h
      /\ \A t \in Slots \ {s} : req'[t] = req[t]
      /\ overlapped' \in BOOLEAN /\ restarts' = restarts
  BY <1>1, BeginTyped
<1>3. TypeOK'
  BY <1>1, <1>2 DEF TypeOK, payments, charges, others, Handlers
<1>. QED
  BY <1>2, <1>3, PlainStep

\* Handlers that begin with what they were asked for.
LEMMA StartPlain ==
  ASSUME Backed, NEW s \in Slots,
         \/ AdController(s) \/ AdminPanelController(s) \/ PlanRoute(s)
         \/ ProfileController(s) \/ BookRoute(s) \/ RideBegin(s)
  PROVE  Backed'
<1>. DEFINE begins(h) == /\ Begin(s, h)
                         /\ UNCHANGED <<scene, balance, payments, charges, others>>
            plain == {"gift_add", "subtract", "ad_commit", "badge_log", "badge_reject",
                      "plan_save", "book_user", "ride_rider"}
<1>1. ASSUME NEW u \in Users, NEW pc \in plain, begins(For(pc, u)) PROVE Backed'
  <2>1. pc \in PC /\ pc \notin OwnerPcs \cup TopupPcs
    BY DEF PC, OwnerPcs, TopupPcs, CardPcs
  <2>. QED
    BY <1>1, <2>1, ForTyped, BeginPlain
<1>2. ASSUME NEW u \in Users, begins([For("plan_save", u) EXCEPT !.seen = balance[u]])
      PROVE  Backed'
  <2>. DEFINE h == [For("plan_save", u) EXCEPT !.seen = balance[u]]
  <2>1. balance[u] \in Int
    BY DEF Backed, TypeOK
  <2>2. h \in Handlers /\ h.pc = "plan_save" /\ h.user = u
    BY <2>1 DEF For, Handlers, PC
  <2>3. h.pc \notin OwnerPcs \cup TopupPcs
    BY <2>2 DEF OwnerPcs, TopupPcs, CardPcs
  <2>. QED
    BY <1>2, <2>2, <2>3, BeginPlain
<1>3. CASE AdController(s)
  BY <1>1, <1>3 DEF AdController, AdBegin
<1>4. CASE AdminPanelController(s)
  BY <1>1, <1>4 DEF AdminPanelController, ApproveBegin, RejectBegin
<1>5. CASE PlanRoute(s)
  BY <1>2, <1>5 DEF PlanRoute, PlanBegin
<1>6. CASE ProfileController(s)
  BY <1>1, <1>6 DEF ProfileController, GiftBegin, SubtractBegin
<1>7. CASE BookRoute(s)
  BY <1>1, <1>7 DEF BookRoute, BookBegin
<1>8. CASE RideBegin(s)
  BY <1>1, <1>8, WalletAssumption DEF RideBegin, WalletAssumption
<1>. QED
  BY <1>3, <1>4, <1>5, <1>6, <1>7, <1>8

\* What the requests that are not about a payment change has its type.
Money ==
  /\ balance \in [Users -> Int] /\ claimed \in [Users -> BOOLEAN]
  /\ adjusted \in [Users -> -MaxAdjust..MaxAdjust]
  /\ ad \in [Ads -> Users \cup {NoUser}]
  /\ badge \in [Users -> BadgeStatus] /\ verified \in [Users -> BOOLEAN]
  /\ log \in [Users -> Nat] /\ plan \in [Users -> BOOLEAN]
  /\ bought \in [Users -> Nat] /\ ride \in {"in_progress", "completed"}

PlainPcs == {"idle", "gift_credit", "badge_charge", "badge_approve", "book_save", "book_push",
             "ride_driver", "ride_saveRider", "ride_saveDriver", "ride_save"}

LEMMA PlainResume ==
  ASSUME Backed, NEW s \in Slots, NEW h \in Handlers, Resume(s, h), h.pc \in PlainPcs,
         h.user = req[s].user \/ h.pc = "idle", req[s].pc # "idle",
         scene' = scene, UNCHANGED payments, Money'
  PROVE  Backed'
<1>1. /\ req' \in [Slots -> Handlers] /\ req'[s] = h
      /\ \A t \in Slots \ {s} : req'[t] = req[t]
      /\ overlapped' = overlapped /\ restarts' = restarts
  BY ResumeTyped DEF Backed
<1>2. TypeOK'
  BY <1>1 DEF Backed, TypeOK, Money, payments, Handlers
<1>3. h.pc \notin OwnerPcs \cup TopupPcs
  BY DEF OwnerPcs, TopupPcs, CardPcs, PlainPcs
<1>4. req[s].user \in Users
  BY DEF Backed, Knows
<1>. QED
  BY <1>1, <1>2, <1>3, <1>4, PlainStep

LEMMA PlainReturn ==
  ASSUME Backed, NEW s \in Slots, Return(s), req[s].pc # "idle",
         scene' = scene, UNCHANGED payments, Money'
  PROVE  Backed'
BY IdleTyped, PlainResume DEF Return, PlainPcs

LEMMA PlainGoto ==
  ASSUME Backed, NEW s \in Slots, NEW pc \in PlainPcs, Goto(s, pc), req[s].pc # "idle",
         scene' = scene, UNCHANGED payments, Money'
  PROVE  Backed'
<1>. DEFINE h == [req[s] EXCEPT !.pc = pc]
<1>1. pc \in PC
  BY DEF PC, PlainPcs
<1>2. req[s] \in Handlers
  BY DEF Backed, TypeOK, Handlers
<1>3. h \in Handlers /\ h.pc = pc /\ h.user = req[s].user
  BY <1>1, <1>2 DEF Handlers
<1>. QED
  BY <1>3, PlainResume DEF Goto

LEMMA InProgressTyped ==
  ASSUME Backed, NEW s \in Slots, req[s].pc # "idle"
  PROVE  /\ Money /\ req[s].user \in Users
         /\ req[s].seen \in Int /\ req[s].other \in Int
BY DEF Backed, TypeOK, Money, Knows

\* Handlers that go on, of requests that are not about a payment.
LEMMA ContinuePlain ==
  ASSUME Backed, NEW s \in Slots,
         \/ GiftAdd(s) \/ GiftCredit(s) \/ Subtract(s) \/ SubtractTooFar(s)
         \/ AdCommit(s) \/ AdAbort(s)
         \/ BadgeLog(s) \/ BadgeCharge(s) \/ BadgeApprove(s) \/ BadgeReject(s)
         \/ PlanSave(s) \/ BookUser(s) \/ BookSave(s) \/ BookPush(s)
         \/ RideRider(s) \/ RideDriver(s) \/ RideSaveRider(s) \/ RideSaveDriver(s)
         \/ RideSave(s)
  PROVE  Backed'
<1>. DEFINE u == req[s].user
            returns == Return(s) /\ req[s].pc # "idle" /\ scene' = scene /\ UNCHANGED payments
            goes(pc) == Goto(s, pc) /\ req[s].pc # "idle" /\ scene' = scene
                        /\ UNCHANGED payments
<1>0. req[s].pc # "idle"
  BY DEF GiftAdd, GiftCredit, Subtract, SubtractTooFar, AdCommit, AdAbort, BadgeLog,
         BadgeCharge, BadgeApprove, BadgeReject, PlanSave, BookUser, BookSave, BookPush,
         RideRider, RideDriver, RideSaveRider, RideSaveDriver, RideSave
<1>1. /\ Money /\ u \in Users /\ req[s].seen \in Int /\ req[s].other \in Int
  BY <1>0, InProgressTyped
<1>2. req[s] \in Handlers
  BY DEF Backed, TypeOK, Handlers
<1>3. CASE GiftAdd(s)
  <2>1. goes("gift_credit") /\ Money'
    BY <1>1, <1>3 DEF GiftAdd, Money, charges
  <2>. QED
    BY <2>1, PlainGoto DEF PlainPcs
<1>4. CASE GiftCredit(s)
  <2>1. returns /\ Money'
    BY <1>1, <1>4, PriceTyped DEF GiftCredit, Inc, Money, charges, others
  <2>. QED
    BY <2>1, PlainReturn
<1>5. CASE Subtract(s)
  <2>1. returns /\ Money'
    BY <1>1, <1>5, PriceTyped DEF Subtract, Adjust, Inc, Money, charges
  <2>. QED
    BY <2>1, PlainReturn
<1>6. CASE SubtractTooFar(s) \/ AdAbort(s)
  <2>1. returns /\ Money'
    BY <1>1, <1>6 DEF SubtractTooFar, AdAbort, Money, charges, others
  <2>. QED
    BY <2>1, PlainReturn
<1>7. CASE AdCommit(s)
  <2>1. returns /\ Money'
    BY <1>1, <1>7, PriceTyped DEF AdCommit, Inc, Money, others
  <2>. QED
    BY <2>1, PlainReturn
<1>8. CASE BadgeLog(s)
  <2>1. goes("badge_charge") /\ Money'
    BY <1>1, <1>8, PriceTyped DEF BadgeLog, Money, others
  <2>. QED
    BY <2>1, PlainGoto DEF PlainPcs
<1>9. CASE BadgeCharge(s)
  <2>1. goes("badge_approve") /\ Money'
    BY <1>1, <1>9, PriceTyped DEF BadgeCharge, Inc, Money, others
  <2>. QED
    BY <2>1, PlainGoto DEF PlainPcs
<1>10. CASE BadgeApprove(s) \/ BadgeReject(s)
  <2>1. returns /\ Money'
    BY <1>1, <1>10 DEF BadgeApprove, BadgeReject, SetBadge, BadgeStatus, Money, others
  <2>. QED
    BY <2>1, PlainReturn
<1>11. CASE PlanSave(s)
  <2>1. returns /\ Money'
    BY <1>1, <1>11, PriceTyped DEF PlanSave, SaveBalance, Money, charges
  <2>. QED
    BY <2>1, PlainReturn
<1>12. CASE BookUser(s)
  <2>1. /\ Money' /\ scene' = scene /\ UNCHANGED payments
        /\ \/ returns
           \/ Resume(s, [req[s] EXCEPT !.pc = "book_save", !.seen = balance[u]])
    BY <1>0, <1>1, <1>12 DEF BookUser, Return, Money, charges, others
  <2>. DEFINE h == [req[s] EXCEPT !.pc = "book_save", !.seen = balance[u]]
  <2>2. h \in Handlers /\ h.pc = "book_save" /\ h.user = u
    BY <1>1, <1>2 DEF Handlers, PC, Money
  <2>. QED
    BY <1>0, <2>1, <2>2, PlainReturn, PlainResume DEF PlainPcs
<1>13. CASE BookSave(s)
  <2>1. goes("book_push") /\ Money'
    BY <1>1, <1>13, PriceTyped DEF BookSave, SaveBalance, Money, charges, others
  <2>. QED
    BY <2>1, PlainGoto DEF PlainPcs
<1>14. CASE BookPush(s)
  <2>1. returns /\ Money'
    BY <1>1, <1>14 DEF BookPush, Money, charges
  <2>. QED
    BY <2>1, PlainReturn
<1>15. CASE RideRider(s)
  <2>. DEFINE h == [req[s] EXCEPT !.pc = "ride_driver", !.seen = balance[Rider]]
  <2>1. Money' /\ scene' = scene /\ UNCHANGED payments /\ Resume(s, h)
    BY <1>1, <1>15 DEF RideRider, Money, charges, others
  <2>2. h \in Handlers /\ h.pc = "ride_driver" /\ h.user = u
    BY <1>1, <1>2, WalletAssumption DEF Handlers, PC, Money, WalletAssumption
  <2>. QED
    BY <1>0, <2>1, <2>2, PlainResume DEF PlainPcs
<1>16. CASE RideDriver(s)
  <2>. DEFINE h == [req[s] EXCEPT !.pc = "ride_saveRider", !.other = balance[Driver]]
  <2>1. Money' /\ scene' = scene /\ UNCHANGED payments /\ Resume(s, h)
    BY <1>1, <1>16 DEF RideDriver, Money, charges, others
  <2>2. h \in Handlers /\ h.pc = "ride_saveRider" /\ h.user = u
    BY <1>1, <1>2, WalletAssumption DEF Handlers, PC, Money, WalletAssumption
  <2>. QED
    BY <1>0, <2>1, <2>2, PlainResume DEF PlainPcs
<1>17. CASE RideSaveRider(s)
  <2>1. req[s].seen - Price["fare"] \in Int
    BY <1>1, PriceTyped
  <2>2. goes("ride_saveDriver") /\ UNCHANGED <<charges, others>>
    BY <1>17 DEF RideSaveRider
  <2>3. balance' = [balance EXCEPT ![Rider] = req[s].seen - Price["fare"]]
    BY <1>17 DEF RideSaveRider, SaveBalance
  <2>4. Money'
    BY <1>1, <2>1, <2>2, <2>3 DEF Money, charges, others
  <2>. QED
    BY <2>2, <2>4, PlainGoto DEF PlainPcs
<1>18. CASE RideSaveDriver(s)
  <2>1. req[s].other + Price["earnings"] \in Int
    BY <1>1, PriceTyped
  <2>2. goes("ride_save") /\ UNCHANGED <<charges, others>>
    BY <1>18 DEF RideSaveDriver
  <2>3. balance' = [balance EXCEPT ![Driver] = req[s].other + Price["earnings"]]
    BY <1>18 DEF RideSaveDriver, SaveBalance
  <2>4. Money'
    BY <1>1, <2>1, <2>2, <2>3 DEF Money, charges, others
  <2>. QED
    BY <2>2, <2>4, PlainGoto DEF PlainPcs
<1>19. CASE RideSave(s)
  <2>1. returns /\ Money'
    BY <1>1, <1>19 DEF RideSave, Money, charges
  <2>. QED
    BY <2>1, PlainReturn
<1>. QED
  BY <1>3, <1>4, <1>5, <1>6, <1>7, <1>8, <1>9, <1>10, <1>11, <1>12, <1>13, <1>14, <1>15,
     <1>16, <1>17, <1>18, <1>19

-----------------------------------------------------------------------------
(* A step of handler s that changes one payment *)

OnlyChanges(t) ==
  \A r \in Payments \ {t} :
    /\ payment'[r] = payment[r] /\ (r \in asked' <=> r \in asked)
    /\ told'[r] = told[r] /\ credited'[r] = credited[r]

\* What the other handlers that work on payment t rely on still holds.
Respects(s, t) ==
  \A r \in Slots \ {s} :
    req[r].pc \in OwnerPcs \cup TopupPcs /\ req[r].doc = t =>
      /\ payment'[t].provider = payment[t].provider /\ payment'[t].user = payment[t].user
      /\ t \in asked' /\ told[t] \subseteq told'[t]
      /\ Credits(t) \subseteq Credits(t)'
      /\ req[r].pc \in CardPcs => payment'[t].amount = payment[t].amount
      /\ req[r].pc = "push_create" => payment'[t] = payment[t]

LEMMA OthersKnow ==
  ASSUME Backed, NEW s \in Slots, NEW t \in Payments, OnlyChanges(t), Respects(s, t),
         NEW r \in Slots \ {s}, req'[r] = req[r]
  PROVE  Knows(r)'
<1>1. Knows(r)
  BY DEF Backed
<1>2. CASE req[r].pc \in OwnerPcs \cup TopupPcs /\ req[r].doc = t
  <2>1. /\ payment'[t].provider = payment[t].provider /\ payment'[t].user = payment[t].user
        /\ t \in asked' /\ told[t] \subseteq told'[t]
        /\ Credits(t) \subseteq Credits(t)'
        /\ req[r].pc \in CardPcs => payment'[t].amount = payment[t].amount
        /\ req[r].pc = "push_create" => payment'[t] = payment[t]
    BY <1>2 DEF Respects
  <2>. QED
    BY <1>1, <1>2, <2>1 DEF Knows, OwnerPcs, TopupPcs, CardPcs
<1>3. CASE ~(req[r].pc \in OwnerPcs \cup TopupPcs /\ req[r].doc = t)
  <2>1. \A v \in Payments \ {t} : Credits(v)' = Credits(v)
    BY DEF OnlyChanges, Credits
  <2>. QED
    BY <1>1, <1>3, <2>1 DEF Knows, OwnerPcs, TopupPcs, CardPcs, OnlyChanges
<1>. QED
  BY <1>2, <1>3

\* The payments of the handler are left to show.
LEMMA PaymentStep ==
  ASSUME Backed, TypeOK', NEW s \in Slots, req' \in [Slots -> Handlers],
         \A r \in Slots \ {s} : req'[r] = req[r],
         NEW t \in Payments, OnlyChanges(t), Respects(s, t), Knows(s)',
         req'[s].pc \in OwnerPcs =>
           \/ req[s].pc \in OwnerPcs /\ req'[s].doc = req[s].doc
           \/ req'[s].doc = t /\ t \notin asked,
         t \in asked',
         payment'[t].status = "Completed" => payment'[t].amount \in Credits(t)',
         \A a \in Credits(t)' : Receipt(a) \in told'[t]
  PROVE  Backed'
<1>1. \A r \in Slots : Knows(r)'
  BY OthersKnow
<1>2. OneOwner'
  BY DEF Backed, OneOwner, Knows, OwnerPcs
<1>3. \A v \in Payments \ {t} : Credits(v)' = Credits(v)
  BY DEF OnlyChanges, Credits
<1>4. Asked' /\ TopUpsAreBacked'
  BY <1>3 DEF Backed, Asked, TopUpsAreBacked, OnlyChanges
<1>. QED
  BY <1>1, <1>2, <1>4 DEF Backed

\* Before a payment exists nothing is credited for it.
LEMMA PushAskStep ==
  ASSUME Backed, NEW s \in Slots, NEW u \in Users, PushAsk(s, u)
  PROVE  Backed'
<1>. PICK t \in Unused :
       /\ asked' = asked \cup {t}
       /\ Begin(s, [For("push_create", u) EXCEPT !.doc = t])
       /\ UNCHANGED <<scene, balance, payment, told, credited, charges, others>>
  BY DEF PushAsk
<1>. DEFINE h == [For("push_create", u) EXCEPT !.doc = t]
<1>1. t \in Payments /\ t \notin asked
  BY DEF Unused
<1>2. Begin(s, h)
  OBVIOUS
<1>3. h \in Handlers /\ h.pc = "push_create" /\ h.doc = t /\ h.user = u
  BY <1>1 DEF For, Handlers, PC
<1>. HIDE DEF h
<1>4. /\ req' \in [Slots -> Handlers] /\ req'[s] = h
      /\ \A r \in Slots \ {s} : req'[r] = req[r]
      /\ overlapped' \in BOOLEAN /\ restarts' = restarts
  BY <1>2, <1>3, BeginTyped DEF Backed
<1>5. TypeOK /\ payment[t] = NoPayment
  BY <1>1 DEF Backed, Asked
<1>6. TypeOK'
  BY <1>1, <1>2, <1>4, <1>5 DEF TypeOK, charges, others, Handlers
<1>7. OnlyChanges(t) /\ t \in asked' /\ Credits(t)' = Credits(t)
  BY <1>1, <1>2, <1>5 DEF OnlyChanges, Credits
<1>8. Respects(s, t)
  <2>1. \A r \in Slots : req[r].pc \in OwnerPcs \cup TopupPcs => req[r].doc # t
    BY <1>1 DEF Backed, Knows
  <2>. QED
    BY <2>1 DEF Respects
<1>9. Knows(s)'
  BY <1>1, <1>2, <1>3, <1>4, <1>5, <1>7 DEF Knows, TopupPcs, CardPcs, OwnerPcs
<1>10. /\ payment'[t].status # "Completed"
       /\ \A a \in Credits(t)' : Receipt(a) \in told'[t]
  BY <1>1, <1>2, <1>5, <1>7 DEF NoPayment, Transaction, Backed, TopUpsAreBacked
<1>. QED
  BY <1>1, <1>2, <1>3, <1>4, <1>5, <1>6, <1>7, <1>8, <1>9, <1>10, PaymentStep

LEMMA PushCreateStep ==
  ASSUME Backed, NEW s \in Slots, PushCreate(s)
  PROVE  Backed'
<1>. PICK t : t = req[s].doc
  OBVIOUS
<1>. DEFINE doc == Transaction("mpesa", req[s].user, Price["mpesa"], "Pending")
<1>1. /\ t \in Payments /\ t \in asked /\ payment[t] = NoPayment
      /\ req[s].user \in Users /\ req[s].pc = "push_create" /\ TypeOK
  <2>1. req[s].pc = "push_create" /\ "push_create" \in OwnerPcs /\ Knows(s) /\ TypeOK
    BY DEF PushCreate, Backed, OwnerPcs
  <2>. QED
    BY <2>1 DEF Knows
<1>2. /\ payment' = [payment EXCEPT ![t] = doc] /\ Return(s)
      /\ UNCHANGED <<scene, balance, asked, told, credited, charges, others>>
  BY DEF PushCreate
<1>3. doc \in Transactions
  BY <1>1, PriceTyped DEF Transactions, Transaction, MpesaStatus
<1>4. /\ req' \in [Slots -> Handlers] /\ req'[s] = Idle
      /\ \A r \in Slots \ {s} : req'[r] = req[r]
      /\ overlapped' = overlapped /\ restarts' = restarts
  BY <1>1, <1>2, IdleTyped, ResumeTyped DEF Return
<1>5. TypeOK'
  BY <1>1, <1>2, <1>3, <1>4 DEF TypeOK, charges, others, Handlers
<1>6. OnlyChanges(t) /\ payment'[t] = doc /\ doc.status # "Completed"
  BY <1>1, <1>2 DEF OnlyChanges, TypeOK, Transaction
<1>7. \A r \in Slots \ {s} : req[r].pc \in OwnerPcs \cup TopupPcs => req[r].doc # t
  BY <1>1 DEF Backed, OneOwner, OwnerPcs, TopupPcs, CardPcs, Knows, NoPayment, Transaction
<1>8. Respects(s, t)
  BY <1>7 DEF Respects
<1>9. Knows(s)' /\ req'[s].pc \notin OwnerPcs
  BY <1>4, IdleTyped DEF Knows, OwnerPcs, TopupPcs, CardPcs
<1>10. Credits(t)' = Credits(t) /\ \A a \in Credits(t) : Receipt(a) \in told[t]
  BY <1>1, <1>2 DEF Backed, TopUpsAreBacked, Credits
<1>. QED
  BY <1>1, <1>2, <1>4, <1>5, <1>6, <1>8, <1>9, <1>10, PaymentStep

\* The server is told something of a payment, and a handler of it begins or
\* goes on: nobody else is disturbed.
LEMMA HeardOf ==
  ASSUME Backed, NEW t \in Payments, t \in asked, NEW result \in [paid : BOOLEAN, amount : Int],
         Hear(t, result), NEW s \in Slots
  PROVE  /\ told' \in [Payments -> SUBSET [paid : BOOLEAN, amount : Int]]
         /\ told'[t] = told[t] \cup {result} /\ t \in asked' /\ Credits(t)' = Credits(t)
         /\ OnlyChanges(t) /\ Respects(s, t)
         /\ payment'[t].status = "Completed" => payment'[t].amount \in Credits(t)'
         /\ \A a \in Credits(t)' : Receipt(a) \in told'[t]
<1>1. /\ told' = [told EXCEPT ![t] = @ \cup {result}] /\ TypeOK
      /\ UNCHANGED <<scene, balance, payment, asked, credited, charges, others>>
  BY DEF Hear, Backed
<1>2. /\ told' \in [Payments -> SUBSET [paid : BOOLEAN, amount : Int]]
      /\ told'[t] = told[t] \cup {result}
      /\ \A r \in Payments \ {t} : told'[r] = told[r]
  BY <1>1 DEF TypeOK
<1>3. Credits(t)' = Credits(t)
  BY <1>1 DEF Credits
<1>4. OnlyChanges(t) /\ Respects(s, t)
  BY <1>1, <1>2, <1>3 DEF OnlyChanges, Respects
<1>5. /\ payment[t].status = "Completed" => payment[t].amount \in Credits(t)
      /\ \A a \in Credits(t) : Receipt(a) \in told[t]
  BY DEF Backed, TopUpsAreBacked
<1>. QED
  BY <1>1, <1>2, <1>3, <1>4, <1>5

LEMMA ResultsTyped ==
  /\ Refusal \in [paid : BOOLEAN, amount : Int] /\ ~Refusal.paid
  /\ \A a \in Int : /\ Receipt(a) \in [paid : BOOLEAN, amount : Int]
                    /\ Receipt(a).paid /\ Receipt(a).amount = a
  /\ Amounts \subseteq Int
BY WalletAssumption DEF Refusal, Receipt, WalletAssumption

LEMMA CallbackStep ==
  ASSUME Backed, NEW s \in Slots, NEW t \in Payments, Callback(s, t)
  PROVE  Backed'
<1>1. PICK result \in {Receipt(a) : a \in Amounts} \cup {Refusal} :
        Hear(t, result) /\ Handle(s, t, result)
  BY DEF Callback
<1>. DEFINE pc == IF Success(result) THEN "topup_credit" ELSE "topup_fail"
            h == [For(pc, payment[t].user) EXCEPT !.doc = t, !.seen = result.amount]
<1>2. /\ payment[t].provider = "mpesa" /\ Begin(s, h) /\ TypeOK
      /\ UNCHANGED <<scene, balance, payment, asked, credited, charges, others>>
  BY <1>1 DEF Callback, Handle, Hear, Backed
<1>3. /\ result \in [paid : BOOLEAN, amount : Int] /\ result.amount \in Int
      /\ result.paid => result = Receipt(result.amount)
  BY <1>1, ResultsTyped
<1>4. payment[t] \in Transactions /\ t \in asked
  BY <1>2 DEF TypeOK, NoPayment, Transaction, Backed, Asked
<1>5. payment[t].user \in Users
  BY <1>4 DEF Transactions
<1>6. /\ h \in Handlers /\ h.pc = pc /\ h.doc = t /\ h.user = payment[t].user
      /\ h.seen = result.amount
      /\ pc \in TopupPcs /\ (pc = "topup_credit" => result.paid)
      /\ pc \in {"topup_credit", "topup_fail"}
  <2>1. \/ pc = "topup_credit" /\ result.paid
        \/ pc = "topup_fail"
    BY DEF Success
  <2>2. pc \in TopupPcs /\ pc \in PC
    BY <2>1 DEF TopupPcs, PC
  <2>. HIDE DEF pc
  <2>. PICK u \in Users, a \in Int : u = payment[t].user /\ a = result.amount
    BY <1>3, <1>5
  <2>. PICK f \in Handlers : f = For(pc, u) /\ f.pc = pc /\ f.user = u
    BY <2>2, ForTyped
  <2>3. h = [f EXCEPT !.doc = t, !.seen = a]
    OBVIOUS
  <2>. HIDE DEF h
  <2>4. h \in Handlers /\ h.pc = pc /\ h.doc = t /\ h.user = u /\ h.seen = a
    BY <2>3 DEF Handlers
  <2>. QED
    BY <2>1, <2>2, <2>4
<1>. HIDE DEF h, pc
<1>7. /\ req' \in [Slots -> Handlers] /\ req'[s] = h
      /\ \A r \in Slots \ {s} : req'[r] = req[r]
      /\ overlapped' \in BOOLEAN /\ restarts' = restarts
  BY <1>2, <1>6, BeginTyped
<1>8. /\ told' \in [Payments -> SUBSET [paid : BOOLEAN, amount : Int]]
      /\ told'[t] = told[t] \cup {result} /\ t \in asked' /\ Credits(t)' = Credits(t)
      /\ OnlyChanges(t) /\ Respects(s, t)
      /\ payment'[t].status = "Completed" => payment'[t].amount \in Credits(t)'
      /\ \A a \in Credits(t)' : Receipt(a) \in told'[t]
  BY <1>1, <1>3, <1>4, HeardOf
<1>9. TypeOK'
  BY <1>2, <1>7, <1>8 DEF TypeOK, charges, others, Handlers
<1>10. Knows(s)'
  BY <1>2, <1>3, <1>5, <1>6, <1>7, <1>8 DEF Knows, TopupPcs, CardPcs, OwnerPcs
<1>11. req'[s].pc \notin OwnerPcs
  BY <1>6, <1>7 DEF OwnerPcs, TopupPcs, CardPcs
<1>. QED
  BY <1>7, <1>8, <1>9, <1>10, <1>11, PaymentStep

\* The status and the amount of a payment that exists are set, by a handler that
\* works on it.
LEMMA SetPaymentStep ==
  ASSUME Backed, NEW s \in Slots, NEW pc \in TopupPcs \cup CardPcs, NEW amount \in Int, NEW st,
         NEW h \in Handlers, SetPayment(s, pc, amount, st, h),
         pc \in TopupPcs => st \in MpesaStatus, pc \in CardPcs => st \in CardStatus,
         pc \in CardPcs => amount = payment[req[s].doc].amount,
         st = "Completed" => pc = "topup_mark" /\ amount = req[s].seen,
         \/ h.pc = "idle"
         \/ /\ h.pc = "card_settle" /\ req[s].pc = "card_settle" /\ h.doc = req[s].doc
            /\ h.user = req[s].user /\ h.done \in {{}, {"mark"}, {"credit"}}
  PROVE  Backed'
<1>. PICK t : t = req[s].doc
  OBVIOUS
<1>1. /\ req[s].pc = pc
      /\ payment' = [payment EXCEPT ![t].amount = amount, ![t].status = st] /\ Resume(s, h)
      /\ UNCHANGED <<scene, balance, asked, told, credited, charges, others>> /\ TypeOK /\ Knows(s)
  BY DEF SetPayment, Backed
<1>2. t \in Payments /\ t \in asked
  BY <1>1 DEF Knows, OwnerPcs, TopupPcs, CardPcs
<1>3. /\ payment[t].provider \in {"mpesa", "card"}
      /\ pc \in TopupPcs => payment[t].provider = "mpesa"
      /\ pc \in CardPcs => payment[t].provider = "card"
  BY <1>1 DEF Knows
<1>4. payment[t] \in Transactions /\ payment[t] # NoPayment
  BY <1>1, <1>2, <1>3 DEF TypeOK, NoPayment, Transaction
<1>5. /\ payment'[t] \in Transactions /\ payment'[t].provider = payment[t].provider
      /\ payment'[t].user = payment[t].user /\ payment'[t].status = st
      /\ payment'[t].amount = amount
      /\ payment' \in [Payments -> Transactions \cup {NoPayment}]
      /\ \A r \in Payments \ {t} : payment'[r] = payment[r]
  <2>1. payment'[t] = [payment[t] EXCEPT !.amount = amount, !.status = st]
    BY <1>1, <1>2 DEF TypeOK
  <2>2. /\ payment'[t] \in Transactions /\ payment'[t].provider = payment[t].provider
        /\ payment'[t].user = payment[t].user /\ payment'[t].status = st
        /\ payment'[t].amount = amount
    BY <1>3, <1>4, <2>1 DEF Transactions, TopupPcs, CardPcs
  <2>. QED
    BY <1>1, <1>2, <2>2 DEF TypeOK
<1>6. /\ req' \in [Slots -> Handlers] /\ req'[s] = h
      /\ \A r \in Slots \ {s} : req'[r] = req[r]
      /\ overlapped' = overlapped /\ restarts' = restarts
  BY <1>1, ResumeTyped
<1>7. TypeOK'
  BY <1>1, <1>5, <1>6 DEF TypeOK, charges, others, Handlers
<1>8. Credits(t)' = Credits(t)
  BY <1>1 DEF Credits
<1>9. OnlyChanges(t) /\ Respects(s, t)
  <2>1. OnlyChanges(t)
    BY <1>1, <1>5 DEF OnlyChanges
  <2>2. ASSUME NEW r \in Slots \ {s}, req[r].pc \in CardPcs, req[r].doc = t
        PROVE  payment'[t].amount = payment[t].amount
    <3>1. payment[t].provider = "card"
      BY <2>2 DEF Backed, Knows
    <3>2. pc \in CardPcs
      BY <1>3, <3>1
    <3>. QED
      BY <1>5, <3>2
  <2>3. ASSUME NEW r \in Slots \ {s}, req[r].pc = "push_create", req[r].doc = t PROVE FALSE
    BY <1>4, <2>3 DEF Backed, Knows
  <2>. QED
    BY <1>1, <1>2, <1>5, <1>8, <2>1, <2>2, <2>3 DEF Respects
<1>10. Knows(s)'
  BY <1>1, <1>2, <1>3, <1>5, <1>6 DEF Knows, OwnerPcs, TopupPcs, CardPcs
<1>11. req'[s].pc \in OwnerPcs => req[s].pc \in OwnerPcs /\ req'[s].doc = req[s].doc
  BY <1>6 DEF OwnerPcs, TopupPcs, CardPcs
<1>12. /\ payment'[t].status = "Completed" => payment'[t].amount \in Credits(t)'
       /\ \A a \in Credits(t)' : Receipt(a) \in told'[t]
  BY <1>1, <1>2, <1>5, <1>8 DEF Knows, Backed, TopUpsAreBacked
<1>. QED
  BY <1>1, <1>2, <1>6, <1>7, <1>9, <1>10, <1>11, <1>12, PaymentStep

\* A payment is added to the wallet, by a handler that was told of it.
LEMMA CreditStep ==
  ASSUME Backed, NEW s \in Slots, NEW amount \in Int, NEW h \in Handlers,
         Credit(s, amount, h), req[s].pc \in {"topup_credit", "card_settle"},
         amount = IF req[s].pc = "topup_credit" THEN req[s].seen ELSE Price["card"],
         \/ h.pc = "idle"
         \/ /\ h.doc = req[s].doc /\ h.user = req[s].user
            /\ \/ h.pc = "topup_mark" /\ req[s].pc = "topup_credit" /\ h.seen = req[s].seen
               \/ /\ h.pc = "card_settle" /\ req[s].pc = "card_settle"
                  /\ h.done \in {{}, {"mark"}, {"credit"}}
  PROVE  Backed'
<1>. PICK t : t = req[s].doc
  OBVIOUS
<1>1. /\ Inc(req[s].user, amount) /\ credited' = [credited EXCEPT ![t] = Append(@, amount)]
      /\ Resume(s, h) /\ UNCHANGED <<scene, payment, asked, told, charges, others>>
      /\ TypeOK /\ Knows(s)
  BY DEF Credit, Backed
<1>2. t \in Payments /\ t \in asked /\ Receipt(amount) \in told[t]
  BY <1>1 DEF Knows, OwnerPcs, TopupPcs, CardPcs
<1>3. /\ credited[t] \in Seq(Int) /\ credited'[t] = Append(credited[t], amount)
      /\ \A r \in Payments \ {t} : credited'[r] = credited[r]
      /\ DOMAIN credited' = Payments
  BY <1>1, <1>2 DEF TypeOK
<1>4. credited'[t] \in Seq(Int) /\ Credits(t)' = Credits(t) \cup {amount}
  BY <1>2, <1>3, CreditAdded
<1>5. credited' \in [Payments -> Seq(Int)]
  BY <1>1, <1>2, <1>4 DEF TypeOK
<1>6. balance' \in [Users -> Int]
  <2>1. balance \in [Users -> Int]
    BY <1>1 DEF TypeOK
  <2>2. balance' = [balance EXCEPT ![req[s].user] = @ + amount]
    BY <1>1 DEF Inc
  <2>3. req[s].user \in Users
    BY <1>1 DEF Knows
  <2>. QED
    BY <2>1, <2>2, <2>3
<1>7. /\ req' \in [Slots -> Handlers] /\ req'[s] = h
      /\ \A r \in Slots \ {s} : req'[r] = req[r]
      /\ overlapped' = overlapped /\ restarts' = restarts
  BY <1>1, ResumeTyped
<1>8. TypeOK'
  BY <1>1, <1>5, <1>6, <1>7 DEF TypeOK, charges, others, Handlers
<1>9. OnlyChanges(t) /\ Respects(s, t)
  BY <1>1, <1>2, <1>3, <1>4 DEF OnlyChanges, Respects
<1>10. Knows(s)'
  BY <1>1, <1>2, <1>4, <1>7 DEF Knows, OwnerPcs, TopupPcs, CardPcs
<1>11. req'[s].pc \in OwnerPcs => req[s].pc \in OwnerPcs /\ req'[s].doc = req[s].doc
  BY <1>7 DEF OwnerPcs, CardPcs
<1>12. /\ payment'[t].status = "Completed" => payment'[t].amount \in Credits(t)'
       /\ \A a \in Credits(t)' : Receipt(a) \in told'[t]
  BY <1>1, <1>2, <1>4 DEF Backed, TopUpsAreBacked
<1>. QED
  BY <1>1, <1>2, <1>7, <1>8, <1>9, <1>10, <1>11, <1>12, PaymentStep

LEMMA AmountTyped ==
  ASSUME Backed, NEW s \in Slots, req[s].pc \in TopupPcs \cup CardPcs
  PROVE  payment[req[s].doc].amount \in Int
<1>1. Knows(s) /\ TypeOK
  BY DEF Backed
<1>2. req[s].doc \in Payments
  BY <1>1 DEF Knows, OwnerPcs
<1>3. NoPayment.amount \in Int /\ \A d \in Transactions : d.amount \in Int
  BY DEF NoPayment, Transaction, Transactions
<1>. QED
  BY <1>1, <1>2, <1>3 DEF TypeOK

LEMMA ContinuePayment ==
  ASSUME Backed, NEW s \in Slots,
         \/ PushCreate(s) \/ TopupFail(s) \/ TopupCredit(s) \/ TopupMark(s)
         \/ CardMark(s) \/ CardCredit(s) \/ CardFail(s)
  PROVE  Backed'
<1>1. req[s] \in Handlers /\ Knows(s)
  BY DEF Backed, TypeOK, Handlers
<1>2. CASE PushCreate(s)
  BY <1>2, PushCreateStep
<1>3. CASE TopupFail(s)
  <2>1. req[s].pc = "topup_fail"
    BY <1>3 DEF TopupFail, SetStatus, SetPayment
  <2>2. payment[req[s].doc].amount \in Int
    BY <1>1, <2>1, AmountTyped DEF TopupPcs
  <2>. QED
    BY <1>3, <2>2, IdleTyped, SetPaymentStep DEF TopupFail, SetStatus, TopupPcs, CardPcs, MpesaStatus
<1>4. CASE TopupCredit(s)
  <2>. DEFINE h == [req[s] EXCEPT !.pc = "topup_mark"]
  <2>1. /\ h \in Handlers /\ h.pc = "topup_mark" /\ h.doc = req[s].doc /\ h.user = req[s].user
        /\ h.seen = req[s].seen /\ req[s].seen \in Int
    BY <1>1 DEF Handlers, PC
  <2>. QED
    BY <1>4, <2>1, CreditStep DEF TopupCredit
<1>5. CASE TopupMark(s)
  <2>1. req[s].seen \in Int
    BY <1>1 DEF Handlers
  <2>. QED
    BY <1>5, <2>1, IdleTyped, SetPaymentStep DEF TopupMark, TopupPcs, CardPcs, MpesaStatus
<1>6. ASSUME NEW branch \in {"mark", "credit"}, req[s].pc = "card_settle"
      PROVE  /\ Settled(s, branch) \in Handlers
             /\ \/ Settled(s, branch).pc = "idle"
                \/ /\ Settled(s, branch).pc = "card_settle"
                   /\ Settled(s, branch).doc = req[s].doc
                   /\ Settled(s, branch).user = req[s].user
                   /\ Settled(s, branch).done \in {{}, {"mark"}, {"credit"}}
  <2>1. CASE req[s].done = {}
    <3>. DEFINE h == [req[s] EXCEPT !.done = {branch}]
    <3>1. h \in Handlers /\ h.pc = "card_settle" /\ h.doc = req[s].doc /\ h.user = req[s].user
          /\ h.done = {branch}
      BY <1>1, <1>6 DEF Handlers
    <3>. QED
      BY <2>1, <3>1 DEF Settled
  <2>2. CASE req[s].done # {}
    BY <2>2, IdleTyped DEF Settled
  <2>. QED
    BY <2>1, <2>2
<1>7. CASE CardMark(s)
  <2>1. SetStatus(s, "card_settle", "SUCCESS", Settled(s, "mark")) /\ req[s].pc = "card_settle"
    BY <1>7 DEF CardMark, SetStatus, SetPayment
  <2>2. payment[req[s].doc].amount \in Int
    BY <1>1, <2>1, AmountTyped DEF CardPcs
  <2>. QED
    BY <1>6, <2>1, <2>2, SetPaymentStep DEF SetStatus, TopupPcs, CardPcs, CardStatus
<1>8. CASE CardCredit(s)
  BY <1>6, <1>8, PriceTyped, CreditStep DEF CardCredit
<1>9. CASE CardFail(s)
  <2>1. req[s].pc = "card_fail"
    BY <1>9 DEF CardFail, SetStatus, SetPayment
  <2>2. payment[req[s].doc].amount \in Int
    BY <1>1, <2>1, AmountTyped DEF CardPcs
  <2>. QED
    BY <1>9, <2>2, IdleTyped, SetPaymentStep DEF CardFail, SetStatus, TopupPcs, CardPcs, CardStatus
<1>. QED
  BY <1>2, <1>3, <1>4, <1>5, <1>7, <1>8, <1>9

LEMMA CardCreateStep ==
  ASSUME Backed, NEW s \in Slots, NEW u \in Users, CardCreate(s, u)
  PROVE  Backed'
<1>. DEFINE doc == Transaction("card", u, Price["card"], "PENDING")
<1>. PICK t \in Unused :
       /\ payment' = [payment EXCEPT ![t] = doc]
       /\ asked' = asked \cup {t}
       /\ Begin(s, [For("card_charge", u) EXCEPT !.doc = t])
       /\ UNCHANGED <<scene, balance, told, credited, charges, others>>
  BY DEF CardCreate
<1>. DEFINE h == [For("card_charge", u) EXCEPT !.doc = t]
<1>1. t \in Payments /\ t \notin asked
  BY DEF Unused
<1>2. Begin(s, h) /\ doc \in Transactions
  BY PriceTyped DEF Transactions, Transaction, CardStatus
<1>3. h \in Handlers /\ h.pc = "card_charge" /\ h.doc = t /\ h.user = u /\ h.done = {}
  BY <1>1 DEF For, Handlers, PC
<1>. HIDE DEF h
<1>4. /\ req' \in [Slots -> Handlers] /\ req'[s] = h
      /\ \A r \in Slots \ {s} : req'[r] = req[r]
      /\ overlapped' \in BOOLEAN /\ restarts' = restarts
  BY <1>2, <1>3, BeginTyped DEF Backed
<1>5. TypeOK /\ Credits(t)' = Credits(t) /\ \A a \in Credits(t) : Receipt(a) \in told[t]
  BY <1>1 DEF Backed, TopUpsAreBacked, Credits
<1>6. TypeOK'
  BY <1>1, <1>2, <1>4, <1>5 DEF TypeOK, charges, others, Handlers
<1>7. /\ OnlyChanges(t) /\ t \in asked' /\ payment'[t] = doc
      /\ doc.provider = "card" /\ doc.user = u /\ doc.status # "Completed"
      /\ doc.amount = Price["card"]
  BY <1>1, <1>2, <1>5 DEF OnlyChanges, TypeOK, Transaction
<1>. HIDE DEF doc
<1>8. Respects(s, t)
  <2>1. \A r \in Slots : req[r].pc \in OwnerPcs \cup TopupPcs => req[r].doc # t
    BY <1>1 DEF Backed, Knows
  <2>. QED
    BY <2>1 DEF Respects
<1>9. Knows(s)'
  BY <1>1, <1>3, <1>4, <1>7 DEF Knows, TopupPcs, CardPcs, OwnerPcs
<1>. QED
  BY <1>1, <1>3, <1>4, <1>5, <1>6, <1>7, <1>8, <1>9, PaymentStep

LEMMA CardChargeStep ==
  ASSUME Backed, NEW s \in Slots, CardCharge(s)
  PROVE  Backed'
<1>. PICK t : t = req[s].doc
  OBVIOUS
<1>. PICK pc \in {"card_settle", "card_fail"}, result \in {Receipt(Price["card"]), Refusal} :
       /\ Hear(t, result) /\ Goto(s, pc)
       /\ pc = "card_settle" => result = Receipt(Price["card"])
  BY DEF CardCharge
<1>. DEFINE h == [req[s] EXCEPT !.pc = pc]
<1>1. /\ req[s].pc = "card_charge" /\ TypeOK /\ Knows(s)
      /\ UNCHANGED <<scene, balance, payment, asked, credited, charges, others>>
  BY DEF CardCharge, Hear, Backed
<1>2. /\ t \in Payments /\ t \in asked /\ req[s].user \in Users /\ payment[t].provider = "card"
      /\ req[s].user = payment[t].user /\ payment[t].amount = Price["card"]
  BY <1>1 DEF Knows, OwnerPcs, CardPcs
<1>3. req[s] \in Handlers /\ req[s].done = {}
  BY <1>1 DEF Knows, TypeOK, Handlers
<1>4. h \in Handlers /\ h.pc = pc /\ h.doc = t /\ h.user = req[s].user /\ h.done = {}
  BY <1>3 DEF Handlers, PC
<1>5. Resume(s, h)
  BY DEF Goto
<1>. HIDE DEF h
<1>6. /\ req' \in [Slots -> Handlers] /\ req'[s] = h
      /\ \A r \in Slots \ {s} : req'[r] = req[r]
      /\ overlapped' = overlapped /\ restarts' = restarts
  BY <1>1, <1>4, <1>5, ResumeTyped
<1>7. result \in [paid : BOOLEAN, amount : Int]
  BY ResultsTyped, PriceTyped
<1>8. /\ told' \in [Payments -> SUBSET [paid : BOOLEAN, amount : Int]]
      /\ told'[t] = told[t] \cup {result} /\ t \in asked' /\ Credits(t)' = Credits(t)
      /\ OnlyChanges(t) /\ Respects(s, t)
      /\ payment'[t].status = "Completed" => payment'[t].amount \in Credits(t)'
      /\ \A a \in Credits(t)' : Receipt(a) \in told'[t]
  BY <1>2, <1>7, HeardOf
<1>9. TypeOK'
  BY <1>1, <1>6, <1>8 DEF TypeOK, charges, others, Handlers
<1>10. Knows(s)'
  BY <1>1, <1>2, <1>4, <1>6, <1>8 DEF Knows, TopupPcs, CardPcs, OwnerPcs
<1>11. req[s].pc \in OwnerPcs
  BY <1>1 DEF OwnerPcs, CardPcs
<1>. QED
  BY <1>1, <1>2, <1>4, <1>6, <1>8, <1>9, <1>10, <1>11, PaymentStep

-----------------------------------------------------------------------------
(* The steps that take no slot *)

LEMMA AtOnceSteps ==
  ASSUME Backed, NEW u \in Users, BadgeApply(u) \/ AddToBalance(u)
  PROVE  Backed'
<1>1. TypeOK
  BY DEF Backed
<1>2. TypeOK' /\ UNCHANGED <<payments, req>>
  <2>1. CASE BadgeApply(u)
    BY <1>1, <2>1 DEF BadgeApply, SetBadge, AtOnce, TypeOK, BadgeStatus, payments, others
  <2>2. CASE AddToBalance(u)
    <3>1. /\ Adjust(u, Price["adjust"]) /\ overlapped' = (overlapped \/ InProgress # {})
          /\ UNCHANGED <<req, restarts>> /\ Price["adjust"] \in Int
      BY <2>2, PriceTyped DEF AddToBalance, AtOnce
    <3>2. balance' \in [Users -> Int] /\ adjusted' \in [Users -> -MaxAdjust..MaxAdjust]
      BY <1>1, <3>1 DEF Adjust, Inc, TypeOK
    <3>3. /\ UNCHANGED <<scene, payments, charges, claimed, plan, bought, ride>>
      BY <3>1 DEF Adjust
    <3>. QED
      BY <1>1, <3>1, <3>2, <3>3 DEF TypeOK, payments, charges
  <2>. QED
    BY <2>1, <2>2
<1>. QED
  BY <1>2, SlotlessStep

LEMMA RestartStep ==
  ASSUME Backed, Restart
  PROVE  Backed'
<1>1. /\ \A s \in Slots : req'[s] = Idle
      /\ UNCHANGED <<scene, balance, payments, charges, others>> /\ TypeOK
  BY DEF Restart, Backed
<1>2. TypeOK'
  <2>1. req' \in [Slots -> Handlers] /\ overlapped' \in BOOLEAN
    BY IdleTyped DEF Restart
  <2>2. scene.restarts \in Nat /\ restarts' \in 0..scene.restarts
    BY <1>1, WalletAssumption DEF Restart, TypeOK, WalletAssumption
  <2>. QED
    BY <1>1, <2>1, <2>2 DEF TypeOK, payments, charges, others, Handlers
<1>3. \A s \in Slots : Knows(s)'
  BY <1>1, IdleTyped DEF Knows, OwnerPcs, TopupPcs, CardPcs
<1>4. OneOwner' /\ Asked' /\ TopUpsAreBacked'
  BY <1>1, IdleTyped DEF Backed, payments, OneOwner, OwnerPcs, CardPcs, Asked, TopUpsAreBacked,
                          Credits
<1>. QED
  BY <1>2, <1>3, <1>4 DEF Backed

LEMMA BackedInit ==
  ASSUME Init
  PROVE  Backed
<1>1. scene \in Scenes /\ scene.restarts \in Nat
  BY WalletAssumption DEF Init, WalletAssumption
<1>2. TypeOK
  <2>1. /\ balance \in [Users -> Int] /\ adjusted \in [Users -> -MaxAdjust..MaxAdjust]
        /\ log \in [Users -> Nat] /\ bought \in [Users -> Nat]
        /\ credited \in [Payments -> Seq(Int)] /\ restarts \in 0..scene.restarts
    BY <1>1, WalletAssumption DEF Init, WalletAssumption
  <2>2. /\ payment \in [Payments -> Transactions \cup {NoPayment}]
        /\ asked \subseteq Payments
        /\ told \in [Payments -> SUBSET [paid : BOOLEAN, amount : Int]]
    BY DEF Init
  <2>3. /\ claimed \in [Users -> BOOLEAN] /\ ad \in [Ads -> Users \cup {NoUser}]
        /\ badge \in [Users -> BadgeStatus] /\ verified \in [Users -> BOOLEAN]
        /\ plan \in [Users -> BOOLEAN] /\ ride \in {"in_progress", "completed"}
    BY DEF Init, BadgeStatus
  <2>4. req \in [Slots -> Handlers] /\ overlapped \in BOOLEAN
    BY IdleTyped DEF Init
  <2>. QED
    BY <1>1, <2>1, <2>2, <2>3, <2>4 DEF TypeOK, Handlers
<1>3. \A s \in Slots : Knows(s)
  BY IdleTyped DEF Init, Knows, OwnerPcs, TopupPcs, CardPcs
<1>4. OneOwner /\ Asked
  BY IdleTyped DEF Init, OneOwner, OwnerPcs, CardPcs, Asked
<1>5. TopUpsAreBacked
  BY DEF Init, TopUpsAreBacked, Credits, NoPayment, Transaction
<1>. QED
  BY <1>2, <1>3, <1>4, <1>5 DEF Backed

LEMMA BackedNext ==
  ASSUME Backed, [Next]_vars
  PROVE  Backed'
<1>1. ASSUME NEW s \in Slots, Continue(s) PROVE Backed'
  BY <1>1, ContinuePlain, ContinuePayment, CardChargeStep DEF Continue
<1>2. ASSUME NEW s \in Slots, Start(s) PROVE Backed'
  BY <1>2, StartPlain, PushAskStep, CallbackStep, CardCreateStep
     DEF Start, MpesaController, GooglePayController
<1>3. CASE UNCHANGED vars
  <2>1. UNCHANGED <<payments, req>>
    BY <1>3 DEF vars
  <2>2. TypeOK'
    BY <1>3 DEF vars, Backed, TypeOK, payments, charges, others, process
  <2>. QED
    BY <2>1, <2>2, SlotlessStep
<1>. QED
  BY <1>1, <1>2, <1>3, AtOnceSteps, RestartStep DEF Next, VerificationController

\* The type of every variable, for any users, payments and handlers.
THEOREM TypeCorrect == Spec => []TypeOK
<1>1. Backed => TypeOK
  BY DEF Backed
<1>. QED
  BY <1>1, BackedInit, BackedNext, PTL DEF Spec

\* The amount a completed M-Pesa payment states has reached the wallet, and no
\* amount reaches a wallet but those the server was told of: whatever callbacks
\* say, repeat and overlap.
THEOREM TopUpsBacked == Spec => []TopUpsAreBacked
<1>1. Backed => TopUpsAreBacked
  BY DEF Backed
<1>. QED
  BY <1>1, BackedInit, BackedNext, PTL DEF Spec

-----------------------------------------------------------------------------
(* The log of charges *)

\* What a charge for the badge needs is in the log before it is made.
Owes(u) == verified[u] \/ \E s \in Slots : req[s].pc = "badge_charge" /\ req[s].user = u

Logged ==
  /\ IsFiniteSet({a \in Ads : ad[a] # NoUser})
  /\ \A u \in Users :
       log[u] >= Price["ad"] * AdsOf(u) + (IF Owes(u) THEN Price["fee"] ELSE 0)

LEMMA Times ==
  ASSUME NEW p \in Nat, NEW n \in Nat
  PROVE  p * n \in Nat /\ p * (n + 1) = p * n + p
OBVIOUS

LEMMA AdsCounted ==
  ASSUME IsFiniteSet({a \in Ads : ad[a] # NoUser}), NEW u \in Users
  PROVE  IsFiniteSet({a \in Ads : ad[a] = u}) /\ AdsOf(u) \in Nat
<1>1. {a \in Ads : ad[a] = u} \subseteq {a \in Ads : ad[a] # NoUser}
  BY WalletAssumption DEF WalletAssumption
<1>. QED
  BY <1>1, FS_Subset, FS_CardinalityType DEF AdsOf

\* One more ad is one more ad of the user who has paid it, and of nobody else.
LEMMA AdAdded ==
  ASSUME TypeOK, IsFiniteSet({b \in Ads : ad[b] # NoUser}), NEW a \in Ads, ad[a] = NoUser,
         NEW v \in Users, ad' = [ad EXCEPT ![a] = v]
  PROVE  /\ IsFiniteSet({b \in Ads : ad[b] # NoUser})'
         /\ \A u \in Users : AdsOf(u)' = IF u = v THEN AdsOf(u) + 1 ELSE AdsOf(u)
<1>1. v # NoUser /\ \A b \in Ads : ad'[b] = IF b = a THEN v ELSE ad[b]
  BY WalletAssumption DEF WalletAssumption, TypeOK
<1>2. {b \in Ads : ad'[b] # NoUser} = {b \in Ads : ad[b] # NoUser} \cup {a}
  BY <1>1
<1>3. IsFiniteSet({b \in Ads : ad'[b] # NoUser})
  BY <1>2, FS_AddElement
<1>4. ASSUME NEW u \in Users PROVE AdsOf(u)' = IF u = v THEN AdsOf(u) + 1 ELSE AdsOf(u)
  <2>1. CASE u = v
    <3>1. {b \in Ads : ad'[b] = u} = {b \in Ads : ad[b] = u} \cup {a}
      BY <1>1, <2>1
    <3>2. a \notin {b \in Ads : ad[b] = u}
      BY <1>1, <2>1
    <3>. QED
      BY <2>1, <3>1, <3>2, AdsCounted, FS_AddElement DEF AdsOf
  <2>2. CASE u # v
    <3>1. {b \in Ads : ad'[b] = u} = {b \in Ads : ad[b] = u}
      BY <1>1, <2>2, WalletAssumption DEF WalletAssumption
    <3>. QED
      BY <2>2, <3>1 DEF AdsOf
  <2>. QED
    BY <2>1, <2>2
<1>. QED
  BY <1>3, <1>4

\* Nobody is charged, and no handler comes to charge.
LEMMA NothingCharged ==
  ASSUME Logged, Backed, Backed', UNCHANGED <<ad, verified, log>>,
         \A s \in Slots : req'[s].pc = "badge_charge" => req'[s] = req[s]
  PROVE  Logged'
<1>1. \A u \in Users : AdsOf(u)' = AdsOf(u) /\ AdsOf(u) \in Nat /\ log[u] \in Nat
  BY ZenonT(60), AdsCounted DEF Logged, AdsOf, Backed, TypeOK
<1>2. \A u \in Users : Owes(u)' => Owes(u)
  BY DEF Owes
<1>. QED
  BY <1>1, <1>2, PriceTyped, Times DEF Logged

LEMMA LoggedStep ==
  ASSUME Logged, Backed, Backed', NEW s \in Slots, NEW h, h.pc # "badge_charge",
         req' = [req EXCEPT ![s] = h], UNCHANGED <<ad, verified, log>>
  PROVE  Logged'
<1>1. req \in [Slots -> Handlers]
  BY DEF Backed, TypeOK, Handlers
<1>. QED
  BY <1>1, NothingCharged

LEMMA LoggedStart ==
  ASSUME Logged, Backed, Backed', NEW s \in Slots, Start(s)
  PROVE  Logged'
<1>1. ASSUME NEW h, h.pc # "badge_charge", Begin(s, h), UNCHANGED charges PROVE Logged'
  BY <1>1, LoggedStep DEF Begin, charges
<1>2. CASE MpesaController(s)
  <2>1. CASE \E u \in Users : PushAsk(s, u)
    BY <1>1, <2>1 DEF PushAsk, For
  <2>2. ASSUME NEW t \in Payments, Callback(s, t) PROVE Logged'
    <3>. DEFINE pc(result) == IF Success(result) THEN "topup_credit" ELSE "topup_fail"
                h(result) == [For(pc(result), payment[t].user)
                                EXCEPT !.doc = t, !.seen = result.amount]
    <3>1. PICK result : Begin(s, h(result)) /\ UNCHANGED charges
      BY <2>2 DEF Callback, Handle, Hear
    <3>2. pc(result) # "badge_charge"
      OBVIOUS
    <3>. HIDE DEF pc
    <3>3. h(result).pc = pc(result)
      BY DEF For
    <3>. QED
      BY <1>1, <3>1, <3>2, <3>3
  <2>. QED
    BY <1>2, <2>1, <2>2 DEF MpesaController
<1>3. CASE GooglePayController(s)
  BY <1>1, <1>3 DEF GooglePayController, CardCreate, For
<1>4. CASE AdController(s) \/ PlanRoute(s) \/ BookRoute(s) \/ RideBegin(s)
  BY <1>1, <1>4 DEF AdController, AdBegin, PlanRoute, PlanBegin, BookRoute, BookBegin,
     RideBegin, For
<1>5. CASE AdminPanelController(s)
  BY <1>1, <1>5 DEF AdminPanelController, ApproveBegin, RejectBegin, For
<1>6. CASE ProfileController(s)
  BY <1>1, <1>6 DEF ProfileController, GiftBegin, SubtractBegin, For
<1>. QED
  BY <1>2, <1>3, <1>4, <1>5, <1>6 DEF Start

LEMMA LoggedContinue ==
  ASSUME Logged, Backed, Backed', NEW s \in Slots, Continue(s)
  PROVE  Logged'
<1>. DEFINE u == req[s].user
<1>0. req \in [Slots -> Handlers]
  BY DEF Backed, TypeOK, Handlers
<1>1. ASSUME NEW h, h.pc # "badge_charge", Resume(s, h), UNCHANGED <<ad, verified, log>>
      PROVE  Logged'
  BY <1>1, LoggedStep DEF Resume
<1>2. ASSUME Return(s), UNCHANGED <<ad, verified, log>> PROVE Logged'
  BY <1>1, <1>2, IdleTyped DEF Return
<1>3. ASSUME NEW pc \in PlainPcs \cup CardPcs, pc # "badge_charge", Goto(s, pc),
             UNCHANGED <<ad, verified, log>>
      PROVE  Logged'
  BY <1>0, <1>1, <1>3 DEF Goto, Handlers
<1>4. CASE \/ PushCreate(s) \/ TopupFail(s) \/ TopupCredit(s) \/ TopupMark(s)
           \/ CardMark(s) \/ CardCredit(s) \/ CardFail(s)
  <2>1. ASSUME NEW branch \in {"mark", "credit"}, req[s].pc = "card_settle"
        PROVE  Settled(s, branch).pc # "badge_charge"
    BY <1>0, <2>1, IdleTyped DEF Settled, Handlers
  <2>. QED
    BY <1>0, <1>1, <1>2, <1>4, <2>1, IdleTyped DEF PushCreate, TopupFail, TopupCredit, TopupMark,
       CardMark, CardCredit, CardFail, SetStatus, SetPayment, Credit, charges, Handlers
<1>5. CASE CardCharge(s)
  BY <1>3, <1>5 DEF CardCharge, Hear, CardPcs, charges
<1>6. CASE GiftAdd(s) \/ BookSave(s) \/ RideSaveRider(s) \/ RideSaveDriver(s)
  BY <1>3, <1>6 DEF GiftAdd, BookSave, RideSaveRider, RideSaveDriver, PlainPcs, charges
<1>7. CASE \/ GiftCredit(s) \/ Subtract(s) \/ SubtractTooFar(s) \/ AdAbort(s) \/ PlanSave(s)
           \/ BookPush(s) \/ RideSave(s) \/ BadgeApprove(s) \/ BadgeReject(s)
  BY <1>2, <1>7 DEF GiftCredit, Subtract, Adjust, SubtractTooFar, AdAbort, PlanSave, BookPush,
     RideSave, BadgeApprove, BadgeReject, SetBadge, charges
<1>8. CASE BookUser(s) \/ RideRider(s) \/ RideDriver(s)
  BY <1>0, <1>1, <1>8, IdleTyped DEF BookUser, RideRider, RideDriver, charges, Handlers
<1>9. CASE AdCommit(s)
  <2>1. PICK a \in Ads : ad[a] = NoUser /\ ad' = [ad EXCEPT ![a] = u]
    BY <1>9 DEF AdCommit
  <2>2. /\ log' = [log EXCEPT ![u] = @ + Price["ad"]] /\ Return(s) /\ verified' = verified
        /\ u \in Users /\ TypeOK
    BY <1>9 DEF AdCommit, Backed, Knows
  <2>3. /\ IsFiniteSet({b \in Ads : ad[b] # NoUser})'
        /\ \A v \in Users : AdsOf(v)' = IF v = u THEN AdsOf(v) + 1 ELSE AdsOf(v)
    BY <2>1, <2>2, AdAdded DEF Logged
  <2>4. \A v \in Users : Owes(v)' => Owes(v)
    BY <1>0, <2>2, IdleTyped DEF Owes, Return, Resume
  <2>5. ASSUME NEW v \in Users
        PROVE  log'[v] >= Price["ad"] * AdsOf(v)' + (IF Owes(v)' THEN Price["fee"] ELSE 0)
    <3>1. AdsOf(v) \in Nat /\ log[v] \in Nat
      BY <2>2, AdsCounted DEF Logged, TypeOK
    <3>2. log[v] >= Price["ad"] * AdsOf(v) + (IF Owes(v) THEN Price["fee"] ELSE 0)
      BY DEF Logged
    <3>3. log'[v] = IF v = u THEN log[v] + Price["ad"] ELSE log[v]
      BY <2>2 DEF TypeOK
    <3>4. /\ Price["ad"] * AdsOf(v) \in Nat
          /\ Price["ad"] * (AdsOf(v) + 1) = Price["ad"] * AdsOf(v) + Price["ad"]
      BY <3>1, PriceTyped, Times
    <3>. QED
      BY <2>3, <2>4, <3>1, <3>2, <3>3, <3>4, PriceTyped
  <2>. QED
    BY <2>3, <2>5 DEF Logged
<1>10. CASE BadgeLog(s)
  <2>1. /\ log' = [log EXCEPT ![u] = @ + Price["fee"]] /\ UNCHANGED <<ad, verified>>
        /\ req' = [req EXCEPT ![s] = [@ EXCEPT !.pc = "badge_charge"]]
        /\ TypeOK /\ u \in Users
    BY <1>10 DEF BadgeLog, Goto, Resume, Backed, Knows
  <2>2. \A v \in Users : Owes(v)' => Owes(v) \/ v = u
    BY <1>0, <2>1 DEF Owes, Handlers
  <2>3. ASSUME NEW v \in Users
        PROVE  log'[v] >= Price["ad"] * AdsOf(v)' + (IF Owes(v)' THEN Price["fee"] ELSE 0)
    <3>1. AdsOf(v)' = AdsOf(v) /\ AdsOf(v) \in Nat /\ log[v] \in Nat
      BY <2>1, AdsCounted DEF Logged, TypeOK, AdsOf
    <3>2. log[v] >= Price["ad"] * AdsOf(v) + (IF Owes(v) THEN Price["fee"] ELSE 0)
      BY DEF Logged
    <3>3. log'[v] = IF v = u THEN log[v] + Price["fee"] ELSE log[v]
      BY <2>1 DEF TypeOK
    <3>4. Price["ad"] * AdsOf(v) \in Nat
      BY <3>1, PriceTyped, Times
    <3>. QED
      BY <2>2, <3>1, <3>2, <3>3, <3>4, PriceTyped
  <2>. QED
    BY <2>1, <2>3 DEF Logged
<1>11. CASE BadgeCharge(s)
  <2>1. /\ verified' = [verified EXCEPT ![u] = TRUE] /\ UNCHANGED <<ad, log>>
        /\ req' = [req EXCEPT ![s] = [@ EXCEPT !.pc = "badge_approve"]]
        /\ TypeOK /\ u \in Users /\ req[s].pc = "badge_charge"
    BY <1>11 DEF BadgeCharge, Goto, Resume, Backed, Knows
  <2>2. \A v \in Users : Owes(v)' => Owes(v)
    BY <1>0, <2>1 DEF Owes, Handlers, TypeOK
  <2>3. \A v \in Users : AdsOf(v)' = AdsOf(v) /\ AdsOf(v) \in Nat /\ log[v] \in Nat
    BY <2>1, AdsCounted DEF Logged, TypeOK, AdsOf
  <2>. QED
    BY SMTT(60), <2>1, <2>2, <2>3, PriceTyped, Times DEF Logged
<1>. QED
  BY <1>4, <1>5, <1>6, <1>7, <1>8, <1>9, <1>10, <1>11 DEF Continue

LEMMA LoggedInit ==
  ASSUME Init
  PROVE  Logged
<1>1. {a \in Ads : ad[a] # NoUser} = {}
  BY DEF Init
<1>2. ASSUME NEW u \in Users PROVE AdsOf(u) = 0 /\ ~Owes(u) /\ log[u] = 0
  <2>1. {a \in Ads : ad[a] = u} = {}
    BY WalletAssumption DEF Init, WalletAssumption
  <2>. QED
    BY <2>1, FS_EmptySet, IdleTyped DEF AdsOf, Init, Owes
<1>3. Price["ad"] * 0 = 0
  BY PriceTyped
<1>4. IsFiniteSet({a \in Ads : ad[a] # NoUser})
  BY <1>1, FS_EmptySet
<1>. QED
  BY <1>2, <1>3, <1>4 DEF Logged

LEMMA LoggedNext ==
  ASSUME Logged, Backed, [Next]_vars
  PROVE  Logged'
<1>1. Backed'
  BY BackedNext
<1>2. CASE UNCHANGED vars
  <2>1. UNCHANGED <<ad, verified, log, req>>
    BY <1>2 DEF vars, charges
  <2>. QED
    BY <1>1, <2>1, NothingCharged
<1>4. CASE \E u \in Users : BadgeApply(u) \/ AddToBalance(u)
  <2>1. UNCHANGED <<ad, verified, log, req>>
    BY <1>4 DEF BadgeApply, SetBadge, AddToBalance, Adjust, AtOnce, charges
  <2>. QED
    BY <1>1, <2>1, NothingCharged
<1>5. CASE Restart
  BY <1>1, <1>5, NothingCharged, IdleTyped DEF Restart, charges
<1>. QED
  BY <1>1, <1>2, <1>4, <1>5, LoggedStart, LoggedContinue DEF Next, VerificationController

\* The log has every charge for an ad and for the badge, whatever overlaps or is
\* cut off: the charge for the badge comes after its entry.
THEOREM ChargesLogged == Spec => []ChargesAreLogged
<1>1. Backed /\ Logged => ChargesAreLogged
  <2>. SUFFICES ASSUME Backed, Logged, NEW u \in Users
                PROVE  log[u] >= Price["ad"] * AdsOf(u)
                                   + (IF verified[u] THEN Price["fee"] ELSE 0)
    BY DEF ChargesAreLogged
  <2>1. AdsOf(u) \in Nat /\ log[u] \in Nat
    BY AdsCounted DEF Logged, Backed, TypeOK
  <2>2. Price["ad"] * AdsOf(u) \in Nat
    BY <2>1, PriceTyped, Times
  <2>. QED
    BY <2>1, <2>2, PriceTyped DEF Logged, Owes
<1>. QED
  BY <1>1, BackedInit, BackedNext, LoggedInit, LoggedNext, PTL DEF Spec

-----------------------------------------------------------------------------
(* The wallets and the documents, while nothing overlaps *)

FewPayments == IsFiniteSet({t \in Payments : payment[t] # NoPayment})

\* What handler h has moved that the documents do not say yet.
Flight(h, u) ==
  CASE h.pc = "topup_mark" /\ h.user = u -> h.seen
    [] h.pc = "card_settle" /\ h.user = u /\ h.done = {"mark"} -> -Price["card"]
    [] h.pc = "card_settle" /\ h.user = u /\ h.done = {"credit"} -> Price["card"]
    [] h.pc = "gift_credit" /\ h.user = u -> -Price["gift"]
    [] h.pc = "book_push" /\ h.user = u -> -Price["book"]
    [] h.pc \in {"ride_saveDriver", "ride_save"} /\ u = Rider -> -Price["fare"]
    [] h.pc = "ride_save" /\ u = Driver -> Price["earnings"]
    [] OTHER -> 0

\* What a handler that is alone has checked or read still holds.
Certain(s) ==
  LET h == req[s]
      u == h.user
      status == payment[h.doc].status
  IN /\ h.pc \in TopupPcs => status # "Completed"
     /\ h.pc \in CardPcs =>
          status = IF h.pc = "card_settle" /\ h.done = {"mark"} THEN "SUCCESS" ELSE "PENDING"
     /\ h.pc = "gift_add" => ~claimed[u]
     /\ h.pc = "gift_credit" => claimed[u]
     /\ h.pc = "subtract" => balance[u] >= Price["adjust"]
     /\ h.pc = "ad_commit" => balance[u] >= Price["ad"]
     /\ h.pc \in {"badge_log", "badge_charge"} => balance[u] >= Price["fee"]
     /\ h.pc \in {"badge_log", "badge_charge", "badge_reject"} => ~verified[u]
     /\ h.pc = "plan_save" => ~plan[u] /\ h.seen = balance[u]
     /\ h.pc = "book_save" => h.seen = balance[u] /\ h.seen >= Price["book"]
     /\ h.pc \in {"ride_rider", "ride_driver", "ride_saveRider", "ride_saveDriver", "ride_save"}
          => ride = "in_progress"
     /\ h.pc \in {"ride_driver", "ride_saveRider"} => h.seen = balance[Rider]
     /\ h.pc \in {"ride_saveRider", "ride_saveDriver"} => h.other = balance[Driver]

Alone == \A s, t \in InProgress : s = t

Agrees(u) ==
  /\ InProgress = {} => balance[u] = Due(u)
  /\ \A s \in InProgress : balance[u] = Due(u) + Flight(req[s], u)

RidePaid ==
  ride = "completed" \/ \E s \in Slots : req[s].pc \in {"ride_saveDriver", "ride_save"}

\* A settled payment of the user has an amount below zero.
Lower(u) == \E t \in SettledOf(u) : payment[t].amount < 0

Solvent(u) ==
  \/ plan[u] \/ (u = Rider /\ RidePaid) \/ balance[u] >= 0 \/ Lower(u)
  \/ \E s \in Slots : req[s].pc = "topup_mark" /\ req[s].user = u /\ req[s].seen < 0

Badged(u) ==
  verified[u] =>
    badge[u] = "APPROVED" \/ \E s \in Slots : req[s].pc = "badge_approve" /\ req[s].user = u

Ledger ==
  /\ FewPayments
  /\ ~overlapped =>
       /\ Alone
       /\ \A s \in InProgress : Certain(s)
       /\ \A u \in Users : Agrees(u) /\ Solvent(u) /\ Badged(u)

LEMMA FlightTyped ==
  ASSUME NEW h, NEW u
  PROVE  /\ h.pc # "topup_mark" \/ h.seen \in Int => Flight(h, u) \in Int
         /\ h.pc \notin {"topup_mark", "card_settle", "gift_credit", "book_push",
                         "ride_saveDriver", "ride_save"} => Flight(h, u) = 0
BY PriceTyped DEF Flight

Final == {"Completed", "SUCCESS"}

LEMMA Totals == \A f, S : Total(f, S) = SumOf(f, S)
BY DEF Total, SumOf

LEMMA TopUpsTyped ==
  ASSUME TypeOK, FewPayments, NEW u
  PROVE  /\ IsFiniteSet(SettledOf(u)) /\ \A t \in SettledOf(u) : AmountOf[t] \in Int
         /\ ToppedUp(u) = SumOf(AmountOf, SettledOf(u)) /\ ToppedUp(u) \in Int
<1>1. SettledOf(u) \subseteq {t \in Payments : payment[t] # NoPayment}
  BY DEF SettledOf, NoPayment, Transaction
<1>2. IsFiniteSet(SettledOf(u))
  BY <1>1, FS_Subset DEF FewPayments
<1>3. \A t \in Payments : AmountOf[t] \in Int
  <2>1. NoPayment.amount \in Int /\ \A d \in Transactions : d.amount \in Int
    BY DEF NoPayment, Transaction, Transactions
  <2>. QED
    BY <2>1 DEF TypeOK, AmountOf
<1>4. \A t \in SettledOf(u) : AmountOf[t] \in Int
  BY <1>3 DEF SettledOf
<1>5. ToppedUp(u) = SumOf(AmountOf, SettledOf(u))
  BY Totals DEF ToppedUp
<1>. QED
  BY <1>2, <1>4, <1>5, SumType

\* What is topped up after a step that changes the payment t alone.
LEMMA TopUpsNext ==
  ASSUME TypeOK, FewPayments, NEW t \in Payments,
         \A r \in Payments \ {t} : payment'[r] = payment[r], NEW u, t \notin SettledOf(u)
  PROVE  SumOf(AmountOf', SettledOf(u)) = ToppedUp(u)
<1>1. \A r \in SettledOf(u) : AmountOf'[r] = AmountOf[r]
  BY DEF AmountOf, SettledOf
<1>. QED
  BY <1>1, TopUpsTyped, SumSame

\* A payment that is not settled, and is not settled by the step, adds nothing.
LEMMA NotSettled ==
  ASSUME TypeOK, FewPayments, NEW t \in Payments,
         \A r \in Payments \ {t} : payment'[r] = payment[r],
         NEW u, t \notin SettledOf(u), t \notin SettledOf(u)'
  PROVE  ToppedUp(u)' = ToppedUp(u) /\ Lower(u)' = Lower(u)
<1>1. SettledOf(u)' = SettledOf(u)
  BY DEF SettledOf
<1>2. ToppedUp(u)' = SumOf(AmountOf', SettledOf(u))
  BY <1>1, Totals DEF ToppedUp
<1>3. \A r \in SettledOf(u) : payment'[r] = payment[r]
  BY DEF SettledOf
<1>4. Lower(u)' = Lower(u)
  BY <1>1, <1>3 DEF Lower
<1>. QED
  BY <1>2, <1>4, TopUpsNext

\* A payment that is settled by the step adds its amount.
LEMMA NowSettled ==
  ASSUME TypeOK, FewPayments, NEW t \in Payments,
         \A r \in Payments \ {t} : payment'[r] = payment[r], NEW u, t \notin SettledOf(u),
         payment'[t].user = u, payment'[t].status \in Final, payment'[t].amount \in Int
  PROVE  /\ ToppedUp(u)' = ToppedUp(u) + payment'[t].amount
         /\ Lower(u)' <=> Lower(u) \/ payment'[t].amount < 0
<1>1. SettledOf(u)' = SettledOf(u) \cup {t}
  BY DEF SettledOf, Final
<1>2. ToppedUp(u)' = SumOf(AmountOf', SettledOf(u) \cup {t})
  BY <1>1, Totals DEF ToppedUp
<1>3. \A r \in SettledOf(u) : payment'[r] = payment[r] /\ AmountOf'[r] = AmountOf[r]
  BY DEF AmountOf, SettledOf
<1>4. AmountOf'[t] = payment'[t].amount
  BY DEF AmountOf
<1>5. \A r \in SettledOf(u) \cup {t} : AmountOf'[r] \in Int
  BY <1>3, <1>4, TopUpsTyped
<1>6. SumOf(AmountOf', SettledOf(u) \cup {t}) = SumOf(AmountOf', SettledOf(u)) + AmountOf'[t]
  BY <1>5, TopUpsTyped, SumMore
<1>7. Lower(u)' <=> Lower(u) \/ payment'[t].amount < 0
  BY <1>1, <1>3 DEF Lower
<1>. QED
  BY <1>2, <1>4, <1>6, <1>7, TopUpsNext

AdCost(u) == Price["ad"] * AdsOf(u)
BookCost(u) == Price["book"] * bought[u]

LEMMA DueSum ==
  ASSUME NEW u
  PROVE  Due(u) = Wallet0[u] + ToppedUp(u)
           + If(claimed[u], "gift") + adjusted[u] - AdCost(u) - If(verified[u], "fee")
           - If(plan[u], "plan") - BookCost(u) - If(u = Rider /\ ride = "completed", "fare")
           + If(u = Driver /\ ride = "completed", "earnings")
BY DEF Due, AdCost, BookCost

LEMMA DueNext ==
  ASSUME NEW u
  PROVE  Due(u)' = Wallet0[u] + ToppedUp(u)'
           + If(claimed'[u], "gift") + adjusted'[u] - AdCost(u)' - If(verified'[u], "fee")
           - If(plan'[u], "plan") - BookCost(u)' - If(u = Rider /\ ride' = "completed", "fare")
           + If(u = Driver /\ ride' = "completed", "earnings")
BY DEF Due, AdCost, BookCost

LEMMA TermsTyped ==
  ASSUME Backed, Logged, FewPayments, NEW u \in Users
  PROVE  /\ Wallet0[u] \in Nat /\ ToppedUp(u) \in Int /\ adjusted[u] \in Int
         /\ AdCost(u) \in Nat /\ BookCost(u) \in Nat /\ balance[u] \in Int
<1>1. Wallet0[u] \in Nat
  BY WalletAssumption DEF WalletAssumption
<1>2. ToppedUp(u) \in Int
  BY TopUpsTyped DEF Backed
<1>3. adjusted[u] \in Int /\ bought[u] \in Nat /\ balance[u] \in Int
  BY WalletAssumption DEF Backed, TypeOK, WalletAssumption
<1>4. AdCost(u) \in Nat /\ BookCost(u) \in Nat
  BY <1>3, AdsCounted, PriceTyped, Times DEF Logged, AdCost, BookCost
<1>. QED
  BY <1>1, <1>2, <1>3, <1>4

LEMMA DueTyped ==
  ASSUME Backed, Logged, FewPayments, NEW u \in Users
  PROVE  Due(u) \in Int
BY TermsTyped, DueSum, PriceTyped DEF If

-----------------------------------------------------------------------------
(* One handler goes on, and it is alone *)

LEMMA LedgerNow ==
  ASSUME Ledger, Backed, NEW s \in Slots, req[s].pc # "idle", ~overlapped
  PROVE  /\ Certain(s)
         /\ \A t \in Slots \ {s} : req[t].pc = "idle"
         /\ \A u \in Users :
              /\ balance[u] = Due(u) + Flight(req[s], u)
              /\ \/ plan[u] \/ balance[u] >= 0 \/ Lower(u)
                 \/ req[s].pc = "topup_mark" /\ req[s].user = u /\ req[s].seen < 0
                 \/ /\ u = Rider
                    /\ ride = "completed" \/ req[s].pc \in {"ride_saveDriver", "ride_save"}
              /\ verified[u] => \/ badge[u] = "APPROVED"
                                \/ req[s].pc = "badge_approve" /\ req[s].user = u
<1>1. s \in InProgress
  BY DEF InProgress
<1>2. \A t \in Slots \ {s} : req[t].pc = "idle"
  BY <1>1 DEF Ledger, Alone, InProgress
<1>3. \A u \in Users : Agrees(u) /\ Solvent(u) /\ Badged(u)
  BY DEF Ledger
<1>. QED
  BY <1>1, <1>2, <1>3 DEF Ledger, Agrees, Solvent, RidePaid, Badged

LEMMA LedgerResume ==
  ASSUME Ledger, Backed, NEW s \in Slots, req[s].pc # "idle", NEW h, Resume(s, h),
         FewPayments',
         ~overlapped =>
           /\ h.pc # "idle" => Certain(s)'
           /\ \A u \in Users :
                /\ Due(u)' \in Int /\ balance'[u] = Due(u)' + Flight(h, u)
                /\ \/ plan'[u] \/ balance'[u] >= 0 \/ Lower(u)'
                   \/ h.pc = "topup_mark" /\ h.user = u /\ h.seen < 0
                   \/ /\ u = Rider
                      /\ ride' = "completed" \/ h.pc \in {"ride_saveDriver", "ride_save"}
                /\ verified'[u] => \/ badge'[u] = "APPROVED"
                                   \/ h.pc = "badge_approve" /\ h.user = u
  PROVE  Ledger'
<1>. SUFFICES ASSUME ~overlapped
              PROVE  /\ Alone' /\ \A t \in InProgress' : Certain(t)'
                     /\ \A u \in Users : Agrees(u)' /\ Solvent(u)' /\ Badged(u)'
  BY DEF Ledger, Resume, process
<1>1. req'[s] = h /\ \A t \in Slots \ {s} : req'[t].pc = "idle"
  BY LedgerNow DEF Resume, Backed, TypeOK
<1>2. \A t \in InProgress' : t = s /\ h.pc # "idle"
  BY <1>1 DEF InProgress
<1>3. ASSUME NEW u \in Users PROVE Agrees(u)' /\ Solvent(u)' /\ Badged(u)'
  <2>1. Solvent(u)' /\ Badged(u)'
    BY <1>1 DEF Solvent, RidePaid, Badged
  <2>2. InProgress' = {} => h.pc = "idle"
    BY <1>1 DEF InProgress
  <2>3. h.pc = "idle" => balance'[u] = Due(u)'
    BY FlightTyped
  <2>. QED
    BY <1>1, <1>2, <2>1, <2>2, <2>3 DEF Agrees
<1>. QED
  BY <1>2, <1>3 DEF Alone

LEMMA LedgerReturn ==
  ASSUME Ledger, Backed, NEW s \in Slots, req[s].pc # "idle", Return(s), FewPayments',
         ~overlapped =>
           \A u \in Users :
             /\ Due(u)' \in Int /\ balance'[u] = Due(u)'
             /\ plan'[u] \/ balance'[u] >= 0 \/ Lower(u)' \/ (u = Rider /\ ride' = "completed")
             /\ verified'[u] => badge'[u] = "APPROVED"
  PROVE  Ledger'
<1>1. Idle.pc = "idle" /\ \A u : Flight(Idle, u) = 0
  BY IdleTyped, FlightTyped
<1>2. \A u \in Users : Due(u)' \in Int => Due(u)' = Due(u)' + Flight(Idle, u)
  BY <1>1
<1>. QED
  BY <1>1, <1>2, LedgerResume DEF Return

\* What the documents say does not change with what is not in them.
LEMMA DueKept ==
  ASSUME UNCHANGED <<payment, claimed, adjusted, ad, verified, plan, bought, ride>>
  PROVE  \A u : Due(u)' = Due(u)
<1>1. AmountOf' = AmountOf /\ \A u : SettledOf(u)' = SettledOf(u)
  BY DEF AmountOf, SettledOf
<1>2. \A u : ToppedUp(u)' = ToppedUp(u) /\ AdsOf(u)' = AdsOf(u)
  BY <1>1 DEF ToppedUp, AdsOf
<1>. QED
  BY <1>2 DEF Due, If

LEMMA PaymentsKept ==
  ASSUME FewPayments, UNCHANGED payment
  PROVE  FewPayments' /\ \A u : Lower(u)' = Lower(u)
BY DEF FewPayments, Lower, SettledOf

\* A handler that ends having changed nothing that counts.
LEMMA LedgerDrop ==
  ASSUME Ledger, Backed, Logged, NEW s \in Slots, req[s].pc # "idle", Return(s),
         req[s].pc \notin {"topup_mark", "card_settle", "gift_credit", "book_push",
                           "ride_saveDriver", "ride_save", "badge_approve"},
         UNCHANGED <<payment, balance, claimed, adjusted, ad, verified, plan, bought, ride, badge>>
  PROVE  Ledger'
<1>1. \A u \in Users : Due(u)' = Due(u) /\ Due(u) \in Int /\ Flight(req[s], u) = 0
  BY DueKept, DueTyped, FlightTyped DEF Ledger
<1>2. FewPayments' /\ \A u \in Users : Lower(u)' = Lower(u)
  BY PaymentsKept DEF Ledger
<1>. QED
  BY <1>1, <1>2, LedgerNow, LedgerReturn

\* A handler that goes on having changed nothing that counts.
LEMMA LedgerOn ==
  ASSUME Ledger, Backed, Logged, NEW s \in Slots, req[s].pc # "idle", NEW h, Resume(s, h),
         \A pc \in {req[s].pc, h.pc} :
           pc \notin {"topup_mark", "card_settle", "gift_credit", "book_push",
                      "ride_saveDriver", "ride_save", "badge_approve"},
         UNCHANGED <<payment, balance, claimed, adjusted, ad, verified, plan, bought, ride, badge>>,
         ~overlapped => Certain(s)'
  PROVE  Ledger'
<1>1. \A u \in Users : /\ Due(u)' = Due(u) /\ Due(u) \in Int
                       /\ Flight(req[s], u) = 0 /\ Flight(h, u) = 0
  BY DueKept, DueTyped, FlightTyped DEF Ledger
<1>2. FewPayments' /\ \A u \in Users : Lower(u)' = Lower(u)
  BY PaymentsKept DEF Ledger
<1>. QED
  BY <1>1, <1>2, LedgerNow, LedgerResume

\* How a change of one document changes what is due to user v.
LEMMA DueBy ==
  ASSUME Backed, Logged, FewPayments, NEW v \in Users
  PROVE  /\ UNCHANGED <<payment, adjusted, ad, verified, plan, bought, ride>> =>
              Due(v)' = Due(v) + If(claimed'[v], "gift") - If(claimed[v], "gift")
         /\ UNCHANGED <<payment, claimed, ad, verified, plan, bought, ride>> /\ adjusted'[v] \in Int =>
              Due(v)' = Due(v) + adjusted'[v] - adjusted[v]
         /\ UNCHANGED <<payment, claimed, adjusted, verified, plan, bought, ride>> /\ AdCost(v)' \in Int =>
              Due(v)' = Due(v) - AdCost(v)' + AdCost(v)
         /\ UNCHANGED <<payment, claimed, adjusted, ad, plan, bought, ride>> =>
              Due(v)' = Due(v) - If(verified'[v], "fee") + If(verified[v], "fee")
         /\ UNCHANGED <<payment, claimed, adjusted, ad, verified, bought, ride>> =>
              Due(v)' = Due(v) - If(plan'[v], "plan") + If(plan[v], "plan")
         /\ UNCHANGED <<payment, claimed, adjusted, ad, verified, plan, ride>> /\ BookCost(v)' \in Int =>
              Due(v)' = Due(v) - BookCost(v)' + BookCost(v)
         /\ UNCHANGED <<payment, claimed, adjusted, ad, verified, plan, bought>>
              /\ ride = "in_progress" /\ ride' = "completed" =>
              Due(v)' = Due(v) - If(v = Rider, "fare") + If(v = Driver, "earnings")
         /\ UNCHANGED <<claimed, adjusted, ad, verified, plan, bought, ride>>
              /\ ToppedUp(v)' \in Int =>
              Due(v)' = Due(v) + ToppedUp(v)' - ToppedUp(v)
<1>1. /\ Wallet0[v] \in Nat /\ ToppedUp(v) \in Int /\ adjusted[v] \in Int
      /\ AdCost(v) \in Nat /\ BookCost(v) \in Nat
  BY TermsTyped
<1>2. /\ UNCHANGED payment => ToppedUp(v)' = ToppedUp(v)
      /\ UNCHANGED ad => AdCost(v)' = AdCost(v)
      /\ UNCHANGED bought => BookCost(v)' = BookCost(v)
  <2>1. UNCHANGED payment => AmountOf' = AmountOf /\ SettledOf(v)' = SettledOf(v)
    BY DEF AmountOf, SettledOf
  <2>2. UNCHANGED payment => ToppedUp(v)' = ToppedUp(v)
    BY <2>1 DEF ToppedUp
  <2>3. UNCHANGED ad => AdsOf(v)' = AdsOf(v)
    BY DEF AdsOf
  <2>. QED
    BY <2>2, <2>3 DEF AdCost, BookCost
<1>4. /\ Due(v) = Wallet0[v] + ToppedUp(v)
           + If(claimed[v], "gift") + adjusted[v] - AdCost(v) - If(verified[v], "fee")
           - If(plan[v], "plan") - BookCost(v) - If(v = Rider /\ ride = "completed", "fare")
           + If(v = Driver /\ ride = "completed", "earnings")
      /\ Due(v)' = Wallet0[v] + ToppedUp(v)'
           + If(claimed'[v], "gift") + adjusted'[v] - AdCost(v)' - If(verified'[v], "fee")
           - If(plan'[v], "plan") - BookCost(v)' - If(v = Rider /\ ride' = "completed", "fare")
           + If(v = Driver /\ ride' = "completed", "earnings")
  BY DueSum, DueNext
<1>5. /\ If(claimed[v], "gift") \in Nat /\ If(claimed'[v], "gift") \in Nat
      /\ If(verified[v], "fee") \in Nat /\ If(verified'[v], "fee") \in Nat
      /\ If(plan[v], "plan") \in Nat /\ If(plan'[v], "plan") \in Nat
      /\ If(v = Rider /\ ride = "completed", "fare") \in Nat
      /\ If(v = Driver /\ ride = "completed", "earnings") \in Nat
      /\ If(v = Rider /\ ride' = "completed", "fare") \in Nat
      /\ If(v = Driver /\ ride' = "completed", "earnings") \in Nat
  BY PriceTyped DEF If
<1>6. ride = "in_progress" /\ ride' = "completed" =>
        /\ If(v = Rider /\ ride = "completed", "fare") = 0
        /\ If(v = Driver /\ ride = "completed", "earnings") = 0
        /\ If(v = Rider /\ ride' = "completed", "fare") = If(v = Rider, "fare")
        /\ If(v = Driver /\ ride' = "completed", "earnings") = If(v = Driver, "earnings")
  BY DEF If
<1>7. UNCHANGED <<payment, adjusted, ad, verified, plan, bought, ride>> =>
      Due(v)' = Due(v) + If(claimed'[v], "gift") - If(claimed[v], "gift")
  BY <1>1, <1>2, <1>4, <1>5
<1>8. UNCHANGED <<payment, claimed, ad, verified, plan, bought, ride>> /\ adjusted'[v] \in Int =>
      Due(v)' = Due(v) + adjusted'[v] - adjusted[v]
  BY <1>1, <1>2, <1>4, <1>5
<1>9. UNCHANGED <<payment, claimed, adjusted, verified, plan, bought, ride>> /\ AdCost(v)' \in Int =>
      Due(v)' = Due(v) - AdCost(v)' + AdCost(v)
  BY <1>1, <1>2, <1>4, <1>5
<1>10. UNCHANGED <<payment, claimed, adjusted, ad, plan, bought, ride>> =>
      Due(v)' = Due(v) - If(verified'[v], "fee") + If(verified[v], "fee")
  BY <1>1, <1>2, <1>4, <1>5
<1>11. UNCHANGED <<payment, claimed, adjusted, ad, verified, bought, ride>> =>
      Due(v)' = Due(v) - If(plan'[v], "plan") + If(plan[v], "plan")
  BY <1>1, <1>2, <1>4, <1>5
<1>12. UNCHANGED <<payment, claimed, adjusted, ad, verified, plan, ride>> /\ BookCost(v)' \in Int =>
      Due(v)' = Due(v) - BookCost(v)' + BookCost(v)
  BY <1>1, <1>2, <1>4, <1>5
<1>13. UNCHANGED <<payment, claimed, adjusted, ad, verified, plan, bought>>
      /\ ride = "in_progress" /\ ride' = "completed" =>
      Due(v)' = Due(v) - If(v = Rider, "fare") + If(v = Driver, "earnings")
  BY <1>1, <1>2, <1>4, <1>5, <1>6
<1>14. UNCHANGED <<claimed, adjusted, ad, verified, plan, bought, ride>>
      /\ ToppedUp(v)' \in Int =>
      Due(v)' = Due(v) + ToppedUp(v)' - ToppedUp(v)
  BY <1>1, <1>2, <1>4, <1>5
<1>. QED
  BY <1>7, <1>8, <1>9, <1>10, <1>11, <1>12, <1>13, <1>14

\* The requests that are not about a payment.
LEMMA LedgerPlain ==
  ASSUME Ledger, Backed, Logged, NEW s \in Slots,
         \/ GiftAdd(s) \/ GiftCredit(s) \/ Subtract(s) \/ SubtractTooFar(s) \/ AdAbort(s)
         \/ BadgeLog(s) \/ BadgeCharge(s) \/ BadgeApprove(s) \/ BadgeReject(s)
  PROVE  Ledger'
<1>. DEFINE u == req[s].user
            h(pc) == [req[s] EXCEPT !.pc = pc]
<1>0. /\ TypeOK /\ req \in [Slots -> Handlers] /\ (req[s].pc # "idle" => u \in Users)
      /\ FewPayments
  BY DEF Backed, TypeOK, Handlers, Knows, Ledger
<1>1. \A v \in Users : Due(v) \in Int /\ balance[v] \in Int /\ adjusted[v] \in Int
  BY <1>0, TermsTyped, DueTyped
<1>2. ASSUME NEW pc \in PC
      PROVE  h(pc).pc = pc /\ h(pc).user = u
  BY <1>0 DEF Handlers, PC
<1>. HIDE DEF h
<1>3. UNCHANGED payment => FewPayments' /\ \A v \in Users : Lower(v)' = Lower(v)
  BY <1>0, PaymentsKept
<1>4. CASE GiftAdd(s)
  <2>1. /\ req[s].pc = "gift_add" /\ claimed' = [claimed EXCEPT ![u] = TRUE]
        /\ Resume(s, h("gift_credit"))
        /\ UNCHANGED <<balance, payment, ad, badge, verified, adjusted, plan, bought, ride>>
    BY <1>4 DEF GiftAdd, Goto, payments, charges, h
  <2>2. ~overlapped => ~claimed[u]
    BY <2>1, LedgerNow DEF Certain
  <2>3. ASSUME NEW v \in Users, ~overlapped
        PROVE  Due(v)' \in Int /\ balance'[v] = Due(v)' + Flight(h("gift_credit"), v)
    <3>1. claimed'[v] = IF v = u THEN TRUE ELSE claimed[v]
      BY <1>0, <2>1 DEF TypeOK
    <3>2. Flight(req[s], v) = 0 /\ balance[v] = Due(v) + Flight(req[s], v)
      BY <2>1, <2>3, LedgerNow, FlightTyped
    <3>3. Flight(h("gift_credit"), v) = IF v = u THEN -Price["gift"] ELSE 0
      BY <1>2 DEF Flight, PC
    <3>4. Due(v)' = Due(v) + If(claimed'[v], "gift") - If(claimed[v], "gift")
      BY <1>0, <2>1, DueBy
    <3>5. Due(v)' = Due(v) + IF v = u THEN Price["gift"] ELSE 0
      BY <1>1, <2>2, <2>3, <3>1, <3>4, PriceTyped DEF If
    <3>. QED
      BY <1>1, <2>1, <3>2, <3>3, <3>5, PriceTyped
  <2>4. h("gift_credit").pc = "gift_credit" /\ h("gift_credit").user = u
    BY <1>2 DEF PC
  <2>5. Certain(s)'
    <3>1. req'[s] = h("gift_credit") /\ claimed'[u]
      BY <1>0, <2>1 DEF Resume, TypeOK
    <3>. QED
      BY <2>4, <3>1 DEF Certain, TopupPcs, CardPcs
  <2>. QED
    BY <1>3, <2>1, <2>3, <2>4, <2>5, LedgerNow, LedgerResume
<1>5. CASE GiftCredit(s)
  <2>1. /\ req[s].pc = "gift_credit" /\ balance' = [balance EXCEPT ![u] = @ + Price["gift"]]
        /\ Return(s)
        /\ UNCHANGED <<claimed, payment, ad, badge, verified, adjusted, plan, bought, ride>>
    BY <1>5 DEF GiftCredit, Inc, payments, charges, others
  <2>2. ASSUME NEW v \in Users, ~overlapped
        PROVE  Due(v)' \in Int /\ balance'[v] = Due(v)' /\ balance'[v] >= balance[v]
    <3>1. balance'[v] = IF v = u THEN balance[v] + Price["gift"] ELSE balance[v]
      BY <1>0, <2>1 DEF TypeOK
    <3>2. balance[v] = Due(v) + Flight(req[s], v)
      BY <2>1, <2>2, LedgerNow
    <3>3. Flight(req[s], v) = IF v = u THEN -Price["gift"] ELSE 0
      BY <2>1 DEF Flight
    <3>4. Due(v)' = Due(v)
      BY <2>1, DueKept
    <3>. QED
      BY <1>1, <3>1, <3>2, <3>3, <3>4, PriceTyped
  <2>3. ~overlapped => \A v \in Users : balance'[v] \in Int
    BY <2>2
  <2>. QED
    BY <1>1, <1>3, <2>1, <2>2, <2>3, LedgerNow, LedgerReturn
<1>6. CASE Subtract(s)
  <2>1. /\ req[s].pc = "subtract" /\ balance' = [balance EXCEPT ![u] = @ - Price["adjust"]]
        /\ adjusted' = [adjusted EXCEPT ![u] = @ - Price["adjust"]]
        /\ Return(s)
        /\ UNCHANGED <<claimed, payment, ad, badge, verified, plan, bought, ride>>
    <3>1. u \in Users
      BY <1>0, <1>6 DEF Subtract
    <3>2. balance[u] + -Price["adjust"] = balance[u] - Price["adjust"]
          /\ adjusted[u] + -Price["adjust"] = adjusted[u] - Price["adjust"]
      BY <1>1, <3>1, PriceTyped
    <3>. QED
      BY <1>6, <3>2 DEF Subtract, Adjust, Inc, payments, charges
  <2>2. ~overlapped => balance[u] >= Price["adjust"]
    BY <2>1, LedgerNow DEF Certain
  <2>3. ASSUME NEW v \in Users, ~overlapped
        PROVE  /\ Due(v)' \in Int /\ balance'[v] = Due(v)'
               /\ balance'[v] >= 0 \/ balance'[v] = balance[v]
    <3>1. /\ balance'[v] = IF v = u THEN balance[v] - Price["adjust"] ELSE balance[v]
          /\ adjusted'[v] = IF v = u THEN adjusted[v] - Price["adjust"] ELSE adjusted[v]
      BY <1>0, <2>1 DEF TypeOK
    <3>2. Flight(req[s], v) = 0 /\ balance[v] = Due(v) + Flight(req[s], v)
      BY <2>1, <2>3, LedgerNow, FlightTyped
    <3>3. adjusted'[v] \in Int
      BY <1>1, <3>1, PriceTyped
    <3>4. Due(v)' = Due(v) + adjusted'[v] - adjusted[v]
      BY <1>0, <2>1, <3>3, DueBy
    <3>. QED
      BY <1>1, <2>2, <2>3, <3>1, <3>2, <3>4, PriceTyped
  <2>. QED
    BY <1>3, <2>1, <2>3, LedgerNow, LedgerReturn
<1>7. CASE SubtractTooFar(s) \/ AdAbort(s)
  BY <1>7, LedgerDrop DEF SubtractTooFar, AdAbort, payments, charges, others
<1>8. CASE BadgeLog(s)
  <2>1. /\ req[s].pc = "badge_log" /\ Resume(s, h("badge_charge"))
        /\ UNCHANGED <<payment, balance, claimed, adjusted, ad, verified, plan, bought, ride, badge>>
    BY <1>8 DEF BadgeLog, Goto, payments, others, h
  <2>2. h("badge_charge").pc = "badge_charge" /\ h("badge_charge").user = u
    BY <1>2 DEF PC
  <2>3. ~overlapped => Certain(s)'
    <3>1. req'[s] = h("badge_charge")
      BY <1>0, <2>1 DEF Resume
    <3>2. ~overlapped => balance[u] >= Price["fee"] /\ ~verified[u]
      BY <2>1, LedgerNow DEF Certain
    <3>. QED
      BY <2>1, <2>2, <3>1, <3>2 DEF Certain, TopupPcs, CardPcs
  <2>. QED
    BY <2>1, <2>2, <2>3, LedgerOn
<1>9. CASE BadgeCharge(s)
  <2>1. /\ req[s].pc = "badge_charge" /\ verified' = [verified EXCEPT ![u] = TRUE]
        /\ Resume(s, h("badge_approve"))
        /\ UNCHANGED <<payment, ad, badge, claimed, adjusted, plan, bought, ride>>
    BY <1>9 DEF BadgeCharge, Goto, payments, others, h
  <2>2. balance' = [balance EXCEPT ![u] = balance[u] - Price["fee"]]
    <3>1. u \in Users
      BY <1>0, <2>1
    <3>2. balance[u] + -Price["fee"] = balance[u] - Price["fee"]
      BY <1>1, <3>1, PriceTyped
    <3>. QED
      BY <1>9, <3>2 DEF BadgeCharge, Inc
  <2>3. ~overlapped => balance[u] >= Price["fee"] /\ ~verified[u]
    BY <2>1, LedgerNow DEF Certain
  <2>4. h("badge_approve").pc = "badge_approve" /\ h("badge_approve").user = u
    BY <1>2 DEF PC
  <2>5. ASSUME NEW v \in Users, ~overlapped
        PROVE  /\ Due(v)' \in Int /\ balance'[v] = Due(v)' + Flight(h("badge_approve"), v)
               /\ balance'[v] >= 0 \/ balance'[v] = balance[v]
               /\ verified'[v] => v = u \/ verified[v]
    <3>1. /\ balance'[v] = IF v = u THEN balance[v] - Price["fee"] ELSE balance[v]
          /\ verified'[v] = IF v = u THEN TRUE ELSE verified[v]
      BY <1>0, <2>1, <2>2 DEF TypeOK
    <3>2. Flight(req[s], v) = 0 /\ balance[v] = Due(v) + Flight(req[s], v)
      BY <2>1, <2>5, LedgerNow, FlightTyped
    <3>3. Flight(h("badge_approve"), v) = 0
      BY <2>4, FlightTyped
    <3>4. Due(v)' = Due(v) - If(verified'[v], "fee") + If(verified[v], "fee")
      BY <1>0, <2>1, DueBy
    <3>5. Due(v)' = Due(v) - IF v = u THEN Price["fee"] ELSE 0
      BY <1>1, <2>3, <2>5, <3>1, <3>4, PriceTyped DEF If
    <3>. QED
      BY <1>1, <2>3, <2>5, <3>1, <3>2, <3>3, <3>5, PriceTyped
  <2>6. Certain(s)'
    <3>1. req'[s] = h("badge_approve")
      BY <1>0, <2>1 DEF Resume
    <3>. QED
      BY <2>4, <3>1 DEF Certain, TopupPcs, CardPcs
  <2>. QED
    BY <1>3, <2>1, <2>4, <2>5, <2>6, LedgerNow, LedgerResume
<1>10. ASSUME NEW st, SetBadge(u, st), Return(s), req[s].pc \in {"badge_approve", "badge_reject"},
              ~overlapped => st = "APPROVED" \/ ~verified[u]
       PROVE  Ledger'
  <2>1. /\ badge' = [badge EXCEPT ![u] = st]
        /\ UNCHANGED <<payment, balance, claimed, adjusted, ad, verified, plan, bought, ride>>
    BY <1>10 DEF SetBadge, payments, others
  <2>2. ASSUME NEW v \in Users, ~overlapped
        PROVE  /\ Due(v)' \in Int /\ balance'[v] = Due(v)'
               /\ verified'[v] => badge'[v] = "APPROVED"
    <3>1. Flight(req[s], v) = 0 /\ balance[v] = Due(v) + Flight(req[s], v)
      BY <1>10, <2>2, LedgerNow, FlightTyped
    <3>2. Due(v)' = Due(v)
      BY <2>1, DueKept
    <3>3. verified[v] => badge[v] = "APPROVED" \/ v = u
      BY <1>10, <2>2, LedgerNow
    <3>4. badge'[v] = IF v = u THEN st ELSE badge[v]
      BY <1>0, <2>1 DEF TypeOK
    <3>. QED
      BY <1>1, <1>10, <2>1, <2>2, <3>1, <3>2, <3>3, <3>4
  <2>. QED
    BY <1>3, <1>10, <2>1, <2>2, LedgerNow, LedgerReturn
<1>11. CASE BadgeApprove(s)
  BY <1>10, <1>11 DEF BadgeApprove
<1>12. CASE BadgeReject(s)
  <2>1. ~overlapped => ~verified[u]
    BY <1>12, LedgerNow DEF BadgeReject, Certain
  <2>. QED
    BY <1>10, <1>12, <2>1 DEF BadgeReject
<1>. QED
  BY <1>4, <1>5, <1>6, <1>7, <1>8, <1>9, <1>11, <1>12

\* Purchases, advertisements and the ride.
LEMMA LedgerBuys ==
  ASSUME Ledger, Backed, Logged, NEW s \in Slots,
         \/ AdCommit(s) \/ PlanSave(s) \/ BookUser(s) \/ BookSave(s) \/ BookPush(s)
  PROVE  Ledger'
<1>. DEFINE u == req[s].user
            h(pc) == [req[s] EXCEPT !.pc = pc]
            b == [req[s] EXCEPT !.pc = "book_save", !.seen = balance[u]]
<1>0. /\ TypeOK /\ req \in [Slots -> Handlers] /\ (req[s].pc # "idle" => u \in Users)
      /\ FewPayments
  BY DEF Backed, TypeOK, Handlers, Knows, Ledger
<1>1. \A v \in Users : /\ Due(v) \in Int /\ balance[v] \in Int /\ AdCost(v) \in Nat
                       /\ BookCost(v) \in Nat /\ bought[v] \in Nat /\ AdsOf(v) \in Nat
  BY <1>0, TermsTyped, DueTyped, AdsCounted DEF TypeOK, Logged
<1>2. /\ h("book_push").pc = "book_push" /\ h("book_push").user = u
      /\ b.pc = "book_save" /\ b.user = u /\ b.seen = balance[u]
  BY <1>0 DEF Handlers, PC
<1>. HIDE DEF h, b
<1>3. UNCHANGED payment => FewPayments' /\ \A v \in Users : Lower(v)' = Lower(v)
  BY <1>0, PaymentsKept
<1>4. CASE AdCommit(s)
  <2>1. PICK a \in Ads : ad[a] = NoUser /\ ad' = [ad EXCEPT ![a] = u]
    BY <1>4 DEF AdCommit
  <2>2. /\ req[s].pc = "ad_commit" /\ Return(s) /\ u \in Users
        /\ UNCHANGED <<claimed, payment, badge, verified, adjusted, plan, bought, ride>>
    BY <1>0, <1>4 DEF AdCommit, payments, others
  <2>3. balance' = [balance EXCEPT ![u] = balance[u] - Price["ad"]]
    <3>1. balance[u] + -Price["ad"] = balance[u] - Price["ad"]
      BY <1>1, <2>2, PriceTyped
    <3>. QED
      BY <1>4, <3>1 DEF AdCommit, Inc
  <2>4. ~overlapped => balance[u] >= Price["ad"]
    BY <2>2, LedgerNow DEF Certain
  <2>5. \A v \in Users : AdsOf(v)' = IF v = u THEN AdsOf(v) + 1 ELSE AdsOf(v)
    BY <1>0, <2>1, <2>2, AdAdded DEF Logged
  <2>6. ASSUME NEW v \in Users, ~overlapped
        PROVE  /\ Due(v)' \in Int /\ balance'[v] = Due(v)'
               /\ balance'[v] >= 0 \/ balance'[v] = balance[v]
    <3>1. balance'[v] = IF v = u THEN balance[v] - Price["ad"] ELSE balance[v]
      BY <1>0, <2>3 DEF TypeOK
    <3>2. Flight(req[s], v) = 0 /\ balance[v] = Due(v) + Flight(req[s], v)
      BY <2>2, <2>6, LedgerNow, FlightTyped
    <3>3. AdCost(v)' = AdCost(v) + IF v = u THEN Price["ad"] ELSE 0
      <4>1. AdCost(v) = Price["ad"] * AdsOf(v) /\ AdCost(v)' = Price["ad"] * AdsOf(v)'
        BY DEF AdCost
      <4>2. Price["ad"] * (AdsOf(v) + 1) = Price["ad"] * AdsOf(v) + Price["ad"]
        BY <1>1, PriceTyped, Times
      <4>. QED
        BY <1>1, <2>5, <4>1, <4>2
    <3>4. AdCost(v)' \in Int
      BY <1>1, <3>3, PriceTyped
    <3>5. Due(v)' = Due(v) - AdCost(v)' + AdCost(v)
      BY <1>0, <2>2, <3>4, DueBy
    <3>. QED
      BY <1>1, <2>4, <2>6, <3>1, <3>2, <3>3, <3>5, PriceTyped
  <2>. QED
    BY <1>3, <2>2, <2>6, LedgerNow, LedgerReturn
<1>5. CASE PlanSave(s)
  <2>1. /\ req[s].pc = "plan_save" /\ plan' = [plan EXCEPT ![u] = TRUE]
        /\ balance' = [balance EXCEPT ![u] = req[s].seen - Price["plan"]]
        /\ Return(s)
        /\ UNCHANGED <<claimed, payment, ad, badge, verified, adjusted, bought, ride>>
    BY <1>5 DEF PlanSave, SaveBalance, payments, charges
  <2>2. ~overlapped => ~plan[u] /\ req[s].seen = balance[u]
    BY <2>1, LedgerNow DEF Certain
  <2>3. ASSUME NEW v \in Users, ~overlapped
        PROVE  /\ Due(v)' \in Int /\ balance'[v] = Due(v)'
               /\ plan'[v] \/ (~plan[v] /\ balance'[v] = balance[v])
    <3>1. balance'[v] = IF v = u THEN balance[v] - Price["plan"] ELSE balance[v]
      BY <1>0, <2>1, <2>2, <2>3 DEF TypeOK
    <3>5. (v = u => plan'[v]) /\ (v # u => (plan'[v] <=> plan[v]))
      BY <1>0, <2>1 DEF TypeOK
    <3>2. Flight(req[s], v) = 0 /\ balance[v] = Due(v) + Flight(req[s], v)
      BY <2>1, <2>3, LedgerNow, FlightTyped
    <3>3. Due(v)' = Due(v) - If(plan'[v], "plan") + If(plan[v], "plan")
      BY <1>0, <2>1, DueBy
    <3>4. Due(v)' = Due(v) - IF v = u THEN Price["plan"] ELSE 0
      BY <1>1, <2>2, <2>3, <3>3, <3>5, PriceTyped DEF If
    <3>6. Due(v)' \in Int /\ balance'[v] = Due(v)' /\ (v # u => balance'[v] = balance[v])
      BY <1>1, <3>1, <3>2, <3>4, PriceTyped
    <3>. QED
      BY <3>5, <3>6
  <2>. QED
    BY <1>3, <2>1, <2>3, LedgerNow, LedgerReturn
<1>6. CASE BookUser(s)
  <2>1. /\ req[s].pc = "book_user"
        /\ UNCHANGED <<payment, balance, claimed, adjusted, ad, verified, plan, bought, ride, badge>>
        /\ Return(s) \/ (balance[u] >= Price["book"] /\ Resume(s, b))
    <3>1. u \in Users
      BY <1>0, <1>6 DEF BookUser
    <3>2. ~(balance[u] < Price["book"]) => balance[u] >= Price["book"]
      BY <1>1, <3>1, PriceTyped
    <3>3. /\ req[s].pc = "book_user"
          /\ Resume(s, IF balance[u] < Price["book"] THEN Idle ELSE b)
          /\ UNCHANGED <<payment, balance, claimed, adjusted, ad, verified, plan, bought, ride, badge>>
      BY <1>6 DEF BookUser, payments, charges, others, b
    <3>4. CASE balance[u] < Price["book"]
      BY <3>3, <3>4 DEF Return, Resume
    <3>5. CASE ~(balance[u] < Price["book"])
      BY <3>2, <3>3, <3>5 DEF Resume
    <3>. QED
      BY <3>4, <3>5
  <2>2. CASE Return(s)
    BY <2>1, <2>2, LedgerDrop
  <2>3. CASE balance[u] >= Price["book"] /\ Resume(s, b)
    <3>1. req'[s] = b
      BY <1>0, <2>3 DEF Resume
    <3>2. Certain(s)'
      BY <1>2, <2>1, <2>3, <3>1 DEF Certain, TopupPcs, CardPcs
    <3>. QED
      BY <1>2, <2>1, <2>3, <3>2, LedgerOn
  <2>. QED
    BY <2>1, <2>2, <2>3
<1>7. CASE BookSave(s)
  <2>1. /\ req[s].pc = "book_save" /\ Resume(s, h("book_push"))
        /\ balance' = [balance EXCEPT ![u] = req[s].seen - Price["book"]]
        /\ UNCHANGED <<claimed, payment, ad, badge, verified, adjusted, plan, bought, ride>>
    BY <1>7 DEF BookSave, Goto, SaveBalance, payments, charges, others, h
  <2>2. ~overlapped => req[s].seen = balance[u] /\ balance[u] >= Price["book"]
    BY <2>1, LedgerNow DEF Certain
  <2>3. ASSUME NEW v \in Users, ~overlapped
        PROVE  /\ Due(v)' \in Int /\ balance'[v] = Due(v)' + Flight(h("book_push"), v)
               /\ balance'[v] >= 0 \/ balance'[v] = balance[v]
    <3>1. balance'[v] = IF v = u THEN balance[v] - Price["book"] ELSE balance[v]
      BY <1>0, <2>1, <2>2, <2>3 DEF TypeOK
    <3>2. Flight(req[s], v) = 0 /\ balance[v] = Due(v) + Flight(req[s], v)
      BY <2>1, <2>3, LedgerNow, FlightTyped
    <3>3. Flight(h("book_push"), v) = IF v = u THEN -Price["book"] ELSE 0
      BY <1>2 DEF Flight
    <3>4. Due(v)' = Due(v)
      BY <2>1, DueKept
    <3>. QED
      BY <1>1, <2>2, <2>3, <3>1, <3>2, <3>3, <3>4, PriceTyped
  <2>4. Certain(s)'
    <3>1. req'[s] = h("book_push")
      BY <1>0, <2>1 DEF Resume
    <3>. QED
      BY <1>2, <3>1 DEF Certain, TopupPcs, CardPcs
  <2>. QED
    BY <1>2, <1>3, <2>1, <2>3, <2>4, LedgerNow, LedgerResume
<1>8. CASE BookPush(s)
  <2>1. /\ req[s].pc = "book_push" /\ Return(s)
        /\ bought' = [bought EXCEPT ![u] = @ + 1]
        /\ UNCHANGED <<balance, claimed, payment, ad, badge, verified, adjusted, plan, ride>>
    BY <1>8 DEF BookPush, payments, charges
  <2>2. ASSUME NEW v \in Users, ~overlapped
        PROVE  Due(v)' \in Int /\ balance'[v] = Due(v)'
    <3>1. bought'[v] = IF v = u THEN bought[v] + 1 ELSE bought[v]
      BY <1>0, <2>1 DEF TypeOK
    <3>2. balance[v] = Due(v) + Flight(req[s], v)
      BY <2>1, <2>2, LedgerNow
    <3>3. Flight(req[s], v) = IF v = u THEN -Price["book"] ELSE 0
      BY <2>1 DEF Flight
    <3>4. BookCost(v)' = BookCost(v) + IF v = u THEN Price["book"] ELSE 0
      <4>1. BookCost(v) = Price["book"] * bought[v] /\ BookCost(v)' = Price["book"] * bought'[v]
        BY DEF BookCost
      <4>2. Price["book"] * (bought[v] + 1) = Price["book"] * bought[v] + Price["book"]
        BY <1>1, PriceTyped, Times
      <4>. QED
        BY <1>1, <3>1, <4>1, <4>2
    <3>5. BookCost(v)' \in Int
      BY <1>1, <3>4, PriceTyped
    <3>6. Due(v)' = Due(v) - BookCost(v)' + BookCost(v)
      BY <1>0, <2>1, <3>5, DueBy
    <3>. QED
      BY <1>1, <2>1, <3>2, <3>3, <3>4, <3>6, PriceTyped
  <2>. QED
    BY <1>3, <2>1, <2>2, LedgerNow, LedgerReturn
<1>. QED
  BY <1>4, <1>5, <1>6, <1>7, <1>8

LEMMA LedgerRide ==
  ASSUME Ledger, Backed, Logged, NEW s \in Slots,
         \/ RideRider(s) \/ RideDriver(s) \/ RideSaveRider(s) \/ RideSaveDriver(s)
         \/ RideSave(s)
  PROVE  Ledger'
<1>. DEFINE h(pc) == [req[s] EXCEPT !.pc = pc]
            r == [req[s] EXCEPT !.pc = "ride_driver", !.seen = balance[Rider]]
            d == [req[s] EXCEPT !.pc = "ride_saveRider", !.other = balance[Driver]]
<1>0. /\ TypeOK /\ req \in [Slots -> Handlers] /\ FewPayments
      /\ Rider \in Users /\ Driver \in Users /\ Rider # Driver
  BY WalletAssumption DEF Backed, TypeOK, Handlers, Ledger, WalletAssumption
<1>1. \A v \in Users : Due(v) \in Int /\ balance[v] \in Int
  BY <1>0, TermsTyped, DueTyped
<1>2. /\ h("ride_saveDriver").pc = "ride_saveDriver" /\ h("ride_saveDriver").other = req[s].other
      /\ h("ride_save").pc = "ride_save"
      /\ r.pc = "ride_driver" /\ r.seen = balance[Rider]
      /\ d.pc = "ride_saveRider" /\ d.seen = req[s].seen /\ d.other = balance[Driver]
  BY <1>0 DEF Handlers, PC
<1>. HIDE DEF h, r, d
<1>3. UNCHANGED payment => FewPayments' /\ \A v \in Users : Lower(v)' = Lower(v)
  BY <1>0, PaymentsKept
<1>4. CASE RideRider(s)
  <2>1. /\ req[s].pc = "ride_rider" /\ Resume(s, r)
        /\ UNCHANGED <<payment, balance, claimed, adjusted, ad, verified, plan, bought, ride, badge>>
    BY <1>4 DEF RideRider, payments, charges, others, r
  <2>2. ~overlapped => Certain(s)'
    <3>1. req'[s] = r
      BY <1>0, <2>1 DEF Resume
    <3>2. ~overlapped => ride = "in_progress"
      BY <2>1, LedgerNow DEF Certain
    <3>. QED
      BY <1>2, <2>1, <3>1, <3>2 DEF Certain, TopupPcs, CardPcs
  <2>. QED
    BY <1>2, <2>1, <2>2, LedgerOn
<1>5. CASE RideDriver(s)
  <2>1. /\ req[s].pc = "ride_driver" /\ Resume(s, d)
        /\ UNCHANGED <<payment, balance, claimed, adjusted, ad, verified, plan, bought, ride, badge>>
    BY <1>5 DEF RideDriver, payments, charges, others, d
  <2>2. ~overlapped => Certain(s)'
    <3>1. req'[s] = d
      BY <1>0, <2>1 DEF Resume
    <3>2. ~overlapped => ride = "in_progress" /\ req[s].seen = balance[Rider]
      BY <2>1, LedgerNow DEF Certain
    <3>. QED
      BY <1>2, <2>1, <3>1, <3>2 DEF Certain, TopupPcs, CardPcs
  <2>. QED
    BY <1>2, <2>1, <2>2, LedgerOn
<1>6. CASE RideSaveRider(s)
  <2>1. /\ req[s].pc = "ride_saveRider" /\ Resume(s, h("ride_saveDriver"))
        /\ balance' = [balance EXCEPT ![Rider] = req[s].seen - Price["fare"]]
        /\ UNCHANGED <<claimed, payment, ad, badge, verified, adjusted, plan, bought, ride>>
    BY <1>6 DEF RideSaveRider, Goto, SaveBalance, payments, charges, others, h
  <2>2. ~overlapped => /\ ride = "in_progress" /\ req[s].seen = balance[Rider]
                       /\ req[s].other = balance[Driver]
    BY <2>1, LedgerNow DEF Certain
  <2>3. ASSUME NEW v \in Users, ~overlapped
        PROVE  /\ Due(v)' \in Int /\ balance'[v] = Due(v)' + Flight(h("ride_saveDriver"), v)
               /\ v = Rider \/ balance'[v] = balance[v]
    <3>1. balance'[v] = IF v = Rider THEN balance[v] - Price["fare"] ELSE balance[v]
      BY <1>0, <2>1, <2>2, <2>3 DEF TypeOK
    <3>2. Flight(req[s], v) = 0 /\ balance[v] = Due(v) + Flight(req[s], v)
      BY <2>1, <2>3, LedgerNow, FlightTyped
    <3>3. Flight(h("ride_saveDriver"), v) = IF v = Rider THEN -Price["fare"] ELSE 0
      BY <1>2 DEF Flight
    <3>4. Due(v)' = Due(v)
      BY <2>1, DueKept
    <3>. QED
      BY <1>1, <3>1, <3>2, <3>3, <3>4, PriceTyped
  <2>4. ~overlapped => Certain(s)'
    <3>1. req'[s] = h("ride_saveDriver") /\ balance'[Driver] = balance[Driver]
      BY <1>0, <2>1 DEF Resume, TypeOK
    <3>. QED
      BY <1>2, <2>1, <2>2, <3>1 DEF Certain, TopupPcs, CardPcs
  <2>. QED
    BY <1>2, <1>3, <2>1, <2>3, <2>4, LedgerNow, LedgerResume
<1>7. CASE RideSaveDriver(s)
  <2>1. /\ req[s].pc = "ride_saveDriver" /\ Resume(s, h("ride_save"))
        /\ balance' = [balance EXCEPT ![Driver] = req[s].other + Price["earnings"]]
        /\ UNCHANGED <<claimed, payment, ad, badge, verified, adjusted, plan, bought, ride>>
    BY <1>7 DEF RideSaveDriver, Goto, SaveBalance, payments, charges, others, h
  <2>2. ~overlapped => ride = "in_progress" /\ req[s].other = balance[Driver]
    BY <2>1, LedgerNow DEF Certain
  <2>3. ASSUME NEW v \in Users, ~overlapped
        PROVE  /\ Due(v)' \in Int /\ balance'[v] = Due(v)' + Flight(h("ride_save"), v)
               /\ balance'[v] >= balance[v]
    <3>1. balance'[v] = IF v = Driver THEN balance[v] + Price["earnings"] ELSE balance[v]
      BY <1>0, <2>1, <2>2, <2>3 DEF TypeOK
    <3>2. /\ balance[v] = Due(v) + Flight(req[s], v)
          /\ Flight(req[s], v) = IF v = Rider THEN -Price["fare"] ELSE 0
      BY <2>1, <2>3, LedgerNow DEF Flight
    <3>3. Flight(h("ride_save"), v) = IF v = Rider THEN -Price["fare"]
                                      ELSE IF v = Driver THEN Price["earnings"] ELSE 0
      BY <1>0, <1>2 DEF Flight
    <3>4. Due(v)' = Due(v)
      BY <2>1, DueKept
    <3>. QED
      BY <1>0, <1>1, <3>1, <3>2, <3>3, <3>4, PriceTyped
  <2>4. ~overlapped => Certain(s)'
    <3>1. req'[s] = h("ride_save")
      BY <1>0, <2>1 DEF Resume
    <3>. QED
      BY <1>2, <2>1, <2>2, <3>1 DEF Certain, TopupPcs, CardPcs
  <2>5. ASSUME NEW v \in Users, ~overlapped
        PROVE  plan'[v] \/ balance'[v] >= 0 \/ v = Rider \/ Lower(v)'
    <3>1. plan[v] \/ balance[v] >= 0 \/ v = Rider \/ Lower(v)
      BY <2>1, <2>5, LedgerNow
    <3>3. Lower(v)' = Lower(v)
      BY <2>1, PaymentsKept DEF Ledger
    <3>2. balance'[v] \in Int
      BY <1>0, <1>1, <2>1, <2>2, <2>5, PriceTyped DEF TypeOK
    <3>. QED
      BY <1>1, <2>1, <2>3, <2>5, <3>1, <3>2, <3>3
  <2>. QED
    BY <1>2, <1>3, <2>1, <2>3, <2>4, <2>5, LedgerNow, LedgerResume
<1>8. CASE RideSave(s)
  <2>1. /\ req[s].pc = "ride_save" /\ Return(s) /\ ride' = "completed"
        /\ UNCHANGED <<balance, claimed, payment, ad, badge, verified, adjusted, plan, bought>>
    BY <1>8 DEF RideSave, payments, charges
  <2>2. ~overlapped => ride = "in_progress"
    BY <2>1, LedgerNow DEF Certain
  <2>3. ASSUME NEW v \in Users, ~overlapped
        PROVE  Due(v)' \in Int /\ balance'[v] = Due(v)'
    <3>1. /\ balance[v] = Due(v) + Flight(req[s], v)
          /\ Flight(req[s], v) = IF v = Rider THEN -Price["fare"]
                                 ELSE IF v = Driver THEN Price["earnings"] ELSE 0
      BY <1>0, <2>1, <2>3, LedgerNow DEF Flight
    <3>2. Due(v)' = Due(v) - If(v = Rider, "fare") + If(v = Driver, "earnings")
      BY <1>0, <2>1, <2>2, <2>3, DueBy
    <3>. QED
      BY <1>0, <1>1, <2>1, <3>1, <3>2, PriceTyped DEF If
  <2>. QED
    BY <1>3, <2>1, <2>3, LedgerNow, LedgerReturn
<1>. QED
  BY <1>4, <1>5, <1>6, <1>7, <1>8

-----------------------------------------------------------------------------
(* Payments *)

LEMMA FewMore ==
  ASSUME FewPayments, NEW t \in Payments, \A r \in Payments \ {t} : payment'[r] = payment[r]
  PROVE  FewPayments'
<1>1. IsFiniteSet({r \in Payments : payment[r] # NoPayment} \cup {t})
  BY FS_AddElement DEF FewPayments
<1>2. {r \in Payments : payment'[r] # NoPayment}
        \subseteq {r \in Payments : payment[r] # NoPayment} \cup {t}
  OBVIOUS
<1>. QED
  BY <1>1, <1>2, FS_Subset DEF FewPayments

\* A payment that is not settled, before the step and after it, is not due.
LEMMA DueOpen ==
  ASSUME Backed, Logged, FewPayments, NEW t \in Payments,
         \A r \in Payments \ {t} : payment'[r] = payment[r],
         payment[t].status \notin Final, payment'[t].status \notin Final,
         UNCHANGED <<claimed, adjusted, ad, verified, plan, bought, ride>>
  PROVE  FewPayments' /\ \A v \in Users : Due(v)' = Due(v) /\ Lower(v)' = Lower(v)
<1>1. ASSUME NEW v \in Users PROVE Due(v)' = Due(v) /\ Lower(v)' = Lower(v)
  <2>1. t \notin SettledOf(v) /\ t \notin SettledOf(v)'
    BY DEF SettledOf, Final
  <2>2. ToppedUp(v)' = ToppedUp(v) /\ Lower(v)' = Lower(v)
    BY <2>1, NotSettled DEF Backed
  <2>3. ToppedUp(v) \in Int /\ Due(v) \in Int
    BY TermsTyped, DueTyped
  <2>4. Due(v)' = Due(v) + ToppedUp(v)' - ToppedUp(v)
    BY <2>2, <2>3, DueBy
  <2>. QED
    BY <2>2, <2>3, <2>4
<1>. QED
  BY <1>1, FewMore

\* What the status and the amount of a payment that exists are set to.
LEMMA StatusSet ==
  ASSUME TypeOK, NEW t \in Payments, payment[t] # NoPayment, NEW amount, NEW st,
         payment' = [payment EXCEPT ![t].amount = amount, ![t].status = st]
  PROVE  /\ payment'[t].status = st /\ payment'[t].user = payment[t].user
         /\ payment'[t].amount = amount
         /\ \A r \in Payments \ {t} : payment'[r] = payment[r]
<1>1. payment[t] \in Transactions
  BY DEF TypeOK
<1>2. payment'[t] = [payment[t] EXCEPT !.amount = amount, !.status = st]
  BY DEF TypeOK
<1>3. /\ payment'[t].status = st /\ payment'[t].user = payment[t].user
      /\ payment'[t].amount = amount
  BY <1>1, <1>2 DEF Transactions
<1>. QED
  BY <1>3 DEF TypeOK

\* The amount is the one it has.
LEMMA StatusOnly ==
  ASSUME TypeOK, NEW t \in Payments, payment[t] # NoPayment, NEW st,
         payment' = [payment EXCEPT ![t].amount = payment[t].amount, ![t].status = st]
  PROVE  /\ payment'[t].status = st /\ payment'[t].user = payment[t].user
         /\ payment'[t].amount = payment[t].amount
         /\ \A r \in Payments \ {t} : payment'[r] = payment[r]
<1>1. payment[t] \in Transactions
  BY DEF TypeOK
<1>2. payment'[t] = [payment[t] EXCEPT !.amount = payment[t].amount, !.status = st]
  BY DEF TypeOK
<1>3. /\ payment'[t].status = st /\ payment'[t].user = payment[t].user
      /\ payment'[t].amount = payment[t].amount
  BY <1>1, <1>2 DEF Transactions
<1>. QED
  BY <1>3 DEF TypeOK

\* A payment that is settled is due to the user who has made it.
LEMMA DueSettled ==
  ASSUME Backed, Logged, FewPayments, NEW t \in Payments, payment[t] # NoPayment,
         payment[t].status \notin Final, NEW st \in Final, NEW amount \in Int,
         payment' = [payment EXCEPT ![t].amount = amount, ![t].status = st],
         UNCHANGED <<claimed, adjusted, ad, verified, plan, bought, ride>>
  PROVE  /\ FewPayments'
         /\ \A v \in Users :
              /\ Due(v)' = Due(v) + (IF v = payment[t].user THEN amount ELSE 0)
              /\ Lower(v)' <=> Lower(v) \/ (v = payment[t].user /\ amount < 0)
<1>1. /\ payment'[t].status = st /\ payment'[t].user = payment[t].user
      /\ payment'[t].amount = amount
      /\ \A r \in Payments \ {t} : payment'[r] = payment[r]
  BY StatusSet DEF Backed
<1>2. ASSUME NEW v \in Users
      PROVE  /\ Due(v)' = Due(v) + (IF v = payment[t].user THEN amount ELSE 0)
             /\ Lower(v)' <=> Lower(v) \/ (v = payment[t].user /\ amount < 0)
  <2>1. ToppedUp(v) \in Int /\ Due(v) \in Int /\ TypeOK /\ t \notin SettledOf(v)
    BY TermsTyped, DueTyped DEF Backed, SettledOf, Final
  <2>2. CASE v # payment[t].user
    <3>1. t \notin SettledOf(v)'
      BY <1>1, <2>2 DEF SettledOf
    <3>2. ToppedUp(v)' = ToppedUp(v) /\ Lower(v)' = Lower(v)
      BY <1>1, <2>1, <3>1, NotSettled
    <3>3. Due(v)' = Due(v) + ToppedUp(v)' - ToppedUp(v)
      BY <2>1, <3>2, DueBy
    <3>. QED
      BY <2>1, <2>2, <3>2, <3>3
  <2>3. CASE v = payment[t].user
    <3>1. ToppedUp(v)' = ToppedUp(v) + amount /\ (Lower(v)' <=> Lower(v) \/ amount < 0)
      BY <1>1, <2>1, <2>3, NowSettled
    <3>2. ToppedUp(v)' \in Int
      BY <2>1, <3>1
    <3>3. Due(v)' = Due(v) + ToppedUp(v)' - ToppedUp(v)
      BY <3>2, DueBy
    <3>. QED
      BY <2>1, <2>3, <3>1, <3>3
  <2>. QED
    BY <2>2, <2>3
<1>. QED
  BY <1>1, <1>2, FewMore

LEMMA DueMarked ==
  ASSUME Backed, Logged, FewPayments, NEW t \in Payments, payment[t] # NoPayment,
         payment[t].status \notin Final, NEW st \in Final, payment[t].amount \in Int,
         payment' = [payment EXCEPT ![t].amount = payment[t].amount, ![t].status = st],
         UNCHANGED <<claimed, adjusted, ad, verified, plan, bought, ride>>
  PROVE  \A v \in Users :
           /\ Due(v)' = Due(v) + (IF v = payment[t].user THEN payment[t].amount ELSE 0)
           /\ Lower(v) => Lower(v)'
<1>. PICK amount \in Int : amount = payment[t].amount
  OBVIOUS
<1>1. payment' = [payment EXCEPT ![t].amount = amount, ![t].status = st]
  OBVIOUS
<1>2. \A v \in Users :
        /\ Due(v)' = Due(v) + (IF v = payment[t].user THEN amount ELSE 0)
        /\ Lower(v)' <=> Lower(v) \/ (v = payment[t].user /\ amount < 0)
  BY <1>1, DueSettled
<1>. QED
  BY <1>2

\* What the handler of a payment knows when it is alone.
LEMMA PaymentNow ==
  ASSUME Ledger, Backed, NEW s \in Slots,
         req[s].pc \in {"push_create"} \cup TopupPcs \cup CardPcs
  PROVE  LET t == req[s].doc
         IN /\ t \in Payments /\ req[s].user \in Users /\ req[s].pc # "idle"
            /\ req[s].pc # "push_create" =>
                 payment[t] # NoPayment /\ payment[t].user = req[s].user
            /\ req[s].pc \in TopupPcs /\ ~overlapped => payment[t].status \notin Final
            /\ req[s].pc \in CardPcs /\ ~overlapped =>
                 payment[t].status =
                   IF req[s].pc = "card_settle" /\ req[s].done = {"mark"} THEN "SUCCESS"
                   ELSE "PENDING"
            /\ req[s].pc \in CardPcs => payment[t].amount = Price["card"]
            /\ req[s].pc = "card_settle" => req[s].done \in {{}, {"mark"}, {"credit"}}
<1>. DEFINE t == req[s].doc
<1>1. Knows(s) /\ req[s].pc # "idle" /\ TypeOK
  BY DEF Backed, TopupPcs, CardPcs
<1>2. t \in Payments /\ req[s].user \in Users
  BY <1>1 DEF Knows, OwnerPcs
<1>3. req[s].pc # "push_create" =>
        /\ payment[t] # NoPayment /\ payment[t].user = req[s].user
        /\ req[s].pc \in TopupPcs => payment[t].provider = "mpesa"
  BY <1>1 DEF Knows, NoPayment, Transaction
<1>4. ~overlapped => Certain(s)
  BY <1>1, LedgerNow
<1>5. req[s].pc \in TopupPcs /\ ~overlapped => payment[t].status \notin Final
  <2>. SUFFICES ASSUME req[s].pc \in TopupPcs, ~overlapped PROVE payment[t].status \notin Final
    OBVIOUS
  <2>1. payment[t] # NoPayment /\ payment[t].provider = "mpesa"
    BY <1>3 DEF TopupPcs
  <2>2. payment[t] \in Transactions
    BY <1>1, <1>2, <2>1 DEF TypeOK
  <2>3. payment[t].status \in MpesaStatus
    BY <2>1, <2>2 DEF Transactions
  <2>. QED
    BY <1>4, <2>3 DEF Certain, MpesaStatus, Final
<1>. QED
  BY <1>1, <1>2, <1>3, <1>4, <1>5 DEF Certain, Knows

\* A handler of a payment that ends having settled nothing.
LEMMA LedgerOpen ==
  ASSUME Ledger, Backed, Logged, NEW s \in Slots,
         req[s].pc \in {"push_create", "topup_fail", "card_fail"}, Return(s),
         UNCHANGED <<balance, claimed, adjusted, ad, verified, plan, bought, ride, badge>>,
         \A r \in Payments \ {req[s].doc} : payment'[r] = payment[r],
         ~overlapped => /\ payment[req[s].doc].status \notin Final
                        /\ payment'[req[s].doc].status \notin Final
  PROVE  Ledger'
<1>. DEFINE t == req[s].doc
<1>1. t \in Payments /\ req[s].pc # "idle" /\ FewPayments
  BY PaymentNow DEF TopupPcs, CardPcs, Ledger
<1>2. FewPayments'
  BY <1>1, FewMore
<1>3. ASSUME NEW v \in Users, ~overlapped
      PROVE  Due(v)' \in Int /\ balance'[v] = Due(v)' /\ Lower(v)' = Lower(v)
  <2>1. Due(v)' = Due(v) /\ Lower(v)' = Lower(v)
    BY <1>1, <1>3, DueOpen
  <2>2. Due(v) \in Int /\ Flight(req[s], v) = 0
    BY <1>1, DueTyped, FlightTyped
  <2>3. balance[v] = Due(v) + Flight(req[s], v)
    BY <1>1, <1>3, LedgerNow
  <2>. QED
    BY <2>1, <2>2, <2>3
<1>4. ~overlapped =>
        \A v \in Users :
          /\ plan[v] \/ balance[v] >= 0 \/ Lower(v) \/ (v = Rider /\ ride = "completed")
          /\ verified[v] => badge[v] = "APPROVED"
  BY <1>1, LedgerNow
<1>. QED
  BY <1>1, <1>2, <1>3, <1>4, LedgerReturn

LEMMA LedgerTopups ==
  ASSUME Ledger, Backed, Logged, NEW s \in Slots,
         \/ PushCreate(s) \/ TopupFail(s) \/ TopupCredit(s) \/ TopupMark(s) \/ CardFail(s)
  PROVE  Ledger'
<1>. DEFINE t == req[s].doc
            u == req[s].user
            h == [req[s] EXCEPT !.pc = "topup_mark"]
<1>0. TypeOK /\ req \in [Slots -> Handlers] /\ FewPayments
  BY DEF Backed, TypeOK, Handlers, Ledger
<1>1. \A v \in Users : Due(v) \in Int /\ balance[v] \in Int
  BY <1>0, TermsTyped, DueTyped
<1>2. h.pc = "topup_mark" /\ h.user = u /\ h.doc = t /\ h.seen = req[s].seen
      /\ req[s].seen \in Int
  BY <1>0 DEF Handlers, PC
<1>. HIDE DEF h
<1>3. CASE PushCreate(s)
  <2>1. /\ req[s].pc = "push_create" /\ Return(s)
        /\ payment' = [payment EXCEPT ![t] = Transaction("mpesa", u, Price["mpesa"], "Pending")]
        /\ UNCHANGED <<balance, claimed, adjusted, ad, verified, plan, bought, ride, badge>>
    BY <1>3 DEF PushCreate, charges, others
  <2>2. t \in Payments /\ payment[t] = NoPayment
    BY <1>0, <2>1 DEF Backed, Knows, OwnerPcs
  <2>3. /\ \A r \in Payments \ {t} : payment'[r] = payment[r]
        /\ payment[t].status = "none" /\ payment'[t].status = "Pending"
    BY <1>0, <2>1, <2>2 DEF TypeOK, NoPayment, Transaction
  <2>. QED
    BY <2>1, <2>3, LedgerOpen DEF Final
<1>4. CASE TopupFail(s) \/ CardFail(s)
  <2>1. PICK st \in {"Failed", "FAILED"} :
          /\ payment' = [payment EXCEPT ![t].amount = payment[t].amount, ![t].status = st]
          /\ Resume(s, Idle) /\ req[s].pc \in {"topup_fail", "card_fail"}
          /\ UNCHANGED <<balance, claimed, adjusted, ad, verified, plan, bought, ride, badge>>
    BY <1>4 DEF TopupFail, CardFail, SetStatus, SetPayment, charges, others
  <2>2. /\ t \in Payments /\ payment[t] # NoPayment
        /\ ~overlapped => payment[t].status \notin Final
    BY <2>1, PaymentNow DEF TopupPcs, CardPcs, Final
  <2>3. /\ \A r \in Payments \ {t} : payment'[r] = payment[r]
        /\ payment'[t].status \notin Final
    BY <1>0, <2>1, <2>2, StatusOnly DEF Final
  <2>. QED
    BY <2>1, <2>2, <2>3, LedgerOpen DEF Return
<1>5. CASE TopupCredit(s)
  <2>1. /\ req[s].pc = "topup_credit" /\ Resume(s, h)
        /\ balance' = [balance EXCEPT ![u] = @ + req[s].seen]
        /\ UNCHANGED <<payment, claimed, adjusted, ad, verified, plan, bought, ride, badge>>
    BY <1>5 DEF TopupCredit, Credit, Inc, charges, others, h
  <2>2. u \in Users /\ (~overlapped => payment[t].status \notin Final)
    BY <2>1, PaymentNow DEF TopupPcs
  <2>3. ASSUME NEW v \in Users, ~overlapped
        PROVE  /\ Due(v)' \in Int /\ balance'[v] = Due(v)' + Flight(h, v)
               /\ balance[v] >= 0 => balance'[v] >= 0 \/ (v = u /\ h.seen < 0)
    <3>1. balance'[v] = IF v = u THEN balance[v] + h.seen ELSE balance[v]
      BY <1>0, <1>2, <2>1 DEF TypeOK
    <3>2. Flight(req[s], v) = 0 /\ balance[v] = Due(v) + Flight(req[s], v)
      BY <2>1, <2>3, LedgerNow, FlightTyped
    <3>3. Flight(h, v) = IF v = u THEN h.seen ELSE 0
      BY <1>2 DEF Flight
    <3>4. Due(v)' = Due(v)
      BY <2>1, DueKept
    <3>. QED
      BY <1>1, <1>2, <3>1, <3>2, <3>3, <3>4
  <2>4. ~overlapped => Certain(s)'
    <3>1. req'[s] = h
      BY <1>0, <2>1 DEF Resume
    <3>. QED
      BY <1>2, <2>1, <2>2, <3>1 DEF Certain, TopupPcs, CardPcs, Final
  <2>5. FewPayments' /\ \A v \in Users : Lower(v)' = Lower(v)
    BY <1>0, <2>1, PaymentsKept
  <2>. QED
    BY <1>2, <2>1, <2>3, <2>4, <2>5, LedgerNow, LedgerResume
<1>6. CASE TopupMark(s)
  <2>1. /\ req[s].pc = "topup_mark" /\ Return(s)
        /\ payment' = [payment EXCEPT ![t].amount = req[s].seen, ![t].status = "Completed"]
        /\ UNCHANGED <<balance, claimed, adjusted, ad, verified, plan, bought, ride, badge>>
    BY <1>6 DEF TopupMark, SetPayment, Return, charges, others
  <2>2. /\ t \in Payments /\ payment[t] # NoPayment /\ payment[t].user = u
        /\ ~overlapped => payment[t].status \notin Final
    BY <2>1, PaymentNow DEF TopupPcs
  <2>3. FewPayments'
    <3>1. \A r \in Payments \ {t} : payment'[r] = payment[r]
      BY <1>0, <2>1, <2>2, StatusSet
    <3>. QED
      BY <1>0, <2>2, <3>1, FewMore
  <2>4. ASSUME NEW v \in Users, ~overlapped
        PROVE  /\ Due(v)' \in Int /\ balance'[v] = Due(v)'
               /\ Lower(v) \/ (v = u /\ req[s].seen < 0) => Lower(v)'
    <3>1. balance[v] = Due(v) + Flight(req[s], v)
      BY <2>1, <2>4, LedgerNow
    <3>2. Flight(req[s], v) = IF v = u THEN req[s].seen ELSE 0
      BY <2>1 DEF Flight
    <3>3. /\ Due(v)' = Due(v) + (IF v = payment[t].user THEN req[s].seen ELSE 0)
          /\ Lower(v)' <=> Lower(v) \/ (v = payment[t].user /\ req[s].seen < 0)
      BY <1>0, <1>2, <2>1, <2>2, <2>4, DueSettled DEF Final
    <3>. QED
      BY <1>1, <1>2, <2>1, <2>2, <3>1, <3>2, <3>3
  <2>. QED
    BY <2>1, <2>3, <2>4, LedgerNow, LedgerReturn
<1>. QED
  BY <1>3, <1>4, <1>5, <1>6

LEMMA LedgerCards ==
  ASSUME Ledger, Backed, Logged, NEW s \in Slots,
         \/ CardCharge(s) \/ CardMark(s) \/ CardCredit(s)
  PROVE  Ledger'
<1>. DEFINE t == req[s].doc
            u == req[s].user
            h(pc) == [req[s] EXCEPT !.pc = pc]
            m(branch) == [req[s] EXCEPT !.done = {branch}]
<1>0. TypeOK /\ req \in [Slots -> Handlers] /\ FewPayments
  BY DEF Backed, TypeOK, Handlers, Ledger
<1>1. \A v \in Users : Due(v) \in Int /\ balance[v] \in Int
  BY <1>0, TermsTyped, DueTyped
<1>2. /\ \A pc \in {"card_settle", "card_fail"} :
           h(pc).pc = pc /\ h(pc).doc = t /\ h(pc).done = req[s].done
      /\ \A branch \in {"mark", "credit"} :
           /\ m(branch).pc = req[s].pc /\ m(branch).user = u /\ m(branch).doc = t
           /\ m(branch).done = {branch}
  BY <1>0 DEF Handlers, PC
<1>. HIDE DEF h, m
<1>3. CASE CardCharge(s)
  <2>1. PICK pc \in {"card_settle", "card_fail"} :
          /\ req[s].pc = "card_charge" /\ Resume(s, h(pc))
          /\ UNCHANGED <<payment, balance, claimed, adjusted, ad, verified, plan, bought, ride, badge>>
    BY <1>3 DEF CardCharge, Hear, Goto, charges, others, h
  <2>2. req'[s] = h(pc) /\ h(pc).pc = pc /\ h(pc).doc = t /\ h(pc).done = {}
    BY <1>0, <1>2, <2>1 DEF Resume, Backed, Knows
  <2>3. ~overlapped => payment[t].status = "PENDING"
    BY <2>1, PaymentNow DEF CardPcs
  <2>4. ~overlapped => Certain(s)'
    BY <2>1, <2>2, <2>3 DEF Certain, TopupPcs, CardPcs
  <2>6. CASE pc = "card_fail"
    BY <2>1, <2>2, <2>4, <2>6, LedgerOn
  <2>7. CASE pc = "card_settle"
    <3>1. ASSUME NEW v \in Users, ~overlapped
          PROVE  Due(v)' \in Int /\ balance'[v] = Due(v)' + Flight(h(pc), v)
      <4>1. Flight(req[s], v) = 0 /\ balance[v] = Due(v) + Flight(req[s], v)
        BY <2>1, <3>1, LedgerNow, FlightTyped
      <4>2. Flight(h(pc), v) = 0
        BY <2>2, <2>7 DEF Flight
      <4>3. Due(v)' = Due(v)
        BY <2>1, DueKept
      <4>. QED
        BY <1>1, <2>1, <4>1, <4>2, <4>3
    <3>2. FewPayments' /\ \A v \in Users : Lower(v)' = Lower(v)
      BY <1>0, <2>1, PaymentsKept
    <3>. QED
      BY <2>1, <2>2, <2>4, <2>7, <3>1, <3>2, LedgerNow, LedgerResume
  <2>. QED
    BY <2>6, <2>7
<1>4. CASE CardMark(s)
  <2>1. /\ req[s].pc = "card_settle" /\ req[s].done \in {{}, {"credit"}}
        /\ payment' = [payment EXCEPT ![t].amount = payment[t].amount, ![t].status = "SUCCESS"]
        /\ UNCHANGED <<balance, claimed, adjusted, ad, verified, plan, bought, ride, badge>>
    <3>1. req[s].pc = "card_settle" /\ "mark" \notin req[s].done
      BY <1>4 DEF CardMark, SetStatus, SetPayment
    <3>2. req[s].done \in {{}, {"mark"}, {"credit"}}
      BY <3>1, PaymentNow DEF CardPcs
    <3>. QED
      BY <1>4, <3>1, <3>2 DEF CardMark, SetStatus, SetPayment, charges, others
  <2>2. /\ req[s].done = {} => Resume(s, m("mark"))
        /\ req[s].done # {} => Return(s)
    BY <1>4 DEF CardMark, SetStatus, SetPayment, Settled, Return, m
  <2>3. /\ t \in Payments /\ payment[t] # NoPayment /\ payment[t].user = u /\ u \in Users
        /\ payment[t].amount = Price["card"]
        /\ ~overlapped => payment[t].status \notin Final
    BY <2>1, PaymentNow DEF CardPcs, Final
  <2>4. payment'[t].status = "SUCCESS" /\ FewPayments'
    <3>1. /\ payment'[t].status = "SUCCESS"
          /\ \A r \in Payments \ {t} : payment'[r] = payment[r]
      BY <1>0, <2>1, <2>3, StatusOnly
    <3>. QED
      BY <1>0, <2>3, <3>1, FewMore
  <2>5. ASSUME NEW v \in Users, ~overlapped
        PROVE  /\ Due(v)' \in Int /\ Due(v)' = Due(v) + (IF v = u THEN Price["card"] ELSE 0)
               /\ balance[v] = Due(v) + Flight(req[s], v) /\ (Lower(v) => Lower(v)')
    <3>0. payment[t].amount \in Int /\ payment[t].status \notin Final /\ "SUCCESS" \in Final
      BY <2>3, <2>5, PriceTyped DEF Final
    <3>1. /\ Due(v)' = Due(v) + (IF v = payment[t].user THEN payment[t].amount ELSE 0)
          /\ Lower(v) => Lower(v)'
      BY <1>0, <2>1, <2>3, <3>0, DueMarked
    <3>. QED
      BY <1>1, <2>1, <2>3, <2>5, <3>1, LedgerNow, PriceTyped
  <2>6. CASE req[s].done = {}
    <3>1. m("mark").pc = "card_settle" /\ m("mark").user = u /\ m("mark").doc = t
          /\ m("mark").done = {"mark"}
      BY <1>2, <2>1
    <3>2. Resume(s, m("mark")) /\ req'[s] = m("mark")
      BY <1>0, <2>2, <2>6 DEF Resume
    <3>3. Certain(s)'
      BY <2>4, <3>1, <3>2 DEF Certain, TopupPcs, CardPcs
    <3>4. ASSUME NEW v \in Users, ~overlapped
          PROVE  Due(v)' \in Int /\ balance'[v] = Due(v)' + Flight(m("mark"), v)
      <4>1. Flight(req[s], v) = 0
        BY <2>1, <2>6 DEF Flight
      <4>2. Flight(m("mark"), v) = IF v = u THEN -Price["card"] ELSE 0
        BY <3>1 DEF Flight
      <4>. QED
        BY <1>1, <2>1, <2>5, <3>4, <4>1, <4>2, PriceTyped
    <3>. QED
      BY <2>1, <2>4, <2>5, <3>1, <3>2, <3>3, <3>4, LedgerNow, LedgerResume
  <2>7. CASE req[s].done = {"credit"}
    <3>1. Return(s)
      BY <2>2, <2>7
    <3>2. ASSUME NEW v \in Users, ~overlapped PROVE Due(v)' \in Int /\ balance'[v] = Due(v)'
      <4>1. Flight(req[s], v) = IF v = u THEN Price["card"] ELSE 0
        BY <2>1, <2>7 DEF Flight
      <4>. QED
        BY <1>1, <2>1, <2>5, <3>2, <4>1, PriceTyped
    <3>. QED
      BY <2>1, <2>4, <2>5, <3>1, <3>2, LedgerNow, LedgerReturn
  <2>. QED
    BY <2>1, <2>6, <2>7
<1>5. CASE CardCredit(s)
  <2>1. /\ req[s].pc = "card_settle" /\ req[s].done \in {{}, {"mark"}}
        /\ balance' = [balance EXCEPT ![u] = @ + Price["card"]]
        /\ UNCHANGED <<payment, claimed, adjusted, ad, verified, plan, bought, ride, badge>>
    <3>1. req[s].pc = "card_settle" /\ "credit" \notin req[s].done
      BY <1>5 DEF CardCredit
    <3>2. req[s].done \in {{}, {"mark"}, {"credit"}}
      BY <3>1, PaymentNow DEF CardPcs
    <3>. QED
      BY <1>5, <3>1, <3>2 DEF CardCredit, Credit, Inc, charges, others
  <2>2. /\ req[s].done = {} => Resume(s, m("credit"))
        /\ req[s].done # {} => Return(s)
    BY <1>5 DEF CardCredit, Credit, Settled, Return, m
  <2>3. FewPayments' /\ \A v \in Users : Lower(v)' = Lower(v)
    BY <1>0, <2>1, PaymentsKept
  <2>4. ASSUME NEW v \in Users, ~overlapped
        PROVE  /\ Due(v)' \in Int /\ Due(v)' = Due(v) /\ balance[v] = Due(v) + Flight(req[s], v)
               /\ balance'[v] = balance[v] + (IF v = u THEN Price["card"] ELSE 0)
               /\ balance[v] >= 0 => balance'[v] >= 0
    <3>1. balance'[v] = IF v = u THEN balance[v] + Price["card"] ELSE balance[v]
      BY <1>0, <2>1 DEF TypeOK
    <3>2. Due(v)' = Due(v) /\ balance[v] = Due(v) + Flight(req[s], v)
      BY <2>1, <2>4, DueKept, LedgerNow
    <3>. QED
      BY <1>1, <3>1, <3>2, PriceTyped
  <2>5. CASE req[s].done = {}
    <3>1. m("credit").pc = "card_settle" /\ m("credit").user = u /\ m("credit").doc = t
          /\ m("credit").done = {"credit"}
      BY <1>2, <2>1
    <3>2. Resume(s, m("credit")) /\ req'[s] = m("credit")
      BY <1>0, <2>2, <2>5 DEF Resume
    <3>3. ~overlapped => Certain(s)'
      <4>1. ~overlapped => payment[t].status = "PENDING"
        BY <2>1, <2>5, PaymentNow DEF CardPcs
      <4>. QED
        BY <2>1, <3>1, <3>2, <4>1 DEF Certain, TopupPcs, CardPcs
    <3>4. ASSUME NEW v \in Users, ~overlapped
          PROVE  Due(v)' \in Int /\ balance'[v] = Due(v)' + Flight(m("credit"), v)
      <4>1. Flight(req[s], v) = 0
        BY <2>1, <2>5 DEF Flight
      <4>2. Flight(m("credit"), v) = IF v = u THEN Price["card"] ELSE 0
        BY <3>1 DEF Flight
      <4>. QED
        BY <1>1, <2>4, <3>4, <4>1, <4>2, PriceTyped
    <3>. QED
      BY <2>1, <2>3, <2>4, <3>1, <3>2, <3>3, <3>4, LedgerNow, LedgerResume
  <2>6. CASE req[s].done = {"mark"}
    <3>1. Return(s)
      BY <2>2, <2>6
    <3>2. ASSUME NEW v \in Users, ~overlapped PROVE Due(v)' \in Int /\ balance'[v] = Due(v)'
      <4>1. Flight(req[s], v) = IF v = u THEN -Price["card"] ELSE 0
        BY <2>1, <2>6 DEF Flight
      <4>. QED
        BY <1>1, <2>4, <3>2, <4>1, PriceTyped
    <3>. QED
      BY <2>1, <2>3, <2>4, <3>1, <3>2, LedgerNow, LedgerReturn
  <2>. QED
    BY <2>1, <2>5, <2>6
<1>. QED
  BY <1>3, <1>4, <1>5

-----------------------------------------------------------------------------
(* A handler begins, and requests that take no slot *)

\* While nothing is in progress the wallets agree with the documents.
LEMMA LedgerQuiet ==
  ASSUME Ledger, ~overlapped, InProgress = {}
  PROVE  \A u \in Users :
           /\ balance[u] = Due(u)
           /\ plan[u] \/ (u = Rider /\ ride = "completed") \/ balance[u] >= 0 \/ Lower(u)
           /\ verified[u] => badge[u] = "APPROVED"
<1>1. \A s \in Slots : req[s].pc = "idle"
  BY DEF InProgress
<1>. QED
  BY <1>1 DEF Ledger, Agrees, Solvent, RidePaid, Badged

\* Where a handler begins.
Starts == {"push_create", "topup_fail", "topup_credit", "card_charge", "gift_add", "subtract",
           "ad_commit", "badge_log", "badge_reject", "plan_save", "book_user", "ride_rider"}

LEMMA LedgerBegin ==
  ASSUME Ledger, Backed, Logged, NEW s \in Slots, NEW h, Begin(s, h), h.pc \in Starts,
         UNCHANGED <<balance, claimed, adjusted, ad, verified, plan, bought, ride, badge>>,
         FewPayments', \A u \in Users : Due(u)' = Due(u) /\ Lower(u)' = Lower(u),
         ~overlapped /\ InProgress = {} => Certain(s)'
  PROVE  Ledger'
<1>. SUFFICES ASSUME ~overlapped'
              PROVE  /\ Alone' /\ \A r \in InProgress' : Certain(r)'
                     /\ \A u \in Users : Agrees(u)' /\ Solvent(u)' /\ Badged(u)'
  BY DEF Ledger
<1>1. ~overlapped /\ InProgress = {}
  BY DEF Begin, Backed, TypeOK
<1>2. req'[s] = h /\ \A r \in Slots \ {s} : req'[r].pc = "idle"
  BY <1>1 DEF Begin, Backed, TypeOK, InProgress
<1>3. InProgress' = {s}
  BY <1>2 DEF InProgress, Starts
<1>4. ASSUME NEW u \in Users PROVE Agrees(u)' /\ Solvent(u)' /\ Badged(u)'
  <2>1. /\ balance[u] = Due(u)
        /\ plan[u] \/ (u = Rider /\ ride = "completed") \/ balance[u] >= 0 \/ Lower(u)
        /\ verified[u] => badge[u] = "APPROVED"
    BY <1>1, LedgerQuiet
  <2>2. Flight(h, u) = 0 /\ Due(u) \in Int
    BY FlightTyped, DueTyped DEF Starts, Ledger
  <2>3. Agrees(u)'
    BY <1>2, <1>3, <2>1, <2>2 DEF Agrees
  <2>. QED
    BY <2>1, <2>3 DEF Solvent, RidePaid, Badged
<1>. QED
  BY <1>1, <1>3, <1>4 DEF Alone

LEMMA LedgerStart ==
  ASSUME Ledger, Backed, Logged, NEW s \in Slots, Start(s)
  PROVE  Ledger'
<1>0. TypeOK /\ req \in [Slots -> Handlers] /\ FewPayments
  BY DEF Backed, TypeOK, Handlers, Ledger
<1>. DEFINE quiet == ~overlapped /\ InProgress = {}
            begins(h) == Begin(s, h) /\ UNCHANGED <<scene, balance, charges, others>>
<1>1. ASSUME NEW h, Begin(s, h) PROVE req'[s] = h
  BY <1>0, <1>1 DEF Begin
<1>2. ASSUME NEW h, begins(h), h.pc \in Starts, UNCHANGED payment, quiet => Certain(s)'
      PROVE  Ledger'
  <2>1. FewPayments' /\ \A v \in Users : Due(v)' = Due(v) /\ Lower(v)' = Lower(v)
    BY <1>0, <1>2, DueKept, PaymentsKept DEF charges, others
  <2>. QED
    BY <1>2, <2>1, LedgerBegin DEF charges, others
<1>3. ASSUME NEW u \in Users, NEW pc \in Starts, begins(For(pc, u)), UNCHANGED payment,
             pc \in {"gift_add", "subtract", "ad_commit", "badge_log", "badge_reject",
                     "book_user", "ride_rider"},
             pc = "gift_add" => ~claimed[u],
             pc = "subtract" => balance[u] >= Price["adjust"],
             pc = "ad_commit" => balance[u] >= Price["ad"],
             pc = "badge_log" => balance[u] >= Price["fee"],
             pc \in {"badge_log", "badge_reject"} => badge[u] = "PENDING",
             pc = "ride_rider" => ride = "in_progress"
      PROVE  Ledger'
  <2>1. For(pc, u).pc = pc /\ For(pc, u).user = u
    BY DEF For
  <2>2. req'[s] = For(pc, u)
    BY <1>1, <1>3
  <2>3. quiet /\ badge[u] = "PENDING" => ~verified[u]
    BY LedgerQuiet
  <2>4. UNCHANGED <<balance, claimed, verified, ride>>
    BY <1>3 DEF charges, others
  <2>5. quiet => Certain(s)'
    BY <1>3, <2>1, <2>2, <2>3, <2>4 DEF Certain, TopupPcs, CardPcs
  <2>. QED
    BY <1>2, <1>3, <2>1, <2>5
<1>4. CASE \E u \in Users : PushAsk(s, u)
  <2>1. PICK u \in Users : PushAsk(s, u)
    BY <1>4
  <2>2. PICK h : h.pc = "push_create" /\ begins(h) /\ UNCHANGED payment
    BY <2>1 DEF PushAsk, For
  <2>3. Certain(s)'
    BY <1>1, <2>2 DEF Certain, TopupPcs, CardPcs
  <2>. QED
    BY <1>2, <2>2, <2>3 DEF Starts
<1>5. ASSUME NEW t \in Payments, Callback(s, t) PROVE Ledger'
  <2>0. PICK result : Hear(t, result) /\ Handle(s, t, result)
    BY <1>5 DEF Callback
  <2>1. PICK h : /\ h.pc \in {"topup_credit", "topup_fail"} /\ h.doc = t
                 /\ begins(h) /\ UNCHANGED payment
    <3>1. CASE Success(result)
      BY <2>0, <3>1 DEF Hear, Handle, For
    <3>2. CASE ~Success(result)
      BY <2>0, <3>2 DEF Hear, Handle, For
    <3>. QED
      BY <3>1, <3>2
  <2>2. payment[t].status # "Completed"
    BY <1>5 DEF Callback
  <2>3. Certain(s)'
    BY <1>1, <2>1, <2>2 DEF Certain, TopupPcs, CardPcs
  <2>. QED
    BY <1>2, <2>1, <2>3 DEF Starts
<1>6. CASE GooglePayController(s)
  <2>1. PICK u \in Users : CardCreate(s, u)
    BY <1>6 DEF GooglePayController
  <2>2. PICK t, h :
          /\ t \in Unused
          /\ payment' = [payment EXCEPT ![t] =
                           Transaction("card", u, Price["card"], "PENDING")]
          /\ h.pc = "card_charge" /\ h.doc = t /\ begins(h)
    BY <2>1 DEF CardCreate, For
  <2>3. t \in Payments /\ payment[t] = NoPayment
    BY <2>2 DEF Unused, Backed, Asked
  <2>4. /\ payment'[t].status = "PENDING" /\ payment[t].status = "none"
        /\ \A r \in Payments \ {t} : payment'[r] = payment[r]
    BY <1>0, <2>2, <2>3 DEF TypeOK, NoPayment, Transaction
  <2>5. UNCHANGED <<balance, claimed, adjusted, ad, verified, plan, bought, ride, badge>>
    BY <2>2 DEF charges, others
  <2>6. FewPayments' /\ \A v \in Users : Due(v)' = Due(v) /\ Lower(v)' = Lower(v)
    BY <1>0, <2>3, <2>4, <2>5, DueOpen DEF Final
  <2>7. Certain(s)'
    BY <1>1, <2>2, <2>4 DEF Certain, TopupPcs, CardPcs
  <2>. QED
    BY <2>2, <2>5, <2>6, <2>7, LedgerBegin DEF Starts
<1>7. CASE PlanRoute(s)
  <2>1. PICK u \in Users : PlanBegin(s, u)
    BY <1>7 DEF PlanRoute
  <2>2. PICK h : /\ h.pc = "plan_save" /\ h.user = u /\ h.seen = balance[u] /\ begins(h)
                 /\ UNCHANGED payment
    BY <2>1 DEF PlanBegin, For, payments
  <2>3. ~plan[u] /\ UNCHANGED <<balance, plan>>
    BY <2>1 DEF PlanBegin, others
  <2>4. Certain(s)'
    BY <1>1, <2>2, <2>3 DEF Certain, TopupPcs, CardPcs
  <2>. QED
    BY <1>2, <2>2, <2>4 DEF Starts
<1>8. CASE AdController(s) \/ BookRoute(s) \/ ProfileController(s)
  BY <1>3, <1>8 DEF AdController, AdBegin, BookRoute, BookBegin, ProfileController, GiftBegin,
     SubtractBegin, payments, Starts
<1>9. CASE RideBegin(s)
  BY <1>3, <1>9, WalletAssumption DEF RideBegin, WalletAssumption, payments, Starts
<1>10. CASE AdminPanelController(s)
  <2>1. PICK u \in Users : ApproveBegin(s, u) \/ RejectBegin(s, u)
    BY <1>10 DEF AdminPanelController
  <2>2. balance[u] < Price["fee"] \/ balance[u] >= Price["fee"]
    BY <1>0, PriceTyped DEF TypeOK
  <2>3. \E pc \in {"badge_log", "badge_reject"} :
          /\ begins(For(pc, u)) /\ UNCHANGED payment /\ badge[u] = "PENDING"
          /\ pc = "badge_log" => balance[u] >= Price["fee"]
    <3>1. CASE balance[u] < Price["fee"] \/ RejectBegin(s, u)
      BY <2>1, <3>1 DEF ApproveBegin, RejectBegin, payments
    <3>2. CASE ~(balance[u] < Price["fee"]) /\ ApproveBegin(s, u)
      BY <2>2, <3>2 DEF ApproveBegin, payments
    <3>. QED
      BY <2>1, <3>1, <3>2
  <2>. QED
    BY <1>3, <2>3 DEF Starts
<1>. QED
  BY <1>4, <1>5, <1>6, <1>7, <1>8, <1>9, <1>10 DEF Start, MpesaController

LEMMA LedgerContinue ==
  ASSUME Ledger, Backed, Logged, NEW s \in Slots, Continue(s)
  PROVE  Ledger'
BY LedgerPlain, LedgerBuys, LedgerRide, LedgerTopups, LedgerCards DEF Continue

\* A step that takes no slot and is not an overlap.
LEMMA LedgerSlotless ==
  ASSUME Ledger, Backed, FewPayments', \A s \in Slots : req'[s].pc = "idle",
         ~overlapped' =>
           \A u \in Users :
             /\ balance'[u] = Due(u)'
             /\ plan'[u] \/ (u = Rider /\ ride' = "completed") \/ balance'[u] >= 0 \/ Lower(u)'
             /\ verified'[u] => badge'[u] = "APPROVED"
  PROVE  Ledger'
<1>1. InProgress' = {}
  BY DEF InProgress
<1>. QED
  BY <1>1 DEF Ledger, Alone, Agrees, Solvent, RidePaid, Badged

LEMMA LedgerAtOnce ==
  ASSUME Ledger, Backed, Logged, NEW u \in Users, BadgeApply(u) \/ AddToBalance(u)
  PROVE  Ledger'
<1>0. TypeOK /\ FewPayments
  BY DEF Backed, Ledger
<1>1. /\ UNCHANGED <<payment, claimed, ad, verified, plan, bought, ride, req>>
      /\ overlapped' = (overlapped \/ InProgress # {})
  BY DEF BadgeApply, SetBadge, AddToBalance, Adjust, AtOnce, payments, charges, others
<1>2. FewPayments'
  BY <1>0, <1>1 DEF FewPayments
<1>3. CASE overlapped'
  BY <1>2, <1>3 DEF Ledger
<1>4. CASE ~overlapped'
  <2>0. ~overlapped /\ InProgress = {}
    BY <1>1, <1>4
  <2>1. \A s \in Slots : req'[s].pc = "idle"
    BY <1>1, <2>0 DEF InProgress
  <2>2. ASSUME NEW v \in Users
        PROVE  /\ balance[v] = Due(v) /\ Due(v) \in Int /\ adjusted[v] \in Int /\ balance[v] \in Int
               /\ plan[v] \/ (v = Rider /\ ride = "completed") \/ balance[v] >= 0 \/ Lower(v)
               /\ Lower(v)' = Lower(v) /\ (verified[v] => badge[v] = "APPROVED")
    BY <1>0, <1>1, <2>0, PaymentsKept, LedgerQuiet, TermsTyped, DueTyped
  <2>3. CASE BadgeApply(u)
    <3>1. badge[u] = "none" /\ badge' = [badge EXCEPT ![u] = "PENDING"] /\ UNCHANGED <<balance, adjusted>>
      BY <2>3 DEF BadgeApply, SetBadge, others
    <3>2. ASSUME NEW v \in Users
          PROVE  Due(v)' = Due(v) /\ (verified[v] => badge'[v] = "APPROVED")
      BY <1>0, <1>1, <2>2, <3>1, DueKept DEF TypeOK
    <3>. QED
      BY <1>1, <1>2, <2>1, <2>2, <3>1, <3>2, LedgerSlotless
  <2>4. CASE AddToBalance(u)
    <3>1. /\ balance' = [balance EXCEPT ![u] = @ + Price["adjust"]]
          /\ adjusted' = [adjusted EXCEPT ![u] = @ + Price["adjust"]] /\ UNCHANGED badge
      BY <2>4 DEF AddToBalance, Adjust, Inc, charges
    <3>2. ASSUME NEW v \in Users
          PROVE  balance'[v] = Due(v)' /\ (balance[v] >= 0 => balance'[v] >= 0)
      <4>1. /\ balance'[v] = balance[v] + (IF v = u THEN Price["adjust"] ELSE 0)
            /\ adjusted'[v] = adjusted[v] + (IF v = u THEN Price["adjust"] ELSE 0)
        BY <1>0, <2>2, <3>1 DEF TypeOK
      <4>2. adjusted'[v] \in Int
        BY <2>2, <4>1, PriceTyped
      <4>3. Due(v)' = Due(v) + adjusted'[v] - adjusted[v]
        BY <1>0, <1>1, <4>2, DueBy
      <4>. QED
        BY <2>2, <4>1, <4>3, PriceTyped
    <3>. QED
      BY <1>1, <1>2, <2>1, <2>2, <3>1, <3>2, LedgerSlotless
  <2>. QED
    BY <2>3, <2>4
<1>. QED
  BY <1>3, <1>4

LEMMA LedgerInit ==
  ASSUME Init
  PROVE  Ledger
<1>1. {t \in Payments : payment[t] # NoPayment} = {} /\ InProgress = {}
      /\ \A s \in Slots : req[s].pc = "idle"
  BY IdleTyped DEF Init, InProgress
<1>2. FewPayments
  BY <1>1, FS_EmptySet DEF FewPayments
<1>3. ASSUME NEW u \in Users PROVE balance[u] = Due(u) /\ balance[u] >= 0 /\ ~verified[u]
  <2>1. SettledOf(u) = {} /\ {a \in Ads : ad[a] = u} = {}
    BY WalletAssumption DEF Init, SettledOf, NoPayment, Transaction, WalletAssumption
  <2>2. Cardinality({}) = 0
    BY FS_EmptySet
  <2>3. AdCost(u) = Price["ad"] * 0 /\ BookCost(u) = Price["book"] * 0
    BY <2>1, <2>2 DEF AdCost, AdsOf, BookCost, Init
  <2>4. AdCost(u) = 0 /\ BookCost(u) = 0
    BY <2>3, PriceTyped
  <2>7. ToppedUp(u) = 0
    <3>1. ToppedUp(u) = SumOf(AmountOf, {})
      BY <2>1, Totals DEF ToppedUp
    <3>. QED
      BY <3>1, SumEmpty
  <2>5. /\ If(claimed[u], "gift") = 0 /\ adjusted[u] = 0 /\ If(verified[u], "fee") = 0
        /\ If(plan[u], "plan") = 0 /\ If(u = Rider /\ ride = "completed", "fare") = 0
        /\ If(u = Driver /\ ride = "completed", "earnings") = 0
    BY DEF Init, If
  <2>6. balance[u] = Wallet0[u] /\ Wallet0[u] \in Nat /\ ~verified[u]
    BY WalletAssumption DEF Init, WalletAssumption
  <2>. QED
    BY <2>4, <2>5, <2>6, <2>7, DueSum
<1>. QED
  BY <1>1, <1>2, <1>3 DEF Ledger, Alone, Agrees, Solvent, RidePaid, Badged

LEMMA LedgerNext ==
  ASSUME Ledger, Backed, Logged, [Next]_vars
  PROVE  Ledger'
<1>. DEFINE documents == <<payment, balance, claimed, adjusted, ad, verified, plan, bought,
                           ride, badge>>
<1>1. ASSUME UNCHANGED documents
      PROVE  FewPayments' /\ \A u : Due(u)' = Due(u) /\ Lower(u)' = Lower(u)
  BY <1>1, DueKept, PaymentsKept DEF Ledger
<1>2. CASE UNCHANGED vars
  <2>1. UNCHANGED documents /\ UNCHANGED <<req, overlapped>>
    BY <1>2 DEF vars, payments, charges, others, process
  <2>2. InProgress' = InProgress
    BY <2>1 DEF InProgress
  <2>3. \A s \in InProgress : Certain(s) => Certain(s)'
    BY <2>1 DEF Certain
  <2>4. \A u \in Users : /\ Agrees(u) => Agrees(u)'
                         /\ Solvent(u) => Solvent(u)'
                         /\ Badged(u) => Badged(u)'
    BY <1>1, <2>1, <2>2 DEF Agrees, Solvent, RidePaid, Badged
  <2>5. Alone => Alone'
    BY <2>2 DEF Alone
  <2>. QED
    BY <1>1, <2>1, <2>2, <2>3, <2>4, <2>5 DEF Ledger
<1>3. CASE Restart
  <2>1. /\ UNCHANGED documents /\ overlapped' = (overlapped \/ InProgress # {})
        /\ \A s \in Slots : req'[s].pc = "idle"
    BY <1>3, IdleTyped DEF Restart, payments, charges, others
  <2>2. ~overlapped' => (~overlapped /\ InProgress = {})
    BY <2>1
  <2>. QED
    BY <1>1, <2>1, <2>2, LedgerQuiet, LedgerSlotless
<1>. QED
  BY <1>2, <1>3, LedgerStart, LedgerContinue, LedgerAtOnce DEF Next, VerificationController

\* Without overlap every wallet agrees with the documents, and nobody but the
\* buyer of a plan and the rider spends what they do not have.
THEOREM WalletsAgree == Spec => []LedgerAgrees
<1>1. Ledger => LedgerAgrees
  BY LedgerQuiet DEF LedgerAgrees, Undisturbed, Lower
<1>. QED
  BY <1>1, BackedInit, BackedNext, LoggedInit, LoggedNext, LedgerInit, LedgerNext, PTL DEF Spec
=============================================================================
