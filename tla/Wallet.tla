------------------------------- MODULE Wallet -------------------------------
(***************************************************************************)
(* The wallets, user.balance, and everything that moves money in and out   *)
(* of them outside live streams: M-Pesa and Google Pay top-ups, gifts and  *)
(* adjustments, advertisements, the fee of the blue badge, subscription    *)
(* plans, books, and the settlement of a ride.  Some of these change the   *)
(* balance by $inc, some save the balance they have computed from a copy,  *)
(* one runs in a database transaction.                                     *)
(***************************************************************************)
EXTENDS Integers, Sequences, FiniteSets, FiniteSetsExt

CONSTANTS
  Users,
  Rider, Driver,  \* the two users of the ride that is in progress
  Payments,       \* ids of mpesa and google_pay transactions
  Ads,            \* ids of ads
  Scenes,         \* the requests clients make and the restarts a behaviour may have
  Price,          \* Price[k]: the amount of a movement of kind k
  Amounts,        \* the amounts a callback may name
  Wallet0,        \* Wallet0[u]: the balance u starts with
  MaxAdjust,      \* bound on the amount put in or taken out through the profile
  MaxCredits,     \* bound: no callback comes for a payment credited that often
  Slots,          \* handlers that may be in progress at once
  NoUser, NoDoc

Requests == {"mpesa", "card", "gift", "add", "subtract", "ad", "verify",
             "plan", "book", "ride"}

\* What a movement of money is for.
Kinds == {"mpesa", "card", "gift", "adjust", "ad", "fee", "plan", "book",
          "fare", "earnings"}

ASSUME WalletAssumption ==
  /\ Rider \in Users /\ Driver \in Users /\ Rider # Driver
  /\ Scenes \subseteq [menu : SUBSET Requests, topups : Nat, restarts : Nat]
  /\ Price \in [Kinds -> Nat] /\ Amounts \subseteq Int
  /\ Wallet0 \in [Users -> Nat] /\ MaxAdjust \in Nat /\ MaxCredits \in Nat
  /\ NoUser \notin Users /\ NoDoc \notin Payments

VARIABLES
  scene,
  balance,   \* user.balance
  payment,   \* the transactions: provider, userId, amount and status
  asked,     \* external: the ids the providers have given out
  told,      \* history: what the server has been told of a payment
  claimed,   \* user.claimedGifts has the gift
  adjusted,  \* history: what a user has put in less what was taken out
  ad,        \* ad.userId of the active ads
  badge,     \* verification_request.status of a user, unique by index
  verified,  \* user.isVerified
  log,       \* the transaction log: what a user has been charged in all
  plan,      \* user.subscription.plan is set
  bought,    \* how often book.purchasedBy has the user
  ride,      \* the status of the ride
  req,       \* handlers in progress
  credited,  \* history: the amounts added to a wallet for a payment
  overlapped,  \* history: two handlers were in progress, or one was cut off
  restarts   \* restarts so far

payments == <<payment, asked, told, credited>>
charges == <<ad, badge, verified, log>>
others == <<claimed, adjusted, plan, bought, ride>>
process == <<overlapped, restarts>>
vars == <<scene, balance, payments, charges, others, req, process>>

MpesaStatus == {"Pending", "Completed", "Failed"}
CardStatus == {"PENDING", "SUCCESS", "FAILED"}
BadgeStatus == {"none", "PENDING", "APPROVED", "REJECTED"}

PC == {"idle", "push_create", "topup_fail", "topup_credit", "topup_mark",
       "card_charge", "card_settle", "card_fail",
       "gift_add", "gift_credit", "subtract", "ad_commit", "badge_log",
       "badge_charge", "badge_approve", "badge_reject", "plan_save",
       "book_user", "book_save", "book_push", "ride_rider", "ride_driver",
       "ride_saveRider", "ride_saveDriver", "ride_save"}

\* A handler: where it is, whom it serves, the payment it works on, the
\* balances it has read, and the branches of a Promise.all it has done.
For(pc, u) == [pc |-> pc, user |-> u, doc |-> NoDoc, seen |-> 0, other |-> 0, done |-> {}]
Idle == For("idle", NoUser)

Transaction(provider, u, amount, st) ==
  [provider |-> provider, user |-> u, amount |-> amount, status |-> st]
NoPayment == Transaction("none", NoUser, 0, "none")
Transactions ==
  [provider : {"mpesa"}, user : Users, amount : Int, status : MpesaStatus]
    \cup [provider : {"card"}, user : Users, amount : Int, status : CardStatus]

\* What the server is told: a payment of some amount, or a failure.
Receipt(amount) == [paid |-> TRUE, amount |-> amount]
Refusal == [paid |-> FALSE, amount |-> 0]

InProgress == {s \in Slots : req[s].pc # "idle"}
Free(s, request) == req[s].pc = "idle" /\ request \in scene.menu

Begin(s, h) ==
  /\ req' = [req EXCEPT ![s] = h]
  /\ overlapped' = (overlapped \/ InProgress # {})
  /\ UNCHANGED restarts

\* A request that is one database operation needs no slot.
AtOnce == overlapped' = (overlapped \/ InProgress # {}) /\ UNCHANGED <<req, restarts>>

Resume(s, h) == req' = [req EXCEPT ![s] = h] /\ UNCHANGED process
Goto(s, pc) == Resume(s, [req[s] EXCEPT !.pc = pc])
Return(s) == Resume(s, Idle)

\* $inc of a balance, and save() of a balance computed from a copy.
Inc(u, amount) == balance' = [balance EXCEPT ![u] = @ + amount]
SaveBalance(u, amount) == balance' = [balance EXCEPT ![u] = amount]

Init ==
  /\ scene \in Scenes
  /\ balance = Wallet0
  /\ payment = [t \in Payments |-> NoPayment]
  /\ asked = {} /\ told = [t \in Payments |-> {}]
  /\ claimed = [u \in Users |-> FALSE]
  /\ adjusted = [u \in Users |-> 0]
  /\ ad = [a \in Ads |-> NoUser]
  /\ badge = [u \in Users |-> "none"]
  /\ verified = [u \in Users |-> FALSE]
  /\ log = [u \in Users |-> 0]
  /\ plan = [u \in Users |-> FALSE]
  /\ bought = [u \in Users |-> 0]
  /\ ride = "in_progress"
  /\ req = [s \in Slots |-> Idle]
  /\ credited = [t \in Payments |-> <<>>]
  /\ overlapped = FALSE /\ restarts = 0

-----------------------------------------------------------------------------
(* M-Pesa: initiateStkPush and handleCallback *)

\* Bound: scene.topups payments are begun.
Unused == {t \in Payments \ asked : Cardinality(asked) < scene.topups}

\* The provider is asked to prompt the phone of the user; the transaction is
\* created when it has accepted, so a callback may come before it exists.
PushAsk(s, u) ==
  /\ Free(s, "mpesa") /\ Unused # {}
  /\ LET t == CHOOSE t \in Unused : TRUE
     IN /\ asked' = asked \cup {t}
        /\ Begin(s, [For("push_create", u) EXCEPT !.doc = t])
  /\ UNCHANGED <<scene, balance, payment, told, credited, charges, others>>

PushCreate(s) ==
  /\ req[s].pc = "push_create"
  /\ payment' = [payment EXCEPT ![req[s].doc] =
                   Transaction("mpesa", req[s].user, Price["mpesa"], "Pending")]
  /\ Return(s)
  /\ UNCHANGED <<scene, balance, asked, told, credited, charges, others>>

Hear(t, result) ==
  /\ told' = [told EXCEPT ![t] = @ \cup {result}]
  /\ UNCHANGED <<scene, balance, payment, asked, credited, charges, others>>

SuccessWhatever(result) == TRUE
Success(result) == result.paid

Handle(s, t, result) ==
  Begin(s, [For(IF Success(result) THEN "topup_credit" ELSE "topup_fail", payment[t].user)
              EXCEPT !.doc = t, !.seen = result.amount])

CallbackAgain(s, t) ==
  /\ Free(s, "mpesa") /\ payment[t].provider = "mpesa" /\ Len(credited[t]) < MaxCredits
  /\ \E result \in {Receipt(a) : a \in Amounts} \cup {Refusal} :
       Hear(t, result) /\ Handle(s, t, result)

\* A callback comes, once or several times.  The route has no guard: whoever
\* sends it, its result code and its amount are believed, and neither is
\* compared with what was asked.  A transaction that is not found, or found
\* completed, is left alone.
Callback(s, t) ==
  /\ Free(s, "mpesa") /\ Len(credited[t]) < MaxCredits
  /\ payment[t].provider = "mpesa" /\ payment[t].status # "Completed"
  /\ \E result \in {Receipt(a) : a \in Amounts} \cup {Refusal} :
       Hear(t, result) /\ Handle(s, t, result)

SetPayment(s, pc, amount, st, h) ==
  /\ req[s].pc = pc
  /\ payment' = [payment EXCEPT ![req[s].doc].amount = amount, ![req[s].doc].status = st]
  /\ Resume(s, h)
  /\ UNCHANGED <<scene, balance, asked, told, credited, charges, others>>

SetStatus(s, pc, st, h) == SetPayment(s, pc, payment[req[s].doc].amount, st, h)

Credit(s, amount, h) ==
  /\ Inc(req[s].user, amount)
  /\ credited' = [credited EXCEPT ![req[s].doc] = Append(@, amount)]
  /\ Resume(s, h)
  /\ UNCHANGED <<scene, payment, asked, told, charges, others>>

TopupFail(s) == SetStatus(s, "topup_fail", "Failed", Idle)

TopupCreditAsked(s) ==
  /\ req[s].pc = "topup_credit"
  /\ Credit(s, payment[req[s].doc].amount, [req[s] EXCEPT !.pc = "topup_mark"])

TopupCredit(s) ==
  /\ req[s].pc = "topup_credit"
  /\ Credit(s, req[s].seen, [req[s] EXCEPT !.pc = "topup_mark"])

\* The amount of the transaction becomes the amount of the callback.
TopupMark(s) == SetPayment(s, "topup_mark", req[s].seen, "Completed", Idle)

-----------------------------------------------------------------------------
(* Google Pay: processPayment *)

CardCreate(s, u) ==
  /\ Free(s, "card") /\ Unused # {}
  /\ LET t == CHOOSE t \in Unused : TRUE
     IN /\ payment' = [payment EXCEPT ![t] =
                         Transaction("card", u, Price["card"], "PENDING")]
        /\ asked' = asked \cup {t}
        /\ Begin(s, [For("card_charge", u) EXCEPT !.doc = t])
  /\ UNCHANGED <<scene, balance, told, credited, charges, others>>

\* The server hears from Stripe that the card was charged, or that it was not:
\* an error on the way to the answer counts as a refusal, whatever happened.
CardCharge(s) ==
  /\ req[s].pc = "card_charge"
  /\ \/ Hear(req[s].doc, Receipt(Price["card"])) /\ Goto(s, "card_settle")
     \/ Hear(req[s].doc, Refusal) /\ Goto(s, "card_fail")

\* Promise.all of the mark and the credit: they happen in either order.
Settled(s, branch) ==
  IF req[s].done = {} THEN [req[s] EXCEPT !.done = {branch}] ELSE Idle

CardUnmarked(s) ==
  /\ "mark" \notin req[s].done
  /\ SetStatus(s, "card_settle", "PENDING", Settled(s, "mark"))

CardMark(s) ==
  /\ "mark" \notin req[s].done
  /\ SetStatus(s, "card_settle", "SUCCESS", Settled(s, "mark"))

CardCredit(s) ==
  /\ req[s].pc = "card_settle" /\ "credit" \notin req[s].done
  /\ Credit(s, Price["card"], Settled(s, "credit"))

CardFailMisspelt(s) == SetStatus(s, "card_fail", "Failed", Idle)
CardFail(s) == SetStatus(s, "card_fail", "FAILED", Idle)

-----------------------------------------------------------------------------
(* claimGift, addToBalance, subtractFromBalance *)

GiftBegin(s, u) ==
  /\ Free(s, "gift") /\ ~claimed[u]
  /\ Begin(s, For("gift_add", u))
  /\ UNCHANGED <<scene, balance, payments, charges, others>>

GiftAdd(s) ==
  /\ req[s].pc = "gift_add"
  /\ claimed' = [claimed EXCEPT ![req[s].user] = TRUE]
  /\ Goto(s, "gift_credit")
  /\ UNCHANGED <<scene, balance, payments, charges, adjusted, plan, bought, ride>>

GiftCredit(s) ==
  /\ req[s].pc = "gift_credit"
  /\ Inc(req[s].user, Price["gift"])
  /\ Return(s)
  /\ UNCHANGED <<scene, payments, charges, others>>

Adjust(u, amount) ==
  /\ adjusted[u] + amount \in -MaxAdjust..MaxAdjust
  /\ Inc(u, amount)
  /\ adjusted' = [adjusted EXCEPT ![u] = @ + amount]
  /\ UNCHANGED <<scene, payments, charges, claimed, plan, bought, ride>>

\* Any user may add to the wallet of their own.
AddToBalance(u) == "add" \in scene.menu /\ Adjust(u, Price["adjust"]) /\ AtOnce

SubtractBegin(s, u) ==
  /\ Free(s, "subtract") /\ balance[u] >= Price["adjust"]
  /\ Begin(s, For("subtract", u))
  /\ UNCHANGED <<scene, balance, payments, charges, others>>

Subtract(s) ==
  /\ req[s].pc = "subtract"
  /\ Adjust(req[s].user, -Price["adjust"])
  /\ Return(s)

\* Bound: the handler is dropped beyond MaxAdjust.
SubtractTooFar(s) ==
  /\ req[s].pc = "subtract"
  /\ adjusted[req[s].user] - Price["adjust"] < -MaxAdjust
  /\ Return(s)
  /\ UNCHANGED <<scene, balance, payments, charges, others>>

-----------------------------------------------------------------------------
(* createAd; createRequest, rejectRequest, approveVerificationProcess *)

AdUnchecked(s, u) ==
  /\ Free(s, "ad")
  /\ Begin(s, For("ad_commit", u))
  /\ UNCHANGED <<scene, balance, payments, charges, others>>

AdBegin(s, u) ==
  /\ Free(s, "ad") /\ balance[u] >= Price["ad"]
  /\ Begin(s, For("ad_commit", u))
  /\ UNCHANGED <<scene, balance, payments, charges, others>>

\* One transaction: the charge, its record in the log and the ad.
AdCommit(s) ==
  /\ req[s].pc = "ad_commit"
  /\ \E a \in Ads :
       /\ ad[a] = NoUser
       /\ ad' = [ad EXCEPT ![a] = req[s].user]
  /\ Inc(req[s].user, -Price["ad"])
  /\ log' = [log EXCEPT ![req[s].user] = @ + Price["ad"]]
  /\ Return(s)
  /\ UNCHANGED <<scene, payments, badge, verified, others>>

\* It is aborted by a failing upload or a conflicting write (and when every
\* id of Ads is in use).
AdAbort(s) ==
  /\ req[s].pc = "ad_commit"
  /\ Return(s)
  /\ UNCHANGED <<scene, balance, payments, charges, others>>

SetBadge(u, st) ==
  /\ badge' = [badge EXCEPT ![u] = st]
  /\ UNCHANGED <<scene, balance, payments, ad, verified, log, others>>

\* A user has one application for good: userId is unique.
BadgeApply(u) == "verify" \in scene.menu /\ badge[u] = "none" /\ SetBadge(u, "PENDING") /\ AtOnce

\* The administrator approves or rejects a pending application.
ApproveBegin(s, u) ==
  /\ Free(s, "verify") /\ badge[u] = "PENDING"
  /\ Begin(s, For(IF balance[u] < Price["fee"] THEN "badge_reject" ELSE "badge_log", u))
  /\ UNCHANGED <<scene, balance, payments, charges, others>>

RejectBegin(s, u) ==
  /\ Free(s, "verify") /\ badge[u] = "PENDING"
  /\ Begin(s, For("badge_reject", u))
  /\ UNCHANGED <<scene, balance, payments, charges, others>>

BadgeUnlogged(s) ==
  /\ req[s].pc = "badge_log"
  /\ Goto(s, "badge_charge")
  /\ UNCHANGED <<scene, balance, payments, charges, others>>

BadgeLog(s) ==
  /\ req[s].pc = "badge_log"
  /\ log' = [log EXCEPT ![req[s].user] = @ + Price["fee"]]
  /\ Goto(s, "badge_charge")
  /\ UNCHANGED <<scene, balance, payments, ad, badge, verified, others>>

BadgeCharge(s) ==
  /\ req[s].pc = "badge_charge"
  /\ Inc(req[s].user, -Price["fee"])
  /\ verified' = [verified EXCEPT ![req[s].user] = TRUE]
  /\ Goto(s, "badge_approve")
  /\ UNCHANGED <<scene, payments, ad, badge, log, others>>

BadgeApprove(s) ==
  /\ req[s].pc = "badge_approve"
  /\ SetBadge(req[s].user, "APPROVED")
  /\ Return(s)

BadgeReject(s) ==
  /\ req[s].pc = "badge_reject"
  /\ SetBadge(req[s].user, "REJECTED")
  /\ Return(s)

-----------------------------------------------------------------------------
(* purchasePlan, purchaseBook, completeRide: they save a copy of the user *)

\* The plan is charged without a look at the balance.
PlanBegin(s, u) ==
  /\ Free(s, "plan") /\ ~plan[u]
  /\ Begin(s, [For("plan_save", u) EXCEPT !.seen = balance[u]])
  /\ UNCHANGED <<scene, balance, payments, charges, others>>

PlanSave(s) ==
  /\ req[s].pc = "plan_save"
  /\ SaveBalance(req[s].user, req[s].seen - Price["plan"])
  /\ plan' = [plan EXCEPT ![req[s].user] = TRUE]
  /\ Return(s)
  /\ UNCHANGED <<scene, payments, charges, claimed, adjusted, bought, ride>>

BookBegin(s, u) ==
  /\ Free(s, "book") /\ bought[u] = 0
  /\ Begin(s, For("book_user", u))
  /\ UNCHANGED <<scene, balance, payments, charges, others>>

BookUser(s) ==
  /\ req[s].pc = "book_user"
  /\ Resume(s, IF balance[req[s].user] < Price["book"] THEN Idle
               ELSE [req[s] EXCEPT !.pc = "book_save", !.seen = balance[req[s].user]])
  /\ UNCHANGED <<scene, balance, payments, charges, others>>

BookSave(s) ==
  /\ req[s].pc = "book_save"
  /\ SaveBalance(req[s].user, req[s].seen - Price["book"])
  /\ Goto(s, "book_push")
  /\ UNCHANGED <<scene, payments, charges, others>>

BookPush(s) ==
  /\ req[s].pc = "book_push"
  /\ bought' = [bought EXCEPT ![req[s].user] = @ + 1]
  /\ Return(s)
  /\ UNCHANGED <<scene, balance, payments, charges, claimed, adjusted, plan, ride>>

\* The ride is paid online: the rider pays the fare, the driver earns a part.
RideBegin(s) ==
  /\ Free(s, "ride") /\ ride = "in_progress"
  /\ Begin(s, For("ride_rider", Rider))
  /\ UNCHANGED <<scene, balance, payments, charges, others>>

RideRider(s) ==
  /\ req[s].pc = "ride_rider"
  /\ Resume(s, [req[s] EXCEPT !.pc = "ride_driver", !.seen = balance[Rider]])
  /\ UNCHANGED <<scene, balance, payments, charges, others>>

RideDriver(s) ==
  /\ req[s].pc = "ride_driver"
  /\ Resume(s, [req[s] EXCEPT !.pc = "ride_saveRider", !.other = balance[Driver]])
  /\ UNCHANGED <<scene, balance, payments, charges, others>>

RideSaveRider(s) ==
  /\ req[s].pc = "ride_saveRider"
  /\ SaveBalance(Rider, req[s].seen - Price["fare"])
  /\ Goto(s, "ride_saveDriver")
  /\ UNCHANGED <<scene, payments, charges, others>>

RideSaveDriver(s) ==
  /\ req[s].pc = "ride_saveDriver"
  /\ SaveBalance(Driver, req[s].other + Price["earnings"])
  /\ Goto(s, "ride_save")
  /\ UNCHANGED <<scene, payments, charges, others>>

RideSave(s) ==
  /\ req[s].pc = "ride_save"
  /\ ride' = "completed"
  /\ Return(s)
  /\ UNCHANGED <<scene, balance, payments, charges, claimed, adjusted, plan, bought>>

-----------------------------------------------------------------------------
\* The process ends and starts anew: handlers are gone, documents are not.
Restart ==
  /\ restarts < scene.restarts
  /\ restarts' = restarts + 1
  /\ overlapped' = (overlapped \/ InProgress # {})
  /\ req' = [s \in Slots |-> Idle]
  /\ UNCHANGED <<scene, balance, payments, charges, others>>

Continue(s) ==
  \/ PushCreate(s) \/ TopupFail(s) \/ TopupCredit(s) \/ TopupMark(s)
  \/ CardCharge(s) \/ CardMark(s) \/ CardCredit(s) \/ CardFail(s)
  \/ GiftAdd(s) \/ GiftCredit(s) \/ Subtract(s) \/ SubtractTooFar(s)
  \/ AdCommit(s) \/ AdAbort(s)
  \/ BadgeLog(s) \/ BadgeCharge(s) \/ BadgeApprove(s) \/ BadgeReject(s)
  \/ PlanSave(s) \/ BookUser(s) \/ BookSave(s) \/ BookPush(s)
  \/ RideRider(s) \/ RideDriver(s) \/ RideSaveRider(s) \/ RideSaveDriver(s) \/ RideSave(s)

\* The routes, by their controllers.
MpesaController(s) ==
  \/ \E u \in Users : PushAsk(s, u)
  \/ \E t \in Payments : Callback(s, t)

GooglePayController(s) == \E u \in Users : CardCreate(s, u)

AdController(s) == \E u \in Users : AdBegin(s, u)

AdminPanelController(s) == \E u \in Users : ApproveBegin(s, u) \/ RejectBegin(s, u)

VerificationController == \E u \in Users : BadgeApply(u)

PlanRoute(s) == \E u \in Users : PlanBegin(s, u)

ProfileController(s) == \E u \in Users : GiftBegin(s, u) \/ SubtractBegin(s, u)

BookRoute(s) == \E u \in Users : BookBegin(s, u)

Start(s) ==
  \/ MpesaController(s) \/ GooglePayController(s) \/ AdController(s)
  \/ AdminPanelController(s) \/ PlanRoute(s) \/ ProfileController(s) \/ BookRoute(s)
  \/ RideBegin(s)

Next ==
  \/ \E s \in Slots : Continue(s) \/ Start(s)
  \/ VerificationController \/ \E u \in Users : AddToBalance(u)
  \/ Restart

Spec == Init /\ [][Next]_vars

\* The event loop resumes a handler when its database operation is done.
FairSpec == Spec /\ \A s \in Slots : WF_vars(Continue(s))

-----------------------------------------------------------------------------
(* Properties *)

\* The type of every variable.
TypeOK ==
  /\ scene \in Scenes
  /\ balance \in [Users -> Int]
  /\ payment \in [Payments -> Transactions \cup {NoPayment}]
  /\ asked \subseteq Payments
  /\ told \in [Payments -> SUBSET [paid : BOOLEAN, amount : Int]]
  /\ credited \in [Payments -> Seq(Int)]
  /\ claimed \in [Users -> BOOLEAN] /\ adjusted \in [Users -> -MaxAdjust..MaxAdjust]
  /\ ad \in [Ads -> Users \cup {NoUser}]
  /\ badge \in [Users -> BadgeStatus] /\ verified \in [Users -> BOOLEAN]
  /\ log \in [Users -> Nat] /\ plan \in [Users -> BOOLEAN]
  /\ bought \in [Users -> Nat] /\ ride \in {"in_progress", "completed"}
  /\ req \in [Slots -> [pc : PC, user : Users \cup {NoUser}, doc : Payments \cup {NoDoc},
                        seen : Int, other : Int, done : SUBSET {"mark", "credit"}]]
  /\ overlapped \in BOOLEAN /\ restarts \in 0..scene.restarts

Credits(t) == {credited[t][i] : i \in 1..Len(credited[t])}

\* However callbacks repeat, contradict one another and overlap, and whenever
\* the process ends: the amount a completed M-Pesa payment states has reached the
\* wallet (the credit comes first), and no amount reaches a wallet but those the
\* server has been told of.  Whether what it is told is true it does not check.
TopUpsAreBacked ==
  \A t \in Payments :
    /\ payment[t].status = "Completed" => payment[t].amount \in Credits(t)
    /\ \A a \in Credits(t) : Receipt(a) \in told[t]

AdsOf(u) == Cardinality({a \in Ads : ad[a] = u})

\* Whatever overlaps or is cut off, the log has every charge for an ad (they
\* are one transaction) and for the badge (the log comes first).
ChargesAreLogged ==
  \A u \in Users :
    log[u] >= Price["ad"] * AdsOf(u) + (IF verified[u] THEN Price["fee"] ELSE 0)

Undisturbed == ~overlapped /\ InProgress = {}

If(condition, kind) == IF condition THEN Price[kind] ELSE 0
SettledOf(u) ==
  {t \in Payments : payment[t].user = u /\ payment[t].status \in {"Completed", "SUCCESS"}}
AmountOf == [t \in Payments |-> payment[t].amount]
Total(f, S) == MapThenSumSet(LAMBDA t : f[t], S)
ToppedUp(u) == Total(AmountOf, SettledOf(u))

\* What the documents say the balance of a user is.
Due(u) ==
  Wallet0[u] + ToppedUp(u)
    + If(claimed[u], "gift") + adjusted[u]
    - Price["ad"] * AdsOf(u) - If(verified[u], "fee") - If(plan[u], "plan")
    - Price["book"] * bought[u]
    - If(u = Rider /\ ride = "completed", "fare")
    + If(u = Driver /\ ride = "completed", "earnings")

\* Without overlap every wallet agrees with the documents: each payment, gift,
\* purchase and ride has moved its amount once, repeated callbacks included, and
\* nobody but the buyer of a plan and the rider spends what they do not have
\* (unless a callback has named an amount below zero).
LedgerAgrees ==
  Undisturbed =>
    \A u \in Users :
      /\ balance[u] = Due(u)
      /\ \/ balance[u] >= 0
         \/ plan[u] \/ (u = Rider /\ ride = "completed")
         \/ \E t \in SettledOf(u) : payment[t].amount < 0

\* While the process lives, a top-up that has reached the wallet is marked as
\* settled in the end, so that the callbacks that follow are refused (unless the
\* server has been told of a failure, too, whose mark may overwrite it).
CreditIsMarked ==
  \A t \in Payments :
    credited[t] # <<>> /\ scene.restarts = 0
      ~> payment[t].status \in {"Completed", "SUCCESS"} \/ Refusal \in told[t]
=============================================================================
