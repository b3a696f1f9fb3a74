-------------------------------- MODULE Ride --------------------------------
(***************************************************************************)
(* Rides: RidesService and the wallet it settles them with.  A request     *)
(* handler is a sequence of atomic database operations separated by        *)
(* awaits.  Mongoose documents are read at one of them and saved at a      *)
(* later one: save() writes the modified fields of the copy, with no check *)
(* that the document is still as it was read.                              *)
(***************************************************************************)
EXTENDS Integers, FiniteSets

CONSTANTS
  Users,          \* accounts
  Drivers,        \* the users that have a driver profile
  Rides,          \* ids of ride documents (bounds the rides requested)
  Methods,        \* payment methods in use: of "cash", "online", "points"
  Fares,          \* what a fare estimate may come to
  Commission,     \* Commission[f]: the system's share of an estimate of f
  PointPrice,     \* PointPrice[f]: a fare of f in ride points
  PointsPerRide,  \* points redeemed for a completed ride
  Wallet,         \* Wallet[u]: the balance u starts with
  Slots,          \* handlers that may be in progress at once
  MaxRestarts,    \* bound on restarts of the server process
  NoUser, NoRide

ASSUME RideAssumption ==
  /\ Drivers \subseteq Users
  /\ Methods \subseteq {"cash", "online", "points"}
  /\ Fares \subseteq Nat
  /\ Commission \in [Fares -> Nat]
  /\ PointPrice \in [Fares -> Nat]
  /\ PointsPerRide \in Nat
  /\ Wallet \in [Users -> Int]
  /\ MaxRestarts \in Nat
  /\ NoUser \notin Users /\ NoRide \notin Rides

VARIABLES
  status,    \* ride.status, "none" while the id is unused
  rider, driver, method,  \* ride.userId, ride.driverId, ride.paymentMethod
  estimate,  \* ride.estimatedFare, from which systemCommission is computed
  fare,      \* ride.fare, once it is completed
  redeemed,  \* ride.isPointsRedeemed
  balance, points,  \* user.balance, user.ridePoints
  req,       \* handlers in progress
  charges,   \* history: how often the commission of a ride was charged
  payouts,   \* history: how often the driver of a ride was credited
  awards,    \* history: how often points were given for a ride
  restarts   \* restarts so far

rideDoc == <<rider, driver, method, estimate, fare>>
wallets == <<balance, points>>
history == <<charges, payouts, awards>>
vars == <<status, rideDoc, redeemed, wallets, req, history, restarts>>

Statuses == {"none", "pending", "scheduled", "accepted", "in_progress",
             "completed", "cancelled"}

\* The statuses that keep a rider from requesting another ride.
OfferedOnly == {"pending", "accepted", "scheduled"}
Active == {"pending", "accepted", "in_progress", "scheduled"}

\* The statuses that a rider may cancel.
CancellableEver == {"pending", "accepted", "in_progress"}
Cancellable == {"pending", "accepted"}

PC == {"idle", "q_save", "q_notify", "a_check", "a_save", "s_charge", "s_save",
       "c_rider", "c_driver", "c_saveRider", "c_saveDriver", "c_save",
       "x_save", "r_award", "r_save"}

\* A handler: where it is, whom it serves, its ride, the choices of its
\* request, the fare it has computed and the rider's and driver's wallets as
\* it has read them.
Handler(pc, u, r, m, later, f) ==
  [pc |-> pc, user |-> u, ride |-> r, method |-> m, later |-> later,
   fare |-> f, purse |-> 0, till |-> 0]

Idle == Handler("idle", NoUser, NoRide, "cash", FALSE, 0)

Put(s, h) == req' = [req EXCEPT ![s] = h]
Begin(s, pc, u, r) == Put(s, Handler(pc, u, r, "cash", FALSE, 0))
Goto(s, pc) == req' = [req EXCEPT ![s].pc = pc]
Return(s) == Put(s, Idle)

SetStatus(s, st) == status' = [status EXCEPT ![req[s].ride] = st]
Count(h, r) == [h EXCEPT ![r] = @ + 1]

Init ==
  /\ status = [r \in Rides |-> "none"]
  /\ rider = [r \in Rides |-> NoUser]
  /\ driver = [r \in Rides |-> NoUser]
  /\ method = [r \in Rides |-> "cash"]
  /\ estimate = [r \in Rides |-> 0]
  /\ fare = [r \in Rides |-> 0]
  /\ redeemed = [r \in Rides |-> FALSE]
  /\ balance = Wallet
  /\ points = [u \in Users |-> 0]
  /\ req = [s \in Slots |-> Idle]
  /\ charges = [r \in Rides |-> 0]
  /\ payouts = [r \in Rides |-> 0]
  /\ awards = [r \in Rides |-> 0]
  /\ restarts = 0

-----------------------------------------------------------------------------
(* requestRide, with the unawaited findNearbyDriversAndNotify *)

HasActiveRide(u) == \E r \in Rides : rider[r] = u /\ status[r] \in Active

RequestBegin(s, u, m, later) ==
  /\ req[s].pc = "idle"
  /\ ~HasActiveRide(u)
  /\ Put(s, Handler("q_save", u, NoRide, m, later, 0))
  /\ UNCHANGED <<status, rideDoc, redeemed, wallets, history, restarts>>

\* Bound: the handler is dropped when every id of Rides is in use.
RequestNoId(s) ==
  /\ req[s].pc = "q_save"
  /\ \A r \in Rides : status[r] # "none"
  /\ Return(s)
  /\ UNCHANGED <<status, rideDoc, redeemed, wallets, history, restarts>>

RequestSave(s, r, f) ==
  /\ req[s].pc = "q_save"
  /\ status[r] = "none"
  /\ status' = [status EXCEPT ![r] =
                  IF req[s].later THEN "scheduled" ELSE "pending"]
  /\ rider' = [rider EXCEPT ![r] = req[s].user]
  /\ method' = [method EXCEPT ![r] = req[s].method]
  /\ estimate' = [estimate EXCEPT ![r] = f]
  /\ Begin(s, "q_notify", req[s].user, r)
  /\ UNCHANGED <<driver, fare, redeemed, wallets, history, restarts>>

\* No driver has the status 'online' that the search asks for (a profile is
\* pending, approved or rejected), so none is found and the ride is written
\* back to Pending, whatever has happened to it in between.
RequestNotify(s) ==
  /\ req[s].pc = "q_notify"
  /\ SetStatus(s, "pending")
  /\ Return(s)
  /\ UNCHANGED <<rideDoc, redeemed, wallets, history, restarts>>

-----------------------------------------------------------------------------
(* acceptRide, cancelRide *)

AcceptBegin(s, d, r) ==
  /\ req[s].pc = "idle"
  /\ status[r] = "pending"
  /\ Begin(s, "a_check", d, r)
  /\ UNCHANGED <<status, rideDoc, redeemed, wallets, history, restarts>>

\* The driver's balance is read after the ride.
AcceptCheck(s) ==
  /\ req[s].pc = "a_check"
  /\ IF balance[req[s].user] < Commission[estimate[req[s].ride]]
       THEN Return(s)
       ELSE Goto(s, "a_save")
  /\ UNCHANGED <<status, rideDoc, redeemed, wallets, history, restarts>>

AcceptSave(s) ==
  /\ req[s].pc = "a_save"
  /\ SetStatus(s, "accepted")
  /\ driver' = [driver EXCEPT ![req[s].ride] = req[s].user]
  /\ Return(s)
  /\ UNCHANGED <<rider, method, estimate, fare, redeemed, wallets, history,
                 restarts>>

CancelBegin(s, u, r) ==
  /\ req[s].pc = "idle"
  /\ rider[r] = u
  /\ status[r] \in Cancellable
  /\ Begin(s, "x_save", u, r)
  /\ UNCHANGED <<status, rideDoc, redeemed, wallets, history, restarts>>

CancelMisspelt(s) ==
  /\ req[s].pc = "x_save"
  /\ SetStatus(s, "canceled")
  /\ Return(s)
  /\ UNCHANGED <<rideDoc, redeemed, wallets, history, restarts>>

CancelSave(s) ==
  /\ req[s].pc = "x_save"
  /\ SetStatus(s, "cancelled")
  /\ Return(s)
  /\ UNCHANGED <<rideDoc, redeemed, wallets, history, restarts>>

-----------------------------------------------------------------------------
(* startRide *)

\* The balance that startRide compares with the commission is a field of the
\* request's user, which getVerifiedUser loads without it: the comparison
\* with undefined never refuses.
StartUncharged(s, d, r) ==
  /\ req[s].pc = "idle"
  /\ driver[r] = d
  /\ status[r] = "accepted"
  /\ Begin(s, "s_save", d, r)
  /\ UNCHANGED <<status, rideDoc, redeemed, wallets, history, restarts>>

StartBegin(s, d, r) ==
  /\ req[s].pc = "idle"
  /\ driver[r] = d
  /\ status[r] = "accepted"
  /\ Begin(s, "s_charge", d, r)
  /\ UNCHANGED <<status, rideDoc, redeemed, wallets, history, restarts>>

\* $inc of the driver's balance.
StartCharge(s) ==
  LET r == req[s].ride
  IN /\ req[s].pc = "s_charge"
     /\ balance' = [balance EXCEPT ![req[s].user] = @ - Commission[estimate[r]]]
     /\ charges' = Count(charges, r)
     /\ Goto(s, "s_save")
     /\ UNCHANGED <<status, rideDoc, redeemed, points, payouts, awards, restarts>>

StartSave(s) ==
  /\ req[s].pc = "s_save"
  /\ SetStatus(s, "in_progress")
  /\ Return(s)
  /\ UNCHANGED <<rideDoc, redeemed, wallets, history, restarts>>

-----------------------------------------------------------------------------
(* completeRide *)

\* The fare is estimated anew.
CompleteBegin(s, d, r, f) ==
  /\ req[s].pc = "idle"
  /\ driver[r] = d
  /\ status[r] = "in_progress"
  /\ Put(s, Handler("c_rider", d, r, "cash", FALSE, f))
  /\ UNCHANGED <<status, rideDoc, redeemed, wallets, history, restarts>>

\* What of the rider's document is used: ridePoints or the balance.
CompleteReadRider(s) ==
  LET r == req[s].ride
      u == rider[r]
  IN /\ req[s].pc = "c_rider"
     /\ req' = [req EXCEPT ![s].pc = "c_driver", ![s].purse =
                  IF method[r] = "points" THEN points[u] ELSE balance[u]]
     /\ UNCHANGED <<status, rideDoc, redeemed, wallets, history, restarts>>

CompleteReadDriver(s) ==
  /\ req[s].pc = "c_driver"
  /\ req' = [req EXCEPT ![s].pc = "c_saveRider", ![s].till = balance[req[s].user]]
  /\ UNCHANGED <<status, rideDoc, redeemed, wallets, history, restarts>>

\* save() of a field: nothing is written when the copy was not changed.
Saved(wallet, u, seen, amount) ==
  IF amount = 0 THEN wallet ELSE [wallet EXCEPT ![u] = seen + amount]

\* rider.save(): the fare leaves the rider's wallet, in money or in points.
CompleteSaveRider(s) ==
  LET r == req[s].ride
      u == rider[r]
  IN /\ req[s].pc = "c_saveRider"
     /\ balance' = IF method[r] = "online"
                     THEN Saved(balance, u, req[s].purse, -req[s].fare)
                     ELSE balance
     /\ points' = IF method[r] = "points"
                    THEN Saved(points, u, req[s].purse, -PointPrice[req[s].fare])
                    ELSE points
     /\ Goto(s, "c_saveDriver")
     /\ UNCHANGED <<status, rideDoc, redeemed, history, restarts>>

GrossEarnings(s) == req[s].fare
Earnings(s) == req[s].fare - Commission[estimate[req[s].ride]]

\* userDriver.save(): the driver is credited, except for a ride paid in cash.
CompleteSaveDriver(s) ==
  LET r == req[s].ride
  IN /\ req[s].pc = "c_saveDriver"
     /\ IF method[r] = "cash"
          THEN UNCHANGED <<balance, payouts>>
          ELSE /\ balance' = Saved(balance, req[s].user, req[s].till, Earnings(s))
               /\ payouts' = Count(payouts, r)
     /\ Goto(s, "c_save")
     /\ UNCHANGED <<status, rideDoc, redeemed, points, charges, awards, restarts>>

CompleteSave(s) ==
  /\ req[s].pc = "c_save"
  /\ SetStatus(s, "completed")
  /\ fare' = [fare EXCEPT ![req[s].ride] = req[s].fare]
  /\ Return(s)
  /\ UNCHANGED <<rider, driver, method, estimate, redeemed, wallets, history,
                 restarts>>

-----------------------------------------------------------------------------
(* redeemPoints *)

RedeemBegin(s, u, r) ==
  /\ req[s].pc = "idle"
  /\ rider[r] = u
  /\ status[r] = "completed"
  /\ ~redeemed[r]
  /\ Begin(s, "r_award", u, r)
  /\ UNCHANGED <<status, rideDoc, redeemed, wallets, history, restarts>>

RedeemAward(s) ==
  /\ req[s].pc = "r_award"
  /\ points' = [points EXCEPT ![req[s].user] = @ + PointsPerRide]
  /\ awards' = Count(awards, req[s].ride)
  /\ Goto(s, "r_save")
  /\ UNCHANGED <<status, rideDoc, redeemed, balance, charges, payouts, restarts>>

RedeemSave(s) ==
  /\ req[s].pc = "r_save"
  /\ redeemed' = [redeemed EXCEPT ![req[s].ride] = TRUE]
  /\ Return(s)
  /\ UNCHANGED <<status, rideDoc, wallets, history, restarts>>

-----------------------------------------------------------------------------
\* The process ends and is started again: the handlers are lost.
Restart ==
  /\ restarts < MaxRestarts
  /\ restarts' = restarts + 1
  /\ req' = [s \in Slots |-> Idle]
  /\ UNCHANGED <<status, rideDoc, redeemed, wallets, history>>

\* A handler in progress goes on.
Continue(s) ==
  \/ RequestNoId(s) \/ (\E r \in Rides, f \in Fares : RequestSave(s, r, f))
  \/ RequestNotify(s)
  \/ AcceptCheck(s) \/ AcceptSave(s) \/ CancelSave(s)
  \/ StartCharge(s) \/ StartSave(s)
  \/ CompleteReadRider(s) \/ CompleteReadDriver(s)
  \/ CompleteSaveRider(s) \/ CompleteSaveDriver(s) \/ CompleteSave(s)
  \/ RedeemAward(s) \/ RedeemSave(s)

\* A request of a user.
Start(s) ==
  \/ \E u \in Users, m \in Methods, later \in BOOLEAN : RequestBegin(s, u, m, later)
  \/ \E u \in Users, r \in Rides : CancelBegin(s, u, r) \/ RedeemBegin(s, u, r)
  \/ \E d \in Drivers, r \in Rides :
       \/ AcceptBegin(s, d, r) \/ StartBegin(s, d, r)
       \/ \E f \in Fares : CompleteBegin(s, d, r, f)

Next == (\E s \in Slots : Continue(s) \/ Start(s)) \/ Restart

Spec == Init /\ [][Next]_vars

-----------------------------------------------------------------------------
(* Properties *)

Handlers == [pc : PC, user : Users \cup {NoUser}, ride : Rides \cup {NoRide},
             method : Methods \cup {"cash"}, later : BOOLEAN, fare : Int,
             purse : Int, till : Int]

\* The type of every variable.
TypeOK ==
  /\ status \in [Rides -> Statuses]
  /\ rider \in [Rides -> Users \cup {NoUser}]
  /\ driver \in [Rides -> Users \cup {NoUser}]
  /\ method \in [Rides -> Methods \cup {"cash"}]
  /\ estimate \in [Rides -> Int] /\ fare \in [Rides -> Int]
  /\ redeemed \in [Rides -> BOOLEAN]
  /\ balance \in [Users -> Int] /\ points \in [Users -> Int]
  /\ req \in [Slots -> Handlers]
  /\ charges \in [Rides -> Nat] /\ payouts \in [Rides -> Nat]
  /\ awards \in [Rides -> Nat]
  /\ restarts \in 0..MaxRestarts

\* Money moves before the ride says so, and crashes and stale saves never
\* turn this round: a started ride has been charged its commission, a
\* completed one that is not paid in cash has credited its driver, and points
\* marked as redeemed have been given (startRide, completeRide and
\* redeemPoints all save the ride last).
SettledBeforeMarked ==
  \A r \in Rides :
    /\ status[r] \in {"in_progress", "completed"} => charges[r] > 0
    /\ status[r] = "completed" /\ method[r] # "cash" => payouts[r] > 0
    /\ redeemed[r] => awards[r] > 0

\* requestRide: "You already have an active ride request.": a user never has
\* two unfinished rides.
OneActiveRide ==
  \A q, r \in Rides :
    q # r /\ rider[q] = rider[r] =>
      ~({status[q], status[r]} \subseteq
          {"pending", "scheduled", "accepted", "in_progress"})
=============================================================================
