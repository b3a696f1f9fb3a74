----------------------------- MODULE RideProofs -----------------------------
(***************************************************************************)
(* Theorems about rides, for any number of users, drivers, rides, handlers *)
(* in progress and restarts.                                               *)
(*                                                                         *)
(* SettledBeforeMarked is not inductive: a handler saves a status some     *)
(* steps after it has moved the money, so it has to be known what each     *)
(* handler has done so far (HandlerSettled), and that the ride it works on *)
(* is in use, with a rider and an estimate (HandlerOK, UsedOK).            *)
(*                                                                         *)
(* Nor is WalletsMatchRides, which speaks of idle states only: between     *)
(* them the one handler is ahead of its ride by what it has moved (Ahead), *)
(* and what it has read of a wallet is still there (Knows).                *)
(***************************************************************************)
EXTENDS RideSerial, Sums, FiniteSetTheorems, TLAPS

\* The handlers of completeRide, and those that work on an existing ride.
CompletePcs == {"c_rider", "c_driver", "c_saveRider", "c_saveDriver", "c_save"}
RidePcs == PC \ {"idle", "q_save"}

HandlerOK(s) ==
  /\ req[s].pc # "idle" => req[s].user \in Users
  /\ req[s].pc \in RidePcs =>
       req[s].ride \in Rides /\ status[req[s].ride] # "none"
  /\ req[s].pc \in CompletePcs => req[s].fare \in Fares

HandlersOK == \A s \in Slots : HandlerOK(s)

UsedOK == \A r \in Rides : status[r] # "none" =>
                             estimate[r] \in Fares /\ rider[r] \in Users

Inv1 == TypeOK /\ HandlersOK /\ UsedOK

HandlerSettled(s) ==
  LET r == req[s].ride
  IN /\ req[s].pc \in {"s_save"} \cup CompletePcs => charges[r] > 0
     /\ req[s].pc = "c_save" /\ method[r] # "cash" => payouts[r] > 0
     /\ req[s].pc = "r_save" => awards[r] > 0

HandlersSettled == \A s \in Slots : HandlerSettled(s)

Inv2 == HandlersSettled /\ SettledBeforeMarked

-----------------------------------------------------------------------------
(* What a handler's record is after it is begun, ended or moved on *)

LEMMA HandlerType ==
  ASSUME NEW pc \in PC, NEW u \in Users \cup {NoUser},
         NEW r \in Rides \cup {NoRide}, NEW m \in Methods \cup {"cash"},
         NEW later \in BOOLEAN, NEW f \in Int
  PROVE  Handler(pc, u, r, m, later, f) \in Handlers
BY DEF Handlers, Handler

LEMMA IdleType == Idle \in Handlers
BY DEF Idle, Handler, Handlers, PC

\* A handler in progress on a ride has a ride in use, and its amounts.
LEMMA WorkingOn ==
  ASSUME HandlersOK, UsedOK, NEW s \in Slots, req[s].pc \in RidePcs
  PROVE  /\ req[s].user \in Users /\ req[s].ride \in Rides
         /\ status[req[s].ride] # "none"
         /\ rider[req[s].ride] \in Users
         /\ Commission[estimate[req[s].ride]] \in Nat
<1>1. /\ req[s].user \in Users /\ req[s].ride \in Rides
      /\ status[req[s].ride] # "none"
  BY DEF HandlersOK, HandlerOK, RidePcs
<1>2. estimate[req[s].ride] \in Fares /\ rider[req[s].ride] \in Users
  BY <1>1 DEF UsedOK
<1> QED BY <1>1, <1>2, RideAssumption

LEMMA PutFields ==
  ASSUME TypeOK, NEW s \in Slots, NEW h \in Handlers, Put(s, h)
  PROVE  /\ req' \in [Slots -> Handlers]
         /\ req'[s] = h /\ \A t \in Slots \ {s} : req'[t] = req[t]
BY DEF TypeOK, Put

LEMMA BeginFields ==
  ASSUME TypeOK, NEW s \in Slots, NEW pc \in PC, NEW u \in Users,
         NEW r \in Rides, Begin(s, pc, u, r)
  PROVE  /\ req' \in [Slots -> Handlers]
         /\ req'[s].pc = pc /\ req'[s].user = u /\ req'[s].ride = r
         /\ \A t \in Slots \ {s} : req'[t] = req[t]
<1>1. Handler(pc, u, r, "cash", FALSE, 0) \in Handlers
  BY DEF Handler, Handlers
<1> QED BY <1>1, PutFields DEF Begin, Handler

LEMMA ReturnFields ==
  ASSUME TypeOK, NEW s \in Slots, Return(s)
  PROVE  /\ req' \in [Slots -> Handlers]
         /\ req'[s].pc = "idle" /\ \A t \in Slots \ {s} : req'[t] = req[t]
BY IdleType, PutFields DEF Return, Idle, Handler

LEMMA GotoFields ==
  ASSUME TypeOK, NEW s \in Slots, NEW pc \in PC, Goto(s, pc)
  PROVE  /\ req' \in [Slots -> Handlers]
         /\ req'[s].pc = pc
         /\ req'[s].user = req[s].user /\ req'[s].ride = req[s].ride
         /\ req'[s].fare = req[s].fare
         /\ \A t \in Slots \ {s} : req'[t] = req[t]
<1>1. req \in [Slots -> Handlers]
  BY DEF TypeOK
<1>2. [req[s] EXCEPT !.pc = pc] \in Handlers
  BY <1>1 DEF Handlers
<1> QED BY <1>1, <1>2 DEF Goto, Handlers

\* A step of completeRide that reads a wallet.
LEMMA ReadFields ==
  ASSUME TypeOK, HandlersOK, UsedOK, NEW s \in Slots,
         CompleteReadRider(s) \/ CompleteReadDriver(s)
  PROVE  /\ req' \in [Slots -> Handlers]
         /\ req'[s].pc \in {"c_driver", "c_saveRider"}
         /\ req'[s].user = req[s].user /\ req'[s].ride = req[s].ride
         /\ req'[s].fare = req[s].fare
         /\ \A t \in Slots \ {s} : req'[t] = req[t]
<1>1. req \in [Slots -> Handlers] /\ req[s] \in Handlers
  BY DEF TypeOK
<1>2. CASE CompleteReadRider(s)
  <2>1. rider[req[s].ride] \in Users
    BY <1>2 DEF CompleteReadRider, HandlersOK, HandlerOK, UsedOK, RidePcs, PC
  <2> DEFINE seen == IF method[req[s].ride] = "points"
                       THEN points[rider[req[s].ride]]
                       ELSE balance[rider[req[s].ride]]
  <2>2. seen \in Int
    BY <2>1 DEF TypeOK
  <2>3. req' = [req EXCEPT ![s].pc = "c_driver", ![s].purse = seen]
    BY <1>2 DEF CompleteReadRider
  <2> HIDE DEF seen
  <2> QED BY <1>1, <2>2, <2>3 DEF Handlers, PC
<1>3. CASE CompleteReadDriver(s)
  <2>1. balance[req[s].user] \in Int
    BY <1>3 DEF CompleteReadDriver, HandlersOK, HandlerOK, TypeOK
  <2> QED BY <1>1, <1>3, <2>1 DEF CompleteReadDriver, Handlers, PC
<1> QED BY <1>2, <1>3

\* The steps with which a handler goes on with its ride, or ends.
Move(s) ==
  \/ RequestNoId(s) \/ RequestNotify(s)
  \/ AcceptCheck(s) \/ AcceptSave(s) \/ CancelSave(s)
  \/ StartCharge(s) \/ StartSave(s)
  \/ CompleteReadRider(s) \/ CompleteReadDriver(s)
  \/ CompleteSaveRider(s) \/ CompleteSaveDriver(s) \/ CompleteSave(s)
  \/ RedeemAward(s) \/ RedeemSave(s)

\* Such a step leaves the other handlers alone; a handler that goes on keeps
\* its user, ride and fare.
LEMMA MoveFields ==
  ASSUME TypeOK, HandlersOK, UsedOK, NEW s \in Slots, Move(s)
  PROVE  /\ \A t \in Slots \ {s} : req'[t] = req[t]
         /\ req'[s].pc # "idle" =>
              /\ req[s].pc \in RidePcs
              /\ req'[s].pc \in CompletePcs => req[s].pc \in CompletePcs
              /\ req'[s].user = req[s].user /\ req'[s].ride = req[s].ride
              /\ req'[s].fare = req[s].fare
<1>1. CASE Return(s)
  BY <1>1, ReturnFields
<1>2. CASE AcceptCheck(s) /\ Goto(s, "a_save")
  BY <1>2, GotoFields DEF AcceptCheck, RidePcs, CompletePcs, PC
<1>3. CASE StartCharge(s)
  BY <1>3, GotoFields DEF StartCharge, RidePcs, CompletePcs, PC
<1>4. CASE CompleteReadRider(s) \/ CompleteReadDriver(s)
  BY <1>4, ReadFields DEF CompleteReadRider, CompleteReadDriver, RidePcs,
                          CompletePcs, PC
<1>5. CASE CompleteSaveRider(s)
  BY <1>5, GotoFields DEF CompleteSaveRider, RidePcs, CompletePcs, PC
<1>6. CASE CompleteSaveDriver(s)
  BY <1>6, GotoFields DEF CompleteSaveDriver, RidePcs, CompletePcs, PC
<1>7. CASE RedeemAward(s)
  BY <1>7, GotoFields DEF RedeemAward, RidePcs, CompletePcs, PC
<1>8. \/ Return(s) \/ (AcceptCheck(s) /\ Goto(s, "a_save")) \/ StartCharge(s)
      \/ CompleteReadRider(s) \/ CompleteReadDriver(s)
      \/ CompleteSaveRider(s) \/ CompleteSaveDriver(s) \/ RedeemAward(s)
  BY DEF Move, RequestNoId, RequestNotify, AcceptCheck, AcceptSave, CancelSave,
         StartSave, CompleteSave, RedeemSave
<1> QED BY <1>1, <1>2, <1>3, <1>4, <1>5, <1>6, <1>7, <1>8

\* The disjuncts of Next.
LEMMA NextCases ==
  ASSUME [Next]_vars
  PROVE  \/ \E s \in Slots : Start(s) \/ Move(s)
         \/ \E s \in Slots, r \in Rides, f \in Fares : RequestSave(s, r, f)
         \/ Restart \/ UNCHANGED vars
BY DEF Next, Continue, Move

\* A request only begins a handler.
LEMMA StartKeeps ==
  ASSUME NEW s \in Slots, Start(s)
  PROVE  UNCHANGED <<status, rideDoc, redeemed, wallets, history, restarts>>
BY DEF Start, RequestBegin, CancelBegin, RedeemBegin, AcceptBegin, StartBegin,
       CompleteBegin

-----------------------------------------------------------------------------
(* What a step keeps *)

\* A ride in use keeps its rider, estimate and method, and money that has
\* moved for a ride has moved for good.
RidesKept ==
  \A r \in Rides :
    /\ status[r] # "none" =>
         /\ status'[r] # "none" /\ rider'[r] = rider[r]
         /\ estimate'[r] = estimate[r] /\ method'[r] = method[r]
    /\ charges[r] > 0 => charges'[r] > 0
    /\ payouts[r] > 0 => payouts'[r] > 0
    /\ awards[r] > 0 => awards'[r] > 0

LEMMA RidesKeptStep == TypeOK /\ [Next]_vars => RidesKept
<1> SUFFICES ASSUME TypeOK, [Next]_vars PROVE RidesKept
  OBVIOUS
<1> USE DEF RidesKept, rideDoc, wallets, history
<1>1. ASSUME NEW s \in Slots, NEW r \in Rides, NEW f \in Fares,
             RequestSave(s, r, f)
      PROVE  RidesKept
  BY <1>1 DEF RequestSave, TypeOK
<1>2. ASSUME NEW s \in Slots, RequestNotify(s) PROVE RidesKept
  BY <1>2 DEF RequestNotify, TypeOK, SetStatus
<1>3. ASSUME NEW s \in Slots, AcceptSave(s) PROVE RidesKept
  BY <1>3 DEF AcceptSave, TypeOK, SetStatus
<1>4. ASSUME NEW s \in Slots, CancelSave(s) PROVE RidesKept
  BY <1>4 DEF CancelSave, TypeOK, SetStatus
<1>5. ASSUME NEW s \in Slots, StartSave(s) PROVE RidesKept
  BY <1>5 DEF StartSave, TypeOK, SetStatus
<1>6. ASSUME NEW s \in Slots, CompleteSave(s) PROVE RidesKept
  BY <1>6 DEF CompleteSave, TypeOK, SetStatus
<1>7. ASSUME NEW s \in Slots, StartCharge(s) PROVE RidesKept
  BY <1>7 DEF StartCharge, TypeOK, Count
<1>8. ASSUME NEW s \in Slots, CompleteSaveDriver(s) PROVE RidesKept
  BY <1>8 DEF CompleteSaveDriver, TypeOK, Count
<1>9. ASSUME NEW s \in Slots, RedeemAward(s) PROVE RidesKept
  BY <1>9 DEF RedeemAward, TypeOK, Count
<1>10. CASE UNCHANGED <<status, rider, estimate, method, history>>
  BY <1>10
<1>11. ASSUME NEW s \in Slots, Start(s) PROVE RidesKept
  BY <1>10, <1>11, StartKeeps
<1>12. ASSUME NEW s \in Slots,
              RequestNoId(s) \/ AcceptCheck(s) \/ CompleteReadRider(s)
                \/ CompleteReadDriver(s) \/ CompleteSaveRider(s)
                \/ RedeemSave(s)
       PROVE  RidesKept
  BY <1>10, <1>12 DEF RequestNoId, AcceptCheck, CompleteReadRider,
                      CompleteReadDriver, CompleteSaveRider, RedeemSave
<1>13. CASE Restart \/ UNCHANGED vars
  BY <1>10, <1>13 DEF Restart, vars
<1> QED
  BY <1>1, <1>2, <1>3, <1>4, <1>5, <1>6, <1>7, <1>8, <1>9, <1>11, <1>12,
     <1>13, NextCases DEF Move

-----------------------------------------------------------------------------
(* The first layer: types, handlers and rides in use *)

LEMMA SavedType ==
  ASSUME NEW wallet \in [Users -> Int], NEW u, NEW seen \in Int,
         NEW amount \in Int
  PROVE  Saved(wallet, u, seen, amount) \in [Users -> Int]
<1>1. seen + amount \in Int
  OBVIOUS
<1>2. [wallet EXCEPT ![u] = seen + amount] \in [Users -> Int]
  BY <1>1
<1> QED BY <1>2 DEF Saved

\* Every step keeps the types, given what the handlers in progress know.
LEMMA TypeStep == Inv1 /\ [Next]_vars => TypeOK'
<1> SUFFICES ASSUME TypeOK, HandlersOK, UsedOK, [Next]_vars PROVE TypeOK'
  BY DEF Inv1
<1> USE DEF rideDoc, wallets, history
<1>1. ASSUME NEW s \in Slots, NEW u \in Users, NEW m \in Methods,
       NEW later \in BOOLEAN,
             RequestBegin(s, u, m, later)
      PROVE  TypeOK'
  <2>1. req' \in [Slots -> Handlers]
    BY <1>1, HandlerType, PutFields DEF RequestBegin, PC
  <2> QED BY <1>1, <2>1 DEF RequestBegin, TypeOK
<1>2. ASSUME NEW s \in Slots, NEW u \in Users, NEW r \in Rides,
             CancelBegin(s, u, r)
      PROVE  TypeOK'
  <2>1. req' \in [Slots -> Handlers]
    BY <1>2, BeginFields, RideAssumption DEF CancelBegin, PC
  <2> QED BY <1>2, <2>1 DEF CancelBegin, TypeOK
<1>3. ASSUME NEW s \in Slots, NEW u \in Users, NEW r \in Rides,
             RedeemBegin(s, u, r)
      PROVE  TypeOK'
  <2>1. req' \in [Slots -> Handlers]
    BY <1>3, BeginFields, RideAssumption DEF RedeemBegin, PC
  <2> QED BY <1>3, <2>1 DEF RedeemBegin, TypeOK
<1>4. ASSUME NEW s \in Slots, NEW d \in Drivers, NEW r \in Rides,
             AcceptBegin(s, d, r)
      PROVE  TypeOK'
  <2>1. req' \in [Slots -> Handlers]
    BY <1>4, BeginFields, RideAssumption DEF AcceptBegin, PC
  <2> QED BY <1>4, <2>1 DEF AcceptBegin, TypeOK
<1>5. ASSUME NEW s \in Slots, NEW d \in Drivers, NEW r \in Rides,
             StartBegin(s, d, r)
      PROVE  TypeOK'
  <2>1. req' \in [Slots -> Handlers]
    BY <1>5, BeginFields, RideAssumption DEF StartBegin, PC
  <2> QED BY <1>5, <2>1 DEF StartBegin, TypeOK
<1>6. ASSUME NEW s \in Slots, NEW d \in Drivers, NEW r \in Rides,
       NEW f \in Fares,
             CompleteBegin(s, d, r, f)
      PROVE  TypeOK'
  <2>0. Handler("c_rider", d, r, "cash", FALSE, f) \in Handlers
    BY RideAssumption DEF Handler, Handlers, PC
  <2>1. req' \in [Slots -> Handlers]
    BY <1>6, <2>0, PutFields DEF CompleteBegin
  <2> QED BY <1>6, <2>1 DEF CompleteBegin, TypeOK
<1>7. ASSUME NEW s \in Slots, RequestNoId(s) PROVE TypeOK'
  <2>1. req' \in [Slots -> Handlers]
    BY <1>7, ReturnFields DEF RequestNoId
  <2> QED BY <1>7, <2>1 DEF RequestNoId, TypeOK
<1>8. ASSUME NEW s \in Slots, NEW r \in Rides, NEW f \in Fares,
             RequestSave(s, r, f)
      PROVE  TypeOK'
  <2>1. req' \in [Slots -> Handlers]
    BY <1>8, BeginFields DEF RequestSave, PC, HandlersOK, HandlerOK
  <2> QED BY <1>8, <2>1, RideAssumption
     DEF RequestSave, TypeOK, HandlersOK, HandlerOK, Handlers, Statuses
<1>9. ASSUME NEW s \in Slots, RequestNotify(s) PROVE TypeOK'
  <2>1. req' \in [Slots -> Handlers]
    BY <1>9, ReturnFields DEF RequestNotify
  <2> QED BY <1>9, <2>1 DEF RequestNotify, TypeOK, SetStatus, Statuses
<1>10. ASSUME NEW s \in Slots, AcceptCheck(s) PROVE TypeOK'
  <2>1. req' \in [Slots -> Handlers]
    BY <1>10, ReturnFields, GotoFields DEF AcceptCheck, PC
  <2> QED BY <1>10, <2>1 DEF AcceptCheck, TypeOK
<1>11. ASSUME NEW s \in Slots, AcceptSave(s) PROVE TypeOK'
  <2>1. req' \in [Slots -> Handlers]
    BY <1>11, ReturnFields DEF AcceptSave
  <2> QED BY <1>11, <2>1
     DEF AcceptSave, TypeOK, SetStatus, Statuses, HandlersOK, HandlerOK
<1>12. ASSUME NEW s \in Slots, CancelSave(s) PROVE TypeOK'
  <2>1. req' \in [Slots -> Handlers]
    BY <1>12, ReturnFields DEF CancelSave
  <2> QED BY <1>12, <2>1 DEF CancelSave, TypeOK, SetStatus, Statuses
<1>13. ASSUME NEW s \in Slots, StartCharge(s) PROVE TypeOK'
  <2>1. req' \in [Slots -> Handlers]
    BY <1>13, GotoFields DEF StartCharge, PC
  <2>2. /\ req[s].user \in Users /\ req[s].ride \in Rides
        /\ Commission[estimate[req[s].ride]] \in Nat
    BY <1>13, WorkingOn DEF StartCharge, RidePcs, PC
  <2>3. balance' \in [Users -> Int]
    BY <1>13, <2>2 DEF StartCharge, TypeOK
  <2>4. charges' \in [Rides -> Nat]
    BY <1>13, <2>2 DEF StartCharge, Count, TypeOK
  <2> QED BY <1>13, <2>1, <2>3, <2>4 DEF StartCharge, TypeOK
<1>14. ASSUME NEW s \in Slots, StartSave(s) PROVE TypeOK'
  <2>1. req' \in [Slots -> Handlers]
    BY <1>14, ReturnFields DEF StartSave
  <2> QED BY <1>14, <2>1 DEF StartSave, TypeOK, SetStatus, Statuses
<1>15. ASSUME NEW s \in Slots, CompleteReadRider(s) PROVE TypeOK'
  <2>1. req' \in [Slots -> Handlers]
    BY <1>15, ReadFields DEF CompleteReadRider
  <2> QED BY <1>15, <2>1 DEF CompleteReadRider, TypeOK
<1>16. ASSUME NEW s \in Slots, CompleteReadDriver(s) PROVE TypeOK'
  <2>1. req' \in [Slots -> Handlers]
    BY <1>16, ReadFields DEF CompleteReadDriver
  <2> QED BY <1>16, <2>1 DEF CompleteReadDriver, TypeOK
<1>17. ASSUME NEW s \in Slots, CompleteSaveRider(s) PROVE TypeOK'
  <2>1. req' \in [Slots -> Handlers]
    BY <1>17, GotoFields DEF CompleteSaveRider, PC
  <2>2. req[s] \in Handlers /\ req[s].fare \in Fares
    BY <1>17 DEF CompleteSaveRider, HandlersOK, HandlerOK, CompletePcs, TypeOK
  <2>3. /\ req[s].fare \in Int /\ req[s].purse \in Int
        /\ PointPrice[req[s].fare] \in Int
    BY <2>2, RideAssumption DEF Handlers
  <2>4. balance' \in [Users -> Int]
    BY <1>17, <2>3, SavedType DEF CompleteSaveRider, TypeOK
  <2>5. points' \in [Users -> Int]
    BY <1>17, <2>3, SavedType DEF CompleteSaveRider, TypeOK
  <2> QED BY <1>17, <2>1, <2>4, <2>5 DEF CompleteSaveRider, TypeOK
<1>18. ASSUME NEW s \in Slots, CompleteSaveDriver(s) PROVE TypeOK'
  <2>1. req' \in [Slots -> Handlers]
    BY <1>18, GotoFields DEF CompleteSaveDriver, PC
  <2>2. req[s].ride \in Rides /\ Commission[estimate[req[s].ride]] \in Nat
    BY <1>18, WorkingOn DEF CompleteSaveDriver, RidePcs, PC
  <2>3. req[s].fare \in Int /\ req[s].till \in Int
    BY DEF TypeOK, Handlers
  <2>4. Earnings(s) \in Int
    BY <2>2, <2>3 DEF Earnings
  <2>5. balance' \in [Users -> Int]
    BY <1>18, <2>3, <2>4, SavedType DEF CompleteSaveDriver, TypeOK
  <2>6. payouts' \in [Rides -> Nat]
    BY <1>18, <2>2 DEF CompleteSaveDriver, Count, TypeOK
  <2> QED BY <1>18, <2>1, <2>5, <2>6 DEF CompleteSaveDriver, TypeOK
<1>19. ASSUME NEW s \in Slots, CompleteSave(s) PROVE TypeOK'
  <2>1. req' \in [Slots -> Handlers]
    BY <1>19, ReturnFields DEF CompleteSave
  <2> QED BY <1>19, <2>1
     DEF CompleteSave, TypeOK, SetStatus, Statuses, Handlers
<1>20. ASSUME NEW s \in Slots, RedeemAward(s) PROVE TypeOK'
  <2>1. req' \in [Slots -> Handlers]
    BY <1>20, GotoFields DEF RedeemAward, PC
  <2>2. req[s].user \in Users /\ req[s].ride \in Rides
    BY <1>20, WorkingOn DEF RedeemAward, RidePcs, PC
  <2>3. points' \in [Users -> Int]
    BY <1>20, <2>2, RideAssumption DEF RedeemAward, TypeOK
  <2>4. awards' \in [Rides -> Nat]
    BY <1>20, <2>2 DEF RedeemAward, Count, TypeOK
  <2> QED BY <1>20, <2>1, <2>3, <2>4 DEF RedeemAward, TypeOK
<1>21. ASSUME NEW s \in Slots, RedeemSave(s) PROVE TypeOK'
  <2>1. req' \in [Slots -> Handlers]
    BY <1>21, ReturnFields DEF RedeemSave
  <2> QED BY <1>21, <2>1 DEF RedeemSave, TypeOK
<1>22. CASE Restart
  <2>1. req' \in [Slots -> Handlers]
    BY <1>22, IdleType DEF Restart
  <2>2. restarts' \in 0..MaxRestarts
    BY <1>22, RideAssumption DEF Restart, TypeOK
  <2> QED BY <1>22, <2>1, <2>2 DEF Restart, TypeOK
<1>23. CASE UNCHANGED vars
  BY <1>23 DEF vars, TypeOK
<1> QED
  BY <1>1, <1>2, <1>3, <1>4, <1>5, <1>6, <1>7, <1>8, <1>9, <1>10, <1>11,
     <1>12, <1>13, <1>14, <1>15, <1>16, <1>17, <1>18, <1>19, <1>20, <1>21,
     <1>22, <1>23
     DEF Next, Continue, Start

LEMMA UsedStep == Inv1 /\ [Next]_vars => UsedOK'
<1> SUFFICES ASSUME TypeOK, HandlersOK, UsedOK, RidesKept, [Next]_vars,
                    NEW r \in Rides, status'[r] # "none"
             PROVE  estimate'[r] \in Fares /\ rider'[r] \in Users
  BY RidesKeptStep DEF Inv1, UsedOK
<1>1. CASE status[r] # "none"
  BY <1>1 DEF RidesKept, UsedOK
<1>2. CASE status[r] = "none"
  <2>1. ASSUME NEW s \in Slots, NEW q \in Rides, NEW f \in Fares,
               RequestSave(s, q, f)
        PROVE  estimate'[r] \in Fares /\ rider'[r] \in Users
    BY <1>2, <2>1 DEF RequestSave, HandlersOK, HandlerOK, TypeOK
  <2>2. CASE UNCHANGED status
    BY <1>2, <2>2
  <2>3. ASSUME NEW s \in Slots,
               RequestNotify(s) \/ AcceptSave(s) \/ CancelSave(s)
                 \/ StartSave(s) \/ CompleteSave(s)
        PROVE  FALSE
    BY <1>2, <2>3 DEF RequestNotify, AcceptSave, CancelSave, StartSave,
                      CompleteSave, SetStatus, HandlersOK, HandlerOK, RidePcs,
                      PC, TypeOK
  <2>4. ASSUME NEW s \in Slots,
               RequestNoId(s) \/ AcceptCheck(s) \/ StartCharge(s)
                 \/ CompleteReadRider(s) \/ CompleteReadDriver(s)
                 \/ CompleteSaveRider(s)
                 \/ CompleteSaveDriver(s) \/ RedeemAward(s) \/ RedeemSave(s)
        PROVE  UNCHANGED status
    BY <2>4 DEF RequestNoId, AcceptCheck, StartCharge, CompleteReadRider,
                CompleteReadDriver, CompleteSaveRider, CompleteSaveDriver,
                RedeemAward, RedeemSave
  <2>5. ASSUME NEW s \in Slots, Start(s)
        PROVE  UNCHANGED status
    BY <2>5 DEF Start, RequestBegin, CancelBegin, RedeemBegin, AcceptBegin,
                StartBegin, CompleteBegin
  <2>6. CASE Restart \/ UNCHANGED vars
    BY <2>2, <2>6 DEF Restart, vars
  <2> QED BY <2>1, <2>2, <2>3, <2>4, <2>5, <2>6 DEF Next, Continue
<1> QED BY <1>1, <1>2

LEMMA HandlersStep == Inv1 /\ [Next]_vars => HandlersOK'
<1> SUFFICES ASSUME TypeOK, HandlersOK, UsedOK, RidesKept, [Next]_vars
             PROVE  HandlersOK'
  BY RidesKeptStep DEF Inv1
<1> USE DEF HandlersOK
\* A handler whose record is unchanged.
<1>0. ASSUME NEW t \in Slots, req'[t] = req[t] PROVE HandlerOK(t)'
  BY <1>0 DEF HandlerOK, RidesKept
<1>1. ASSUME NEW s \in Slots, NEW u \in Users, NEW m \in Methods,
       NEW later \in BOOLEAN,
             RequestBegin(s, u, m, later)
      PROVE  HandlersOK'
  <2>1. Handler("q_save", u, NoRide, m, later, 0) \in Handlers
    BY RideAssumption DEF Handler, Handlers, PC
  <2>2. HandlerOK(s)'
    BY <1>1, <2>1, PutFields, RideAssumption
       DEF RequestBegin, Handler, HandlerOK, RidePcs, CompletePcs, PC
  <2> QED BY <1>0, <1>1, <2>1, <2>2, PutFields DEF RequestBegin
<1>2. ASSUME NEW s \in Slots, NEW u \in Users, NEW r \in Rides,
             CancelBegin(s, u, r)
      PROVE  HandlersOK'
  <2>1. HandlerOK(s)'
    BY <1>2, BeginFields, RideAssumption
       DEF CancelBegin, HandlerOK, RidePcs, CompletePcs, PC, rideDoc,
           Cancellable
  <2> QED BY <1>0, <1>2, <2>1, BeginFields, RideAssumption DEF CancelBegin, PC
<1>3. ASSUME NEW s \in Slots, NEW u \in Users, NEW r \in Rides,
             RedeemBegin(s, u, r)
      PROVE  HandlersOK'
  <2>1. HandlerOK(s)'
    BY <1>3, BeginFields, RideAssumption
       DEF RedeemBegin, HandlerOK, RidePcs, CompletePcs, PC, rideDoc
  <2> QED BY <1>0, <1>3, <2>1, BeginFields, RideAssumption DEF RedeemBegin, PC
<1>4. ASSUME NEW s \in Slots, NEW d \in Drivers, NEW r \in Rides,
             AcceptBegin(s, d, r)
      PROVE  HandlersOK'
  <2>1. HandlerOK(s)'
    BY <1>4, BeginFields, RideAssumption
       DEF AcceptBegin, HandlerOK, RidePcs, CompletePcs, PC, rideDoc
  <2> QED BY <1>0, <1>4, <2>1, BeginFields, RideAssumption DEF AcceptBegin, PC
<1>5. ASSUME NEW s \in Slots, NEW d \in Drivers, NEW r \in Rides,
             StartBegin(s, d, r)
      PROVE  HandlersOK'
  <2>1. HandlerOK(s)'
    BY <1>5, BeginFields, RideAssumption
       DEF StartBegin, HandlerOK, RidePcs, CompletePcs, PC, rideDoc
  <2> QED BY <1>0, <1>5, <2>1, BeginFields, RideAssumption DEF StartBegin, PC
<1>6. ASSUME NEW s \in Slots, NEW d \in Drivers, NEW r \in Rides,
       NEW f \in Fares,
             CompleteBegin(s, d, r, f)
      PROVE  HandlersOK'
  <2>1. Handler("c_rider", d, r, "cash", FALSE, f) \in Handlers
    BY RideAssumption DEF Handler, Handlers, PC
  <2>2. HandlerOK(s)'
    BY <1>6, <2>1, PutFields, RideAssumption
       DEF CompleteBegin, Handler, HandlerOK, RidePcs, CompletePcs, PC
  <2> QED BY <1>0, <1>6, <2>1, <2>2, PutFields DEF CompleteBegin
<1>7. ASSUME NEW s \in Slots, NEW r \in Rides, NEW f \in Fares,
             RequestSave(s, r, f)
      PROVE  HandlersOK'
  <2>1. req[s].user \in Users
    BY <1>7 DEF RequestSave, HandlerOK
  <2>2. /\ req'[s].pc = "q_notify" /\ req'[s].user \in Users /\ req'[s].ride = r
        /\ \A t \in Slots \ {s} : req'[t] = req[t]
    BY <1>7, <2>1, BeginFields DEF RequestSave, PC
  <2>3. status'[r] # "none"
    BY <1>7 DEF RequestSave, TypeOK
  <2>4. HandlerOK(s)'
    BY <2>2, <2>3 DEF HandlerOK, CompletePcs
  <2> QED BY <1>0, <2>2, <2>4
<1>8. ASSUME NEW s \in Slots, Move(s) PROVE HandlersOK'
  <2>1. CASE req'[s].pc = "idle"
    BY <1>0, <1>8, <2>1, MoveFields DEF HandlerOK, RidePcs, CompletePcs
  <2>2. CASE req'[s].pc # "idle"
    <3>1. /\ req[s].user \in Users /\ req[s].ride \in Rides
          /\ status[req[s].ride] # "none"
      BY <1>8, <2>2, MoveFields, WorkingOn
    <3>2. status'[req[s].ride] # "none"
      BY <3>1 DEF RidesKept
    <3>3. req'[s].pc \in CompletePcs => req[s].fare \in Fares
      BY <1>8, <2>2, MoveFields DEF HandlerOK
    <3>4. HandlerOK(s)'
      BY <1>8, <2>2, <3>1, <3>2, <3>3, MoveFields DEF HandlerOK
    <3> QED BY <1>0, <1>8, <3>4, MoveFields
  <2> QED BY <2>1, <2>2
<1>9. CASE Restart
  BY <1>9 DEF Restart, HandlerOK, Idle, Handler, RidePcs, CompletePcs
<1>10. CASE UNCHANGED vars
  BY <1>0, <1>10 DEF vars
<1> QED
  BY <1>1, <1>2, <1>3, <1>4, <1>5, <1>6, <1>7, <1>8, <1>9, <1>10, NextCases
     DEF Start

LEMMA Inv1Init == Init => Inv1
<1> SUFFICES ASSUME Init PROVE Inv1
  OBVIOUS
<1>1. TypeOK
  BY IdleType, RideAssumption DEF Init, TypeOK, Statuses
<1>2. HandlersOK /\ UsedOK
  BY
     DEF Init, HandlersOK, HandlerOK, UsedOK, Idle, Handler, RidePcs,
         CompletePcs
<1> QED BY <1>1, <1>2 DEF Inv1

LEMMA Inv1Inductive == Inv1 /\ [Next]_vars => Inv1'
BY TypeStep, UsedStep, HandlersStep DEF Inv1

\* Every variable keeps its type: no handler works on a ride that is not
\* there, and no amount is computed from a fare that was never quoted.
THEOREM TypeCorrect == Spec => []TypeOK
<1>1. Inv1 => TypeOK
  BY DEF Inv1
<1> QED BY Inv1Init, Inv1Inductive, <1>1, PTL DEF Spec

-----------------------------------------------------------------------------
(* The second layer: money moves first *)

LEMMA SettledHandlersStep == Inv1 /\ Inv2 /\ [Next]_vars => HandlersSettled'
<1> SUFFICES ASSUME TypeOK, HandlersOK, UsedOK, HandlersSettled, RidesKept,
                    SettledBeforeMarked, [Next]_vars
             PROVE  HandlersSettled'
  BY RidesKeptStep DEF Inv1, Inv2
<1> USE DEF HandlersSettled
\* A handler whose record is unchanged.
<1>0. ASSUME NEW t \in Slots, req'[t] = req[t] PROVE HandlerSettled(t)'
  BY <1>0 DEF HandlerSettled, HandlersOK, HandlerOK, RidesKept, RidePcs, PC,
              CompletePcs
<1>1. ASSUME NEW s \in Slots, NEW u \in Users, NEW m \in Methods,
       NEW later \in BOOLEAN,
             RequestBegin(s, u, m, later)
      PROVE  HandlersSettled'
  <2>1. Handler("q_save", u, NoRide, m, later, 0) \in Handlers
    BY RideAssumption DEF Handler, Handlers, PC
  <2>2. HandlerSettled(s)'
    BY <1>1, <2>1, PutFields
       DEF RequestBegin, Handler, HandlerSettled, CompletePcs,
           SettledBeforeMarked, history
  <2> QED BY <1>0, <1>1, <2>1, <2>2, PutFields DEF RequestBegin
<1>2. ASSUME NEW s \in Slots, NEW u \in Users, NEW r \in Rides,
             CancelBegin(s, u, r)
      PROVE  HandlersSettled'
  <2>1. HandlerSettled(s)'
    BY <1>2, BeginFields, RideAssumption
       DEF CancelBegin, HandlerSettled, CompletePcs, PC, rideDoc, history
  <2> QED BY <1>0, <1>2, <2>1, BeginFields, RideAssumption DEF CancelBegin, PC
<1>3. ASSUME NEW s \in Slots, NEW u \in Users, NEW r \in Rides,
             RedeemBegin(s, u, r)
      PROVE  HandlersSettled'
  <2>1. HandlerSettled(s)'
    BY <1>3, BeginFields, RideAssumption
       DEF RedeemBegin, HandlerSettled, CompletePcs, PC, rideDoc, history
  <2> QED BY <1>0, <1>3, <2>1, BeginFields, RideAssumption DEF RedeemBegin, PC
<1>4. ASSUME NEW s \in Slots, NEW d \in Drivers, NEW r \in Rides,
             AcceptBegin(s, d, r)
      PROVE  HandlersSettled'
  <2>1. HandlerSettled(s)'
    BY <1>4, BeginFields, RideAssumption
       DEF AcceptBegin, HandlerSettled, CompletePcs, PC, rideDoc, history
  <2> QED BY <1>0, <1>4, <2>1, BeginFields, RideAssumption DEF AcceptBegin, PC
<1>5. ASSUME NEW s \in Slots, NEW d \in Drivers, NEW r \in Rides,
             StartBegin(s, d, r)
      PROVE  HandlersSettled'
  <2>1. HandlerSettled(s)'
    BY <1>5, BeginFields, RideAssumption
       DEF StartBegin, HandlerSettled, CompletePcs, PC, rideDoc, history
  <2> QED BY <1>0, <1>5, <2>1, BeginFields, RideAssumption DEF StartBegin, PC
<1>6. ASSUME NEW s \in Slots, NEW d \in Drivers, NEW r \in Rides,
       NEW f \in Fares,
             CompleteBegin(s, d, r, f)
      PROVE  HandlersSettled'
  <2>1. Handler("c_rider", d, r, "cash", FALSE, f) \in Handlers
    BY RideAssumption DEF Handler, Handlers, PC
  <2>2. HandlerSettled(s)'
    BY <1>6, <2>1, PutFields
       DEF CompleteBegin, Handler, HandlerSettled, CompletePcs,
           SettledBeforeMarked, history
  <2> QED BY <1>0, <1>6, <2>1, <2>2, PutFields DEF CompleteBegin
<1>7. ASSUME NEW s \in Slots, RequestNoId(s) PROVE HandlersSettled'
  <2>1. HandlerSettled(s)'
    BY <1>7, ReturnFields
       DEF RequestNoId, HandlerSettled, CompletePcs, PC, HandlersOK,
           HandlerOK, rideDoc, history
  <2> QED BY <1>0, <1>7, <2>1, ReturnFields
     DEF RequestNoId, PC, HandlersOK, HandlerOK
<1>8. ASSUME NEW s \in Slots, NEW r \in Rides, NEW f \in Fares,
             RequestSave(s, r, f)
      PROVE  HandlersSettled'
  <2>1. HandlerSettled(s)'
    BY <1>8, BeginFields
       DEF RequestSave, HandlerSettled, CompletePcs, PC, HandlersOK,
           HandlerOK, rideDoc, history
  <2> QED BY <1>0, <1>8, <2>1, BeginFields
     DEF RequestSave, PC, HandlersOK, HandlerOK
<1>9. ASSUME NEW s \in Slots, RequestNotify(s) PROVE HandlersSettled'
  <2>1. HandlerSettled(s)'
    BY <1>9, ReturnFields
       DEF RequestNotify, HandlerSettled, CompletePcs, PC, HandlersOK,
           HandlerOK, rideDoc, history
  <2> QED BY <1>0, <1>9, <2>1, ReturnFields
     DEF RequestNotify, PC, HandlersOK, HandlerOK
<1>10. ASSUME NEW s \in Slots, AcceptCheck(s) PROVE HandlersSettled'
  <2>1. HandlerSettled(s)'
    BY <1>10, ReturnFields, GotoFields
       DEF AcceptCheck, HandlerSettled, CompletePcs, PC, HandlersOK,
           HandlerOK, rideDoc, history
  <2> QED BY <1>0, <1>10, <2>1, ReturnFields, GotoFields
     DEF AcceptCheck, PC, HandlersOK, HandlerOK
<1>11. ASSUME NEW s \in Slots, AcceptSave(s) PROVE HandlersSettled'
  <2>1. HandlerSettled(s)'
    BY <1>11, ReturnFields
       DEF AcceptSave, HandlerSettled, CompletePcs, PC, HandlersOK, HandlerOK,
           rideDoc, history
  <2> QED BY <1>0, <1>11, <2>1, ReturnFields
     DEF AcceptSave, PC, HandlersOK, HandlerOK
<1>12. ASSUME NEW s \in Slots, CancelSave(s) PROVE HandlersSettled'
  <2>1. HandlerSettled(s)'
    BY <1>12, ReturnFields
       DEF CancelSave, HandlerSettled, CompletePcs, PC, HandlersOK, HandlerOK,
           rideDoc, history
  <2> QED BY <1>0, <1>12, <2>1, ReturnFields
     DEF CancelSave, PC, HandlersOK, HandlerOK
<1>13. ASSUME NEW s \in Slots, StartCharge(s) PROVE HandlersSettled'
  <2>1. HandlerSettled(s)'
    BY <1>13, GotoFields
       DEF StartCharge, HandlerSettled, CompletePcs, PC, HandlersOK,
           HandlerOK, Count, TypeOK, RidePcs, rideDoc, history
  <2> QED BY <1>0, <1>13, <2>1, GotoFields
     DEF StartCharge, PC, HandlersOK, HandlerOK
<1>14. ASSUME NEW s \in Slots, StartSave(s) PROVE HandlersSettled'
  <2>1. HandlerSettled(s)'
    BY <1>14, ReturnFields
       DEF StartSave, HandlerSettled, CompletePcs, PC, HandlersOK, HandlerOK,
           rideDoc, history
  <2> QED BY <1>0, <1>14, <2>1, ReturnFields
     DEF StartSave, PC, HandlersOK, HandlerOK
<1>15. ASSUME NEW s \in Slots, CompleteReadRider(s) PROVE HandlersSettled'
  <2>1. HandlerSettled(s)'
    BY <1>15, ReadFields
       DEF CompleteReadRider, RidesKept, RidePcs, HandlerSettled, CompletePcs,
           PC, HandlersOK, HandlerOK, rideDoc, history
  <2> QED BY <1>0, <1>15, <2>1, ReadFields
     DEF CompleteReadRider, PC, HandlersOK, HandlerOK
<1>16. ASSUME NEW s \in Slots, CompleteReadDriver(s) PROVE HandlersSettled'
  <2>1. HandlerSettled(s)'
    BY <1>16, ReadFields
       DEF CompleteReadDriver, RidesKept, RidePcs, HandlerSettled,
           CompletePcs, PC, HandlersOK, HandlerOK, rideDoc, history
  <2> QED BY <1>0, <1>16, <2>1, ReadFields
     DEF CompleteReadDriver, PC, HandlersOK, HandlerOK
<1>17. ASSUME NEW s \in Slots, CompleteSaveRider(s) PROVE HandlersSettled'
  <2>1. HandlerSettled(s)'
    BY <1>17, GotoFields
       DEF CompleteSaveRider, RidesKept, RidePcs, HandlerSettled, CompletePcs,
           PC, HandlersOK, HandlerOK, rideDoc, history
  <2> QED BY <1>0, <1>17, <2>1, GotoFields
     DEF CompleteSaveRider, PC, HandlersOK, HandlerOK
<1>18. ASSUME NEW s \in Slots, CompleteSaveDriver(s) PROVE HandlersSettled'
  <2>1. HandlerSettled(s)'
    BY <1>18, GotoFields
       DEF CompleteSaveDriver, HandlerSettled, CompletePcs, PC, HandlersOK,
           HandlerOK, Count, TypeOK, RidePcs, rideDoc, history
  <2> QED BY <1>0, <1>18, <2>1, GotoFields
     DEF CompleteSaveDriver, PC, HandlersOK, HandlerOK
<1>19. ASSUME NEW s \in Slots, CompleteSave(s) PROVE HandlersSettled'
  <2>1. HandlerSettled(s)'
    BY <1>19, ReturnFields
       DEF CompleteSave, HandlerSettled, CompletePcs, PC, HandlersOK,
           HandlerOK, rideDoc, history
  <2> QED BY <1>0, <1>19, <2>1, ReturnFields
     DEF CompleteSave, PC, HandlersOK, HandlerOK
<1>20. ASSUME NEW s \in Slots, RedeemAward(s) PROVE HandlersSettled'
  <2>1. HandlerSettled(s)'
    BY <1>20, GotoFields
       DEF RedeemAward, HandlerSettled, CompletePcs, PC, HandlersOK,
           HandlerOK, Count, TypeOK, RidePcs, rideDoc, history
  <2> QED BY <1>0, <1>20, <2>1, GotoFields
     DEF RedeemAward, PC, HandlersOK, HandlerOK
<1>21. ASSUME NEW s \in Slots, RedeemSave(s) PROVE HandlersSettled'
  <2>1. HandlerSettled(s)'
    BY <1>21, ReturnFields
       DEF RedeemSave, HandlerSettled, CompletePcs, PC, HandlersOK, HandlerOK,
           rideDoc, history
  <2> QED BY <1>0, <1>21, <2>1, ReturnFields
     DEF RedeemSave, PC, HandlersOK, HandlerOK
<1>22. CASE Restart
  BY <1>22 DEF Restart, HandlerSettled, Idle, Handler, CompletePcs
<1>23. CASE UNCHANGED vars
  BY <1>0, <1>23 DEF vars
<1> QED
  BY <1>1, <1>2, <1>3, <1>4, <1>5, <1>6, <1>7, <1>8, <1>9, <1>10, <1>11,
     <1>12, <1>13, <1>14, <1>15, <1>16, <1>17, <1>18, <1>19, <1>20, <1>21,
     <1>22, <1>23
     DEF Next, Continue, Start

\* The conjuncts of SettledBeforeMarked for one ride.
Settled(r) ==
  /\ status[r] \in {"in_progress", "completed"} => charges[r] > 0
  /\ status[r] = "completed" /\ method[r] # "cash" => payouts[r] > 0
  /\ redeemed[r] => awards[r] > 0

LEMMA SettledStep == Inv1 /\ Inv2 /\ [Next]_vars => SettledBeforeMarked'
<1> SUFFICES ASSUME TypeOK, HandlersOK, UsedOK, HandlersSettled, RidesKept,
                    SettledBeforeMarked, [Next]_vars, NEW q \in Rides
             PROVE  Settled(q)'
  BY RidesKeptStep DEF Inv1, Inv2, SettledBeforeMarked, Settled
<1>0. Settled(q)
  BY DEF SettledBeforeMarked, Settled
<1> USE DEF Settled, rideDoc, history, HandlersOK, HandlersSettled
<1>1. ASSUME NEW s \in Slots, NEW r \in Rides, NEW f \in Fares,
             RequestSave(s, r, f)
      PROVE  Settled(q)'
  BY <1>0, <1>1 DEF RequestSave, TypeOK, HandlerOK, RidePcs, PC
<1>2. ASSUME NEW s \in Slots, RequestNotify(s) PROVE Settled(q)'
  BY <1>0, <1>2 DEF RequestNotify, TypeOK, HandlerOK, RidePcs, PC, SetStatus
<1>3. ASSUME NEW s \in Slots, AcceptSave(s) PROVE Settled(q)'
  BY <1>0, <1>3 DEF AcceptSave, TypeOK, HandlerOK, RidePcs, PC, SetStatus
<1>4. ASSUME NEW s \in Slots, CancelSave(s) PROVE Settled(q)'
  BY <1>0, <1>4 DEF CancelSave, TypeOK, HandlerOK, RidePcs, PC, SetStatus
<1>5. ASSUME NEW s \in Slots, StartSave(s) PROVE Settled(q)'
  BY <1>0, <1>5
     DEF StartSave, TypeOK, HandlerOK, RidePcs, PC, SetStatus, HandlerSettled,
         CompletePcs
<1>6. ASSUME NEW s \in Slots, CompleteSave(s) PROVE Settled(q)'
  BY <1>0, <1>6
     DEF CompleteSave, TypeOK, HandlerOK, RidePcs, PC, SetStatus,
         HandlerSettled, CompletePcs
<1>7. ASSUME NEW s \in Slots, RedeemSave(s) PROVE Settled(q)'
  BY <1>0, <1>7 DEF RedeemSave, TypeOK, HandlerOK, RidePcs, PC, HandlerSettled
<1>8. CASE UNCHANGED <<status, method, redeemed>>
  BY <1>0, <1>8 DEF RidesKept
<1>9. ASSUME NEW s \in Slots, Start(s) PROVE Settled(q)'
  BY <1>8, <1>9, StartKeeps
<1>10. ASSUME NEW s \in Slots,
              RequestNoId(s) \/ AcceptCheck(s) \/ StartCharge(s)
                \/ CompleteReadRider(s) \/ CompleteReadDriver(s)
                \/ CompleteSaveRider(s) \/ CompleteSaveDriver(s)
                \/ RedeemAward(s)
       PROVE  Settled(q)'
  BY <1>8, <1>10 DEF RequestNoId, AcceptCheck, StartCharge, CompleteReadRider,
                     CompleteReadDriver, CompleteSaveRider,
                     CompleteSaveDriver, RedeemAward
<1>11. CASE Restart \/ UNCHANGED vars
  BY <1>8, <1>11 DEF Restart, vars
<1> QED
  BY <1>1, <1>2, <1>3, <1>4, <1>5, <1>6, <1>7, <1>9, <1>10, <1>11, NextCases
     DEF Move

LEMMA Inv2Init == Init => Inv2
BY DEF Init, Inv2, HandlersSettled, HandlerSettled, SettledBeforeMarked, Idle,
       Handler, CompletePcs

LEMMA Inv2Inductive == Inv1 /\ Inv2 /\ [Next]_vars => Inv2'
BY SettledHandlersStep, SettledStep DEF Inv2

\* However handlers overlap and whenever the process ends, no ride is marked
\* as started, completed or redeemed before the money for it has moved.
THEOREM SettledCorrect == Spec => []SettledBeforeMarked
<1>1. Inv2 => SettledBeforeMarked
  BY DEF Inv2
<1> QED BY Inv1Init, Inv1Inductive, Inv2Init, Inv2Inductive, <1>1, PTL DEF Spec

-----------------------------------------------------------------------------
(* Without overlap: one active ride, and the lifecycle *)

\* What the handler that is alone has read of its ride still holds.
Expects(s) ==
  LET pc == req[s].pc
      st == status[req[s].ride]
  IN /\ pc = "q_save" => ~HasActiveRide(req[s].user)
     /\ pc = "q_notify" => st \in {"pending", "scheduled"}
     /\ pc \in {"a_check", "a_save"} => st = "pending"
     /\ pc \in {"s_charge", "s_save"} => st = "accepted"
     /\ pc \in CompletePcs => st = "in_progress"
     /\ pc = "x_save" => st \in Cancellable

OneAtATime == IsFiniteSet(ActiveSlots) /\ \A s, t \in ActiveSlots : s = t

SerialInv == OneAtATime /\ (\A s \in Slots : Expects(s)) /\ OneActiveRide

LEMMA AtMostOne ==
  ASSUME NEW S, IsFiniteSet(S), Cardinality(S) <= 1
  PROVE  \A x, y \in S : x = y
<1> SUFFICES ASSUME NEW x \in S, NEW y \in S, x # y PROVE FALSE
  OBVIOUS
<1>1. IsFiniteSet({x}) /\ Cardinality({x}) = 1
  BY FS_Singleton
<1>2. Cardinality({x} \cup {y}) = 2
  BY SMTT(60), <1>1, FS_AddElement
<1>3. Cardinality({x} \cup {y}) <= Cardinality(S)
  BY FS_Subset
<1>4. Cardinality(S) \in Nat
  BY FS_CardinalityType
<1> QED BY <1>2, <1>3, <1>4

\* A step of handler s keeps at most one in progress, when SerialNext allows it.
LEMMA OneAtATimeStep ==
  ASSUME OneAtATime, Cardinality(ActiveSlots') <= 1, NEW s \in Slots,
         \A t \in Slots \ {s} : req'[t] = req[t]
  PROVE  OneAtATime'
<1>1. IsFiniteSet(ActiveSlots \cup {s})
  BY FS_AddElement DEF OneAtATime
<1>2. ActiveSlots' \subseteq ActiveSlots \cup {s}
  BY DEF ActiveSlots
<1>3. IsFiniteSet(ActiveSlots')
  BY <1>1, <1>2, FS_Subset
<1> QED BY <1>3, AtMostOne DEF OneAtATime

\* A request begins with what it has checked, and no ride changes.
LEMMA SerialStart ==
  ASSUME Inv1, SerialInv, NEW s \in Slots, Start(s), Cardinality(ActiveSlots') <= 1
  PROVE  SerialInv' /\ UNCHANGED status
<1>1. UNCHANGED <<status, rider>> /\ TypeOK
  BY StartKeeps DEF rideDoc, Inv1
<1>2. (\A t \in Slots \ {s} : req'[t] = req[t]) /\ Expects(s)'
  <2>1. ASSUME NEW u \in Users, NEW m \in Methods, NEW later \in BOOLEAN,
               RequestBegin(s, u, m, later)
        PROVE  (\A t \in Slots \ {s} : req'[t] = req[t]) /\ Expects(s)'
    <3>1. Handler("q_save", u, NoRide, m, later, 0) \in Handlers
      BY RideAssumption DEF Handler, Handlers, PC
    <3>2. req'[s] = Handler("q_save", u, NoRide, m, later, 0)
          /\ \A t \in Slots \ {s} : req'[t] = req[t]
      BY <1>1, <2>1, <3>1, PutFields DEF RequestBegin
    <3>3. ~HasActiveRide(u)'
      BY <1>1, <2>1 DEF RequestBegin, HasActiveRide
    <3> QED BY <3>2, <3>3 DEF Expects, Handler, CompletePcs
  <2>2. ASSUME NEW pc \in {"x_save", "r_award", "a_check", "s_charge"}, NEW u \in Users,
               NEW r \in Rides, Begin(s, pc, u, r),
               pc = "x_save" => status[r] \in Cancellable,
               pc = "a_check" => status[r] = "pending",
               pc = "s_charge" => status[r] = "accepted"
        PROVE  (\A t \in Slots \ {s} : req'[t] = req[t]) /\ Expects(s)'
    <3>1. pc \in PC
      BY DEF PC
    <3>2. /\ req'[s].pc = pc /\ req'[s].ride = r
          /\ \A t \in Slots \ {s} : req'[t] = req[t]
      BY <1>1, <2>2, <3>1, BeginFields
    <3> QED BY <1>1, <2>2, <3>2 DEF Expects, CompletePcs
  <2>3. ASSUME NEW u \in Users, NEW r \in Rides, CancelBegin(s, u, r) \/ RedeemBegin(s, u, r)
        PROVE  (\A t \in Slots \ {s} : req'[t] = req[t]) /\ Expects(s)'
    BY <2>2, <2>3 DEF CancelBegin, RedeemBegin
  <2>4. ASSUME NEW d \in Drivers, NEW r \in Rides, AcceptBegin(s, d, r) \/ StartBegin(s, d, r)
        PROVE  (\A t \in Slots \ {s} : req'[t] = req[t]) /\ Expects(s)'
    BY <2>2, <2>4, RideAssumption DEF AcceptBegin, StartBegin
  <2>5. ASSUME NEW d \in Drivers, NEW r \in Rides, NEW f \in Fares, CompleteBegin(s, d, r, f)
        PROVE  (\A t \in Slots \ {s} : req'[t] = req[t]) /\ Expects(s)'
    <3>1. Handler("c_rider", d, r, "cash", FALSE, f) \in Handlers
      BY RideAssumption DEF Handler, Handlers, PC
    <3>2. req'[s] = Handler("c_rider", d, r, "cash", FALSE, f)
          /\ \A t \in Slots \ {s} : req'[t] = req[t]
      BY <1>1, <2>5, <3>1, PutFields DEF CompleteBegin
    <3> QED BY <1>1, <2>5, <3>2 DEF CompleteBegin, Expects, Handler, CompletePcs
  <2> QED BY <2>1, <2>3, <2>4, <2>5 DEF Start
<1>3. ASSUME NEW t \in Slots \ {s} PROVE Expects(t)'
  <2>1. Expects(t) /\ req'[t] = req[t]
    BY <1>2 DEF SerialInv
  <2> QED BY <1>1, <2>1 DEF Expects, HasActiveRide
<1>4. OneAtATime'
  BY <1>2, OneAtATimeStep DEF SerialInv
<1>5. OneActiveRide'
  BY <1>1 DEF SerialInv, OneActiveRide
<1> QED BY <1>1, <1>2, <1>3, <1>4, <1>5 DEF SerialInv

\* The handler that goes on was alone: what it finds is what it expects.
LEMMA SerialAlone ==
  ASSUME SerialInv, NEW s \in Slots, req[s].pc # "idle", Cardinality(ActiveSlots') <= 1,
         \A t \in Slots \ {s} : req'[t] = req[t], Expects(s)', OneActiveRide'
  PROVE  SerialInv'
<1>1. \A t \in Slots \ {s} : req'[t].pc = "idle"
  BY DEF SerialInv, OneAtATime, ActiveSlots
<1>2. \A t \in Slots \ {s} : Expects(t)'
  BY <1>1 DEF Expects, CompletePcs
<1>3. OneAtATime'
  BY OneAtATimeStep DEF SerialInv
<1> QED BY <1>2, <1>3 DEF SerialInv

\* The status of a ride is set, and the handler ends.
LEMMA SerialSave ==
  ASSUME Inv1, SerialInv, NEW s \in Slots, req[s].pc \in RidePcs, NEW st, SetStatus(s, st),
         rider' = rider, Return(s), Cardinality(ActiveSlots') <= 1,
         status[req[s].ride] \in Active \/ st \notin Active
  PROVE  SerialInv'
<1>1. TypeOK /\ req[s].ride \in Rides /\ req[s].pc # "idle"
  BY DEF Inv1, HandlersOK, HandlerOK, RidePcs
<1>2. req'[s].pc = "idle" /\ \A t \in Slots \ {s} : req'[t] = req[t]
  BY <1>1, ReturnFields
<1>3. \A r \in Rides : status'[r] = IF r = req[s].ride THEN st ELSE status[r]
  BY <1>1 DEF SetStatus, TypeOK
<1>4. OneActiveRide'
  BY <1>1, <1>3 DEF SerialInv, OneActiveRide, Active
<1>5. Expects(s)'
  BY <1>2 DEF Expects, CompletePcs
<1> QED BY <1>1, <1>2, <1>4, <1>5, SerialAlone

\* A step that changes no ride's status or rider.
LEMMA SerialQuiet ==
  ASSUME Inv1, SerialInv, NEW s \in Slots, req[s].pc # "idle", UNCHANGED <<status, rider>>,
         \A t \in Slots \ {s} : req'[t] = req[t], Cardinality(ActiveSlots') <= 1,
         \/ req'[s].pc = "idle"
         \/ /\ req'[s].ride = req[s].ride
            /\ \/ req[s].pc = "a_check" /\ req'[s].pc = "a_save"
               \/ req[s].pc = "s_charge" /\ req'[s].pc = "s_save"
               \/ req[s].pc \in CompletePcs /\ req'[s].pc \in CompletePcs
               \/ req'[s].pc = "r_save"
  PROVE  SerialInv'
<1>1. Expects(s)'
  BY DEF SerialInv, Expects, CompletePcs
<1>2. OneActiveRide'
  BY DEF SerialInv, OneActiveRide
<1> QED BY <1>1, <1>2, SerialAlone

LEMMA SerialMove ==
  ASSUME Inv1, SerialInv, NEW s \in Slots, Move(s), Cardinality(ActiveSlots') <= 1
  PROVE  SerialInv' /\ [Lifecycle!Next]_status
<1>. DEFINE r == req[s].ride
<1>1. TypeOK /\ HandlersOK /\ UsedOK /\ Expects(s)
  BY DEF Inv1, SerialInv
<1>2. /\ \A t \in Slots \ {s} : req'[t] = req[t]
      /\ req'[s].pc # "idle" =>
           /\ req'[s].pc \in CompletePcs => req[s].pc \in CompletePcs
           /\ req'[s].ride = r
  BY <1>1, MoveFields
<1>3. req[s].pc \in RidePcs => r \in Rides
  BY <1>1 DEF HandlersOK, HandlerOK
<1>4. CASE RequestNotify(s)
  <2>1. /\ req[s].pc = "q_notify" /\ SetStatus(s, "pending") /\ Return(s) /\ rider' = rider
        /\ r \in Rides
    BY <1>3, <1>4 DEF RequestNotify, rideDoc, RidePcs, PC
  <2>2. status[r] \in {"pending", "scheduled"}
    BY <1>1, <2>1 DEF Expects
  <2>3. SerialInv'
    BY <2>1, <2>2, SerialSave DEF Active, RidePcs, PC
  <2>4. status[r] = "pending" => status' = status
    BY <1>1, <2>1 DEF SetStatus, TypeOK
  <2>5. status[r] = "scheduled" => Lifecycle!Offer(r)
    BY <2>1 DEF SetStatus, Lifecycle!Offer, Lifecycle!Move
  <2> QED BY <2>1, <2>2, <2>3, <2>4, <2>5 DEF Lifecycle!Next
<1>5. CASE AcceptSave(s)
  <2>1. /\ req[s].pc = "a_save" /\ SetStatus(s, "accepted") /\ Return(s) /\ rider' = rider
        /\ r \in Rides
    BY <1>3, <1>5 DEF AcceptSave, RidePcs, PC
  <2>2. status[r] = "pending"
    BY <1>1, <2>1 DEF Expects
  <2>3. SerialInv'
    BY <2>1, <2>2, SerialSave DEF Active, RidePcs, PC
  <2>4. Lifecycle!Accept(r)
    BY <2>1, <2>2 DEF SetStatus, Lifecycle!Accept, Lifecycle!Move
  <2> QED BY <2>1, <2>3, <2>4 DEF Lifecycle!Next
<1>6. CASE CancelSave(s)
  <2>1. /\ req[s].pc = "x_save" /\ SetStatus(s, "cancelled") /\ Return(s) /\ rider' = rider
        /\ r \in Rides
    BY <1>3, <1>6 DEF CancelSave, rideDoc, RidePcs, PC
  <2>2. status[r] \in Cancellable
    BY <1>1, <2>1 DEF Expects
  <2>3. SerialInv'
    BY <2>1, SerialSave DEF Active, RidePcs, PC
  <2>4. Lifecycle!Cancel(r)
    BY <2>1, <2>2 DEF SetStatus, Cancellable, Lifecycle!Cancel, Lifecycle!Move
  <2> QED BY <2>1, <2>3, <2>4 DEF Lifecycle!Next
<1>7. CASE StartSave(s)
  <2>1. /\ req[s].pc = "s_save" /\ SetStatus(s, "in_progress") /\ Return(s) /\ rider' = rider
        /\ r \in Rides
    BY <1>3, <1>7 DEF StartSave, rideDoc, RidePcs, PC
  <2>2. status[r] = "accepted"
    BY <1>1, <2>1 DEF Expects
  <2>3. SerialInv'
    BY <2>1, <2>2, SerialSave DEF Active, RidePcs, PC
  <2>4. Lifecycle!Begin(r)
    BY <2>1, <2>2 DEF SetStatus, Lifecycle!Begin, Lifecycle!Move
  <2> QED BY <2>1, <2>3, <2>4 DEF Lifecycle!Next
<1>8. CASE CompleteSave(s)
  <2>1. /\ req[s].pc = "c_save" /\ SetStatus(s, "completed") /\ Return(s) /\ rider' = rider
        /\ r \in Rides
    BY <1>3, <1>8 DEF CompleteSave, RidePcs, PC
  <2>2. status[r] = "in_progress"
    BY <1>1, <2>1 DEF Expects, CompletePcs
  <2>3. SerialInv'
    BY <2>1, SerialSave DEF Active, RidePcs, PC
  <2>4. Lifecycle!Complete(r)
    BY <2>1, <2>2 DEF SetStatus, Lifecycle!Complete, Lifecycle!Move
  <2> QED BY <2>1, <2>3, <2>4 DEF Lifecycle!Next
<1>9. CASE \/ RequestNoId(s) \/ AcceptCheck(s) \/ StartCharge(s) \/ RedeemAward(s)
           \/ RedeemSave(s)
  <2>1. UNCHANGED <<status, rider>> /\ req[s].pc # "idle"
    BY <1>9 DEF RequestNoId, AcceptCheck, StartCharge, RedeemAward, RedeemSave, rideDoc
  <2>2. \/ req'[s].pc = "idle"
        \/ req[s].pc = "a_check" /\ req'[s].pc = "a_save"
        \/ req[s].pc = "s_charge" /\ req'[s].pc = "s_save"
        \/ req'[s].pc = "r_save"
    BY <1>1, <1>9, ReturnFields, GotoFields
       DEF RequestNoId, AcceptCheck, StartCharge, RedeemAward, RedeemSave, PC
  <2> QED BY <1>2, <2>1, <2>2, SerialQuiet
<1>10. CASE \/ CompleteReadRider(s) \/ CompleteReadDriver(s)
            \/ CompleteSaveRider(s) \/ CompleteSaveDriver(s)
  <2>1. UNCHANGED <<status, rider>> /\ req[s].pc \in CompletePcs /\ req[s].pc # "idle"
    BY <1>10 DEF CompleteReadRider, CompleteReadDriver, CompleteSaveRider,
                 CompleteSaveDriver, rideDoc, CompletePcs
  <2>2. req'[s].pc \in CompletePcs /\ req'[s].pc # "idle"
    BY <1>1, <1>10, ReadFields, GotoFields
       DEF CompleteSaveRider, CompleteSaveDriver, CompletePcs, PC
  <2> QED BY <1>2, <2>1, <2>2, SerialQuiet
<1> QED BY <1>4, <1>5, <1>6, <1>7, <1>8, <1>9, <1>10 DEF Move

LEMMA SerialRequestSave ==
  ASSUME Inv1, SerialInv, NEW s \in Slots, NEW r \in Rides, NEW f \in Fares,
         RequestSave(s, r, f), Cardinality(ActiveSlots') <= 1
  PROVE  SerialInv' /\ [Lifecycle!Next]_status
<1> DEFINE u == req[s].user
           st == IF req[s].later THEN "scheduled" ELSE "pending"
<1>1. /\ req[s].pc = "q_save" /\ u \in Users /\ TypeOK /\ ~HasActiveRide(u) /\ status[r] = "none"
      /\ Begin(s, "q_notify", u, r)
  BY DEF RequestSave, Inv1, HandlersOK, HandlerOK, SerialInv, Expects
<1>2. /\ req'[s].pc = "q_notify" /\ req'[s].ride = r
      /\ \A t \in Slots \ {s} : req'[t] = req[t]
  BY <1>1, BeginFields DEF PC
<1>3. /\ status' = [status EXCEPT ![r] = st]
      /\ rider' = [rider EXCEPT ![r] = u] /\ st \in {"pending", "scheduled"}
  BY DEF RequestSave
<1>4. /\ \A q \in Rides : status'[q] = IF q = r THEN st ELSE status[q]
      /\ \A q \in Rides : rider'[q] = IF q = r THEN u ELSE rider[q]
  BY <1>1, <1>3 DEF TypeOK
<1>5. OneActiveRide'
  <2>1. \A q \in Rides : rider[q] = u => status[q] \notin Active
    BY <1>1 DEF HasActiveRide
  <2> SUFFICES ASSUME NEW p \in Rides, NEW q \in Rides, p # q, rider'[p] = rider'[q]
               PROVE  ~({status'[p], status'[q]} \subseteq Active)
    BY DEF OneActiveRide, Active
  <2>2. CASE p # r /\ q # r
    BY <1>4, <2>2 DEF SerialInv, OneActiveRide, Active
  <2>3. CASE p = r \/ q = r
    BY <1>4, <2>1, <2>3
  <2> QED BY <2>2, <2>3
<1>6. Expects(s)'
  BY <1>2, <1>3, <1>4 DEF Expects, CompletePcs
<1>7. Lifecycle!Request(r) \/ Lifecycle!Schedule(r)
  BY <1>1, <1>3 DEF Lifecycle!Request, Lifecycle!Schedule, Lifecycle!Move
<1>8. SerialInv'
  BY <1>1, <1>2, <1>5, <1>6, SerialAlone
<1> QED BY <1>7, <1>8 DEF Lifecycle!Next

LEMMA SerialStep ==
  ASSUME Inv1, SerialInv, [SerialNext]_vars
  PROVE  SerialInv' /\ [Lifecycle!Next]_status
<1>1. CASE UNCHANGED vars
  <2>1. UNCHANGED <<status, rider, req>>
    BY <1>1 DEF vars, rideDoc
  <2> QED BY <2>1 DEF SerialInv, OneAtATime, ActiveSlots, Expects, HasActiveRide, OneActiveRide
<1>2. CASE Restart
  <2>1. UNCHANGED <<status, rider>> /\ \A s \in Slots : req'[s].pc = "idle"
    BY <1>2 DEF Restart, rideDoc, Idle, Handler
  <2>2. ActiveSlots' = {} /\ \A s \in Slots : Expects(s)'
    BY <2>1 DEF ActiveSlots, Expects, CompletePcs
  <2>3. OneAtATime'
    BY <2>2, FS_EmptySet DEF OneAtATime
  <2> QED BY <2>1, <2>2, <2>3 DEF SerialInv, OneActiveRide
<1>3. CASE SerialNext
  BY <1>2, <1>3, SerialStart, SerialMove, SerialRequestSave, NextCases, <1>1 DEF SerialNext
<1> QED BY <1>1, <1>3

LEMMA SerialInit == Init => SerialInv /\ Lifecycle!Init
<1> SUFFICES ASSUME Init PROVE SerialInv /\ Lifecycle!Init
  OBVIOUS
<1>1. ActiveSlots = {} /\ \A s \in Slots : Expects(s)
  BY DEF Init, ActiveSlots, Expects, Idle, Handler, CompletePcs
<1>2. OneActiveRide
  BY DEF Init, OneActiveRide
<1> QED BY <1>1, <1>2, FS_EmptySet DEF SerialInv, OneAtATime, Init, Lifecycle!Init

\* Without overlap no rider ever has two unfinished rides, for any number of
\* riders, drivers and rides, restarts included.
THEOREM OneActiveCorrect == SerialSpec => []OneActiveRide
<1>1. SerialInv => OneActiveRide
  BY DEF SerialInv
<1>2. Inv1 /\ [SerialNext]_vars => Inv1'
  BY Inv1Inductive DEF SerialNext
<1> QED BY Inv1Init, SerialInit, SerialStep, <1>1, <1>2, PTL DEF SerialSpec

\* Without overlap the service implements the lifecycle of a ride: every step
\* is a step of the lifecycle or leaves every status alone.
THEOREM LifecycleImplemented == SerialSpec => ImplementsLifecycle
<1>1. Inv1 /\ [SerialNext]_vars => Inv1'
  BY Inv1Inductive DEF SerialNext
<1> QED
  BY Inv1Init, SerialInit, SerialStep, <1>1, PTL
     DEF SerialSpec, ImplementsLifecycle, Lifecycle!Spec
-----------------------------------------------------------------------------
(* Without overlap: the wallets match the rides *)

\* The rides and the amounts BalanceOf and PointsOf speak of.
DrivenBy(u) == {r \in Rides : driver[r] = u /\ status[r] \in {"in_progress", "completed"}}
PaidTo(u) == {r \in Rides : driver[r] = u /\ status[r] = "completed" /\ method[r] # "cash"}
PaidBy(u) == {r \in Rides : rider[r] = u /\ status[r] = "completed" /\ method[r] = "online"}
TakenFor(u) == {r \in Rides : rider[r] = u /\ status[r] = "completed" /\ method[r] = "points"}
RedeemedBy(u) == {r \in Rides : rider[r] = u /\ redeemed[r]}

Shares == [r \in Rides |-> Commission[estimate[r]]]
Earned == [r \in Rides |-> fare[r] - Commission[estimate[r]]]
Prices == [r \in Rides |-> PointPrice[fare[r]]]

Booked(u) == Wallet[u] - SumOf(Shares, DrivenBy(u)) + SumOf(Earned, PaidTo(u))
                       - SumOf(fare, PaidBy(u))
Scored(u) == PointsPerRide * Cardinality(RedeemedBy(u)) - SumOf(Prices, TakenFor(u))

\* What handler s has moved of the balance and the points of u that no ride
\* says yet.
Ahead(s, u) ==
  LET pc == req[s].pc
      r == req[s].ride
      share == Commission[estimate[r]]
  IN (IF pc = "s_save" /\ req[s].user = u THEN -share ELSE 0)
     + (IF pc \in {"c_saveDriver", "c_save"} /\ rider[r] = u /\ method[r] = "online"
          THEN -req[s].fare ELSE 0)
     + (IF pc = "c_save" /\ req[s].user = u /\ method[r] # "cash"
          THEN req[s].fare - share ELSE 0)
PointsAhead(s, u) ==
  LET pc == req[s].pc
      r == req[s].ride
  IN (IF pc = "r_save" /\ req[s].user = u THEN PointsPerRide ELSE 0)
     + (IF pc \in {"c_saveDriver", "c_save"} /\ rider[r] = u /\ method[r] = "points"
          THEN -PointPrice[req[s].fare] ELSE 0)

\* What the handler that is alone knows of its user and has read of wallets.
Knows(s) ==
  LET pc == req[s].pc
      r == req[s].ride
      u == rider[r]
  IN /\ pc \in {"s_charge", "s_save"} \cup CompletePcs => driver[r] = req[s].user
     /\ pc \in {"r_award", "r_save"} =>
          rider[r] = req[s].user /\ ~redeemed[r] /\ status[r] = "completed"
     /\ pc \in {"c_driver", "c_saveRider"} =>
          req[s].purse = IF method[r] = "points" THEN points[u] ELSE balance[u]
     /\ pc = "c_saveRider" => req[s].till = balance[req[s].user]
     /\ pc = "c_saveDriver" /\ u # req[s].user => req[s].till = balance[req[s].user]

\* The rides in use are finitely many; one without a driver has not gone far,
\* one that is redeemed has gone all the way, and its fare was quoted.
RidesInOrder ==
  /\ IsFiniteSet({r \in Rides : status[r] # "none"})
  /\ \A r \in Rides :
       /\ status[r] \in {"none", "pending", "scheduled"} => driver[r] = NoUser
       /\ redeemed[r] => status[r] = "completed"
       /\ status[r] = "completed" => fare[r] \in Fares

\* The wallets of u are as booked, but for amounts a and p.
Even(u, a, p) == balance[u] = Booked(u) + a /\ points[u] = Scored(u) + p

BooksBalance ==
  restarts = 0 => \A u \in Users : ~DroveThemselves(u) =>
    /\ ActiveSlots = {} => Even(u, 0, 0)
    /\ \A s \in ActiveSlots : Even(u, Ahead(s, u), PointsAhead(s, u))

Ledger == RidesInOrder /\ (\A s \in Slots : Knows(s)) /\ BooksBalance

\* The sums of BalanceOf and PointsOf are sums of these functions.
LEMMA SharesTotal ==
  ASSUME NEW S, S \subseteq Rides, IsFiniteSet(S), \A r \in S : Commission[estimate[r]] \in Int
  PROVE  Total(S, LAMBDA r : Commission[estimate[r]]) = SumOf(Shares, S)
<1> DEFINE IsIter(g) == g = [T \in SUBSET S |-> IF T = {} THEN 0 ELSE
                               Commission[estimate[Some(T)]] + g[T \ {Some(T)}]]
           iter == CHOOSE g : IsIter(g)
<1>1. \A r \in S : Shares[r] \in Int /\ Shares[r] = Commission[estimate[r]]
  BY DEF Shares
<1>2. \A T \in SUBSET S : T # {} => Shares[Some(T)] = Commission[estimate[Some(T)]]
  BY <1>1, SomeIn
<1>3. \A g : IsSumOf(g, Shares, S) <=> IsIter(g)
  BY <1>2 DEF IsSumOf
<1>4. Total(S, LAMBDA r : Commission[estimate[r]]) = iter[S]
  BY DEF Total, MapThenSumSet, MapThenFoldSet, Some
<1>5. IsIter(iter)
  <2>1. \E g : IsIter(g)
    BY <1>1, <1>3, SumIs
  <2> HIDE DEF IsIter
  <2> QED BY <2>1
<1> HIDE DEF IsIter, iter
<1> QED BY <1>1, <1>3, <1>4, <1>5, SumFrom

LEMMA EarnedTotal ==
  ASSUME NEW S, S \subseteq Rides, IsFiniteSet(S), \A r \in S : (fare[r] - Commission[estimate[r]]) \in Int
  PROVE  Total(S, LAMBDA r : (fare[r] - Commission[estimate[r]])) = SumOf(Earned, S)
<1> DEFINE IsIter(g) == g = [T \in SUBSET S |-> IF T = {} THEN 0 ELSE
                               (fare[Some(T)] - Commission[estimate[Some(T)]]) + g[T \ {Some(T)}]]
           iter == CHOOSE g : IsIter(g)
<1>1. \A r \in S : Earned[r] \in Int /\ Earned[r] = (fare[r] - Commission[estimate[r]])
  BY DEF Earned
<1>2. \A T \in SUBSET S : T # {} => Earned[Some(T)] = (fare[Some(T)] - Commission[estimate[Some(T)]])
  BY <1>1, SomeIn
<1>3. \A g : IsSumOf(g, Earned, S) <=> IsIter(g)
  BY <1>2 DEF IsSumOf
<1>4. Total(S, LAMBDA r : (fare[r] - Commission[estimate[r]])) = iter[S]
  BY DEF Total, MapThenSumSet, MapThenFoldSet, Some
<1>5. IsIter(iter)
  <2>1. \E g : IsIter(g)
    BY <1>1, <1>3, SumIs
  <2> HIDE DEF IsIter
  <2> QED BY <2>1
<1> HIDE DEF IsIter, iter
<1> QED BY <1>1, <1>3, <1>4, <1>5, SumFrom

LEMMA PricesTotal ==
  ASSUME NEW S, S \subseteq Rides, IsFiniteSet(S), \A r \in S : PointPrice[fare[r]] \in Int
  PROVE  Total(S, LAMBDA r : PointPrice[fare[r]]) = SumOf(Prices, S)
<1> DEFINE IsIter(g) == g = [T \in SUBSET S |-> IF T = {} THEN 0 ELSE
                               PointPrice[fare[Some(T)]] + g[T \ {Some(T)}]]
           iter == CHOOSE g : IsIter(g)
<1>1. \A r \in S : Prices[r] \in Int /\ Prices[r] = PointPrice[fare[r]]
  BY DEF Prices
<1>2. \A T \in SUBSET S : T # {} => Prices[Some(T)] = PointPrice[fare[Some(T)]]
  BY <1>1, SomeIn
<1>3. \A g : IsSumOf(g, Prices, S) <=> IsIter(g)
  BY <1>2 DEF IsSumOf
<1>4. Total(S, LAMBDA r : PointPrice[fare[r]]) = iter[S]
  BY DEF Total, MapThenSumSet, MapThenFoldSet, Some
<1>5. IsIter(iter)
  <2>1. \E g : IsIter(g)
    BY <1>1, <1>3, SumIs
  <2> HIDE DEF IsIter
  <2> QED BY <2>1
<1> HIDE DEF IsIter, iter
<1> QED BY <1>1, <1>3, <1>4, <1>5, SumFrom

\* The rides that are summed up are finitely many, and their amounts integers.
LEMMA BooksTyped ==
  ASSUME TypeOK, UsedOK, RidesInOrder, NEW u \in Users
  PROVE  /\ \A S \in {DrivenBy(u), PaidTo(u), PaidBy(u), TakenFor(u), RedeemedBy(u)} :
              S \subseteq Rides /\ IsFiniteSet(S)
         /\ \A r \in DrivenBy(u) : Commission[estimate[r]] \in Int
         /\ \A r \in PaidTo(u) : fare[r] - Commission[estimate[r]] \in Int
         /\ \A r \in PaidBy(u) : fare[r] \in Int
         /\ \A r \in TakenFor(u) : PointPrice[fare[r]] \in Int
<1> DEFINE used == {r \in Rides : status[r] # "none"}
<1>1. IsFiniteSet(used)
  BY DEF RidesInOrder
<1>2. \A S \in {DrivenBy(u), PaidTo(u), PaidBy(u), TakenFor(u), RedeemedBy(u)} : S \in SUBSET used
  BY DEF DrivenBy, PaidTo, PaidBy, TakenFor, RedeemedBy, RidesInOrder
<1>3. \A S \in SUBSET used : IsFiniteSet(S) /\ S \subseteq Rides
  <2>1. used \subseteq Rides
    OBVIOUS
  <2> HIDE DEF used
  <2> QED BY <1>1, <2>1, FS_Subset
<1>0. \A f \in Fares : f \in Int /\ Commission[f] \in Int /\ PointPrice[f] \in Int
  BY RideAssumption
<1>4. \A r \in used : Commission[estimate[r]] \in Int
  BY <1>0 DEF UsedOK
<1>5. \A r \in Rides : status[r] = "completed" => PointPrice[fare[r]] \in Int /\ fare[r] \in Int
  BY <1>0 DEF RidesInOrder
<1> QED BY <1>2, <1>3, <1>4, <1>5 DEF DrivenBy, PaidTo, PaidBy, TakenFor

\* BalanceOf and PointsOf are these sums.
LEMMA BookedIs ==
  ASSUME TypeOK, UsedOK, RidesInOrder, NEW u \in Users
  PROVE  BalanceOf(u) = Booked(u) /\ PointsOf(u) = Scored(u)
<1>1. Total(DrivenBy(u), LAMBDA r : Commission[estimate[r]]) = SumOf(Shares, DrivenBy(u))
  BY BooksTyped, SharesTotal
<1>2. Total(PaidTo(u), LAMBDA r : (fare[r] - Commission[estimate[r]])) = SumOf(Earned, PaidTo(u))
  BY BooksTyped, EarnedTotal
<1>3. Total(PaidBy(u), LAMBDA r : fare[r]) = SumOf(fare, PaidBy(u))
  BY DEF Total, SumOf
<1>4. Total(TakenFor(u), LAMBDA r : PointPrice[fare[r]]) = SumOf(Prices, TakenFor(u))
  BY BooksTyped, PricesTotal
<1>5. BalanceOf(u) = Wallet[u] - Total(DrivenBy(u), LAMBDA r : Commission[estimate[r]])
                       + Total(PaidTo(u), LAMBDA r : (fare[r] - Commission[estimate[r]]))
                       - Total(PaidBy(u), LAMBDA r : fare[r])
  BY DEF BalanceOf, DrivenBy, PaidTo, PaidBy
<1>6. PointsOf(u) = PointsPerRide * Cardinality(RedeemedBy(u))
                      - Total(TakenFor(u), LAMBDA r : PointPrice[fare[r]])
  BY DEF PointsOf, RedeemedBy, TakenFor
<1> QED BY <1>1, <1>2, <1>3, <1>4, <1>5, <1>6 DEF Booked, Scored

\* The books are integers.
LEMMA BooksType ==
  ASSUME TypeOK, UsedOK, RidesInOrder, NEW u \in Users
  PROVE  /\ SumOf(Shares, DrivenBy(u)) \in Int /\ SumOf(Earned, PaidTo(u)) \in Int
         /\ SumOf(fare, PaidBy(u)) \in Int /\ SumOf(Prices, TakenFor(u)) \in Int
         /\ Cardinality(RedeemedBy(u)) \in Nat
<1>1. /\ \A r \in DrivenBy(u) : Shares[r] \in Int
      /\ \A r \in PaidTo(u) : Earned[r] \in Int
      /\ \A r \in TakenFor(u) : Prices[r] \in Int
  BY BooksTyped DEF Shares, Earned, Prices
<1> QED BY <1>1, BooksTyped, SumType, FS_CardinalityType

LEMMA BookedType ==
  ASSUME TypeOK, UsedOK, RidesInOrder, NEW u \in Users
  PROVE  Booked(u) \in Int /\ Scored(u) \in Int
<1>1. Wallet[u] \in Int /\ PointsPerRide \in Nat
  BY RideAssumption
<1> DEFINE k == Cardinality(RedeemedBy(u))
           w == SumOf(Prices, TakenFor(u))
<1>2. Scored(u) = PointsPerRide * k - w
  BY DEF Scored
<1>3. k \in Nat /\ w \in Int
  BY BooksType
<1>4. Booked(u) \in Int
  BY <1>1, BooksType DEF Booked
<1> HIDE DEF k, w
<1> QED BY <1>1, <1>2, <1>3, <1>4

\* One more summand, or none.
LEMMA Grown ==
  ASSUME NEW f, NEW h, NEW S, NEW R, IsFiniteSet(S), \A x \in S : f[x] \in Int /\ h[x] = f[x],
         NEW e, e \notin S, R = S \/ (R = S \cup {e} /\ h[e] \in Int)
  PROVE  /\ IsFiniteSet(R)
         /\ SumOf(h, R) = SumOf(f, S) + (IF e \in R THEN h[e] ELSE 0)
<1>1. SumOf(h, S) = SumOf(f, S) /\ SumOf(f, S) \in Int
  BY SumSame, SumType
<1>2. CASE R = S
  BY <1>1, <1>2
<1>3. CASE R = S \cup {e} /\ h[e] \in Int
  <2>1. IsFiniteSet(R)
    BY <1>3, FS_AddElement
  <2>2. \A x \in S \cup {e} : h[x] \in Int
    BY <1>3
  <2>3. SumOf(h, S \cup {e}) = SumOf(h, S) + h[e]
    BY <2>2, SumMore
  <2> QED BY <1>1, <1>3, <2>1, <2>3
<1> QED BY <1>2, <1>3

\* What a handler has moved ahead of its ride, by where it is.
LEMMA AheadIs ==
  ASSUME NEW s, NEW u
  PROVE  /\ req[s].pc \notin {"s_save", "c_saveDriver", "c_save"} => Ahead(s, u) = 0
         /\ req[s].pc \notin {"r_save", "c_saveDriver", "c_save"} => PointsAhead(s, u) = 0
         /\ req'[s].pc \notin {"s_save", "c_saveDriver", "c_save"} => Ahead(s, u)' = 0
         /\ req'[s].pc \notin {"r_save", "c_saveDriver", "c_save"} => PointsAhead(s, u)' = 0
<1>1. /\ req[s].pc \notin {"s_save", "c_saveDriver", "c_save"} => Ahead(s, u) = 0
      /\ req[s].pc \notin {"r_save", "c_saveDriver", "c_save"} => PointsAhead(s, u) = 0
  BY DEF Ahead, PointsAhead
<1>2. /\ req'[s].pc \notin {"s_save", "c_saveDriver", "c_save"} => Ahead(s, u)' = 0
      /\ req'[s].pc \notin {"r_save", "c_saveDriver", "c_save"} => PointsAhead(s, u)' = 0
  BY DEF Ahead, PointsAhead
<1> QED BY <1>1, <1>2

\* The books say nothing of a ride that is not started, nor of a step that
\* changes nothing but such rides.
RideSame(r) ==
  \/ /\ status'[r] = status[r] /\ rider'[r] = rider[r] /\ driver'[r] = driver[r]
     /\ method'[r] = method[r] /\ estimate'[r] = estimate[r] /\ fare'[r] = fare[r]
  \/ {status[r], status'[r]} \cap {"in_progress", "completed"} = {}

LEMMA BooksSame ==
  ASSUME TypeOK, UsedOK, RidesInOrder, NEW u \in Users,
         \A r \in Rides : RideSame(r), redeemed' = redeemed
  PROVE  Booked(u)' = Booked(u) /\ Scored(u)' = Scored(u)
<1>1. /\ DrivenBy(u)' = DrivenBy(u) /\ PaidTo(u)' = PaidTo(u) /\ PaidBy(u)' = PaidBy(u)
      /\ TakenFor(u)' = TakenFor(u)
  BY DEF RideSame, DrivenBy, PaidTo, PaidBy, TakenFor
<1>2. RedeemedBy(u)' = RedeemedBy(u)
  <2>1. \A r \in Rides : redeemed[r] => rider'[r] = rider[r]
    BY DEF RideSame, RidesInOrder
  <2> QED BY <2>1 DEF RedeemedBy
<1>3. /\ \A r \in DrivenBy(u) : Shares[r] \in Int /\ Shares'[r] = Shares[r]
      /\ \A r \in PaidTo(u) : Earned[r] \in Int /\ Earned'[r] = Earned[r]
      /\ \A r \in PaidBy(u) : fare[r] \in Int /\ fare'[r] = fare[r]
      /\ \A r \in TakenFor(u) : Prices[r] \in Int /\ Prices'[r] = Prices[r]
  <2>1. \A r \in Rides : status[r] \in {"in_progress", "completed"} =>
          Shares'[r] = Shares[r] /\ Earned'[r] = Earned[r] /\ fare'[r] = fare[r] /\ Prices'[r] = Prices[r]
    BY DEF RideSame, Shares, Earned, Prices
  <2>2. /\ \A r \in DrivenBy(u) : Shares[r] \in Int
        /\ \A r \in PaidTo(u) : Earned[r] \in Int
        /\ \A r \in PaidBy(u) : fare[r] \in Int
        /\ \A r \in TakenFor(u) : Prices[r] \in Int
    BY BooksTyped DEF Shares, Earned, Prices
  <2> QED BY <2>1, <2>2 DEF DrivenBy, PaidTo, PaidBy, TakenFor
<1>4. /\ SumOf(Shares', DrivenBy(u)) = SumOf(Shares, DrivenBy(u))
      /\ SumOf(Earned', PaidTo(u)) = SumOf(Earned, PaidTo(u))
      /\ SumOf(fare', PaidBy(u)) = SumOf(fare, PaidBy(u))
      /\ SumOf(Prices', TakenFor(u)) = SumOf(Prices, TakenFor(u))
  BY <1>3, BooksTyped, SumSame
<1>5. Booked(u)' = Wallet[u] - SumOf(Shares', DrivenBy(u)') + SumOf(Earned', PaidTo(u)')
                             - SumOf(fare', PaidBy(u)')
  BY DEF Booked
<1>6. Scored(u)' = PointsPerRide * Cardinality(RedeemedBy(u)') - SumOf(Prices', TakenFor(u)')
  BY DEF Scored
<1> QED BY <1>1, <1>2, <1>4, <1>5, <1>6 DEF Booked, Scored

\* A ride is started: its commission is booked.
LEMMA BooksStarted ==
  ASSUME TypeOK, UsedOK, RidesInOrder, NEW u \in Users, NEW e \in Rides, status[e] = "accepted",
         status' = [status EXCEPT ![e] = "in_progress"], UNCHANGED <<rideDoc, redeemed>>
  PROVE  /\ Booked(u)' = Booked(u) - (IF driver[e] = u THEN Commission[estimate[e]] ELSE 0)
         /\ Scored(u)' = Scored(u)
<1>1. /\ \A r \in Rides \ {e} : status'[r] = status[r]
      /\ status'[e] = "in_progress"
  BY DEF TypeOK
<1>2. PaidTo(u)' = PaidTo(u) /\ PaidBy(u)' = PaidBy(u) /\ TakenFor(u)' = TakenFor(u)
  BY <1>1 DEF PaidTo, PaidBy, TakenFor, rideDoc
<1>3. /\ e \notin DrivenBy(u)
      /\ DrivenBy(u)' = IF driver[e] = u THEN DrivenBy(u) \cup {e} ELSE DrivenBy(u)
  BY <1>1 DEF DrivenBy, rideDoc
<1>4. /\ Shares' = Shares /\ Earned' = Earned /\ fare' = fare /\ Prices' = Prices
      /\ RedeemedBy(u)' = RedeemedBy(u)
  BY DEF Shares, Earned, Prices, RedeemedBy, rideDoc
<1>5. Shares[e] = Commission[estimate[e]] /\ Commission[estimate[e]] \in Int
  <2>1. estimate[e] \in Fares
    BY DEF UsedOK
  <2>2. Commission[estimate[e]] \in Nat
    BY <2>1, RideAssumption
  <2> QED BY <2>2 DEF Shares
<1>6. \A r \in DrivenBy(u) \cup {e} : Shares[r] \in Int
  BY <1>5, BooksTyped DEF Shares
<1>7. SumOf(Shares, DrivenBy(u) \cup {e}) = SumOf(Shares, DrivenBy(u)) + Commission[estimate[e]]
  BY <1>3, <1>5, <1>6, BooksTyped, SumMore
<1>8. /\ Booked(u)' = Wallet[u] - SumOf(Shares, DrivenBy(u)') + SumOf(Earned, PaidTo(u))
                                - SumOf(fare, PaidBy(u))
      /\ Scored(u)' = Scored(u)
  BY <1>2, <1>4 DEF Booked, Scored
<1>9. /\ Wallet[u] \in Int /\ SumOf(Shares, DrivenBy(u)) \in Int
      /\ SumOf(Earned, PaidTo(u)) \in Int /\ SumOf(fare, PaidBy(u)) \in Int
  BY BooksType, RideAssumption
<1> DEFINE x == SumOf(Shares, DrivenBy(u))
           y == SumOf(Earned, PaidTo(u))
           z == SumOf(fare, PaidBy(u))
           c == Commission[estimate[e]]
<1>10. Booked(u) = Wallet[u] - x + y - z
  BY DEF Booked
<1>11. Booked(u)' = Wallet[u] - (IF driver[e] = u THEN x + c ELSE x) + y - z
  BY <1>3, <1>7, <1>8
<1> HIDE DEF x, y, z, c
<1>12. c = Commission[estimate[e]] /\ c \in Int /\ x \in Int /\ y \in Int /\ z \in Int
  BY <1>5, <1>9 DEF c, x, y, z
<1> QED BY <1>8, <1>9, <1>10, <1>11, <1>12

\* A ride is completed: the driver's earnings and the rider's price are booked.
LEMMA BooksCompleted ==
  ASSUME TypeOK, UsedOK, RidesInOrder, NEW u \in Users, NEW e \in Rides, status[e] = "in_progress",
         status' = [status EXCEPT ![e] = "completed"], NEW f \in Fares,
         fare' = [fare EXCEPT ![e] = f],
         UNCHANGED <<rider, driver, method, estimate, redeemed>>
  PROVE  /\ Booked(u)' = Booked(u)
              + (IF driver[e] = u /\ method[e] # "cash" THEN f - Commission[estimate[e]] ELSE 0)
              - (IF rider[e] = u /\ method[e] = "online" THEN f ELSE 0)
         /\ Scored(u)' = Scored(u)
              - (IF rider[e] = u /\ method[e] = "points" THEN PointPrice[f] ELSE 0)
<1>1. /\ \A r \in Rides \ {e} : status'[r] = status[r] /\ fare'[r] = fare[r]
      /\ status'[e] = "completed" /\ fare'[e] = f
  BY DEF TypeOK
<1>2. DrivenBy(u)' = DrivenBy(u) /\ Shares' = Shares /\ RedeemedBy(u)' = RedeemedBy(u)
  BY <1>1 DEF DrivenBy, Shares, RedeemedBy
<1>3. f \in Int /\ Commission[estimate[e]] \in Int /\ PointPrice[f] \in Int
  <2>1. estimate[e] \in Fares
    BY DEF UsedOK
  <2>2. f \in Nat /\ Commission[estimate[e]] \in Nat /\ PointPrice[f] \in Nat
    BY <2>1, RideAssumption
  <2> QED BY <2>2
<1>4. /\ Earned'[e] = f - Commission[estimate[e]] /\ Prices'[e] = PointPrice[f]
      /\ Earned'[e] \in Int /\ Prices'[e] \in Int /\ fare'[e] \in Int
  BY <1>1, <1>3 DEF Earned, Prices
<1>5. /\ \A r \in PaidTo(u) : Earned[r] \in Int /\ Earned'[r] = Earned[r]
      /\ \A r \in PaidBy(u) : fare[r] \in Int /\ fare'[r] = fare[r]
      /\ \A r \in TakenFor(u) : Prices[r] \in Int /\ Prices'[r] = Prices[r]
  <2>1. /\ \A r \in PaidTo(u) : Earned[r] \in Int
        /\ \A r \in PaidBy(u) : fare[r] \in Int
        /\ \A r \in TakenFor(u) : Prices[r] \in Int
    BY BooksTyped DEF Earned, Prices
  <2>2. \A r \in Rides : status[r] = "completed" =>
          Earned'[r] = Earned[r] /\ fare'[r] = fare[r] /\ Prices'[r] = Prices[r]
    BY <1>1 DEF Earned, Prices
  <2> QED BY <2>1, <2>2 DEF PaidTo, PaidBy, TakenFor
<1>6. e \notin PaidTo(u) /\ e \notin PaidBy(u) /\ e \notin TakenFor(u)
  BY DEF PaidTo, PaidBy, TakenFor
<1>7. /\ PaidTo(u)' = IF driver[e] = u /\ method[e] # "cash" THEN PaidTo(u) \cup {e} ELSE PaidTo(u)
      /\ PaidBy(u)' = IF rider[e] = u /\ method[e] = "online" THEN PaidBy(u) \cup {e} ELSE PaidBy(u)
      /\ TakenFor(u)' = IF rider[e] = u /\ method[e] = "points" THEN TakenFor(u) \cup {e}
                        ELSE TakenFor(u)
  BY <1>1 DEF PaidTo, PaidBy, TakenFor
<1>8. SumOf(Earned', PaidTo(u)') = SumOf(Earned, PaidTo(u))
        + (IF driver[e] = u /\ method[e] # "cash" THEN f - Commission[estimate[e]] ELSE 0)
  <2>1. SumOf(Earned', PaidTo(u)')
          = SumOf(Earned, PaidTo(u)) + (IF e \in PaidTo(u)' THEN Earned'[e] ELSE 0)
    <3>1. /\ IsFiniteSet(PaidTo(u)) /\ e \notin PaidTo(u)
          /\ PaidTo(u)' = PaidTo(u) \/ (PaidTo(u)' = PaidTo(u) \cup {e} /\ Earned'[e] \in Int)
      BY <1>4, <1>6, <1>7, BooksTyped
    <3>2. \A r \in PaidTo(u) : Earned[r] \in Int /\ Earned'[r] = Earned[r]
      BY <1>5
    <3> QED BY <3>1, <3>2, Grown
  <2>2. e \in PaidTo(u)' <=> driver[e] = u /\ method[e] # "cash"
    BY <1>6, <1>7
  <2> QED BY <1>4, <2>1, <2>2
<1>9. SumOf(fare', PaidBy(u)') = SumOf(fare, PaidBy(u))
        + (IF rider[e] = u /\ method[e] = "online" THEN f ELSE 0)
  <2>1. SumOf(fare', PaidBy(u)')
          = SumOf(fare, PaidBy(u)) + (IF e \in PaidBy(u)' THEN fare'[e] ELSE 0)
    <3>1. /\ IsFiniteSet(PaidBy(u)) /\ e \notin PaidBy(u)
          /\ PaidBy(u)' = PaidBy(u) \/ (PaidBy(u)' = PaidBy(u) \cup {e} /\ fare'[e] \in Int)
      BY <1>4, <1>6, <1>7, BooksTyped
    <3>2. \A r \in PaidBy(u) : fare[r] \in Int /\ fare'[r] = fare[r]
      BY <1>5
    <3> DEFINE h == fare'
               S == PaidBy(u)
               R == PaidBy(u)'
    <3>3. /\ IsFiniteSet(S) /\ e \notin S /\ (R = S \/ (R = S \cup {e} /\ h[e] \in Int))
          /\ \A r \in S : fare[r] \in Int /\ h[r] = fare[r]
      BY <3>1, <3>2
    <3> HIDE DEF h, S, R
    <3>4. SumOf(h, R) = SumOf(fare, S) + (IF e \in R THEN h[e] ELSE 0)
      BY <3>3, Grown
    <3> QED BY <3>4 DEF h, S, R
  <2>2. e \in PaidBy(u)' <=> rider[e] = u /\ method[e] = "online"
    BY <1>6, <1>7
  <2> QED BY <1>1, <2>1, <2>2
<1>10. SumOf(Prices', TakenFor(u)') = SumOf(Prices, TakenFor(u))
         + (IF rider[e] = u /\ method[e] = "points" THEN PointPrice[f] ELSE 0)
  <2>1. SumOf(Prices', TakenFor(u)')
          = SumOf(Prices, TakenFor(u)) + (IF e \in TakenFor(u)' THEN Prices'[e] ELSE 0)
    <3>1. /\ IsFiniteSet(TakenFor(u)) /\ e \notin TakenFor(u)
          /\ TakenFor(u)' = TakenFor(u) \/ (TakenFor(u)' = TakenFor(u) \cup {e} /\ Prices'[e] \in Int)
      BY <1>4, <1>6, <1>7, BooksTyped
    <3>2. \A r \in TakenFor(u) : Prices[r] \in Int /\ Prices'[r] = Prices[r]
      BY <1>5
    <3> QED BY <3>1, <3>2, Grown
  <2>2. e \in TakenFor(u)' <=> rider[e] = u /\ method[e] = "points"
    BY <1>6, <1>7
  <2> QED BY <1>4, <2>1, <2>2
<1> DEFINE x == SumOf(Shares, DrivenBy(u))
           y == SumOf(Earned, PaidTo(u))
           z == SumOf(fare, PaidBy(u))
           w == SumOf(Prices, TakenFor(u))
           k == Cardinality(RedeemedBy(u))
           y2 == SumOf(Earned', PaidTo(u)')
           z2 == SumOf(fare', PaidBy(u)')
           w2 == SumOf(Prices', TakenFor(u)')
           c == Commission[estimate[e]]
           g == PointPrice[f]
           a == driver[e] = u /\ method[e] # "cash"
           b == rider[e] = u /\ method[e] = "online"
           d == rider[e] = u /\ method[e] = "points"
<1>11. /\ Booked(u) = Wallet[u] - x + y - z /\ Scored(u) = PointsPerRide * k - w
       /\ Booked(u)' = Wallet[u] - x + y2 - z2 /\ Scored(u)' = PointsPerRide * k - w2
  BY <1>2 DEF Booked, Scored
<1>12. /\ y2 = y + (IF a THEN f - c ELSE 0) /\ z2 = z + (IF b THEN f ELSE 0)
       /\ w2 = w + (IF d THEN g ELSE 0)
  BY <1>8, <1>9, <1>10
<1>13. /\ Wallet[u] \in Int /\ x \in Int /\ y \in Int /\ z \in Int /\ w \in Int /\ k \in Int
       /\ PointsPerRide \in Int /\ c \in Int /\ f \in Int /\ g \in Int /\ PointsPerRide * k \in Int
  <2>1. k \in Nat /\ PointsPerRide \in Nat
    BY BooksType, RideAssumption
  <2> HIDE DEF k
  <2>2. PointsPerRide * k \in Int
    BY <2>1
  <2> QED BY <1>3, <2>1, <2>2, BooksType, RideAssumption
<1>14. /\ Booked(u)' = Booked(u) + (IF a THEN f - c ELSE 0) - (IF b THEN f ELSE 0)
       /\ Scored(u)' = Scored(u) - (IF d THEN g ELSE 0)
  <2> DEFINE q == PointsPerRide * k
  <2>1. Scored(u) = q - w /\ Scored(u)' = q - w2 /\ q \in Int
    BY <1>11, <1>13
  <2> HIDE DEF q, x, y, z, w, k, y2, z2, w2, c, g, a, b, d
  <2> QED BY <1>11, <1>12, <1>13, <2>1
<1> QED BY <1>14

\* A ride is redeemed: its points are booked.
LEMMA BooksRedeemed ==
  ASSUME TypeOK, UsedOK, RidesInOrder, NEW u \in Users, NEW e \in Rides, ~redeemed[e],
         redeemed' = [redeemed EXCEPT ![e] = TRUE], UNCHANGED <<status, rideDoc>>
  PROVE  /\ Booked(u)' = Booked(u)
         /\ Scored(u)' = Scored(u) + (IF rider[e] = u THEN PointsPerRide ELSE 0)
<1>1. Booked(u)' = Booked(u)
  BY DEF Booked, DrivenBy, PaidTo, PaidBy, Shares, Earned, rideDoc
<1>2. \A r \in Rides : redeemed'[r] <=> redeemed[r] \/ r = e
  BY DEF TypeOK
<1>3. /\ e \notin RedeemedBy(u)
      /\ RedeemedBy(u)' = IF rider[e] = u THEN RedeemedBy(u) \cup {e} ELSE RedeemedBy(u)
  BY <1>2 DEF RedeemedBy, rideDoc
<1> DEFINE k == Cardinality(RedeemedBy(u))
           j == Cardinality(RedeemedBy(u)')
           w == SumOf(Prices, TakenFor(u))
<1>4. k \in Nat /\ j = k + (IF rider[e] = u THEN 1 ELSE 0)
  <2>1. k \in Nat /\ IsFiniteSet(RedeemedBy(u))
    BY BooksTyped, BooksType
  <2>2. Cardinality(RedeemedBy(u) \cup {e}) = k + 1
    BY <1>3, <2>1, FS_AddElement
  <2> HIDE DEF k
  <2> QED BY <1>3, <2>1, <2>2 DEF k
<1>5. Scored(u) = PointsPerRide * k - w /\ Scored(u)' = PointsPerRide * j - w
  BY DEF Scored, TakenFor, Prices, rideDoc
<1>6. w \in Int /\ PointsPerRide \in Nat
  BY BooksType, RideAssumption
<1> HIDE DEF k, j, w
<1>7. PointsPerRide * (k + 1) = PointsPerRide * k + PointsPerRide /\ PointsPerRide * k \in Int
  BY <1>4, <1>6
<1> QED BY <1>1, <1>4, <1>5, <1>6, <1>7

\* The handler that makes a step is alone: the others are idle.
LEMMA OthersIdle ==
  ASSUME SerialInv, OneAtATime', NEW s \in Slots, \A t \in Slots \ {s} : req'[t] = req[t],
         req[s].pc # "idle" \/ req'[s].pc # "idle"
  PROVE  \A t \in Slots \ {s} : req[t].pc = "idle" /\ req'[t].pc = "idle"
<1> SUFFICES ASSUME NEW t \in Slots \ {s}, req[t].pc # "idle" PROVE FALSE
  OBVIOUS
<1>1. t \in ActiveSlots /\ t \in ActiveSlots'
  BY DEF ActiveSlots
<1>2. s \in ActiveSlots \/ s \in ActiveSlots'
  BY DEF ActiveSlots
<1> QED BY <1>1, <1>2 DEF SerialInv, OneAtATime

\* So the books balance after a step if they do for that handler.
LEMMA LedgerAlone ==
  ASSUME SerialInv, OneAtATime', Ledger, NEW s \in Slots,
         \A t \in Slots \ {s} : req'[t] = req[t], req[s].pc # "idle" \/ req'[s].pc # "idle",
         RidesInOrder', Knows(s)', restarts' = restarts,
         \A u \in Users : DroveThemselves(u) => DroveThemselves(u)',
         \A u \in Users : ~DroveThemselves(u)' /\ Even(u, Ahead(s, u), PointsAhead(s, u))
                            => Even(u, Ahead(s, u), PointsAhead(s, u))'
  PROVE  Ledger'
<1>1. \A t \in Slots \ {s} : req[t].pc = "idle" /\ req'[t].pc = "idle"
  BY OthersIdle
<1>2. \A t \in Slots : Knows(t)'
  <2>1. \A t \in Slots \ {s} : Knows(t)'
    BY <1>1 DEF Knows, CompletePcs
  <2> QED BY <2>1
<1>3. ASSUME restarts' = 0, NEW u \in Users, ~DroveThemselves(u)'
      PROVE  /\ ActiveSlots' = {} => Even(u, 0, 0)'
             /\ \A t \in ActiveSlots' : Even(u, Ahead(t, u), PointsAhead(t, u))'
  <2>1. Even(u, Ahead(s, u), PointsAhead(s, u))
    <3>1. /\ ActiveSlots = {} => Even(u, 0, 0)
          /\ \A t \in ActiveSlots : Even(u, Ahead(t, u), PointsAhead(t, u))
      BY <1>3 DEF Ledger, BooksBalance
    <3>2. CASE req[s].pc # "idle"
      BY <3>1, <3>2 DEF ActiveSlots
    <3>3. CASE req[s].pc = "idle"
      <4>1. ActiveSlots = {}
        BY <1>1, <3>3 DEF ActiveSlots
      <4>2. Ahead(s, u) = 0 /\ PointsAhead(s, u) = 0
        BY <3>3, AheadIs
      <4> QED BY <3>1, <4>1, <4>2
    <3> QED BY <3>2, <3>3
  <2>2. Even(u, Ahead(s, u), PointsAhead(s, u))'
    BY <1>3, <2>1
  <2>3. \A t \in ActiveSlots' : t = s
    BY <1>1 DEF ActiveSlots
  <2>4. ActiveSlots' = {} => Ahead(s, u)' = 0 /\ PointsAhead(s, u)' = 0
    <3>1. ActiveSlots' = {} => req'[s].pc = "idle"
      BY DEF ActiveSlots
    <3> QED BY <3>1, AheadIs
  <2>5. ActiveSlots' = {} => Even(u, 0, 0)'
    BY <2>2, <2>4 DEF Even
  <2>6. ASSUME NEW t \in ActiveSlots' PROVE Even(u, Ahead(t, u), PointsAhead(t, u))'
    <3>1. t = s
      BY <2>3
    <3> QED BY <2>2, <3>1
  <2> QED BY <2>5, <2>6
<1>4. BooksBalance'
  BY <1>3 DEF BooksBalance
<1> QED BY <1>2, <1>4 DEF Ledger

\* A step that moves no money and books none.
LEMMA LedgerQuiet ==
  ASSUME Inv1, SerialInv, OneAtATime', Ledger, NEW s \in Slots,
         \A t \in Slots \ {s} : req'[t] = req[t], req[s].pc # "idle" \/ req'[s].pc # "idle",
         RidesInOrder', Knows(s)',
         \A u \in Users : DroveThemselves(u) => DroveThemselves(u)',
         \A r \in Rides : RideSame(r), UNCHANGED <<redeemed, wallets, restarts>>,
         {req[s].pc, req'[s].pc} \cap {"s_save", "c_saveDriver", "c_save", "r_save"} = {}
  PROVE  Ledger'
<1>1. ASSUME NEW u \in Users, Even(u, Ahead(s, u), PointsAhead(s, u))
      PROVE  Even(u, Ahead(s, u), PointsAhead(s, u))'
  <2>1. Booked(u)' = Booked(u) /\ Scored(u)' = Scored(u)
    BY BooksSame DEF Ledger, Inv1
  <2>2. /\ Ahead(s, u) = 0 /\ PointsAhead(s, u) = 0
        /\ Ahead(s, u)' = 0 /\ PointsAhead(s, u)' = 0
    BY AheadIs
  <2>3. balance' = balance /\ points' = points
    BY DEF wallets
  <2> QED BY <1>1, <2>1, <2>2, <2>3 DEF Even
<1> QED BY <1>1, LedgerAlone

\* A request: the handler knows what it has checked.
LEMMA LedgerStart ==
  ASSUME Inv1, SerialInv, OneAtATime', Ledger, NEW s \in Slots, Start(s)
  PROVE  Ledger'
<1>1. UNCHANGED <<status, rideDoc, redeemed, wallets, history, restarts>> /\ TypeOK
  BY StartKeeps DEF Inv1
<1>2. /\ \A t \in Slots \ {s} : req'[t] = req[t]
      /\ req'[s].pc \in {"q_save", "x_save", "r_award", "a_check", "s_charge", "c_rider"}
      /\ req[s].pc = "idle" /\ Knows(s)'
  <2>1. ASSUME NEW u \in Users, NEW m \in Methods, NEW later \in BOOLEAN,
               RequestBegin(s, u, m, later)
        PROVE  <1>2!1 /\ <1>2!2 /\ <1>2!3
    <3>1. Handler("q_save", u, NoRide, m, later, 0) \in Handlers
      BY RideAssumption DEF Handler, Handlers, PC
    <3>2. req'[s] = Handler("q_save", u, NoRide, m, later, 0)
          /\ \A t \in Slots \ {s} : req'[t] = req[t]
      BY <1>1, <2>1, <3>1, PutFields DEF RequestBegin
    <3> QED BY <2>1, <3>2 DEF RequestBegin, Knows, Handler, CompletePcs
  <2>2. ASSUME NEW pc \in {"x_save", "r_award", "a_check", "s_charge"}, NEW u \in Users,
               NEW r \in Rides, Begin(s, pc, u, r), req[s].pc = "idle",
               pc = "s_charge" => driver[r] = u,
               pc = "r_award" => rider[r] = u /\ ~redeemed[r] /\ status[r] = "completed"
        PROVE  <1>2!1 /\ <1>2!2 /\ <1>2!3
    <3>1. pc \in PC
      BY DEF PC
    <3>2. /\ req'[s].pc = pc /\ req'[s].ride = r /\ req'[s].user = u
          /\ \A t \in Slots \ {s} : req'[t] = req[t]
      BY <1>1, <2>2, <3>1, BeginFields
    <3> QED BY <1>1, <2>2, <3>2 DEF Knows, CompletePcs, rideDoc
  <2>3. ASSUME NEW u \in Users, NEW r \in Rides, CancelBegin(s, u, r) \/ RedeemBegin(s, u, r)
        PROVE  <1>2!1 /\ <1>2!2 /\ <1>2!3
    BY <2>2, <2>3 DEF CancelBegin, RedeemBegin
  <2>4. ASSUME NEW d \in Drivers, NEW r \in Rides, AcceptBegin(s, d, r) \/ StartBegin(s, d, r)
        PROVE  <1>2!1 /\ <1>2!2 /\ <1>2!3
    BY <2>2, <2>4, RideAssumption DEF AcceptBegin, StartBegin
  <2>5. ASSUME NEW d \in Drivers, NEW r \in Rides, NEW f \in Fares, CompleteBegin(s, d, r, f)
        PROVE  <1>2!1 /\ <1>2!2 /\ <1>2!3
    <3>1. Handler("c_rider", d, r, "cash", FALSE, f) \in Handlers
      BY RideAssumption DEF Handler, Handlers, PC
    <3>2. req'[s] = Handler("c_rider", d, r, "cash", FALSE, f)
          /\ \A t \in Slots \ {s} : req'[t] = req[t]
      BY <1>1, <2>5, <3>1, PutFields DEF CompleteBegin
    <3> QED BY <1>1, <2>5, <3>2 DEF CompleteBegin, Knows, Handler, CompletePcs, rideDoc
  <2> QED BY <2>1, <2>3, <2>4, <2>5 DEF Start
<1>3. RidesInOrder' /\ \A r \in Rides : RideSame(r)
  BY <1>1 DEF Ledger, RidesInOrder, RideSame, rideDoc
<1>4. \A u \in Users : DroveThemselves(u) => DroveThemselves(u)'
  BY <1>1 DEF DroveThemselves, rideDoc
<1> QED BY <1>1, <1>2, <1>3, <1>4, LedgerQuiet

\* A ride is requested: one more is in use, without a driver.
LEMMA LedgerRequestSave ==
  ASSUME Inv1, SerialInv, OneAtATime', Ledger, NEW s \in Slots, NEW r \in Rides, NEW f \in Fares,
         RequestSave(s, r, f)
  PROVE  Ledger'
<1> DEFINE st == IF req[s].later THEN "scheduled" ELSE "pending"
           used == {q \in Rides : status[q] # "none"}
<1>1. /\ req[s].pc = "q_save" /\ req[s].user \in Users /\ status[r] = "none" /\ TypeOK
      /\ Begin(s, "q_notify", req[s].user, r) /\ st \in {"pending", "scheduled"}
      /\ status' = [status EXCEPT ![r] = st] /\ rider' = [rider EXCEPT ![r] = req[s].user]
      /\ UNCHANGED <<driver, fare, redeemed, wallets, history, restarts>>
      /\ method' = [method EXCEPT ![r] = req[s].method] /\ estimate' = [estimate EXCEPT ![r] = f]
  BY DEF RequestSave, Inv1, HandlersOK, HandlerOK
<1>2. req'[s].pc = "q_notify" /\ \A t \in Slots \ {s} : req'[t] = req[t]
  BY <1>1, BeginFields DEF PC
<1>3. /\ \A q \in Rides \ {r} : /\ status'[q] = status[q] /\ rider'[q] = rider[q]
                                /\ method'[q] = method[q] /\ estimate'[q] = estimate[q]
      /\ status'[r] \in {"pending", "scheduled"}
  BY <1>1 DEF TypeOK
<1>4. RidesInOrder'
  <2>1. IsFiniteSet(used \cup {r})
    BY FS_AddElement DEF Ledger, RidesInOrder
  <2>2. {q \in Rides : status'[q] # "none"} = used \cup {r}
    BY <1>3
  <2>3. driver[r] = NoUser /\ ~redeemed[r]
    BY <1>1 DEF Ledger, RidesInOrder
  <2> HIDE DEF used, st
  <2>4. \A q \in Rides :
          /\ status'[q] \in {"none", "pending", "scheduled"} => driver'[q] = NoUser
          /\ redeemed'[q] => status'[q] = "completed"
          /\ status'[q] = "completed" => fare'[q] \in Fares
    BY <1>1, <1>3, <2>3 DEF Ledger, RidesInOrder
  <2> QED BY <2>1, <2>2, <2>4 DEF RidesInOrder
<1>5. \A q \in Rides : RideSame(q)
  BY <1>1, <1>3 DEF RideSame
<1>6. \A u \in Users : DroveThemselves(u) => DroveThemselves(u)'
  <2>1. driver[r] = NoUser /\ NoUser \notin Users
    BY <1>1, RideAssumption DEF Ledger, RidesInOrder
  <2> QED BY <1>1, <1>3, <2>1 DEF DroveThemselves
<1>7. Knows(s)'
  BY <1>2 DEF Knows, CompletePcs
<1> QED BY <1>1, <1>2, <1>4, <1>5, <1>6, <1>7, LedgerQuiet

\* The ride of a handler is set to another status before it is started.
LEMMA LedgerOffered ==
  ASSUME Inv1, SerialInv, OneAtATime', Ledger, NEW s \in Slots,
         RequestNotify(s) \/ AcceptSave(s) \/ CancelSave(s)
  PROVE  Ledger'
<1> DEFINE r == req[s].ride
<1>1. TypeOK /\ HandlersOK /\ UsedOK /\ Expects(s)
  BY DEF Inv1, SerialInv
<1>2. /\ req[s].pc \in {"q_notify", "a_save", "x_save"} /\ Return(s)
      /\ UNCHANGED <<rider, method, estimate, fare, redeemed, wallets, restarts>>
  BY DEF RequestNotify, AcceptSave, CancelSave, rideDoc
<1>3. r \in Rides /\ status[r] # "none" /\ req[s].user \in Users
  BY <1>1, <1>2, WorkingOn DEF RidePcs, PC
<1>4. PICK st \in {"pending", "accepted", "cancelled"} :
        /\ status' = [status EXCEPT ![r] = st]
        /\ status[r] \notin {"in_progress", "completed"}
        /\ \/ st = "pending" /\ status[r] \in {"pending", "scheduled"} /\ driver' = driver
           \/ st = "accepted" /\ status[r] = "pending" /\ driver' = [driver EXCEPT ![r] = req[s].user]
           \/ st = "cancelled" /\ driver' = driver
  BY <1>1, <1>2 DEF RequestNotify, AcceptSave, CancelSave, SetStatus, Expects, Cancellable, rideDoc
<1>5. req'[s].pc = "idle" /\ \A t \in Slots \ {s} : req'[t] = req[t]
  BY <1>1, <1>2, ReturnFields
<1>6. /\ \A q \in Rides \ {r} : status'[q] = status[q] /\ driver'[q] = driver[q]
      /\ status'[r] = st
  BY <1>1, <1>3, <1>4 DEF TypeOK
<1>7. RidesInOrder'
  <2>1. {q \in Rides : status'[q] # "none"} = {q \in Rides : status[q] # "none"}
    BY <1>3, <1>6
  <2>2. ~redeemed[r] /\ (st = "pending" => driver'[r] = NoUser)
    BY <1>3, <1>4 DEF Ledger, RidesInOrder
  <2>3. \A q \in Rides :
          /\ status'[q] \in {"none", "pending", "scheduled"} => driver'[q] = NoUser
          /\ redeemed'[q] => status'[q] = "completed"
          /\ status'[q] = "completed" => fare'[q] \in Fares
    BY <1>2, <1>6, <2>2 DEF Ledger, RidesInOrder
  <2> QED BY <2>1, <2>3 DEF Ledger, RidesInOrder
<1>8. \A q \in Rides : RideSame(q)
  BY <1>2, <1>4, <1>6 DEF RideSame
<1>9. \A u \in Users : DroveThemselves(u) => DroveThemselves(u)'
  <2>1. NoUser \notin Users /\ (st = "accepted" => driver[r] = NoUser)
    BY <1>3, <1>4, RideAssumption DEF Ledger, RidesInOrder
  <2>2. ASSUME NEW u \in Users, NEW q \in Rides, rider[q] = u, driver[q] = u
        PROVE  driver'[q] = u
    BY <1>3, <1>4, <1>6, <2>1, <2>2
  <2> QED BY <1>2, <2>2 DEF DroveThemselves
<1>10. Knows(s)'
  BY <1>5 DEF Knows, CompletePcs
<1> QED BY <1>2, <1>5, <1>7, <1>8, <1>9, <1>10, LedgerQuiet

\* Steps that change no ride.
LEMMA RidesUnchanged ==
  ASSUME Ledger, UNCHANGED <<status, rideDoc, redeemed>>
  PROVE  /\ RidesInOrder' /\ \A r \in Rides : RideSame(r)
         /\ \A u \in Users : DroveThemselves(u) => DroveThemselves(u)'
BY DEF Ledger, RidesInOrder, RideSame, DroveThemselves, rideDoc

\* A handler gives up, or goes on with what it reads.
LEMMA LedgerReads ==
  ASSUME Inv1, SerialInv, OneAtATime', Ledger, NEW s \in Slots,
         RequestNoId(s) \/ AcceptCheck(s) \/ CompleteReadRider(s) \/ CompleteReadDriver(s)
  PROVE  Ledger'
<1>1. TypeOK /\ HandlersOK /\ UsedOK /\ Knows(s)
  BY DEF Inv1, Ledger
<1>2. /\ req[s].pc \in {"q_save", "a_check", "c_rider", "c_driver"}
      /\ UNCHANGED <<status, rideDoc, redeemed, wallets, history, restarts>>
  BY DEF RequestNoId, AcceptCheck, CompleteReadRider, CompleteReadDriver
<1>3. /\ \A t \in Slots \ {s} : req'[t] = req[t]
      /\ req'[s].pc \in {"idle", "a_save", "c_driver", "c_saveRider"} /\ Knows(s)'
  <2>1. CASE RequestNoId(s) \/ AcceptCheck(s)
    <3>1. /\ \A t \in Slots \ {s} : req'[t] = req[t]
          /\ req'[s].pc \in {"idle", "a_save"}
      BY <1>1, <2>1, ReturnFields, GotoFields DEF RequestNoId, AcceptCheck, PC
    <3> QED BY <3>1 DEF Knows, CompletePcs
  <2>2. CASE CompleteReadRider(s) \/ CompleteReadDriver(s)
    <3>1. /\ req'[s].user = req[s].user /\ req'[s].ride = req[s].ride
          /\ \A t \in Slots \ {s} : req'[t] = req[t]
      BY <1>1, <2>2, ReadFields
    <3>2. \/ /\ req[s].pc = "c_rider" /\ req'[s].pc = "c_driver"
             /\ req'[s].purse = IF method[req[s].ride] = "points" THEN points[rider[req[s].ride]]
                                ELSE balance[rider[req[s].ride]]
          \/ /\ req[s].pc = "c_driver" /\ req'[s].pc = "c_saveRider"
             /\ req'[s].till = balance[req[s].user] /\ req'[s].purse = req[s].purse
      <4> DEFINE p == IF method[req[s].ride] = "points" THEN points[rider[req[s].ride]]
                      ELSE balance[rider[req[s].ride]]
                 b == balance[req[s].user]
      <4>1. \/ req[s].pc = "c_rider" /\ req' = [req EXCEPT ![s].pc = "c_driver", ![s].purse = p]
            \/ req[s].pc = "c_driver" /\ req' = [req EXCEPT ![s].pc = "c_saveRider", ![s].till = b]
        BY <2>2 DEF CompleteReadRider, CompleteReadDriver
      <4> HIDE DEF p, b
      <4>2. req \in [Slots -> Handlers] /\ req[s] \in Handlers
        BY <1>1 DEF TypeOK
      <4>3. \/ /\ req[s].pc = "c_rider" /\ req'[s].pc = "c_driver" /\ req'[s].purse = p
            \/ /\ req[s].pc = "c_driver" /\ req'[s].pc = "c_saveRider"
               /\ req'[s].till = b /\ req'[s].purse = req[s].purse
        BY <4>1, <4>2 DEF Handlers
      <4> QED BY <4>3 DEF p, b
    <3>3. UNCHANGED <<rider, driver, method, balance, points>>
      BY <1>2 DEF rideDoc, wallets
    <3> QED BY <1>1, <3>1, <3>2, <3>3 DEF Knows, CompletePcs
  <2> QED BY <2>1, <2>2
<1> QED BY <1>2, <1>3, RidesUnchanged, LedgerQuiet

\* The driver's commission is charged ahead of the ride.
LEMMA LedgerCharge ==
  ASSUME Inv1, SerialInv, OneAtATime', Ledger, NEW s \in Slots, StartCharge(s)
  PROVE  Ledger'
<1> DEFINE r == req[s].ride
           c == Commission[estimate[r]]
<1>1. TypeOK /\ HandlersOK /\ UsedOK /\ Knows(s)
  BY DEF Inv1, Ledger
<1>2. /\ req[s].pc = "s_charge" /\ Goto(s, "s_save")
      /\ UNCHANGED <<status, rideDoc, redeemed, points, restarts>>
      /\ balance' = [balance EXCEPT ![req[s].user] = @ - c]
  BY DEF StartCharge
<1>3. req[s].user \in Users /\ c \in Int
  BY <1>1, <1>2, WorkingOn DEF RidePcs, PC
<1>4. /\ req'[s].pc = "s_save" /\ req'[s].user = req[s].user /\ req'[s].ride = r
      /\ \A t \in Slots \ {s} : req'[t] = req[t]
  BY <1>1, <1>2, GotoFields DEF PC
<1>5. Knows(s)'
  BY <1>1, <1>2, <1>4 DEF Knows, CompletePcs, rideDoc
<1>6. ASSUME NEW u \in Users, Even(u, Ahead(s, u), PointsAhead(s, u))
      PROVE  Even(u, Ahead(s, u), PointsAhead(s, u))'
  <2>1. Booked(u)' = Booked(u) /\ Scored(u)' = Scored(u)
    BY <1>1, <1>2, RidesUnchanged, BooksSame DEF Ledger
  <2>2. Ahead(s, u) = 0 /\ PointsAhead(s, u) = 0 /\ PointsAhead(s, u)' = 0
    BY <1>2, <1>4, AheadIs
  <2>3. Ahead(s, u)' = IF req[s].user = u THEN -c ELSE 0
    BY <1>2, <1>3, <1>4 DEF Ahead, rideDoc
  <2>4. balance'[u] = IF req[s].user = u THEN balance[u] - c ELSE balance[u]
    BY <1>1, <1>2, <1>3 DEF TypeOK
  <2>5. balance[u] \in Int /\ Booked(u) \in Int
    BY <1>1, BookedType DEF TypeOK, Ledger
  <2> HIDE DEF c
  <2> QED BY <1>2, <1>3, <1>6, <2>1, <2>2, <2>3, <2>4, <2>5 DEF Even
<1> QED BY <1>2, <1>4, <1>5, <1>6, RidesUnchanged, LedgerAlone

\* The ride is started, and the books say what has been charged.
LEMMA LedgerStarted ==
  ASSUME Inv1, SerialInv, OneAtATime', Ledger, NEW s \in Slots, StartSave(s)
  PROVE  Ledger'
<1> DEFINE r == req[s].ride
           c == Commission[estimate[r]]
<1>1. TypeOK /\ HandlersOK /\ UsedOK /\ Knows(s) /\ Expects(s)
  BY DEF Inv1, Ledger, SerialInv
<1>2. /\ req[s].pc = "s_save" /\ Return(s)
      /\ UNCHANGED <<rideDoc, redeemed, wallets, restarts>>
      /\ status' = [status EXCEPT ![r] = "in_progress"]
  BY DEF StartSave, SetStatus
<1>3. /\ r \in Rides /\ status[r] = "accepted" /\ driver[r] = req[s].user
      /\ req[s].user \in Users /\ c \in Int
  BY <1>1, <1>2, WorkingOn DEF RidePcs, PC, Expects, Knows
<1>4. req'[s].pc = "idle" /\ \A t \in Slots \ {s} : req'[t] = req[t]
  BY <1>1, <1>2, ReturnFields
<1>5. Knows(s)'
  BY <1>4 DEF Knows, CompletePcs
<1>6. /\ \A q \in Rides \ {r} : status'[q] = status[q]
      /\ status'[r] = "in_progress"
  BY <1>1, <1>2, <1>3 DEF TypeOK
<1>7. RidesInOrder'
  <2>1. {q \in Rides : status'[q] # "none"} = {q \in Rides : status[q] # "none"}
    BY <1>3, <1>6
  <2>2. \A q \in Rides :
          /\ status'[q] \in {"none", "pending", "scheduled"} => driver'[q] = NoUser
          /\ redeemed'[q] => status'[q] = "completed"
          /\ status'[q] = "completed" => fare'[q] \in Fares
    BY <1>2, <1>3, <1>6 DEF Ledger, RidesInOrder, rideDoc
  <2> QED BY <2>1, <2>2 DEF Ledger, RidesInOrder
<1>8. ASSUME NEW u \in Users, Even(u, Ahead(s, u), PointsAhead(s, u))
      PROVE  Even(u, Ahead(s, u), PointsAhead(s, u))'
  <2>1. /\ Booked(u)' = Booked(u) - (IF driver[r] = u THEN c ELSE 0)
        /\ Scored(u)' = Scored(u)
    BY <1>1, <1>2, <1>3, BooksStarted DEF Ledger
  <2>2. Ahead(s, u)' = 0 /\ PointsAhead(s, u) = 0 /\ PointsAhead(s, u)' = 0
    BY <1>2, <1>4, AheadIs
  <2>3. Ahead(s, u) = IF req[s].user = u THEN -c ELSE 0
    BY <1>2, <1>3 DEF Ahead
  <2>4. balance'[u] = balance[u] /\ points'[u] = points[u] /\ balance[u] \in Int
    BY <1>1, <1>2 DEF TypeOK, wallets
  <2>5. Booked(u) \in Int
    BY <1>1, BookedType DEF Ledger
  <2> HIDE DEF c
  <2> QED BY <1>3, <1>8, <2>1, <2>2, <2>3, <2>4, <2>5 DEF Even
<1>9. \A u \in Users : DroveThemselves(u) => DroveThemselves(u)'
  BY <1>2 DEF DroveThemselves, rideDoc
<1> QED BY <1>2, <1>4, <1>5, <1>7, <1>8, <1>9, LedgerAlone

\* The rider's copy is saved: its wallet is as it was read, so this takes the
\* price of the ride.
LEMMA LedgerPaid ==
  ASSUME Inv1, SerialInv, OneAtATime', Ledger, NEW s \in Slots, CompleteSaveRider(s)
  PROVE  Ledger'
<1> DEFINE r == req[s].ride
           f == req[s].fare
           g == PointPrice[f]
           v == rider[r]
<1>1. TypeOK /\ HandlersOK /\ UsedOK /\ Knows(s)
  BY DEF Inv1, Ledger
<1>2. /\ req[s].pc = "c_saveRider" /\ Goto(s, "c_saveDriver")
      /\ UNCHANGED <<status, rideDoc, redeemed, restarts>>
      /\ balance' = IF method[r] = "online" THEN Saved(balance, v, req[s].purse, -f) ELSE balance
      /\ points' = IF method[r] = "points" THEN Saved(points, v, req[s].purse, -g) ELSE points
  BY DEF CompleteSaveRider
<1>3. r \in Rides /\ v \in Users /\ f \in Int /\ g \in Int /\ req[s].user \in Users
  <2>1. f \in Fares
    BY <1>1, <1>2 DEF HandlersOK, HandlerOK, CompletePcs
  <2>2. f \in Nat /\ g \in Nat
    BY <2>1, RideAssumption
  <2> QED BY <1>1, <1>2, <2>2, WorkingOn DEF RidePcs, PC
<1>4. /\ req'[s].pc = "c_saveDriver" /\ req'[s].user = req[s].user /\ req'[s].ride = r
      /\ req'[s].fare = f /\ \A t \in Slots \ {s} : req'[t] = req[t]
  BY <1>1, <1>2, GotoFields DEF PC
<1>5. /\ req[s].purse = IF method[r] = "points" THEN points[v] ELSE balance[v]
      /\ req[s].till = balance[req[s].user] /\ driver[r] = req[s].user
  BY <1>1, <1>2 DEF Knows, CompletePcs
<1>6. balance \in [Users -> Int] /\ points \in [Users -> Int]
  BY <1>1 DEF TypeOK
<1>7. \A u \in Users :
        /\ balance'[u] = balance[u] - (IF v = u /\ method[r] = "online" THEN f ELSE 0)
        /\ points'[u] = points[u] - (IF v = u /\ method[r] = "points" THEN g ELSE 0)
  <2> HIDE DEF r, f, g, v
  <2> QED BY <1>2, <1>3, <1>5, <1>6 DEF Saved
<1>8. Knows(s)'
  <2>1. req'[s].till = req[s].till
    <3>1. req \in [Slots -> Handlers] /\ req[s] \in Handlers
      BY <1>1 DEF TypeOK
    <3> QED BY <1>2, <3>1 DEF Goto, Handlers
  <2>2. v # req[s].user => balance'[req[s].user] = balance[req[s].user]
    BY <1>3, <1>6, <1>7
  <2> QED BY <1>2, <1>4, <1>5, <2>1, <2>2 DEF Knows, CompletePcs, rideDoc
<1>9. ASSUME NEW u \in Users, Even(u, Ahead(s, u), PointsAhead(s, u))
      PROVE  Even(u, Ahead(s, u), PointsAhead(s, u))'
  <2>1. Booked(u)' = Booked(u) /\ Scored(u)' = Scored(u)
    BY <1>1, <1>2, RidesUnchanged, BooksSame DEF Ledger
  <2>2. Ahead(s, u) = 0 /\ PointsAhead(s, u) = 0
    BY <1>2, AheadIs
  <2>3. /\ Ahead(s, u)' = IF v = u /\ method[r] = "online" THEN -f ELSE 0
        /\ PointsAhead(s, u)' = IF v = u /\ method[r] = "points" THEN -g ELSE 0
    BY <1>2, <1>3, <1>4 DEF Ahead, PointsAhead, rideDoc
  <2>4. Booked(u) \in Int /\ Scored(u) \in Int
    BY <1>1, BookedType DEF Ledger
  <2> HIDE DEF r, f, g, v
  <2> QED BY <1>3, <1>6, <1>7, <1>9, <2>1, <2>2, <2>3, <2>4 DEF Even
<1> QED BY <1>2, <1>4, <1>8, <1>9, RidesUnchanged, LedgerAlone

\* The driver's copy is saved, where it is not the rider's own: this credits
\* the earnings.
LEMMA LedgerCredited ==
  ASSUME Inv1, SerialInv, OneAtATime', Ledger, NEW s \in Slots, CompleteSaveDriver(s)
  PROVE  Ledger'
<1> DEFINE r == req[s].ride
           f == req[s].fare
           c == Commission[estimate[r]]
           v == rider[r]
           d == req[s].user
<1>1. TypeOK /\ HandlersOK /\ UsedOK /\ Knows(s)
  BY DEF Inv1, Ledger
<1>2. /\ req[s].pc = "c_saveDriver" /\ Goto(s, "c_save")
      /\ UNCHANGED <<status, rideDoc, redeemed, points, restarts>>
      /\ balance' = IF method[r] = "cash" THEN balance ELSE Saved(balance, d, req[s].till, f - c)
  BY DEF CompleteSaveDriver, Earnings
<1>3. r \in Rides /\ v \in Users /\ f \in Int /\ c \in Int /\ d \in Users /\ PointPrice[f] \in Int
  <2>1. f \in Fares
    BY <1>1, <1>2 DEF HandlersOK, HandlerOK, CompletePcs
  <2>2. f \in Nat /\ PointPrice[f] \in Nat
    BY <2>1, RideAssumption
  <2> QED BY <1>1, <1>2, <2>2, WorkingOn DEF RidePcs, PC
<1>4. /\ req'[s].pc = "c_save" /\ req'[s].user = d /\ req'[s].ride = r
      /\ req'[s].fare = f /\ \A t \in Slots \ {s} : req'[t] = req[t]
  BY <1>1, <1>2, GotoFields DEF PC
<1>5. /\ v # d => req[s].till = balance[d]
      /\ driver[r] = d
  BY <1>1, <1>2 DEF Knows, CompletePcs
<1>6. balance \in [Users -> Int] /\ points \in [Users -> Int]
  BY <1>1 DEF TypeOK
<1>7. \A u \in Users : (v # d \/ u # d) =>
        balance'[u] = balance[u] + (IF d = u /\ method[r] # "cash" THEN f - c ELSE 0)
  <2> HIDE DEF r, f, c, v, d
  <2> QED BY <1>2, <1>3, <1>5, <1>6 DEF Saved
<1>8. Knows(s)'
  BY <1>2, <1>4, <1>5 DEF Knows, CompletePcs, rideDoc
<1>9. ASSUME NEW u \in Users, ~DroveThemselves(u)', Even(u, Ahead(s, u), PointsAhead(s, u))
      PROVE  Even(u, Ahead(s, u), PointsAhead(s, u))'
  <2>1. Booked(u)' = Booked(u) /\ Scored(u)' = Scored(u)
    BY <1>1, <1>2, RidesUnchanged, BooksSame DEF Ledger
  <2>2. v # d \/ u # d
    BY <1>2, <1>3, <1>5, <1>9 DEF DroveThemselves, rideDoc
  <2>3. /\ Ahead(s, u) = IF v = u /\ method[r] = "online" THEN -f ELSE 0
        /\ Ahead(s, u)' = (IF v = u /\ method[r] = "online" THEN -f ELSE 0)
                           + (IF d = u /\ method[r] # "cash" THEN f - c ELSE 0)
        /\ PointsAhead(s, u) = IF v = u /\ method[r] = "points" THEN -PointPrice[f] ELSE 0
        /\ PointsAhead(s, u)' = PointsAhead(s, u)
    BY <1>2, <1>3, <1>4 DEF Ahead, PointsAhead, rideDoc
  <2>4. Booked(u) \in Int /\ Scored(u) \in Int
    BY <1>1, BookedType DEF Ledger
  <2>5. points' = points
    BY <1>2
  <2> HIDE DEF r, f, c, v, d
  <2> QED BY <1>3, <1>6, <1>7, <1>9, <2>1, <2>2, <2>3, <2>4, <2>5 DEF Even
<1> QED BY <1>2, <1>4, <1>8, <1>9, RidesUnchanged, LedgerAlone

\* The ride is completed, and the books say what has been settled.
LEMMA LedgerCompleted ==
  ASSUME Inv1, SerialInv, OneAtATime', Ledger, NEW s \in Slots, CompleteSave(s)
  PROVE  Ledger'
<1> DEFINE r == req[s].ride
           f == req[s].fare
           c == Commission[estimate[r]]
           g == PointPrice[f]
           a == driver[r]
           v == rider[r]
<1>1. TypeOK /\ HandlersOK /\ UsedOK /\ Knows(s) /\ Expects(s)
  BY DEF Inv1, Ledger, SerialInv
<1>2. /\ req[s].pc = "c_save" /\ Return(s)
      /\ UNCHANGED <<rider, driver, method, estimate, redeemed, wallets, restarts>>
      /\ status' = [status EXCEPT ![r] = "completed"] /\ fare' = [fare EXCEPT ![r] = f]
  BY DEF CompleteSave, SetStatus
<1>3. r \in Rides /\ status[r] = "in_progress" /\ a = req[s].user /\ f \in Fares
  BY <1>1, <1>2, WorkingOn DEF RidePcs, PC, Expects, Knows, CompletePcs, HandlersOK, HandlerOK
<1>4. c \in Int /\ f \in Int /\ g \in Int
  <2>1. f \in Nat /\ g \in Nat
    BY <1>3, RideAssumption
  <2> QED BY <1>1, <1>2, <2>1, WorkingOn DEF RidePcs, PC
<1>5. req'[s].pc = "idle" /\ \A t \in Slots \ {s} : req'[t] = req[t]
  BY <1>1, <1>2, ReturnFields
<1>6. Knows(s)'
  BY <1>5 DEF Knows, CompletePcs
<1>7. /\ \A q \in Rides \ {r} : status'[q] = status[q] /\ fare'[q] = fare[q]
      /\ status'[r] = "completed" /\ fare'[r] = f
  BY <1>1, <1>2, <1>3 DEF TypeOK
<1>8. RidesInOrder'
  <2>1. {q \in Rides : status'[q] # "none"} = {q \in Rides : status[q] # "none"}
    BY <1>3, <1>7
  <2>2. \A q \in Rides :
          /\ status'[q] \in {"none", "pending", "scheduled"} => driver'[q] = NoUser
          /\ redeemed'[q] => status'[q] = "completed"
          /\ status'[q] = "completed" => fare'[q] \in Fares
    BY <1>2, <1>3, <1>7 DEF Ledger, RidesInOrder
  <2> QED BY <2>1, <2>2 DEF Ledger, RidesInOrder
<1>9. ASSUME NEW u \in Users, Even(u, Ahead(s, u), PointsAhead(s, u))
      PROVE  Even(u, Ahead(s, u), PointsAhead(s, u))'
  <2>1. /\ Booked(u)' = Booked(u) + (IF a = u /\ method[r] # "cash" THEN f - c ELSE 0)
                                  - (IF v = u /\ method[r] = "online" THEN f ELSE 0)
        /\ Scored(u)' = Scored(u) - (IF v = u /\ method[r] = "points" THEN g ELSE 0)
    BY <1>1, <1>2, <1>3, BooksCompleted DEF Ledger
  <2>2. Ahead(s, u)' = 0 /\ PointsAhead(s, u)' = 0
    BY <1>5, AheadIs
  <2>3. /\ Ahead(s, u) = (IF v = u /\ method[r] = "online" THEN -f ELSE 0)
                           + (IF a = u /\ method[r] # "cash" THEN f - c ELSE 0)
        /\ PointsAhead(s, u) = IF v = u /\ method[r] = "points" THEN -g ELSE 0
    BY <1>2, <1>3, <1>4 DEF Ahead, PointsAhead
  <2>4. balance'[u] = balance[u] /\ points'[u] = points[u]
    BY <1>2 DEF wallets
  <2>5. Booked(u) \in Int /\ Scored(u) \in Int
    BY <1>1, BookedType DEF Ledger
  <2> HIDE DEF r, f, c, g, a, v
  <2> QED BY <1>4, <1>9, <2>1, <2>2, <2>3, <2>4, <2>5 DEF Even
<1>10. \A u \in Users : DroveThemselves(u) => DroveThemselves(u)'
  BY <1>2 DEF DroveThemselves
<1> QED BY <1>2, <1>5, <1>6, <1>8, <1>9, <1>10, LedgerAlone

\* Points are given ahead of the mark, once.
LEMMA LedgerAwarded ==
  ASSUME Inv1, SerialInv, OneAtATime', Ledger, NEW s \in Slots, RedeemAward(s)
  PROVE  Ledger'
<1> DEFINE d == req[s].user
           k == PointsPerRide
<1>1. TypeOK /\ HandlersOK /\ UsedOK /\ Knows(s)
  BY DEF Inv1, Ledger
<1>2. /\ req[s].pc = "r_award" /\ Goto(s, "r_save")
      /\ UNCHANGED <<status, rideDoc, redeemed, balance, restarts>>
      /\ points' = [points EXCEPT ![d] = @ + k]
  BY DEF RedeemAward
<1>3. d \in Users /\ k \in Int
  <2>1. k \in Nat
    BY RideAssumption
  <2> QED BY <1>1, <1>2, <2>1, WorkingOn DEF RidePcs, PC
<1>4. /\ req'[s].pc = "r_save" /\ req'[s].user = d /\ req'[s].ride = req[s].ride
      /\ \A t \in Slots \ {s} : req'[t] = req[t]
  BY <1>1, <1>2, GotoFields DEF PC
<1>5. Knows(s)'
  BY <1>1, <1>2, <1>4 DEF Knows, CompletePcs, rideDoc
<1>6. ASSUME NEW u \in Users, Even(u, Ahead(s, u), PointsAhead(s, u))
      PROVE  Even(u, Ahead(s, u), PointsAhead(s, u))'
  <2>1. Booked(u)' = Booked(u) /\ Scored(u)' = Scored(u)
    BY <1>1, <1>2, RidesUnchanged, BooksSame DEF Ledger
  <2>2. Ahead(s, u) = 0 /\ PointsAhead(s, u) = 0 /\ Ahead(s, u)' = 0
    BY <1>2, <1>4, AheadIs
  <2>3. PointsAhead(s, u)' = IF d = u THEN k ELSE 0
    BY <1>2, <1>3, <1>4 DEF PointsAhead
  <2>4. points'[u] = IF d = u THEN points[u] + k ELSE points[u]
    BY <1>1, <1>2, <1>3 DEF TypeOK
  <2>5. Booked(u) \in Int /\ Scored(u) \in Int
    BY <1>1, BookedType DEF Ledger
  <2> HIDE DEF d, k
  <2> QED BY <1>2, <1>3, <1>6, <2>1, <2>2, <2>3, <2>4, <2>5 DEF Even
<1> QED BY <1>2, <1>4, <1>5, <1>6, RidesUnchanged, LedgerAlone

\* The ride is marked, and the books say what has been given.
LEMMA LedgerRedeemed ==
  ASSUME Inv1, SerialInv, OneAtATime', Ledger, NEW s \in Slots, RedeemSave(s)
  PROVE  Ledger'
<1> DEFINE r == req[s].ride
           k == PointsPerRide
<1>1. TypeOK /\ HandlersOK /\ UsedOK /\ Knows(s)
  BY DEF Inv1, Ledger
<1>2. /\ req[s].pc = "r_save" /\ Return(s)
      /\ UNCHANGED <<status, rideDoc, wallets, restarts>>
      /\ redeemed' = [redeemed EXCEPT ![r] = TRUE]
  BY DEF RedeemSave
<1>3. /\ r \in Rides /\ rider[r] = req[s].user /\ ~redeemed[r] /\ status[r] = "completed"
      /\ k \in Int
  <2>1. k \in Nat
    BY RideAssumption
  <2> QED BY <1>1, <1>2, <2>1, WorkingOn DEF RidePcs, PC, Knows
<1>4. req'[s].pc = "idle" /\ \A t \in Slots \ {s} : req'[t] = req[t]
  BY <1>1, <1>2, ReturnFields
<1>5. Knows(s)'
  BY <1>4 DEF Knows, CompletePcs
<1>6. RidesInOrder'
  <2>1. \A q \in Rides : redeemed'[q] => redeemed[q] \/ q = r
    BY <1>1, <1>2 DEF TypeOK
  <2> QED BY <1>2, <1>3, <2>1 DEF Ledger, RidesInOrder, rideDoc
<1>7. ASSUME NEW u \in Users, Even(u, Ahead(s, u), PointsAhead(s, u))
      PROVE  Even(u, Ahead(s, u), PointsAhead(s, u))'
  <2>1. /\ Booked(u)' = Booked(u)
        /\ Scored(u)' = Scored(u) + (IF rider[r] = u THEN k ELSE 0)
    BY <1>1, <1>2, <1>3, BooksRedeemed DEF Ledger
  <2>2. Ahead(s, u) = 0 /\ PointsAhead(s, u)' = 0 /\ Ahead(s, u)' = 0
    BY <1>2, <1>4, AheadIs
  <2>3. PointsAhead(s, u) = IF rider[r] = u THEN k ELSE 0
    BY <1>2, <1>3 DEF PointsAhead
  <2>4. balance'[u] = balance[u] /\ points'[u] = points[u]
    BY <1>2 DEF wallets
  <2>5. Booked(u) \in Int /\ Scored(u) \in Int
    BY <1>1, BookedType DEF Ledger
  <2> HIDE DEF r, k
  <2> QED BY <1>3, <1>7, <2>1, <2>2, <2>3, <2>4, <2>5 DEF Even
<1>8. \A u \in Users : DroveThemselves(u) => DroveThemselves(u)'
  BY <1>2 DEF DroveThemselves, rideDoc
<1> QED BY <1>2, <1>4, <1>5, <1>6, <1>7, <1>8, LedgerAlone

LEMMA LedgerStep ==
  ASSUME Inv1, SerialInv, SerialInv', Ledger, [SerialNext]_vars
  PROVE  Ledger'
<1>1. OneAtATime'
  BY DEF SerialInv
<1>2. CASE UNCHANGED vars
  <2>1. /\ UNCHANGED <<status, rideDoc, redeemed>> /\ UNCHANGED <<rider, driver, method>>
        /\ UNCHANGED <<estimate, fare, balance, points, req, restarts>>
    BY <1>2 DEF vars, rideDoc, wallets
  <2>2. RidesInOrder' /\ \A s \in Slots : Knows(s)'
    BY <2>1, RidesUnchanged DEF Ledger, Knows
  <2>3. \A u \in Users : Booked(u)' = Booked(u) /\ Scored(u)' = Scored(u)
    BY <2>1, RidesUnchanged, BooksSame DEF Inv1, Ledger
  <2>4. \A u \in Users : \A s \in Slots :
          Ahead(s, u)' = Ahead(s, u) /\ PointsAhead(s, u)' = PointsAhead(s, u)
    BY <2>1 DEF Ahead, PointsAhead
  <2>5. ActiveSlots' = ActiveSlots /\ ActiveSlots \subseteq Slots
        /\ \A u \in Users : DroveThemselves(u)' <=> DroveThemselves(u)
    BY <2>1 DEF ActiveSlots, DroveThemselves
  <2>6. BooksBalance'
    BY <2>1, <2>3, <2>4, <2>5 DEF Ledger, BooksBalance, Even
  <2> QED BY <2>2, <2>6 DEF Ledger
<1>3. CASE Restart
  <2>1. /\ UNCHANGED <<status, rideDoc, redeemed>> /\ restarts' # 0
        /\ \A s \in Slots : req'[s].pc = "idle"
    BY <1>3 DEF Restart, Idle, Handler, Inv1, TypeOK
  <2>2. RidesInOrder' /\ \A s \in Slots : Knows(s)'
    BY <2>1, RidesUnchanged DEF Knows, CompletePcs
  <2> QED BY <2>1, <2>2 DEF Ledger, BooksBalance
<1>4. ASSUME NEW s \in Slots, Move(s) PROVE Ledger'
  BY <1>1, <1>4, LedgerOffered, LedgerReads, LedgerCharge, LedgerStarted, LedgerPaid,
     LedgerCredited, LedgerCompleted, LedgerAwarded, LedgerRedeemed DEF Move
<1>5. ASSUME NEW s \in Slots, Start(s) PROVE Ledger'
  BY <1>1, <1>5, LedgerStart
<1>6. ASSUME NEW s \in Slots, NEW r \in Rides, NEW f \in Fares, RequestSave(s, r, f) PROVE Ledger'
  BY <1>1, <1>6, LedgerRequestSave
<1> QED BY <1>2, <1>3, <1>4, <1>5, <1>6, NextCases DEF SerialNext

LEMMA LedgerInit == Init => Ledger
<1> SUFFICES ASSUME Init PROVE Ledger
  OBVIOUS
<1>1. /\ \A r \in Rides : status[r] = "none" /\ driver[r] = NoUser /\ ~redeemed[r]
      /\ balance = Wallet /\ \A u \in Users : points[u] = 0
      /\ \A s \in Slots : req[s].pc = "idle"
  BY DEF Init, Idle, Handler
<1>2. RidesInOrder
  <2>1. {r \in Rides : status[r] # "none"} = {}
    BY <1>1
  <2> QED BY <1>1, <2>1, FS_EmptySet DEF RidesInOrder
<1>3. \A s \in Slots : Knows(s)
  BY <1>1 DEF Knows, CompletePcs
<1>4. ASSUME NEW u \in Users PROVE Even(u, 0, 0)
  <2>1. DrivenBy(u) = {} /\ PaidTo(u) = {} /\ PaidBy(u) = {} /\ TakenFor(u) = {} /\ RedeemedBy(u) = {}
    BY <1>1 DEF DrivenBy, PaidTo, PaidBy, TakenFor, RedeemedBy
  <2>2. /\ SumOf(Shares, {}) = 0 /\ SumOf(Earned, {}) = 0 /\ SumOf(fare, {}) = 0
        /\ SumOf(Prices, {}) = 0 /\ Cardinality({}) = 0
    BY SumEmpty, FS_EmptySet
  <2>3. Booked(u) = Wallet[u] - 0 + 0 - 0 /\ Scored(u) = PointsPerRide * 0 - 0
    BY <2>1, <2>2 DEF Booked, Scored
  <2>4. Wallet[u] \in Int /\ PointsPerRide \in Nat
    BY RideAssumption
  <2> QED BY <1>1, <2>3, <2>4 DEF Even
<1>5. ActiveSlots = {}
  BY <1>1 DEF ActiveSlots
<1> QED BY <1>2, <1>3, <1>4, <1>5 DEF Ledger, BooksBalance

\* Without overlap and restarts, whenever no handler is in progress every
\* wallet is what the rides say: for any users, rides, fares and methods, each
\* started ride was charged once, each completed one settled once and each
\* redeemed one rewarded once.
THEOREM WalletsCorrect == SerialSpec => []WalletsMatchRides
<1>1. Inv1 /\ [SerialNext]_vars => Inv1'
  BY Inv1Inductive DEF SerialNext
<1>2. Inv1 /\ Ledger => WalletsMatchRides
  <2> SUFFICES ASSUME Inv1, Ledger, ActiveSlots = {}, restarts = 0,
                      NEW u \in Users, ~DroveThemselves(u)
               PROVE  balance[u] = BalanceOf(u) /\ points[u] = PointsOf(u)
    BY DEF WalletsMatchRides
  <2>1. Even(u, 0, 0)
    BY DEF Ledger, BooksBalance
  <2>2. Booked(u) \in Int /\ Scored(u) \in Int
    BY BookedType DEF Inv1, Ledger
  <2>3. BalanceOf(u) = Booked(u) /\ PointsOf(u) = Scored(u)
    BY BookedIs DEF Inv1, Ledger
  <2> QED BY <2>1, <2>2, <2>3 DEF Even
<1> QED BY Inv1Init, SerialInit, SerialStep, LedgerInit, LedgerStep, <1>1, <1>2, PTL DEF SerialSpec
=============================================================================
