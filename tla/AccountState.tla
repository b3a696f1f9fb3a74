---------------------------- MODULE AccountState ----------------------------
(***************************************************************************)
(* The accounts: users, their devices, the codes mailed to them and the    *)
(* tokens handed out, with the guard of the routes and the operations that *)
(* several handlers share.  AccountSessions holds the handlers of          *)
(* AuthService, AccountProfile those of ProfileService and of the          *)
(* administrator, Account puts them together.                              *)
(***************************************************************************)
EXTENDS Integers, FiniteSets

CONSTANTS
  Users,       \* people with an email address, whether they have an account or not
  Handsets,    \* the deviceId a client sends, the same at every login
  MaxDevices,  \* bound: ids of user_device documents
  MaxCodes,    \* bound: codes generated
  Scenes,      \* where a behaviour starts, its requests, their number and the restarts
  Slots,       \* handlers that may be in progress at once
  NoUser, NoHandset

Requests == {"login", "authenticate", "register", "otpRegister", "verifyOtp", "resetLink",
             "reset", "adminOtp", "social", "refresh", "logout", "logoutAll", "twoFactor",
             "password", "dropDevice", "deleteAccount", "name", "image", "push", "edit",
             "ban", "roles"}

ASSUME AccountAssumption ==
  /\ MaxDevices \in Nat \ {0} /\ MaxCodes \in Nat
  /\ Scenes \subseteq [members : SUBSET Users, menu : SUBSET Requests,
                       limit : Nat, restarts : Nat]
  /\ \A c \in Scenes : IsFiniteSet(c.members) /\ Cardinality(c.members) <= MaxDevices
  /\ NoUser \notin Users /\ NoHandset \notin Handsets /\ Handsets # {}

VARIABLES
  scene,
  user,      \* the document of a user, by email
  device,    \* user_device, by id
  copy,      \* the name and image of a user in users and in the rooms of the others
  otp,       \* global.tempOtpStorage, by email: in the memory of the process
  codes,     \* number of codes generated
  mailed,    \* the codes that were mailed
  expired,   \* the codes whose time is over
  ids,       \* number of device ids generated
  tokens,    \* access tokens handed out: <<user, device>>
  refreshes, \* refresh tokens handed out: <<user, device, number>>
  req,       \* handlers in progress
  registered, proved, loggedOut, latest, changes, stale, \* history, see Account
  begun, overlapped, restarts

history == <<registered, proved, loggedOut, latest, changes, stale>>
process == <<begun, overlapped, restarts>>
mail == <<codes, mailed, expired>>
handed == <<ids, tokens, refreshes>>
vars == <<scene, user, device, copy, otp, mail, handed, req, history, process>>

Devices == 1..MaxDevices
Codes == 1..MaxCodes
\* What was typed; a hook of the schema stores its hash, once.
Passwords == {"old", "new"}
Secrets == {"first", "second"}
UserRoles == {"admin", "hasBadge"}
Fields == {"bio", "phoneNumber", "gender", "dateOfBirth", "isAgeVerified", "location",
           "payoutDetails", "userPrivacy", "myLocations"}
Places == {"users", "room_member", "group_member", "broadcast_member"}
Names == {"old", "new", "newer"}

\* The fields of a user the handlers decide by; edited are the others.
NoAccount == [here |-> FALSE, password |-> "old", banTo |-> FALSE, deletedAt |-> FALSE,
              isTwoFactorEnabled |-> FALSE, twoFactorSecret |-> "none",
              resetPasswordOTP |-> 0, roles |-> {}, edited |-> {}]
NewAccount(p) == [NoAccount EXCEPT !.here = TRUE, !.password = p]

NoDevice == [uId |-> NoUser, userDeviceId |-> NoHandset, refreshToken |-> 0, push |-> FALSE]

NoOtp == [code |-> 0, expired |-> FALSE, verified |-> FALSE]

Idle == [pc |-> "idle", user |-> NoUser, dev |-> 0, hand |-> NoHandset, code |-> 0,
         word |-> "none", all |-> FALSE, entry |-> NoOtp, roles |-> {}, n |-> 0]
Call(pc, u) == [Idle EXCEPT !.pc = pc, !.user = u]

-----------------------------------------------------------------------------
(* Handlers in progress *)

InProgress == {s \in Slots : req[s].pc # "idle"}
Quiet == InProgress = {}

\* Handlers are alike: the next one takes a slot chosen for it.
Free(s, request) ==
  /\ request \in scene.menu /\ begun < scene.limit
  /\ InProgress # Slots /\ s = CHOOSE t \in Slots \ InProgress : TRUE

Counted == begun' = begun + 1 /\ overlapped' = (overlapped \/ ~Quiet) /\ UNCHANGED restarts
Begin(s, h) == req' = [req EXCEPT ![s] = [h EXCEPT !.n = begun + 1]] /\ Counted

\* A request that is answered by one database operation needs no slot.
AtOnce(request) == request \in scene.menu /\ begun < scene.limit /\ Counted /\ UNCHANGED req

At(s, pc) == req[s].pc = pc
Resume(s, h) == req' = [req EXCEPT ![s] = h] /\ UNCHANGED process
Goto(s, pc) == Resume(s, [req[s] EXCEPT !.pc = pc])
Return(s) == Resume(s, Idle)

-----------------------------------------------------------------------------
(* Tokens, devices and codes *)

Exists(d) == d \in Devices /\ device[d].uId # NoUser

\* userLoginValidate
Valid(u) == ~user[u].banTo /\ ~user[u].deletedAt

\* getVerifiedUser, behind VerifiedAuthGuard: whose requests are let in.  The
\* token of a social login names the handset, no document has such an id.
Verified(u, d) == <<u, d>> \in tokens /\ user[u].here /\ Valid(u) /\ Exists(d)

\* refreshAccessToken
Refreshable(t) == t \in refreshes /\ Exists(t[2]) /\ device[t[2]].refreshToken = t[3]

\* deleteMany
DevicesOf(u) == {d \in Devices : device[d].uId = u}
Without(ds) == [d \in Devices |-> IF d \in ds THEN NoDevice ELSE device[d]]

\* findByIdAndUpdate: a document that is gone is not created.
SetDevice(d, Changed(_)) ==
  IF Exists(d) THEN [device EXCEPT ![d] = Changed(@)] ELSE device

\* newMongoObjId
NewId == ids + 1
Device(u, h, refresh) == [NoDevice EXCEPT !.uId = u, !.userDeviceId = h,
                                          !.refreshToken = refresh, !.push = TRUE]

NewCode == codes + 1

\* What is stored for a link or an OTP, once it may still be used.
Stored(u, c) == user[u].resetPasswordOTP = c /\ c # 0 /\ c \notin expired

SetUser(u, Changed(_)) == [user EXCEPT ![u] = Changed(@)]
=============================================================================
