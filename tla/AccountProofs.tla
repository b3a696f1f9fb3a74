---------------------------- MODULE AccountProofs ----------------------------
(***************************************************************************)
(* Theorems about the accounts, for any number of users, handsets, devices,*)
(* codes, requests and handlers in progress.                               *)
(*                                                                         *)
(* Typed and Bounds are TypeOK with the ids and the codes bounded by what  *)
(* was handed out so far, and with what a handler keeps; the other         *)
(* invariants are stated beside the property each of them is for.          *)
(***************************************************************************)
EXTENDS Account, FiniteSetTheorems, TLAPS

PCs == {"idle", "findDevice", "createDevice", "updateDevice", "keepOtp", "verifyOtp",
        "createUser", "deleteDevices", "firstDevice", "forgetOtp", "socialLookup",
        "socialUser", "socialToken", "storeLink", "mailLink", "storeOtp", "reset", "turnOn",
        "logOut", "nameRooms", "nameGroups", "nameBroadcasts", "imageUsers", "imageRooms",
        "setPassword", "dropOthers", "dropDevice", "deleteAccount", "saveRoles"}

NamePcs == {"nameRooms", "nameGroups", "nameBroadcasts", "imageUsers", "imageRooms"}
LoginPcs == {"findDevice", "createDevice", "updateDevice"}
RegisterPcs == {"createUser", "deleteDevices", "firstDevice"}

Entries == [code : Nat, expired : BOOLEAN, verified : BOOLEAN]
UserDocs == [here : BOOLEAN, password : Passwords, banTo : BOOLEAN, deletedAt : BOOLEAN,
             isTwoFactorEnabled : BOOLEAN, twoFactorSecret : Secrets \cup {"none"},
             resetPasswordOTP : Nat, roles : SUBSET UserRoles, edited : SUBSET Fields]
DeviceDocs == [uId : Users \cup {NoUser}, userDeviceId : Handsets \cup {NoHandset},
               refreshToken : Nat, push : BOOLEAN]
Copies == [Places -> [name : Names, image : Names]]
Handlers == [pc : PCs, user : Users \cup {NoUser}, dev : Nat, hand : Handsets \cup {NoHandset},
             code : Nat, word : Names \cup {"none"}, all : BOOLEAN, entry : Entries,
             roles : SUBSET UserRoles, n : Nat]

Typed ==
  /\ scene \in Scenes
  /\ user \in [Users -> UserDocs] /\ device \in [Devices -> DeviceDocs]
  /\ copy \in [Users -> Copies] /\ otp \in [Users -> Entries]
  /\ codes \in 0..MaxCodes /\ ids \in 0..MaxDevices
  /\ tokens \subseteq Users \X Nat /\ refreshes \subseteq Users \X Nat \X Nat
  /\ req \in [Slots -> Handlers]
  /\ registered \subseteq Users /\ proved \subseteq Users
  /\ latest \in [Users -> Nat] /\ changes \in [Codes -> Nat] /\ stale \in BOOLEAN
  /\ begun \in 0..scene.limit /\ overlapped \in BOOLEAN /\ restarts \in 0..scene.restarts

\* No id and no code that was not handed out yet is anywhere.
Bounds ==
  /\ \A u \in Users : user[u].resetPasswordOTP <= codes /\ otp[u].code <= codes
                      /\ latest[u] <= codes
  /\ \A d \in Devices : /\ device[d].refreshToken <= begun
                        /\ device[d].uId # NoUser => d <= ids
  /\ mailed \subseteq 1..codes /\ expired \subseteq 1..codes /\ loggedOut \subseteq 1..ids
  /\ \A t \in tokens : t[2] <= ids
  /\ \A t \in refreshes : t[2] \in 1..ids /\ t[3] \in 1..begun

HandlerOK(s) ==
  LET h == req[s]
  IN /\ h.dev <= ids /\ h.code <= codes /\ h.entry.code <= codes
     /\ h.pc # "idle" => h.user \in Users /\ h.n \in 1..begun
     /\ h.pc \in {"createUser", "reset", "setPassword"} => h.word \in Passwords
     /\ h.pc \in NamePcs => h.word \in Names
     /\ h.pc \in LoginPcs \cup RegisterPcs => h.hand \in Handsets
     /\ h.pc \in {"updateDevice", "logOut", "dropDevice"} => h.dev \in 1..ids
     /\ h.pc \in {"storeLink", "mailLink", "storeOtp", "reset"} => h.code \in 1..codes

Inv1 == Typed /\ Bounds /\ \A s \in Slots : HandlerOK(s)

-----------------------------------------------------------------------------
(* What a step does to a handler *)

Continue(s) == SessionsContinue(s) \/ ProfileContinue(s)
Start(s) == SessionsStart(s) \/ ProfileStart(s)
AtOnceStep == SessionsAtOnce \/ ProfileAtOnce

LEMMA IdleType ==
  /\ NoOtp \in Entries /\ NoOtp.code = 0 /\ NoOtp.verified = FALSE
  /\ Idle \in Handlers
  /\ Idle.pc = "idle" /\ Idle.user = NoUser /\ Idle.dev = 0 /\ Idle.code = 0 /\ Idle.word = "none"
  /\ Idle.entry = NoOtp
<1>1. NoOtp \in Entries /\ NoOtp.code = 0 /\ NoOtp.verified = FALSE
  BY DEF NoOtp, Entries
<1> QED BY <1>1 DEF Idle, Handlers, PCs

\* What Call returns.
Called(h, pc, u) ==
  /\ h \in Handlers /\ h.pc = pc /\ h.user = u
  /\ h.dev = 0 /\ h.code = 0 /\ h.entry = NoOtp

LEMMA CallType ==
  ASSUME NEW pc \in PCs, NEW u \in Users
  PROVE  Called(Call(pc, u), pc, u)
<1> DEFINE i == Idle
<1>1. i \in Handlers /\ i.dev = 0 /\ i.code = 0 /\ i.entry = NoOtp
  BY IdleType
<1> HIDE DEF i
<1>2. LET h == [i EXCEPT !.pc = pc, !.user = u] IN Called(h, pc, u)
  BY <1>1 DEF Handlers, Called
<1> QED BY <1>2 DEF Call, i

\* Replacing the record of handler s.
LEMMA PutFields ==
  ASSUME req \in [Slots -> Handlers], NEW s \in Slots, NEW h \in Handlers,
         req' = [req EXCEPT ![s] = h]
  PROVE  /\ req' \in [Slots -> Handlers]
         /\ req'[s] = h /\ \A t \in Slots \ {s} : req'[t] = req[t]
OBVIOUS

\* Where a handler goes when it does not end.
Flow(pc, next) ==
  \/ pc = "findDevice" /\ next \in {"createDevice", "updateDevice"}
  \/ pc = "createUser" /\ next = "deleteDevices"
  \/ pc = "deleteDevices" /\ next = "firstDevice"
  \/ pc = "firstDevice" /\ next = "forgetOtp"
  \/ pc = "socialLookup" /\ next \in {"socialUser", "socialToken"}
  \/ pc = "socialUser" /\ next = "socialToken"
  \/ pc = "storeLink" /\ next = "mailLink"
  \/ pc = "nameRooms" /\ next = "nameGroups"
  \/ pc = "nameGroups" /\ next = "nameBroadcasts"
  \/ pc = "imageUsers" /\ next = "imageRooms"
  \/ pc = "setPassword" /\ next = "dropOthers"

\* Where no handler ends.
GoingOn == {"storeLink", "nameRooms", "nameGroups", "imageUsers"}

\* Handler s ends, or goes on with what it has kept and the device it found.
Moves(s) ==
  /\ req[s].pc # "idle"
  /\ req' \in [Slots -> Handlers]
  /\ \A t \in Slots \ {s} : req'[t] = req[t]
  /\ UNCHANGED <<scene, begun, overlapped, restarts>>
  /\ \/ req'[s] = Idle /\ req[s].pc \notin GoingOn
     \/ LET h == req[s]
            n == req'[s]
        IN /\ Flow(h.pc, n.pc)
           /\ n.user = h.user /\ n.hand = h.hand /\ n.code = h.code /\ n.word = h.word
           /\ n.all = h.all /\ n.entry = h.entry /\ n.n = h.n
           /\ n.pc = "createDevice" => OldDevices(h.user, h.hand) = {} /\ device' = device
           /\ IF n.pc = "updateDevice"
                THEN /\ n.dev \in DevicesOf(h.user) /\ device[n.dev].userDeviceId = h.hand
                     /\ device' = device
                ELSE n.dev = h.dev

LEMMA Ends ==
  ASSUME Inv1, NEW s \in Slots, req[s].pc \notin {"idle"} \cup GoingOn, Return(s), UNCHANGED scene
  PROVE  Moves(s)
<1>1. req' = [req EXCEPT ![s] = Idle] /\ UNCHANGED <<begun, overlapped, restarts>>
  BY DEF Return, Resume, process
<1>2. req' \in [Slots -> Handlers] /\ req'[s] = Idle /\ \A t \in Slots \ {s} : req'[t] = req[t]
  BY <1>1, IdleType, PutFields DEF Inv1, Typed
<1> QED BY <1>1, <1>2 DEF Moves

LEMMA GoesOn ==
  ASSUME Inv1, NEW s \in Slots, NEW next \in PCs, Flow(req[s].pc, next), next # "updateDevice",
         Goto(s, next), UNCHANGED scene,
         next = "createDevice" => /\ OldDevices(req[s].user, req[s].hand) = {}
                                  /\ device' = device
  PROVE  Moves(s)
<1> DEFINE h == req[s]
           n == [h EXCEPT !.pc = next]
<1>1. req \in [Slots -> Handlers] /\ h \in Handlers
  BY DEF Inv1, Typed
<1>2. req' = [req EXCEPT ![s] = n] /\ UNCHANGED <<begun, overlapped, restarts>>
  BY DEF Goto, Resume, process
<1>3. h.pc # "idle" /\ Flow(h.pc, next)
  BY DEF Flow
<1> HIDE DEF h
<1>4. /\ n \in Handlers /\ n.pc = next /\ n.user = h.user /\ n.hand = h.hand /\ n.code = h.code
      /\ n.word = h.word /\ n.all = h.all /\ n.entry = h.entry /\ n.n = h.n /\ n.dev = h.dev
  BY <1>1 DEF Handlers
<1> HIDE DEF n
<1>5. req' \in [Slots -> Handlers] /\ req'[s] = n /\ \A t \in Slots \ {s} : req'[t] = req[t]
  BY <1>1, <1>2, <1>4, PutFields
<1> QED BY <1>2, <1>3, <1>4, <1>5 DEF Moves, h

LEMMA ContinueMoves ==
  ASSUME Inv1, NEW s \in Slots, Continue(s)
  PROVE  Moves(s)
<1> USE DEF At, GoingOn
<1>1. CASE \/ UpdateDevice(s) \/ CreateDevice(s) \/ KeepOtp(s) \/ VerifyOtp(s) \/ RegisterDone(s)
           \/ SocialToken(s) \/ MailLink(s) \/ StoreOtp(s) \/ Reset(s) \/ TurnOn(s) \/ LogOut(s)
           \/ NameBroadcasts(s) \/ ImageRooms(s) \/ DropOthers(s) \/ DropDevice(s)
           \/ MarkDeleted(s) \/ SaveRoles(s)
  <2>1. req[s].pc \notin {"idle"} \cup GoingOn /\ Return(s) /\ UNCHANGED scene
    BY <1>1 DEF UpdateDevice, CreateDevice, KeepOtp, VerifyOtp, RegisterDone, SocialToken,
       MailLink, StoreOtp, Reset, TurnOn, LogOut, NameBroadcasts, ImageRooms, DropOthers,
       DropDevice, MarkDeleted, SaveRoles
  <2> QED BY <2>1, Ends
<1>2. CASE \/ RegisterUser(s) \/ RegisterClear(s) \/ RegisterDevice(s) \/ SocialLookup(s)
           \/ SocialUser(s) \/ StoreLink(s) \/ NameRooms(s) \/ NameGroups(s) \/ ImageUsers(s)
           \/ SetPassword(s)
  <2>1. /\ req[s].pc # "idle" /\ UNCHANGED scene
        /\ \/ Return(s) /\ req[s].pc \notin GoingOn
           \/ \E next \in PCs : /\ Goto(s, next) /\ next \notin {"createDevice", "updateDevice"}
                                /\ Flow(req[s].pc, next)
    BY <1>2 DEF RegisterUser, RegisterClear, RegisterDevice, SocialLookup, SocialUser, StoreLink,
       NameRooms, NameGroups, ImageUsers, SetPassword, Flow, PCs
  <2> QED BY <2>1, Ends, GoesOn
<1>3. CASE FindDevice(s)
  <2> DEFINE h == req[s]
             old == OldDevices(h.user, h.hand)
  <2>1. /\ h.pc = "findDevice" /\ UNCHANGED <<scene, device>>
        /\ IF old = {} THEN Goto(s, "createDevice")
           ELSE \E d \in old : Resume(s, Using(h, d))
    BY <1>3 DEF FindDevice
  <2>2. CASE old = {}
    <3>1. Goto(s, "createDevice")
      BY <2>1, <2>2
    <3>2. "createDevice" \in PCs /\ Flow(h.pc, "createDevice")
      BY <2>1 DEF PCs, Flow
    <3> QED BY <2>1, <2>2, <3>1, <3>2, GoesOn
  <2>3. CASE old # {}
    <3>1. PICK d \in old : Resume(s, Using(h, d))
      BY <2>1, <2>3
    <3>2. d \in DevicesOf(h.user) /\ device[d].userDeviceId = h.hand /\ d \in Nat
      BY <3>1 DEF OldDevices, DevicesOf, Devices
    <3>3. req \in [Slots -> Handlers] /\ h \in Handlers
      BY DEF Inv1, Typed
    <3> DEFINE n == Using(h, d)
    <3>4. req' = [req EXCEPT ![s] = n] /\ UNCHANGED <<begun, overlapped, restarts>>
      BY <3>1 DEF Resume, process
    <3>5. Flow(h.pc, "updateDevice") /\ h.pc # "idle" /\ "updateDevice" \in PCs
      BY <2>1 DEF Flow, PCs
    <3> HIDE DEF h, old
    <3>6. /\ n \in Handlers /\ n.pc = "updateDevice" /\ n.user = h.user /\ n.hand = h.hand
          /\ n.code = h.code /\ n.word = h.word /\ n.all = h.all /\ n.entry = h.entry
          /\ n.n = h.n /\ n.dev = d
      BY <3>2, <3>3, <3>5 DEF Handlers, Using
    <3> HIDE DEF n
    <3>7. req' \in [Slots -> Handlers] /\ req'[s] = n /\ \A t \in Slots \ {s} : req'[t] = req[t]
      BY <3>3, <3>4, <3>6, PutFields
    <3> QED BY <2>1, <3>2, <3>4, <3>5, <3>6, <3>7 DEF Moves, h
  <2> QED BY <2>2, <2>3
<1> QED BY <1>1, <1>2, <1>3 DEF Continue, SessionsContinue, ProfileContinue

-----------------------------------------------------------------------------
(* What a handler has read when it begins *)

LEMMA NameFields ==
  ASSUME copy \in [Users -> Copies], NEW u \in Users, NEW place \in Places, NEW name \in Names,
         SetName(u, place, name)
  PROVE  /\ copy' \in [Users -> Copies]
         /\ copy'[u][place].name = name
         /\ \A v \in Users, q \in Places : /\ copy'[v][q].image = copy[v][q].image
                                           /\ <<v, q>> # <<u, place>> =>
                                               copy'[v][q].name = copy[v][q].name
<1> DEFINE T == [name : Names, image : Names]
           c == copy[u]
           e == [c[place] EXCEPT !.name = name]
           n == [c EXCEPT ![place] = e]
<1>1. copy' = [copy EXCEPT ![u] = n]
  BY DEF SetName
<1>2. c \in [Places -> T] /\ c[place] \in T
  BY DEF Copies
<1>3. e \in T /\ e.name = name /\ e.image = c[place].image
  BY <1>2
<1> HIDE DEF e
<1>4. n \in [Places -> T] /\ n[place] = e /\ \A q \in Places \ {place} : n[q] = c[q]
  BY <1>2, <1>3
<1> HIDE DEF n, T
<1>5. copy' \in [Users -> Copies] /\ copy'[u] = n /\ \A v \in Users \ {u} : copy'[v] = copy[v]
  BY <1>1, <1>4 DEF Copies, T
<1> QED BY <1>3, <1>4, <1>5

SetImage(u, place, image) == copy' = [copy EXCEPT ![u][place].image = image]

LEMMA ImageFields ==
  ASSUME copy \in [Users -> Copies], NEW u \in Users, NEW place \in Places, NEW image \in Names,
         SetImage(u, place, image)
  PROVE  /\ copy' \in [Users -> Copies]
         /\ copy'[u][place].image = image
         /\ \A v \in Users, q \in Places : /\ copy'[v][q].name = copy[v][q].name
                                           /\ <<v, q>> # <<u, place>> =>
                                               copy'[v][q].image = copy[v][q].image
<1> DEFINE T == [name : Names, image : Names]
           c == copy[u]
           e == [c[place] EXCEPT !.image = image]
           n == [c EXCEPT ![place] = e]
<1>1. copy' = [copy EXCEPT ![u] = n]
  BY DEF SetImage
<1>2. c \in [Places -> T] /\ c[place] \in T
  BY DEF Copies
<1>3. e \in T /\ e.image = image /\ e.name = c[place].name
  BY <1>2
<1> HIDE DEF e
<1>4. n \in [Places -> T] /\ n[place] = e /\ \A q \in Places \ {place} : n[q] = c[q]
  BY <1>2, <1>3
<1> HIDE DEF n, T
<1>5. copy' \in [Users -> Copies] /\ copy'[u] = n /\ \A v \in Users \ {u} : copy'[v] = copy[v]
  BY <1>1, <1>4 DEF Copies, T
<1> QED BY <1>3, <1>4, <1>5

FirstPcs == {"findDevice", "keepOtp", "verifyOtp", "createUser", "socialLookup", "storeLink",
             "storeOtp", "reset", "turnOn", "logOut", "nameRooms", "imageUsers", "setPassword",
             "dropDevice", "deleteAccount", "saveRoles"}

\* The user is registered, or is not, and what else each handler has read.
Reads(s) ==
  LET n == req'[s]
      pc == n.pc
      u == n.user
  IN /\ pc \in FirstPcs /\ u \in Users
     /\ pc \in {"findDevice", "storeLink", "storeOtp", "reset"} => user[u].here
     /\ pc \in {"createUser", "keepOtp"} => ~user[u].here
     /\ pc = "createUser" => otp[u].verified
     /\ pc \in {"createUser", "reset", "setPassword"} => n.word \in Passwords
     /\ pc \in {"findDevice", "createUser"} => n.hand \in Handsets
     /\ pc \in NamePcs => n.word \in Names
     /\ n.entry = IF pc = "verifyOtp" THEN otp[u] ELSE NoOtp
     /\ IF pc \in {"storeLink", "storeOtp"} THEN n.code = codes + 1 /\ codes + 1 \in Codes
        ELSE n.code \in mailed \cup {0}
     /\ pc = "reset" => n.code \in mailed /\ n.code = user[u].resetPasswordOTP
     /\ IF pc \in {"logOut", "setPassword", "dropDevice"} THEN Exists(n.dev) ELSE n.dev = 0

\* What the first step writes: a code, or the name of the user.
Writes(s) ==
  LET n == req'[s]
      pc == n.pc
      u == n.user
  IN /\ codes' = IF pc \in {"storeLink", "storeOtp"} THEN codes + 1 ELSE codes
     /\ mailed' = IF pc = "storeOtp" THEN mailed \cup {codes + 1} ELSE mailed
     /\ latest' = IF pc = "storeOtp" THEN [latest EXCEPT ![u] = codes + 1] ELSE latest
     /\ IF pc = "nameRooms" THEN SetName(u, "users", n.word) ELSE copy' = copy

Begins(s) ==
  /\ req[s].pc = "idle"
  /\ req' \in [Slots -> Handlers]
  /\ \A t \in Slots \ {s} : req'[t] = req[t]
  /\ req'[s].n = begun + 1
  /\ UNCHANGED <<scene, user, device, otp, expired, ids, tokens, refreshes, registered, proved,
                 loggedOut, changes, stale, restarts>>
  /\ begun' = begun + 1 /\ begun < scene.limit
  /\ overlapped' = (overlapped \/ InProgress # {})

LEMMA BeginFields ==
  ASSUME Inv1, NEW s \in Slots, NEW request, NEW h \in Handlers, Free(s, request), Begin(s, h)
  PROVE  LET n == req'[s]
         IN /\ req[s].pc = "idle"
            /\ req' \in [Slots -> Handlers]
            /\ \A t \in Slots \ {s} : req'[t] = req[t]
            /\ n.n = begun + 1 /\ n.pc = h.pc /\ n.user = h.user /\ n.dev = h.dev
            /\ n.hand = h.hand /\ n.code = h.code /\ n.word = h.word /\ n.entry = h.entry
            /\ begun' = begun + 1 /\ begun < scene.limit /\ restarts' = restarts
            /\ overlapped' = (overlapped \/ InProgress # {})
<1> DEFINE n == [h EXCEPT !.n = begun + 1]
<1>1. begun + 1 \in Nat /\ begun < scene.limit
  <2>1. scene.limit \in Nat
    BY AccountAssumption DEF Inv1, Typed
  <2> QED BY <2>1 DEF Free, Inv1, Typed
<1>2. /\ n \in Handlers /\ n.n = begun + 1 /\ n.pc = h.pc /\ n.user = h.user /\ n.dev = h.dev
      /\ n.hand = h.hand /\ n.code = h.code /\ n.word = h.word /\ n.entry = h.entry
  BY <1>1 DEF Handlers
<1>3. /\ req' = [req EXCEPT ![s] = n] /\ begun' = begun + 1 /\ restarts' = restarts
  BY DEF Begin, Counted
<1>4. overlapped' = (overlapped \/ InProgress # {})
  BY DEF Begin, Counted, Quiet
<1>5. req[s].pc = "idle"
  <2>1. Slots \ InProgress # {}
    BY DEF Free, InProgress
  <2>2. s \in Slots \ InProgress
    BY <2>1 DEF Free
  <2> QED BY <2>2 DEF InProgress
<1> HIDE DEF n
<1>6. req' \in [Slots -> Handlers] /\ req'[s] = n /\ \A t \in Slots \ {s} : req'[t] = req[t]
  BY <1>2, <1>3, PutFields DEF Inv1, Typed
<1> QED BY <1>1, <1>2, <1>3, <1>4, <1>5, <1>6

LEMMA TokenTyped ==
  ASSUME Inv1, NEW t \in tokens
  PROVE  t[1] \in Users /\ t[2] \in Nat
BY DEF Inv1, Typed

LEMMA LoginBegins ==
  ASSUME Inv1, NEW s \in Slots, NEW request, NEW u \in Users, NEW h \in Handsets,
         NEW all \in BOOLEAN, user[u].here,
         Free(s, request), Begin(s, [Call("findDevice", u) EXCEPT !.hand = h, !.all = all]),
         UNCHANGED <<scene, user, device, copy, otp, mail, handed, history>>
  PROVE  Begins(s) /\ Reads(s) /\ Writes(s)
<1> DEFINE c == Call("findDevice", u)
           k == [c EXCEPT !.hand = h, !.all = all]
<1>0. "findDevice" \in PCs
  BY DEF PCs
<1>1. Called(c, "findDevice", u)
  BY <1>0, CallType
<1>2. Begin(s, k)
  OBVIOUS
<1> HIDE DEF c
<1>3. /\ k \in Handlers /\ k.pc = "findDevice" /\ k.user = u /\ k.hand = h
      /\ k.dev = 0 /\ k.code = 0 /\ k.entry = NoOtp
  BY <1>1 DEF Handlers, Called
<1> HIDE DEF k
<1>4. Begins(s) /\ LET n == req'[s] IN /\ n.pc = "findDevice" /\ n.user = u /\ n.hand = h
                                       /\ n.dev = 0 /\ n.code = 0 /\ n.entry = NoOtp
  BY <1>2, <1>3, BeginFields DEF Begins, handed, history, mail
<1> QED BY <1>4 DEF Reads, Writes, FirstPcs, NamePcs, mail, history

\* The handlers that are called with nothing but the user.
LEMMA PlainBegins ==
  ASSUME Inv1, NEW s \in Slots, NEW request, NEW u \in Users,
         NEW pc \in {"keepOtp", "socialLookup", "turnOn", "deleteAccount"},
         pc = "keepOtp" => ~user[u].here,
         Free(s, request), Begin(s, Call(pc, u)),
         UNCHANGED <<scene, user, device, copy, otp, mail, handed, history>>
  PROVE  Begins(s) /\ Reads(s) /\ Writes(s)
<1> DEFINE k == Call(pc, u)
<1>0. pc \in PCs
  BY DEF PCs
<1>1. Called(k, pc, u)
  BY <1>0, CallType
<1>2. Begin(s, k)
  OBVIOUS
<1> HIDE DEF k
<1>4. Begins(s) /\ LET n == req'[s] IN /\ n.pc = pc /\ n.user = u
                                       /\ n.dev = 0 /\ n.code = 0 /\ n.entry = NoOtp
  BY <1>1, <1>2, BeginFields DEF Begins, handed, history, mail, Called
<1> QED BY <1>4 DEF Reads, Writes, FirstPcs, NamePcs, mail, history

LEMMA RolesBegins ==
  ASSUME Inv1, NEW s \in Slots, NEW request, NEW u \in Users, NEW roles \in SUBSET UserRoles,
         Free(s, request), Begin(s, [Call("saveRoles", u) EXCEPT !.roles = roles]),
         UNCHANGED <<scene, user, device, copy, otp, mail, handed, history>>
  PROVE  Begins(s) /\ Reads(s) /\ Writes(s)
<1> DEFINE c == Call("saveRoles", u)
           k == [c EXCEPT !.roles = roles]
<1>0. "saveRoles" \in PCs
  BY DEF PCs
<1>1. Called(c, "saveRoles", u)
  BY <1>0, CallType
<1>2. Begin(s, k)
  OBVIOUS
<1> HIDE DEF c
<1>3. /\ k \in Handlers /\ k.pc = "saveRoles" /\ k.user = u
      /\ k.dev = 0 /\ k.code = 0 /\ k.entry = NoOtp
  BY <1>1 DEF Handlers, Called
<1> HIDE DEF k
<1>4. Begins(s) /\ LET n == req'[s] IN /\ n.pc = "saveRoles" /\ n.user = u
                                       /\ n.dev = 0 /\ n.code = 0 /\ n.entry = NoOtp
  BY <1>2, <1>3, BeginFields DEF Begins, handed, history, mail
<1> QED BY <1>4 DEF Reads, Writes, FirstPcs, NamePcs, mail, history

LEMMA VerifyBegins ==
  ASSUME Inv1, NEW s \in Slots, NEW u \in Users, NEW c \in mailed, VerifyOtpStart(s, u, c)
  PROVE  Begins(s) /\ Reads(s) /\ Writes(s)
<1> DEFINE b == Call("verifyOtp", u)
           k == [b EXCEPT !.code = c, !.entry = otp[u]]
<1>0. "verifyOtp" \in PCs
  BY DEF PCs
<1>1. Called(b, "verifyOtp", u)
  BY <1>0, CallType
<1>2. /\ Free(s, "verifyOtp") /\ Begin(s, k)
      /\ UNCHANGED <<scene, user, device, copy, otp, mail, handed, history>>
  BY DEF VerifyOtpStart
<1>3. c \in Nat /\ otp[u] \in Entries
  BY DEF Inv1, Typed, Bounds
<1> HIDE DEF b
<1>4. k \in Handlers /\ k.pc = "verifyOtp" /\ k.user = u /\ k.dev = 0 /\ k.code = c /\ k.entry = otp[u]
  BY <1>1, <1>3 DEF Handlers, Called
<1> HIDE DEF k
<1>5. Begins(s) /\ LET n == req'[s] IN /\ n.pc = "verifyOtp" /\ n.user = u
                                       /\ n.dev = 0 /\ n.code = c /\ n.entry = otp[u]
  BY <1>2, <1>4, BeginFields DEF Begins, handed, history, mail
<1> QED BY <1>2, <1>5 DEF Reads, Writes, FirstPcs, NamePcs, mail, history

LEMMA RegisterBegins ==
  ASSUME Inv1, NEW s \in Slots, NEW u \in Users, NEW p \in Passwords, NEW h \in Handsets,
         RegisterStart(s, u, p, h)
  PROVE  Begins(s) /\ Reads(s) /\ Writes(s)
<1> DEFINE c == Call("createUser", u)
           k == [c EXCEPT !.word = p, !.hand = h]
<1>0. "createUser" \in PCs
  BY DEF PCs
<1>1. Called(c, "createUser", u)
  BY <1>0, CallType
<1>2. /\ Free(s, "register") /\ ~user[u].here /\ Begin(s, k)
      /\ UNCHANGED <<scene, user, device, copy, otp, mail, handed, history>>
  BY DEF RegisterStart
<1>3. otp[u].verified
  BY DEF RegisterStart
<1>4. p \in Names
  BY DEF Passwords, Names
<1> HIDE DEF c
<1>5. /\ k \in Handlers /\ k.pc = "createUser" /\ k.user = u /\ k.word = p /\ k.hand = h
      /\ k.dev = 0 /\ k.code = 0 /\ k.entry = NoOtp
  BY <1>1, <1>4 DEF Handlers, Called
<1> HIDE DEF k
<1>6. Begins(s) /\ LET n == req'[s] IN /\ n.pc = "createUser" /\ n.user = u /\ n.word = p
                                       /\ n.hand = h /\ n.dev = 0 /\ n.code = 0
                                       /\ n.entry = NoOtp
  BY <1>2, <1>5, BeginFields DEF Begins, handed, history, mail
<1>7. Reads(s)
  BY <1>2, <1>3, <1>6 DEF Reads, FirstPcs, NamePcs
<1> QED BY <1>2, <1>6, <1>7 DEF Writes, mail, history

\* A code for a link or for an administrator.
LEMMA CodeBegins ==
  ASSUME Inv1, NEW s \in Slots, NEW u \in Users, ResetLinkStart(s, u) \/ AdminOtpStart(s, u)
  PROVE  Begins(s) /\ Reads(s) /\ Writes(s)
<1>1. PICK pc \in {"storeLink", "storeOtp"}, request \in Requests :
         /\ pc = IF ResetLinkStart(s, u) THEN "storeLink" ELSE "storeOtp"
         /\ Free(s, request) /\ user[u].here /\ codes + 1 \in Codes
         /\ Begin(s, [Call(pc, u) EXCEPT !.code = codes + 1]) /\ codes' = codes + 1
         /\ UNCHANGED <<scene, user, device, copy, otp, expired, handed, registered, proved,
                        loggedOut, changes, stale>>
  BY DEF ResetLinkStart, AdminOtpStart, NewCode, Requests, history
<1>2. /\ mailed' = IF pc = "storeOtp" THEN mailed \cup {codes + 1} ELSE mailed
      /\ latest' = IF pc = "storeOtp" THEN [latest EXCEPT ![u] = codes + 1] ELSE latest
  BY <1>1 DEF ResetLinkStart, AdminOtpStart, NewCode, history
<1> DEFINE c == Call(pc, u)
           k == [c EXCEPT !.code = codes + 1]
<1>0. pc \in PCs
  BY DEF PCs
<1>3. Called(c, pc, u)
  BY <1>0, CallType
<1>4. Begin(s, k) /\ codes + 1 \in Nat
  BY <1>1 DEF Codes
<1> HIDE DEF c
<1>5. /\ k \in Handlers /\ k.pc = pc /\ k.user = u /\ k.code = codes + 1
      /\ k.dev = 0 /\ k.entry = NoOtp
  BY <1>3, <1>4 DEF Handlers, Called
<1> HIDE DEF k
<1>6. Begins(s) /\ LET n == req'[s] IN /\ n.pc = pc /\ n.user = u /\ n.code = codes + 1
                                       /\ n.dev = 0 /\ n.entry = NoOtp
  BY <1>1, <1>4, <1>5, BeginFields DEF Begins, handed
<1> QED BY <1>1, <1>2, <1>6 DEF Reads, Writes, FirstPcs, NamePcs

LEMMA ResetBegins ==
  ASSUME Inv1, NEW s \in Slots, NEW u \in Users, NEW c \in mailed, NEW p \in Passwords,
         ResetStart(s, u, c, p)
  PROVE  Begins(s) /\ Reads(s) /\ Writes(s)
<1> DEFINE b == Call("reset", u)
           k == [b EXCEPT !.code = c, !.word = p]
<1>0. "reset" \in PCs
  BY DEF PCs
<1>1. Called(b, "reset", u)
  BY <1>0, CallType
<1>2. /\ Free(s, "reset") /\ Begin(s, k) /\ user[u].here /\ user[u].resetPasswordOTP = c
      /\ UNCHANGED <<scene, user, device, copy, otp, mail, handed, history>>
  BY DEF ResetStart, Stored
<1>3. c \in Nat /\ p \in Names
  BY DEF Inv1, Typed, Bounds, Passwords, Names
<1> HIDE DEF b
<1>4. /\ k \in Handlers /\ k.pc = "reset" /\ k.user = u /\ k.dev = 0 /\ k.code = c /\ k.word = p
      /\ k.entry = NoOtp
  BY <1>1, <1>3 DEF Handlers, Called
<1> HIDE DEF k
<1>5. Begins(s) /\ LET n == req'[s] IN /\ n.pc = "reset" /\ n.user = u /\ n.dev = 0 /\ n.code = c
                                       /\ n.word = p /\ n.entry = NoOtp
  BY <1>2, <1>4, BeginFields DEF Begins, handed, history, mail
<1> QED BY <1>2, <1>5 DEF Reads, Writes, FirstPcs, NamePcs, mail, history

LEMMA LogOutBegins ==
  ASSUME Inv1, NEW s \in Slots, NEW u \in Users, NEW d \in Nat, NEW all \in BOOLEAN,
         NEW p \in Passwords, LogOutStart(s, u, d, all, p)
  PROVE  Begins(s) /\ Reads(s) /\ Writes(s)
<1> DEFINE b == Call("logOut", u)
           k == [b EXCEPT !.dev = d, !.all = all]
           request == IF all THEN "logoutAll" ELSE "logout"
<1>0. "logOut" \in PCs
  BY DEF PCs
<1>1. Called(b, "logOut", u)
  BY <1>0, CallType
<1>2. /\ Free(s, request) /\ Begin(s, k) /\ Exists(d)
      /\ UNCHANGED <<scene, user, device, copy, otp, mail, handed, history>>
  BY DEF LogOutStart, Verified
<1> HIDE DEF b
<1>3. /\ k \in Handlers /\ k.pc = "logOut" /\ k.user = u /\ k.dev = d /\ k.code = 0
      /\ k.entry = NoOtp
  BY <1>1 DEF Handlers, Called
<1> HIDE DEF k
<1>4. Begins(s) /\ LET n == req'[s] IN /\ n.pc = "logOut" /\ n.user = u /\ n.dev = d
                                       /\ n.code = 0 /\ n.entry = NoOtp
  BY <1>2, <1>3, BeginFields DEF Begins, handed, history, mail
<1> QED BY <1>2, <1>4 DEF Reads, Writes, FirstPcs, NamePcs, mail, history

LEMMA NameBegins ==
  ASSUME Inv1, NEW s \in Slots, NEW u \in Users, NEW d \in Nat, NEW w \in Names,
         UpdateMyName(s, u, d, w) \/ UpdateMyImage(s, u, d, w)
  PROVE  Begins(s) /\ Reads(s) /\ Writes(s)
<1>1. PICK pc \in {"nameRooms", "imageUsers"}, request \in {"name", "image"} :
         /\ Free(s, request) /\ Begin(s, [Call(pc, u) EXCEPT !.word = w])
         /\ IF pc = "nameRooms" THEN SetName(u, "users", w) ELSE copy' = copy
         /\ UNCHANGED <<scene, user, device, otp, mail, handed, history>>
  BY DEF UpdateMyName, UpdateMyImage
<1> DEFINE b == Call(pc, u)
           k == [b EXCEPT !.word = w]
<1>0. pc \in PCs
  BY DEF PCs
<1>2. Called(b, pc, u)
  BY <1>0, CallType
<1>3. Begin(s, k)
  BY <1>1
<1> HIDE DEF b
<1>4. /\ k \in Handlers /\ k.pc = pc /\ k.user = u /\ k.dev = 0 /\ k.code = 0 /\ k.word = w
      /\ k.entry = NoOtp
  BY <1>2 DEF Handlers, Called
<1> HIDE DEF k
<1>5. Begins(s) /\ LET n == req'[s] IN /\ n.pc = pc /\ n.user = u /\ n.dev = 0 /\ n.code = 0
                                       /\ n.word = w /\ n.entry = NoOtp
  BY <1>1, <1>3, <1>4, BeginFields DEF Begins, handed, history, mail
<1> QED BY <1>1, <1>5 DEF Reads, Writes, FirstPcs, NamePcs, mail, history

LEMMA PasswordBegins ==
  ASSUME Inv1, NEW s \in Slots, NEW u \in Users, NEW d \in Nat, NEW old \in Passwords,
         NEW new \in Passwords, NEW all \in BOOLEAN, UpdateMyPassword(s, u, d, old, new, all)
  PROVE  Begins(s) /\ Reads(s) /\ Writes(s)
<1> DEFINE b == Call("setPassword", u)
           k == [b EXCEPT !.dev = d, !.word = new, !.all = all]
<1>0. "setPassword" \in PCs
  BY DEF PCs
<1>1. Called(b, "setPassword", u)
  BY <1>0, CallType
<1>2. /\ Free(s, "password") /\ Begin(s, k) /\ Exists(d)
      /\ UNCHANGED <<scene, user, device, copy, otp, mail, handed, history>>
  BY DEF UpdateMyPassword, Verified
<1>3. new \in Names
  BY DEF Passwords, Names
<1> HIDE DEF b
<1>4. /\ k \in Handlers /\ k.pc = "setPassword" /\ k.user = u /\ k.dev = d /\ k.code = 0
      /\ k.word = new /\ k.entry = NoOtp
  BY <1>1, <1>3 DEF Handlers, Called
<1> HIDE DEF k
<1>5. Begins(s) /\ LET n == req'[s] IN /\ n.pc = "setPassword" /\ n.user = u /\ n.dev = d
                                       /\ n.code = 0 /\ n.word = new /\ n.entry = NoOtp
  BY <1>2, <1>4, BeginFields DEF Begins, handed, history, mail
<1> QED BY <1>2, <1>5 DEF Reads, Writes, FirstPcs, NamePcs, mail, history

LEMMA DropBegins ==
  ASSUME Inv1, NEW s \in Slots, NEW u \in Users, NEW d, NEW other \in Devices,
         NEW p \in Passwords, DeleteDevice(s, u, d, other, p)
  PROVE  Begins(s) /\ Reads(s) /\ Writes(s)
<1> DEFINE b == Call("dropDevice", u)
           k == [b EXCEPT !.dev = other]
<1>0. "dropDevice" \in PCs
  BY DEF PCs
<1>1. Called(b, "dropDevice", u)
  BY <1>0, CallType
<1>2. /\ Free(s, "dropDevice") /\ Begin(s, k) /\ Exists(other) /\ other \in Nat
      /\ UNCHANGED <<scene, user, device, copy, otp, mail, handed, history>>
  BY DEF DeleteDevice, Devices
<1> HIDE DEF b
<1>3. /\ k \in Handlers /\ k.pc = "dropDevice" /\ k.user = u /\ k.dev = other /\ k.code = 0
      /\ k.entry = NoOtp
  BY <1>1, <1>2 DEF Handlers, Called
<1> HIDE DEF k
<1>4. Begins(s) /\ LET n == req'[s] IN /\ n.pc = "dropDevice" /\ n.user = u /\ n.dev = other
                                       /\ n.code = 0 /\ n.entry = NoOtp
  BY <1>2, <1>3, BeginFields DEF Begins, handed, history, mail
<1> QED BY <1>2, <1>4 DEF Reads, Writes, FirstPcs, NamePcs, mail, history

LEMMA StartMoves ==
  ASSUME Inv1, NEW s \in Slots, Start(s)
  PROVE  Begins(s) /\ Reads(s) /\ Writes(s)
<1>1. CASE LoginRoutes(s)
  <2>1. PICK u \in Users, p \in Passwords, h \in Handsets :
          \/ \E remember \in BOOLEAN : LoginStart(s, u, p, h, remember)
          \/ RegisterStart(s, u, p, h)
    BY <1>1 DEF LoginRoutes
  <2> QED BY <2>1, LoginBegins, RegisterBegins DEF LoginStart
<1>2. CASE SocialRoutes(s)
  <2>1. PICK u \in Users : SocialStart(s, u)
    BY <1>2 DEF SocialRoutes
  <2> QED BY <2>1, PlainBegins DEF SocialStart
<1>3. CASE LinkRoutes(s) \/ AdminResetRoutes(s)
  BY <1>3, CodeBegins, ResetBegins DEF LinkRoutes, AdminResetRoutes, ResetPasswordWithLink,
     VerifyOtpAdminReset
<1>4. CASE TwoFactorRoutes(s)
  <2>1. PICK t \in tokens : \/ TurnOnStart(s, t[1], t[2])
                            \/ \E secret \in Secrets, h \in Handsets, remember \in BOOLEAN :
                                 AuthenticateTwoFactor(s, t[1], t[2], secret, h, remember)
    BY <1>4 DEF TwoFactorRoutes
  <2>2. t[1] \in Users
    BY TokenTyped
  <2>3. CASE TurnOnStart(s, t[1], t[2])
    BY <2>2, <2>3, PlainBegins DEF TurnOnStart
  <2>4. CASE \E secret \in Secrets, h \in Handsets, remember \in BOOLEAN :
                AuthenticateTwoFactor(s, t[1], t[2], secret, h, remember)
    BY <2>2, <2>4, LoginBegins DEF AuthenticateTwoFactor, Verified
  <2> QED BY <2>1, <2>3, <2>4
<1>5. CASE OtpRoutes(s)
  <2>1. CASE \E u \in Users : OtpRegisterStart(s, u)
    BY <2>1, PlainBegins DEF OtpRegisterStart
  <2> QED BY <1>5, <2>1, VerifyBegins DEF OtpRoutes
<1>6. CASE LogOutRoute(s)
  BY <1>6, TokenTyped, LogOutBegins DEF LogOutRoute
<1>7. CASE \E t \in tokens : \/ ProfileRoutes(s, t[1], t[2]) \/ PasswordRoutes(s, t[1], t[2])
                             \/ DeleteAccountRoute(s, t[1], t[2])
  <2>1. PICK t \in tokens : \/ ProfileRoutes(s, t[1], t[2]) \/ PasswordRoutes(s, t[1], t[2])
                            \/ DeleteAccountRoute(s, t[1], t[2])
    BY <1>7
  <2>2. t[1] \in Users /\ t[2] \in Nat
    BY TokenTyped
  <2>3. CASE ProfileRoutes(s, t[1], t[2])
    BY <2>2, <2>3, NameBegins, DropBegins DEF ProfileRoutes
  <2>4. CASE PasswordRoutes(s, t[1], t[2])
    BY <2>2, <2>4, NameBegins, PasswordBegins DEF PasswordRoutes
  <2>5. CASE DeleteAccountRoute(s, t[1], t[2])
    BY <2>2, <2>5, PlainBegins DEF DeleteAccountRoute, DeleteMyAccount
  <2> QED BY <2>1, <2>3, <2>4, <2>5
<1>8. CASE RoleRoutes(s)
  <2>1. PICK u \in Users, roles \in SUBSET UserRoles : RolesStart(s, u, roles)
    <3>1. PICK u \in Users : \/ \E role \in UserRoles : UpdateUserRole(s, u, role)
                             \/ \E hasBadge \in BOOLEAN : UpdateUserInfo(s, u, hasBadge)
      BY <1>8 DEF RoleRoutes
    <3>2. user[u].roles \in SUBSET UserRoles
      BY DEF Inv1, Typed, UserDocs
    <3> QED BY <3>1, <3>2 DEF UpdateUserRole, UpdateUserInfo, UserRoles
  <2> QED BY <2>1, RolesBegins DEF RolesStart
<1> QED BY <1>1, <1>2, <1>3, <1>4, <1>5, <1>6, <1>7, <1>8 DEF Start, SessionsStart, ProfileStart

-----------------------------------------------------------------------------
(* What a later step of a handler writes *)

\* The document of user u is replaced by n.
LEMMA PutUser ==
  ASSUME user \in [Users -> UserDocs], NEW u \in Users, NEW n \in UserDocs,
         user' = [user EXCEPT ![u] = n]
  PROVE  /\ user' \in [Users -> UserDocs] /\ user'[u] = n
         /\ \A v \in Users \ {u} : user'[v] = user[v]
OBVIOUS

LEMMA AccountDoc ==
  ASSUME NEW p \in Passwords
  PROVE  /\ NewAccount(p) \in UserDocs /\ NewAccount(p).here
         /\ NewAccount(p).resetPasswordOTP = 0
<1> DEFINE b == NoAccount
           n == [b EXCEPT !.here = TRUE, !.password = p]
<1>1. b \in UserDocs /\ b.resetPasswordOTP = 0
  BY DEF NoAccount, UserDocs, Passwords
<1> HIDE DEF b
<1>2. n \in UserDocs /\ n.here /\ n.resetPasswordOTP = 0
  BY <1>1 DEF UserDocs
<1> QED BY <1>2 DEF NewAccount, b

\* Only the user of the handler is written; who is registered stays so.
UserWrites(s) ==
  LET h == req[s]
      u == h.user
      new == h.pc \in {"createUser", "socialUser"} /\ ~user[u].here
  IN /\ user' \in [Users -> UserDocs]
     /\ \A v \in Users \ {u} : user'[v] = user[v]
     /\ user'[u].here <=> user[u].here \/ new
     /\ user'[u].resetPasswordOTP = IF h.pc \in {"storeLink", "storeOtp"} THEN h.code
                                    ELSE IF h.pc = "reset" \/ new THEN 0
                                    ELSE user[u].resetPasswordOTP

LEMMA ContinueUser ==
  ASSUME Inv1, NEW s \in Slots, Continue(s)
  PROVE  UserWrites(s)
<1> DEFINE h == req[s]
           u == h.user
           doc == user[u]
<1>1. h.pc # "idle"
  BY ContinueMoves DEF Moves
<1>2. /\ h \in Handlers /\ user \in [Users -> UserDocs] /\ u \in Users /\ doc \in UserDocs
  BY <1>1 DEF Inv1, Typed, HandlerOK
<1>3. h.pc \in {"createUser", "reset", "setPassword"} => h.word \in Passwords
  BY DEF Inv1, HandlerOK
<1>4. h.code \in Nat /\ h.roles \in SUBSET UserRoles /\ doc.resetPasswordOTP \in Nat
  BY <1>2 DEF Handlers, UserDocs
<1>5. CASE user' = user /\ h.pc \notin {"storeLink", "storeOtp", "reset"}
           /\ (h.pc \in {"createUser", "socialUser"} => user[u].here)
  BY <1>2, <1>5 DEF UserWrites
<1>6. ASSUME NEW n \in UserDocs, user' = [user EXCEPT ![u] = n], n.here <=> doc.here,
             h.pc \notin {"createUser", "socialUser"},
             n.resetPasswordOTP = IF h.pc \in {"storeLink", "storeOtp"} THEN h.code
                                  ELSE IF h.pc = "reset" THEN 0 ELSE doc.resetPasswordOTP
      PROVE  UserWrites(s)
  <2>1. /\ user' \in [Users -> UserDocs] /\ user'[u] = n
        /\ \A v \in Users \ {u} : user'[v] = user[v]
    BY <1>2, <1>6, PutUser
  <2> QED BY <1>6, <2>1 DEF UserWrites
<1>7. ASSUME NEW p \in Passwords, user' = [user EXCEPT ![u] = NewAccount(p)], ~user[u].here,
             h.pc \in {"createUser", "socialUser"}
      PROVE  UserWrites(s)
  <2>1. NewAccount(p) \in UserDocs /\ NewAccount(p).here /\ NewAccount(p).resetPasswordOTP = 0
    BY AccountDoc
  <2>2. /\ user' \in [Users -> UserDocs] /\ user'[u] = NewAccount(p)
        /\ \A v \in Users \ {u} : user'[v] = user[v]
    BY <1>2, <1>7, <2>1, PutUser
  <2> QED BY <1>7, <2>1, <2>2 DEF UserWrites
<1>8. CASE StoreLink(s) \/ StoreOtp(s)
  <2> DEFINE n == [doc EXCEPT !.resetPasswordOTP = h.code]
  <2>1. user' = [user EXCEPT ![u] = n] /\ h.pc \in {"storeLink", "storeOtp"}
    BY <1>8 DEF StoreLink, StoreOtp, At
  <2> HIDE DEF doc
  <2>2. n \in UserDocs /\ (n.here <=> doc.here) /\ n.resetPasswordOTP = h.code
    BY <1>2, <1>4 DEF UserDocs
  <2> QED BY <1>6, <2>1, <2>2
<1>9. CASE Reset(s)
  <2> DEFINE n == [doc EXCEPT !.password = h.word, !.resetPasswordOTP = 0]
  <2>1. user' = [user EXCEPT ![u] = n] /\ h.pc = "reset"
    BY <1>9 DEF Reset, SetUser, At
  <2> HIDE DEF doc
  <2>2. n \in UserDocs /\ (n.here <=> doc.here) /\ n.resetPasswordOTP = 0
    BY <1>2, <1>3, <2>1 DEF UserDocs
  <2> QED BY <1>6, <2>1, <2>2
<1>10. CASE TurnOn(s)
  <2> DEFINE n == [doc EXCEPT !.isTwoFactorEnabled = TRUE]
  <2>1. user' = [user EXCEPT ![u] = n] /\ h.pc = "turnOn"
    BY <1>10 DEF TurnOn, At
  <2> HIDE DEF doc
  <2>2. n \in UserDocs /\ (n.here <=> doc.here) /\ n.resetPasswordOTP = doc.resetPasswordOTP
    BY <1>2 DEF UserDocs
  <2> QED BY <1>6, <2>1, <2>2
<1>11. CASE SetPassword(s)
  <2> DEFINE n == [doc EXCEPT !.password = h.word]
  <2>1. user' = [user EXCEPT ![u] = n] /\ h.pc = "setPassword"
    BY <1>11 DEF SetPassword, At
  <2> HIDE DEF doc
  <2>2. n \in UserDocs /\ (n.here <=> doc.here) /\ n.resetPasswordOTP = doc.resetPasswordOTP
    BY <1>2, <1>3, <2>1 DEF UserDocs
  <2> QED BY <1>6, <2>1, <2>2
<1>12. CASE MarkDeleted(s)
  <2> DEFINE n == [doc EXCEPT !.deletedAt = TRUE]
  <2>1. user' = [user EXCEPT ![u] = n] /\ h.pc = "deleteAccount"
    BY <1>12 DEF MarkDeleted, At
  <2> HIDE DEF doc
  <2>2. n \in UserDocs /\ (n.here <=> doc.here) /\ n.resetPasswordOTP = doc.resetPasswordOTP
    BY <1>2 DEF UserDocs
  <2> QED BY <1>6, <2>1, <2>2
<1>13. CASE SaveRoles(s)
  <2> DEFINE n == [doc EXCEPT !.roles = h.roles]
  <2>1. user' = [user EXCEPT ![u] = n] /\ h.pc = "saveRoles"
    BY <1>13 DEF SaveRoles, At
  <2> HIDE DEF doc
  <2>2. n \in UserDocs /\ (n.here <=> doc.here) /\ n.resetPasswordOTP = doc.resetPasswordOTP
    BY <1>2, <1>4 DEF UserDocs
  <2> QED BY <1>6, <2>1, <2>2
<1>14. CASE RegisterUser(s)
  <2>1. h.pc = "createUser"
    BY <1>14 DEF RegisterUser, At
  <2>2. CASE user[u].here
    BY <1>5, <1>14, <2>1, <2>2 DEF RegisterUser
  <2>3. CASE ~user[u].here
    <3>1. user' = [user EXCEPT ![u] = NewAccount(h.word)]
      BY <1>14, <2>3 DEF RegisterUser
    <3> QED BY <1>3, <1>7, <2>1, <2>3, <3>1
  <2> QED BY <2>2, <2>3
<1>15. CASE SocialUser(s)
  <2>1. h.pc = "socialUser"
    BY <1>15 DEF SocialUser, At
  <2>2. CASE user[u].here
    BY <1>5, <1>15, <2>1, <2>2 DEF SocialUser
  <2>3. CASE ~user[u].here
    <3>1. user' = [user EXCEPT ![u] = NewAccount("old")] /\ "old" \in Passwords
      BY <1>15, <2>3 DEF SocialUser, Passwords
    <3> QED BY <1>7, <2>1, <2>3, <3>1
  <2> QED BY <2>2, <2>3
<1>16. CASE \/ FindDevice(s) \/ UpdateDevice(s) \/ CreateDevice(s) \/ KeepOtp(s) \/ VerifyOtp(s)
            \/ RegisterClear(s) \/ RegisterDevice(s) \/ RegisterDone(s) \/ SocialLookup(s)
            \/ SocialToken(s) \/ MailLink(s) \/ LogOut(s)
            \/ NameRooms(s) \/ NameGroups(s) \/ NameBroadcasts(s) \/ ImageUsers(s) \/ ImageRooms(s)
            \/ DropOthers(s) \/ DropDevice(s)
  <2>1. user' = user /\ h.pc \notin {"storeLink", "storeOtp", "reset", "createUser", "socialUser"}
    BY <1>16 DEF FindDevice, UpdateDevice, CreateDevice, KeepOtp, VerifyOtp, RegisterClear,
       RegisterDevice, RegisterDone, SocialLookup, SocialToken, MailLink, LogOut, NameRooms,
       NameGroups, NameBroadcasts, ImageUsers, ImageRooms, DropOthers, DropDevice, At
  <2> QED BY <1>5, <2>1
<1> QED BY <1>8, <1>9, <1>10, <1>11, <1>12, <1>13, <1>14, <1>15, <1>16
     DEF Continue, SessionsContinue, ProfileContinue

\* The devices are whose they were, n is the only new refresh token.
DevicesKept(n) ==
  /\ device' \in [Devices -> DeviceDocs]
  /\ \A d \in Devices : /\ device'[d].uId = device[d].uId
                        /\ device'[d].userDeviceId = device[d].userDeviceId
                        /\ device'[d].refreshToken \in {device[d].refreshToken, n}

\* Device ids + 1 is the one of u on handset hand.
DeviceMade(u, hand, n) ==
  /\ ids' = ids + 1 /\ ids + 1 \in Devices
  /\ device' \in [Devices -> DeviceDocs]
  /\ \A d \in Devices \ {ids + 1} : device'[d] = device[d]
  /\ device'[ids + 1].uId = u /\ device'[ids + 1].userDeviceId = hand
  /\ device'[ids + 1].refreshToken \in {0, n}

DevicesGone(gone) ==
  /\ gone \subseteq Devices /\ gone \subseteq 1..ids /\ loggedOut' = loggedOut \cup gone
  /\ device' \in [Devices -> DeviceDocs]
  /\ \A d \in Devices : device'[d] = IF d \in gone THEN NoDevice ELSE device[d]

DeviceWrites(s) ==
  LET h == req[s]
  IN IF h.pc \in {"createDevice", "firstDevice"}
       THEN DeviceMade(h.user, h.hand, h.n) /\ loggedOut' = loggedOut
     ELSE IF h.pc \in {"deleteDevices", "logOut", "dropOthers", "dropDevice"}
       THEN /\ \E gone \in SUBSET Devices : /\ DevicesGone(gone)
                                            /\ h.pc = "deleteDevices" => gone = DevicesOf(h.user)
            /\ ids' = ids
     ELSE DevicesKept(h.n) /\ UNCHANGED <<ids, loggedOut>>

\* A token is of the user of the handler and of a device there has been, or of none.
TokenWrites(s) ==
  LET h == req[s]
  IN /\ tokens' \subseteq tokens \cup {<<h.user, d>> : d \in 0..ids'}
     /\ refreshes' \subseteq refreshes \cup {<<h.user, d, h.n>> : d \in 1..ids'}

LEMMA NoDeviceType == NoDevice \in DeviceDocs /\ NoDevice.uId = NoUser /\ NoDevice.refreshToken = 0
BY DEF NoDevice, DeviceDocs

LEMMA DeviceType ==
  ASSUME NEW u \in Users, NEW hand \in Handsets, NEW n \in Nat
  PROVE  /\ Device(u, hand, n) \in DeviceDocs /\ Device(u, hand, n).uId = u
         /\ Device(u, hand, n).userDeviceId = hand /\ Device(u, hand, n).refreshToken = n
<1> DEFINE b == NoDevice
           n1 == [b EXCEPT !.uId = u, !.userDeviceId = hand, !.refreshToken = n, !.push = TRUE]
<1>1. b \in DeviceDocs
  BY NoDeviceType
<1> HIDE DEF b
<1>2. n1 \in DeviceDocs /\ n1.uId = u /\ n1.userDeviceId = hand /\ n1.refreshToken = n
  BY <1>1 DEF DeviceDocs
<1> QED BY <1>2 DEF Device, b

LEMMA WithoutType ==
  ASSUME Inv1, NEW gone \in SUBSET Devices, device' = Without(gone), loggedOut' = loggedOut \cup gone,
         \A d \in gone : device[d].uId # NoUser \/ d \in 1..ids
  PROVE  DevicesGone(gone)
<1>1. device \in [Devices -> DeviceDocs] /\ NoDevice \in DeviceDocs
  BY NoDeviceType DEF Inv1, Typed
<1>2. gone \subseteq 1..ids
  BY DEF Inv1, Bounds, Typed, Devices
<1>3. /\ device' \in [Devices -> DeviceDocs]
      /\ \A d \in Devices : device'[d] = IF d \in gone THEN NoDevice ELSE device[d]
  BY <1>1 DEF Without
<1> QED BY <1>2, <1>3 DEF DevicesGone

LEMMA MadeType ==
  ASSUME Inv1, NEW u \in Users, NEW hand \in Handsets, NEW n \in Nat, NEW m \in {0, n},
         ids + 1 \in Devices, ids' = ids + 1,
         device' = [device EXCEPT ![ids + 1] = Device(u, hand, m)]
  PROVE  DeviceMade(u, hand, n)
<1> DEFINE e == Device(u, hand, m)
<1>1. e \in DeviceDocs /\ e.uId = u /\ e.userDeviceId = hand /\ e.refreshToken = m
  BY DeviceType
<1>2. device' = [device EXCEPT ![ids + 1] = e]
  OBVIOUS
<1> HIDE DEF e
<1>3. /\ device' \in [Devices -> DeviceDocs] /\ device'[ids + 1] = e
      /\ \A d \in Devices \ {ids + 1} : device'[d] = device[d]
  BY <1>1, <1>2 DEF Inv1, Typed
<1> QED BY <1>1, <1>3 DEF DeviceMade

LEMMA KeptType ==
  ASSUME Inv1, NEW d \in Nat, NEW n \in Nat, NEW m \in DeviceDocs,
         device' = IF Exists(d) THEN [device EXCEPT ![d] = m] ELSE device,
         m.uId = device[d].uId, m.userDeviceId = device[d].userDeviceId,
         m.refreshToken \in {device[d].refreshToken, n}
  PROVE  DevicesKept(n)
<1>1. device \in [Devices -> DeviceDocs]
  BY DEF Inv1, Typed
<1>2. CASE ~Exists(d)
  BY <1>1, <1>2 DEF DevicesKept
<1>3. CASE Exists(d)
  <2>1. d \in Devices /\ device' = [device EXCEPT ![d] = m]
    BY <1>3 DEF Exists
  <2>2. /\ device' \in [Devices -> DeviceDocs] /\ device'[d] = m
        /\ \A e \in Devices \ {d} : device'[e] = device[e]
    BY <1>1, <2>1
  <2> QED BY <2>1, <2>2 DEF DevicesKept
<1> QED BY <1>2, <1>3

LEMMA ContinueDevice ==
  ASSUME Inv1, NEW s \in Slots, Continue(s)
  PROVE  DeviceWrites(s) /\ TokenWrites(s) /\ ids' \in ids..MaxDevices
<1> DEFINE h == req[s]
<1>1. h.pc # "idle"
  BY ContinueMoves DEF Moves
<1>2. h \in Handlers /\ h.user \in Users /\ ids \in Nat /\ ids <= MaxDevices /\ MaxDevices \in Nat
  BY <1>1, AccountAssumption DEF Inv1, Typed, HandlerOK
<1>3. /\ device \in [Devices -> DeviceDocs] /\ h.n \in Nat /\ h.all \in BOOLEAN
  BY <1>2 DEF Handlers, Inv1, Typed
<1>4. /\ h.pc \in LoginPcs \cup RegisterPcs => h.hand \in Handsets
      /\ h.pc \in {"updateDevice", "logOut", "dropDevice"} => h.dev \in 1..ids
  BY DEF Inv1, HandlerOK
<1>5. CASE UpdateDevice(s)
  <2>1. h.pc = "updateDevice" /\ h.dev \in 1..ids /\ h.dev \in Devices
    BY <1>2, <1>4, <1>5 DEF UpdateDevice, At, Devices
  <2> DEFINE doc == device[h.dev]
             r == IF h.all THEN h.n ELSE doc.refreshToken
             m == [doc EXCEPT !.push = TRUE, !.refreshToken = r]
  <2>2. /\ device' = IF Exists(h.dev) THEN [device EXCEPT ![h.dev] = m] ELSE device
        /\ HandOut(h.user, h.dev, h.all, h.n) /\ UNCHANGED <<ids, loggedOut>>
    BY <1>5 DEF UpdateDevice, SetDevice, history
  <2>3. doc \in DeviceDocs /\ r \in Nat /\ r \in {doc.refreshToken, h.n}
    BY <1>3, <2>1 DEF DeviceDocs
  <2> HIDE DEF r
  <2>4. /\ m \in DeviceDocs /\ m.uId = doc.uId /\ m.userDeviceId = doc.userDeviceId
        /\ m.refreshToken = r
    <3> HIDE DEF doc
    <3> QED BY <2>3 DEF DeviceDocs
  <2> HIDE DEF m
  <2>5. DevicesKept(h.n)
    <3>1. h.dev \in Nat /\ m.refreshToken \in {device[h.dev].refreshToken, h.n}
      BY <2>1, <2>3, <2>4
    <3>2. m.uId = device[h.dev].uId /\ m.userDeviceId = device[h.dev].userDeviceId
      BY <2>4
    <3> QED BY <1>3, <2>2, <2>4, <3>1, <3>2, KeptType
  <2>6. TokenWrites(s)
    BY <1>2, <2>1, <2>2 DEF HandOut, TokenWrites
  <2> QED BY <1>2, <2>1, <2>2, <2>5, <2>6 DEF DeviceWrites
<1>6. CASE CreateDevice(s) \/ RegisterDevice(s)
  <2> DEFINE m == IF h.pc = "createDevice" /\ h.all THEN h.n ELSE 0
  <2>1. /\ h.pc \in {"createDevice", "firstDevice"} /\ ids + 1 \in Devices /\ ids' = ids + 1
        /\ device' = [device EXCEPT ![ids + 1] = Device(h.user, h.hand, m)]
        /\ loggedOut' = loggedOut
    BY <1>6 DEF CreateDevice, RegisterDevice, At, NewId, history
  <2>2. HandOut(h.user, ids + 1, h.pc = "createDevice" /\ h.all, IF h.pc = "createDevice" THEN h.n ELSE 0)
    BY <1>6 DEF CreateDevice, RegisterDevice, At, NewId, HandOut
  <2>3. h.hand \in Handsets /\ m \in {0, h.n}
    BY <1>4, <2>1 DEF LoginPcs, RegisterPcs
  <2>4. DeviceMade(h.user, h.hand, h.n)
    BY <1>2, <1>3, <2>1, <2>3, MadeType
  <2>5. TokenWrites(s)
    BY <1>2, <2>1, <2>2 DEF HandOut, TokenWrites
  <2> QED BY <1>2, <2>1, <2>4, <2>5 DEF DeviceWrites, Devices
<1>7. CASE RegisterClear(s) \/ LogOut(s) \/ DropOthers(s) \/ DropDevice(s)
  <2>1. PICK gone : /\ gone = IF RegisterClear(s) THEN DevicesOf(h.user)
                              ELSE IF LogOut(s) THEN IF h.all THEN DevicesOf(h.user) ELSE {h.dev}
                              ELSE IF DropOthers(s) THEN DevicesOf(h.user) \ {h.dev}
                              ELSE {h.dev}
                    /\ device' = Without(gone) /\ loggedOut' = loggedOut \cup gone
    BY <1>7 DEF RegisterClear, LogOut, DropOthers, DropDevice
  <2>2. /\ h.pc = IF RegisterClear(s) THEN "deleteDevices" ELSE IF LogOut(s) THEN "logOut"
                  ELSE IF DropOthers(s) THEN "dropOthers" ELSE "dropDevice"
        /\ ids' = ids /\ UNCHANGED <<tokens, refreshes>>
    BY <1>7 DEF RegisterClear, LogOut, DropOthers, DropDevice, At, handed
  <2>3. gone \in SUBSET Devices /\ \A d \in gone : device[d].uId # NoUser \/ d \in 1..ids
    <3>1. h.user # NoUser
      BY <1>2, AccountAssumption
    <3>2. h.pc \in {"logOut", "dropDevice"} => h.dev \in 1..ids /\ h.dev \in Devices
      BY <1>2, <1>4 DEF Devices
    <3> QED BY <2>1, <2>2, <3>1, <3>2 DEF DevicesOf
  <2>4. DevicesGone(gone)
    BY <2>1, <2>3, WithoutType
  <2>5. TokenWrites(s)
    BY <2>2 DEF TokenWrites
  <2>6. h.pc = "deleteDevices" => gone = DevicesOf(h.user)
    BY <2>1, <2>2
  <2>7. h.pc \in {"deleteDevices", "logOut", "dropOthers", "dropDevice"}
    BY <2>2
  <2> QED BY <1>2, <2>2, <2>3, <2>4, <2>5, <2>6, <2>7 DEF DeviceWrites
<1>8. CASE SocialToken(s)
  <2>1. /\ h.pc = "socialToken" /\ tokens' = tokens \cup {<<h.user, 0>>}
        /\ UNCHANGED <<device, ids, refreshes, loggedOut>>
    BY <1>8 DEF SocialToken, At, history
  <2>2. DevicesKept(h.n)
    BY <1>3, <2>1 DEF DevicesKept
  <2>3. TokenWrites(s)
    BY <1>2, <2>1 DEF TokenWrites
  <2> QED BY <1>2, <2>1, <2>2, <2>3 DEF DeviceWrites
<1>9. CASE \/ FindDevice(s) \/ KeepOtp(s) \/ VerifyOtp(s) \/ RegisterUser(s) \/ RegisterDone(s)
           \/ SocialLookup(s) \/ SocialUser(s) \/ StoreLink(s) \/ MailLink(s) \/ StoreOtp(s)
           \/ Reset(s) \/ TurnOn(s)
           \/ NameRooms(s) \/ NameGroups(s) \/ NameBroadcasts(s) \/ ImageUsers(s) \/ ImageRooms(s)
           \/ SetPassword(s) \/ MarkDeleted(s) \/ SaveRoles(s)
  <2>1. /\ h.pc \notin {"createDevice", "firstDevice", "deleteDevices", "logOut", "dropOthers",
                        "dropDevice"}
        /\ UNCHANGED <<device, ids, tokens, refreshes, loggedOut>>
    BY <1>9 DEF FindDevice, KeepOtp, VerifyOtp, RegisterUser, RegisterDone, SocialLookup,
       SocialUser, StoreLink, MailLink, StoreOtp, Reset, TurnOn, NameRooms, NameGroups,
       NameBroadcasts, ImageUsers, ImageRooms, SetPassword, MarkDeleted, SaveRoles, At, handed,
       history
  <2>2. DevicesKept(h.n)
    BY <1>3, <2>1 DEF DevicesKept
  <2>3. TokenWrites(s)
    BY <2>1 DEF TokenWrites
  <2> QED BY <1>2, <2>1, <2>2, <2>3 DEF DeviceWrites
<1> QED BY <1>5, <1>6, <1>7, <1>8, <1>9 DEF Continue, SessionsContinue, ProfileContinue

PlaceOf(pc) == IF pc \in {"nameRooms", "imageRooms"} THEN "room_member"
               ELSE IF pc = "nameGroups" THEN "group_member"
               ELSE IF pc = "nameBroadcasts" THEN "broadcast_member" ELSE "users"

CopyWrites(s) ==
  LET h == req[s]
      place == PlaceOf(h.pc)
  IN /\ copy' \in [Users -> Copies]
     /\ \A v \in Users, q \in Places :
          /\ copy'[v][q].name = IF /\ h.pc \in {"nameRooms", "nameGroups", "nameBroadcasts"}
                                   /\ v = h.user /\ q = place
                                THEN h.word ELSE copy[v][q].name
          /\ copy'[v][q].image = IF /\ h.pc \in {"imageUsers", "imageRooms"}
                                    /\ v = h.user /\ q = place
                                 THEN h.word ELSE copy[v][q].image

LEMMA ContinueCopy ==
  ASSUME Inv1, NEW s \in Slots, Continue(s)
  PROVE  CopyWrites(s)
<1> DEFINE h == req[s]
           place == PlaceOf(h.pc)
           u == h.user
           w == h.word
<1>1. h.pc # "idle"
  BY ContinueMoves DEF Moves
<1>2. /\ copy \in [Users -> Copies] /\ u \in Users /\ place \in Places
      /\ h.pc \in NamePcs => w \in Names
  BY <1>1 DEF Inv1, Typed, HandlerOK, PlaceOf, Places
<1>3. CASE NameRooms(s) \/ NameGroups(s) \/ NameBroadcasts(s)
  <2>1. /\ h.pc \in {"nameRooms", "nameGroups", "nameBroadcasts"}
        /\ SetName(u, place, w)
    BY <1>3 DEF NameRooms, NameGroups, NameBroadcasts, At, PlaceOf
  <2>2. w \in Names
    BY <1>2, <2>1 DEF NamePcs
  <2> HIDE DEF place, u, w
  <2>3. /\ copy' \in [Users -> Copies] /\ copy'[u][place].name = w
        /\ \A v \in Users, q \in Places : /\ copy'[v][q].image = copy[v][q].image
                                          /\ <<v, q>> # <<u, place>> =>
                                               copy'[v][q].name = copy[v][q].name
    BY <1>2, <2>1, <2>2, NameFields
  <2> QED BY <2>1, <2>3 DEF CopyWrites, place, u, w
<1>4. CASE ImageUsers(s) \/ ImageRooms(s)
  <2>1. /\ h.pc \in {"imageUsers", "imageRooms"}
        /\ SetImage(u, place, w)
    BY <1>4 DEF SetImage, ImageUsers, ImageRooms, At, PlaceOf
  <2>2. w \in Names
    BY <1>2, <2>1 DEF NamePcs
  <2> HIDE DEF place, u, w
  <2>3. /\ copy' \in [Users -> Copies] /\ copy'[u][place].image = w
        /\ \A v \in Users, q \in Places : /\ copy'[v][q].name = copy[v][q].name
                                          /\ <<v, q>> # <<u, place>> =>
                                               copy'[v][q].image = copy[v][q].image
    BY <1>2, <2>1, <2>2, ImageFields
  <2> QED BY <2>1, <2>3 DEF CopyWrites, place, u, w
<1>5. CASE \/ SessionsContinue(s) \/ SetPassword(s) \/ DropOthers(s) \/ DropDevice(s)
           \/ MarkDeleted(s) \/ SaveRoles(s)
  <2>1. /\ h.pc \notin NamePcs /\ copy' = copy
    BY <1>5 DEF SessionsContinue, FindDevice, UpdateDevice, CreateDevice, KeepOtp, VerifyOtp,
       RegisterUser, RegisterClear, RegisterDevice, RegisterDone, SocialLookup, SocialUser,
       SocialToken, StoreLink, MailLink, StoreOtp, Reset, TurnOn, LogOut, SetPassword,
       DropOthers, DropDevice, MarkDeleted, SaveRoles, At, NamePcs
  <2> QED BY <1>2, <2>1 DEF CopyWrites, NamePcs
<1> QED BY <1>3, <1>4, <1>5 DEF Continue, ProfileContinue

-----------------------------------------------------------------------------

\* The codes, what was mailed, and the history of both.
CodeWrites(s) ==
  LET h == req[s]
      u == h.user
  IN /\ codes' = IF h.pc = "keepOtp" THEN codes + 1 ELSE codes
     /\ codes' \in 0..MaxCodes /\ expired' = expired
     /\ mailed' = IF h.pc = "keepOtp" THEN mailed \cup {codes + 1}
                  ELSE IF h.pc = "mailLink" THEN mailed \cup {h.code} ELSE mailed
     /\ latest' = IF h.pc = "keepOtp" THEN [latest EXCEPT ![u] = codes + 1]
                  ELSE IF h.pc = "mailLink" THEN [latest EXCEPT ![u] = h.code] ELSE latest
     /\ IF h.pc = "reset"
          THEN /\ changes' = [changes EXCEPT ![h.code] = @ + 1]
               /\ stale' = (stale \/ h.code # latest[u])
          ELSE UNCHANGED <<changes, stale>>

\* The codes of registrations, and who has proved and used one.
OtpWrites(s) ==
  LET h == req[s]
      u == h.user
  IN /\ otp' \in [Users -> Entries] /\ \A v \in Users : otp'[v].code <= codes'
     /\ proved \subseteq proved' /\ proved' \subseteq Users
     /\ \A v \in Users : otp'[v].verified => otp[v].verified \/ v \in proved'
     /\ registered' = IF h.pc = "createUser" /\ ~user[u].here THEN registered \cup {u}
                      ELSE registered

LEMMA ContinueCodes ==
  ASSUME Inv1, NEW s \in Slots, Continue(s)
  PROVE  CodeWrites(s)
<1>1. codes \in 0..MaxCodes
  BY DEF Inv1, Typed
<1>2. CASE KeepOtp(s)
  BY <1>1, <1>2 DEF CodeWrites, KeepOtp, At, NewCode, Codes
<1>3. CASE MailLink(s)
  BY <1>1, <1>3 DEF CodeWrites, MailLink, At
<1>4. CASE Reset(s)
  BY <1>1, <1>4 DEF CodeWrites, Reset, At, mail
<1>5. CASE \/ FindDevice(s) \/ UpdateDevice(s) \/ CreateDevice(s) \/ VerifyOtp(s)
           \/ RegisterUser(s) \/ RegisterClear(s) \/ RegisterDevice(s) \/ RegisterDone(s)
           \/ SocialLookup(s) \/ SocialUser(s) \/ SocialToken(s) \/ StoreLink(s) \/ StoreOtp(s)
           \/ TurnOn(s) \/ LogOut(s) \/ ProfileContinue(s)
  <2>1. /\ req[s].pc \notin {"keepOtp", "mailLink", "reset"}
        /\ UNCHANGED <<codes, mailed, expired, latest, changes, stale>>
    BY <1>5 DEF FindDevice, UpdateDevice, CreateDevice, VerifyOtp, RegisterUser, RegisterClear,
       RegisterDevice, RegisterDone, SocialLookup, SocialUser, SocialToken, StoreLink, StoreOtp,
       TurnOn, LogOut, ProfileContinue, NameRooms, NameGroups, NameBroadcasts, ImageUsers,
       ImageRooms, SetPassword, DropOthers, DropDevice, MarkDeleted, SaveRoles, At, mail, history
  <2> QED BY <1>1, <2>1 DEF CodeWrites
<1> QED BY <1>2, <1>3, <1>4, <1>5 DEF Continue, SessionsContinue

LEMMA ContinueOtp ==
  ASSUME Inv1, NEW s \in Slots, Continue(s)
  PROVE  OtpWrites(s)
<1> DEFINE h == req[s]
           u == h.user
<1>1. h.pc # "idle"
  BY ContinueMoves DEF Moves
<1>2. /\ h \in Handlers /\ u \in Users /\ h.entry \in Entries /\ h.entry.code <= codes
      /\ otp \in [Users -> Entries] /\ codes \in Nat /\ proved \subseteq Users
      /\ \A v \in Users : otp[v].code <= codes /\ otp[v].code \in Nat
  BY <1>1 DEF Inv1, Typed, Bounds, HandlerOK, Handlers, Entries
<1>3. codes' \in Nat /\ codes <= codes'
  BY <1>2, ContinueCodes DEF CodeWrites
<1>4. ASSUME NEW n \in Entries, otp' = [otp EXCEPT ![u] = n], n.code <= codes',
             n.verified => u \in proved', proved \subseteq proved', proved' \subseteq Users,
             registered' = registered, h.pc # "createUser"
      PROVE  OtpWrites(s)
  <2>1. /\ otp' \in [Users -> Entries] /\ otp'[u] = n
        /\ \A v \in Users \ {u} : otp'[v] = otp[v]
    BY <1>2, <1>4
  <2> QED BY <1>2, <1>3, <1>4, <2>1 DEF OtpWrites
<1>5. ASSUME UNCHANGED <<otp, proved>>,
             registered' = IF h.pc = "createUser" /\ ~user[u].here THEN registered \cup {u}
                           ELSE registered
      PROVE  OtpWrites(s)
  BY <1>2, <1>3, <1>5 DEF OtpWrites
<1>6. CASE KeepOtp(s)
  <2> DEFINE b == NoOtp
             n == [b EXCEPT !.code = codes + 1]
  <2>1. /\ h.pc = "keepOtp" /\ otp' = [otp EXCEPT ![u] = n] /\ codes' = codes + 1
        /\ UNCHANGED <<registered, proved>>
    BY <1>6 DEF KeepOtp, At, NewCode
  <2>2. b \in Entries /\ b.verified = FALSE
    BY IdleType
  <2> HIDE DEF b
  <2>3. n \in Entries /\ n.code = codes + 1 /\ n.verified = FALSE
    BY <1>2, <2>2 DEF Entries
  <2> HIDE DEF n
  <2>4. n.code <= codes'
    BY <1>2, <2>1, <2>3
  <2> QED BY <1>2, <1>4, <2>1, <2>3, <2>4
<1>7. CASE VerifyOtp(s)
  <2> DEFINE fits == ~h.entry.expired /\ h.entry.code \notin expired /\ h.entry.code = h.code
             e == h.entry
             n == [e EXCEPT !.expired = TRUE, !.verified = TRUE]
  <2>1. /\ h.pc = "verifyOtp" /\ registered' = registered
        /\ otp' = IF fits THEN [otp EXCEPT ![u] = n] ELSE otp
        /\ proved' = IF fits THEN proved \cup {u} ELSE proved
    BY <1>7 DEF VerifyOtp, At
  <2>2. CASE ~fits
    BY <1>5, <2>1, <2>2
  <2>3. CASE fits
    <3>1. otp' = [otp EXCEPT ![u] = n] /\ proved' = proved \cup {u}
      BY <2>1, <2>3
    <3> HIDE DEF e, fits
    <3>2. e \in Entries /\ e.code <= codes /\ e.code \in Nat
      BY <1>2 DEF Entries, e
    <3>3. n \in Entries /\ n.code = e.code
      BY <3>2 DEF Entries
    <3> HIDE DEF n
    <3>4. n.code <= codes' /\ u \in proved' /\ proved \subseteq proved' /\ proved' \subseteq Users
      BY <1>2, <1>3, <3>1, <3>2, <3>3
    <3>5. h.pc # "createUser" /\ registered' = registered
      BY <2>1
    <3> QED BY <1>4, <3>1, <3>3, <3>4, <3>5
  <2> QED BY <2>2, <2>3
<1>8. CASE RegisterDone(s)
  <2>1. /\ h.pc = "forgetOtp" /\ otp' = [otp EXCEPT ![u] = NoOtp]
        /\ UNCHANGED <<registered, proved>>
    BY <1>8 DEF RegisterDone, At, history
  <2>2. NoOtp \in Entries /\ NoOtp.code = 0 /\ NoOtp.verified = FALSE
    BY IdleType
  <2>3. NoOtp.code <= codes'
    BY <1>3, <2>2
  <2> QED BY <1>2, <1>4, <2>1, <2>2, <2>3
<1>9. CASE RegisterUser(s)
  <2>1. h.pc = "createUser" /\ UNCHANGED <<otp, proved>>
    BY <1>9 DEF RegisterUser, At
  <2>2. registered' = IF ~user[u].here THEN registered \cup {u} ELSE registered
    BY <1>9 DEF RegisterUser
  <2> QED BY <1>5, <2>1, <2>2
<1>10. CASE \/ FindDevice(s) \/ UpdateDevice(s) \/ CreateDevice(s)
            \/ RegisterClear(s) \/ RegisterDevice(s)
            \/ SocialLookup(s) \/ SocialUser(s) \/ SocialToken(s) \/ StoreLink(s) \/ MailLink(s)
            \/ StoreOtp(s) \/ Reset(s) \/ TurnOn(s) \/ LogOut(s) \/ ProfileContinue(s)
  <2>1. h.pc # "createUser" /\ UNCHANGED <<otp, proved, registered>>
    BY <1>10 DEF FindDevice, UpdateDevice, CreateDevice, RegisterClear, RegisterDevice,
       SocialLookup, SocialUser, SocialToken, StoreLink, MailLink, StoreOtp, Reset, TurnOn,
       LogOut, ProfileContinue, NameRooms, NameGroups, NameBroadcasts, ImageUsers, ImageRooms,
       SetPassword, DropOthers, DropDevice, MarkDeleted, SaveRoles, At, history
  <2> QED BY <1>5, <2>1
<1> QED BY <1>6, <1>7, <1>8, <1>9, <1>10 DEF Continue, SessionsContinue

-----------------------------------------------------------------------------
(* What a request of one operation writes *)

OnceWrites ==
  /\ UNCHANGED <<scene, req, copy, otp, codes, mailed, expired, ids, refreshes, registered,
                 proved, loggedOut, latest, changes, stale, restarts>>
  /\ begun' = begun + 1 /\ begun < scene.limit
  /\ overlapped' = (overlapped \/ ~Quiet)
  /\ user' \in [Users -> UserDocs]
  /\ \A v \in Users : /\ user'[v].here <=> user[v].here
                      /\ user'[v].resetPasswordOTP = user[v].resetPasswordOTP
  /\ DevicesKept(0)
  /\ tokens' \subseteq tokens \cup (Users \X (1..ids))

LEMMA UserOnce ==
  ASSUME Inv1, NEW u \in Users, NEW n \in UserDocs, NEW request, AtOnce(request),
         user' = [user EXCEPT ![u] = n], n.here <=> user[u].here,
         n.resetPasswordOTP = user[u].resetPasswordOTP,
         UNCHANGED <<scene, device, copy, otp, mail, handed, history>>
  PROVE  OnceWrites
<1>1. user \in [Users -> UserDocs] /\ device \in [Devices -> DeviceDocs]
  BY DEF Inv1, Typed
<1>2. /\ user' \in [Users -> UserDocs] /\ user'[u] = n
      /\ \A v \in Users \ {u} : user'[v] = user[v]
  BY <1>1, PutUser
<1>3. DevicesKept(0) /\ tokens' = tokens
  BY <1>1 DEF DevicesKept, handed
<1> QED BY <1>2, <1>3 DEF OnceWrites, AtOnce, Counted, mail, handed, history

LEMMA OnceFields ==
  ASSUME Inv1, AtOnceStep
  PROVE  OnceWrites
<1>1. /\ user \in [Users -> UserDocs] /\ device \in [Devices -> DeviceDocs]
      /\ ids \in Nat
  BY DEF Inv1, Typed
<1>2. CASE \E t \in refreshes : RefreshAccessToken(t)
  <2>1. PICK t \in refreshes : RefreshAccessToken(t)
    BY <1>2
  <2>2. t[1] \in Users /\ t[2] \in 1..ids
    BY DEF Inv1, Typed, Bounds
  <2>3. AtOnce("refresh") /\ tokens' = tokens \cup {<<t[1], t[2]>>}
        /\ UNCHANGED <<scene, user, device, copy, otp, mail, ids, refreshes, history>>
    BY <2>1 DEF RefreshAccessToken
  <2>4. DevicesKept(0) /\ tokens' \subseteq tokens \cup (Users \X (1..ids))
    BY <1>1, <2>2, <2>3 DEF DevicesKept
  <2> QED BY <1>1, <2>3, <2>4 DEF OnceWrites, AtOnce, Counted, mail, history
<1>3. CASE \E t \in tokens : TurnOffTwoFactorAuth(t[1], t[2])
  <2>1. PICK t \in tokens : TurnOffTwoFactorAuth(t[1], t[2])
    BY <1>3
  <2> DEFINE u == t[1]
             doc == user[u]
             n == [doc EXCEPT !.isTwoFactorEnabled = FALSE, !.twoFactorSecret = "none"]
  <2>2. u \in Users
    BY TokenTyped
  <2>3. /\ AtOnce("twoFactor") /\ user' = [user EXCEPT ![u] = n]
        /\ UNCHANGED <<scene, device, copy, otp, mail, handed, history>>
    BY <2>1 DEF TurnOffTwoFactorAuth
  <2>4. doc \in UserDocs
    BY <1>1, <2>2
  <2> HIDE DEF doc
  <2>5. n \in UserDocs /\ (n.here <=> doc.here) /\ n.resetPasswordOTP = doc.resetPasswordOTP
    BY <2>4 DEF UserDocs
  <2> HIDE DEF n, u
  <2>6. (n.here <=> user[u].here) /\ n.resetPasswordOTP = user[u].resetPasswordOTP
    BY <2>5 DEF doc
  <2> QED BY <2>2, <2>3, <2>5, <2>6, UserOnce
<1>4. CASE \E t \in tokens, secret \in Secrets : GenerateTwoFactorSecret(t[1], t[2], secret)
  <2>1. PICK t \in tokens, secret \in Secrets : GenerateTwoFactorSecret(t[1], t[2], secret)
    BY <1>4
  <2> DEFINE u == t[1]
             doc == user[u]
             n == [doc EXCEPT !.twoFactorSecret = secret]
  <2>2. u \in Users
    BY TokenTyped
  <2>3. /\ AtOnce("twoFactor") /\ user' = [user EXCEPT ![u] = n]
        /\ UNCHANGED <<scene, device, copy, otp, mail, handed, history>>
    BY <2>1 DEF GenerateTwoFactorSecret
  <2>4. doc \in UserDocs
    BY <1>1, <2>2
  <2> HIDE DEF doc
  <2>5. n \in UserDocs /\ (n.here <=> doc.here) /\ n.resetPasswordOTP = doc.resetPasswordOTP
    BY <2>4 DEF UserDocs
  <2> HIDE DEF n, u
  <2>6. (n.here <=> user[u].here) /\ n.resetPasswordOTP = user[u].resetPasswordOTP
    BY <2>5 DEF doc
  <2> QED BY <2>2, <2>3, <2>5, <2>6, UserOnce
<1>5. CASE \E t \in tokens, fields \in SUBSET Fields : Edit(t[1], t[2], fields)
  <2>1. PICK t \in tokens, fields \in SUBSET Fields : Edit(t[1], t[2], fields)
    BY <1>5
  <2> DEFINE u == t[1]
             doc == user[u]
             n == [doc EXCEPT !.edited = @ \cup fields]
  <2>2. u \in Users
    BY TokenTyped
  <2>3. /\ AtOnce("edit") /\ user' = [user EXCEPT ![u] = n]
        /\ UNCHANGED <<scene, device, copy, otp, mail, handed, history>>
    BY <2>1 DEF Edit
  <2>4. doc \in UserDocs
    BY <1>1, <2>2
  <2> HIDE DEF doc
  <2>5. n \in UserDocs /\ (n.here <=> doc.here) /\ n.resetPasswordOTP = doc.resetPasswordOTP
    BY <2>4 DEF UserDocs
  <2> HIDE DEF n, u
  <2>6. (n.here <=> user[u].here) /\ n.resetPasswordOTP = user[u].resetPasswordOTP
    BY <2>5 DEF doc
  <2> QED BY <2>2, <2>3, <2>5, <2>6, UserOnce
<1>6. CASE \E u \in Users, banned \in BOOLEAN : Ban(u, banned)
  <2>1. PICK u \in Users, banned \in BOOLEAN : Ban(u, banned)
    BY <1>6
  <2> DEFINE doc == user[u]
             n == [doc EXCEPT !.banTo = banned]
  <2>3. /\ AtOnce("ban") /\ user' = [user EXCEPT ![u] = n]
        /\ UNCHANGED <<scene, device, copy, otp, mail, handed, history>>
    BY <2>1 DEF Ban
  <2>4. doc \in UserDocs
    BY <1>1
  <2> HIDE DEF doc
  <2>5. n \in UserDocs /\ (n.here <=> doc.here) /\ n.resetPasswordOTP = doc.resetPasswordOTP
    BY <2>4 DEF UserDocs
  <2> HIDE DEF n
  <2>6. (n.here <=> user[u].here) /\ n.resetPasswordOTP = user[u].resetPasswordOTP
    BY <2>5 DEF doc
  <2> QED BY <2>3, <2>5, <2>6, UserOnce
<1>7. CASE \E t \in tokens : PushRoutes(t[1], t[2])
  <2>1. PICK t \in tokens, push \in BOOLEAN : UpdateFcm(t[1], t[2], push)
    BY <1>7 DEF PushRoutes
  <2> DEFINE d == t[2]
             doc == device[d]
             m == [doc EXCEPT !.push = push]
  <2>2. d \in Devices /\ d \in Nat /\ doc \in DeviceDocs
    BY <1>1, <2>1 DEF UpdateFcm, Verified, Exists, Devices
  <2>3. /\ AtOnce("push")
        /\ device' = IF Exists(d) THEN [device EXCEPT ![d] = m] ELSE device
        /\ UNCHANGED <<scene, user, copy, otp, mail, handed, history>>
    BY <2>1 DEF UpdateFcm, SetDevice
  <2> HIDE DEF doc
  <2>4. /\ m \in DeviceDocs /\ m.uId = doc.uId /\ m.userDeviceId = doc.userDeviceId
        /\ m.refreshToken = doc.refreshToken
    BY <2>2 DEF DeviceDocs
  <2> HIDE DEF m, d
  <2>5. /\ m.uId = device[d].uId /\ m.userDeviceId = device[d].userDeviceId
        /\ m.refreshToken \in {device[d].refreshToken, 0}
    BY <2>4 DEF doc
  <2>6. DevicesKept(0)
    BY <2>2, <2>3, <2>4, <2>5, KeptType
  <2> QED BY <1>1, <2>3, <2>6 DEF OnceWrites, AtOnce, Counted, mail, history, handed
<1>8. CASE \E t \in tokens : EditRoutes(t[1], t[2])
  BY <1>5, <1>8 DEF EditRoutes, UpdateMyBio, UpdateMyPhoneNumber, UpdateMyGender, UpdateMyLocation,
     UpdateMyPayoutDetails, UpdateMyPrivacy, UpdateMyWorkLocation, UpdateMyDob, Fields
<1>9. CASE BanRoutes
  BY <1>6, <1>9 DEF BanRoutes, BanUser, UnbanUser
<1> QED BY <1>2, <1>3, <1>4, <1>7, <1>8, <1>9 DEF AtOnceStep, SessionsAtOnce, ProfileAtOnce

-----------------------------------------------------------------------------
(* The types hold in every state *)

LEMMA ExistsHas ==
  ASSUME Inv1, NEW d, Exists(d)
  PROVE  d \in 1..ids
BY DEF Inv1, Bounds, Typed, Exists, Devices

LEMMA OthersOK ==
  ASSUME Inv1, NEW t \in Slots, req'[t] = req[t],
         ids' \in Nat, ids <= ids', codes' \in Nat, codes <= codes', begun' \in Nat, begun <= begun'
  PROVE  HandlerOK(t)'
<1> DEFINE h == req[t]
<1>1. /\ h \in Handlers /\ HandlerOK(t) /\ ids \in Nat /\ codes \in Nat /\ begun \in Nat
      /\ h.entry \in Entries
  <2>1. req \in [Slots -> Handlers] /\ ids \in Nat /\ codes \in Nat /\ begun \in Nat /\ HandlerOK(t)
    <3>1. begun \in 0..scene.limit /\ scene.limit \in Nat
      BY AccountAssumption DEF Inv1, Typed
    <3> QED BY <3>1 DEF Inv1, Typed
  <2> QED BY <2>1 DEF Handlers
<1>2. h.dev \in Nat /\ h.code \in Nat /\ h.entry.code \in Nat /\ h.n \in Nat
  BY <1>1 DEF Handlers, Entries
<1> HIDE DEF h
<1>3. HandlerOK(t)' <=>
        LET i == h
        IN /\ i.dev <= ids' /\ i.code <= codes' /\ i.entry.code <= codes'
           /\ i.pc # "idle" => i.user \in Users /\ i.n \in 1..begun'
           /\ i.pc \in {"createUser", "reset", "setPassword"} => i.word \in Passwords
           /\ i.pc \in NamePcs => i.word \in Names
           /\ i.pc \in LoginPcs \cup RegisterPcs => i.hand \in Handsets
           /\ i.pc \in {"updateDevice", "logOut", "dropDevice"} => i.dev \in 1..ids'
           /\ i.pc \in {"storeLink", "mailLink", "storeOtp", "reset"} => i.code \in 1..codes'
  BY DEF HandlerOK, h
<1>4. LET i == h
      IN /\ i.dev <= ids /\ i.code <= codes /\ i.entry.code <= codes
         /\ i.pc # "idle" => i.user \in Users /\ i.n \in 1..begun
         /\ i.pc \in {"createUser", "reset", "setPassword"} => i.word \in Passwords
         /\ i.pc \in NamePcs => i.word \in Names
         /\ i.pc \in LoginPcs \cup RegisterPcs => i.hand \in Handsets
         /\ i.pc \in {"updateDevice", "logOut", "dropDevice"} => i.dev \in 1..ids
         /\ i.pc \in {"storeLink", "mailLink", "storeOtp", "reset"} => i.code \in 1..codes
  BY <1>1 DEF HandlerOK, h
<1>5. h.dev <= ids' /\ h.code <= codes' /\ h.entry.code <= codes'
  BY <1>1, <1>2, <1>4
<1>6. /\ h.pc # "idle" => h.user \in Users /\ h.n \in 1..begun'
      /\ h.pc \in {"updateDevice", "logOut", "dropDevice"} => h.dev \in 1..ids'
      /\ h.pc \in {"storeLink", "mailLink", "storeOtp", "reset"} => h.code \in 1..codes'
  BY <1>1, <1>2, <1>4
<1> QED BY <1>3, <1>4, <1>5, <1>6

LEMMA IdleOK ==
  ASSUME NEW s \in Slots, req'[s] = Idle, ids' \in Nat, codes' \in Nat
  PROVE  HandlerOK(s)'
BY IdleType DEF HandlerOK, NamePcs, LoginPcs, RegisterPcs

LEMMA MovedOK ==
  ASSUME Inv1, NEW s \in Slots, Moves(s),
         ids' \in Nat, ids <= ids', codes' \in Nat, codes <= codes'
  PROVE  HandlerOK(s)'
<1> DEFINE h == req[s]
           n == req'[s]
<1>1. CASE n = Idle
  BY <1>1, IdleOK
<1>2. CASE n # Idle
  <2>1. /\ Flow(h.pc, n.pc) /\ begun' = begun
        /\ n.user = h.user /\ n.hand = h.hand /\ n.code = h.code /\ n.word = h.word
        /\ n.entry = h.entry /\ n.n = h.n
    BY <1>2 DEF Moves
  <2>2. IF n.pc = "updateDevice" THEN n.dev \in DevicesOf(h.user) ELSE n.dev = h.dev
    BY <1>2 DEF Moves
  <2>3. /\ h \in Handlers /\ h.entry \in Entries /\ HandlerOK(s) /\ ids \in Nat /\ codes \in Nat
        /\ h.dev \in Nat /\ h.code \in Nat
    BY DEF Inv1, Typed, Handlers
  <2>4. h.entry.code \in Nat
    BY <2>3 DEF Entries
  <2>5. h.user \in Users /\ h.n \in 1..begun /\ h.dev <= ids /\ h.code <= codes /\ h.entry.code <= codes
    BY <2>1, <2>3 DEF HandlerOK, Flow
  <2>6. n.dev \in 0..ids /\ (n.pc = "updateDevice" => n.dev \in 1..ids)
    <3>1. CASE n.pc = "updateDevice"
      <4>1. Exists(n.dev)
        BY <2>2, <2>5, <3>1, AccountAssumption DEF DevicesOf, Exists
      <4> QED BY <2>3, <3>1, <4>1, ExistsHas
    <3>2. CASE n.pc # "updateDevice"
      BY <2>2, <2>3, <2>5, <3>2
    <3> QED BY <3>1, <3>2
  <2>7. n.pc \notin {"createUser", "reset", "setPassword", "logOut", "dropDevice", "storeLink", "storeOtp"}
    BY <2>1 DEF Flow
  <2>8. n.pc \in NamePcs => n.word \in Names
    BY <2>1, <2>3 DEF Flow, HandlerOK, NamePcs
  <2>9. n.pc \in LoginPcs \cup RegisterPcs => n.hand \in Handsets
    BY <2>1, <2>3 DEF Flow, HandlerOK, LoginPcs, RegisterPcs
  <2>10. n.pc = "mailLink" => n.code \in 1..codes
    BY <2>1, <2>3 DEF Flow, HandlerOK
  <2>11. n.dev <= ids' /\ n.code <= codes' /\ n.entry.code <= codes'
    BY <2>1, <2>3, <2>4, <2>5, <2>6
  <2>12. /\ n.pc = "updateDevice" => n.dev \in 1..ids'
         /\ n.pc = "mailLink" => n.code \in 1..codes'
    BY <2>3, <2>6, <2>10
  <2> HIDE DEF h
  <2>13. n.user \in Users /\ n.n \in 1..begun'
    BY <2>1, <2>5
  <2> QED BY <2>7, <2>8, <2>9, <2>11, <2>12, <2>13 DEF HandlerOK
<1> QED BY <1>1, <1>2

LEMMA BegunOK ==
  ASSUME Inv1, NEW s \in Slots, Begins(s), Reads(s), Writes(s)
  PROVE  HandlerOK(s)' /\ ids' = ids /\ codes' \in 0..MaxCodes /\ codes <= codes'
<1> DEFINE n == req'[s]
<1>1. ids' = ids /\ begun' = begun + 1 /\ begun \in Nat /\ n.n = begun + 1 /\ ids \in Nat /\ codes \in Nat
      /\ codes <= MaxCodes /\ MaxCodes \in Nat
  <2>1. begun \in 0..scene.limit /\ scene.limit \in Nat
    BY AccountAssumption DEF Inv1, Typed
  <2> QED BY <2>1, AccountAssumption DEF Begins, Inv1, Typed
<1>2. n \in Handlers
  BY DEF Begins
<1>3. /\ codes' \in 0..MaxCodes /\ codes <= codes'
      /\ n.pc \in {"storeLink", "storeOtp"} => codes' = codes + 1 /\ n.code = codes + 1
  BY <1>1 DEF Writes, Reads, Codes
<1>4. n.dev \in 0..ids /\ (n.pc \in {"logOut", "dropDevice"} => n.dev \in 1..ids)
  BY <1>1, ExistsHas DEF Reads
<1>5. /\ n.code \in 0..codes'
      /\ n.pc \in {"storeLink", "storeOtp", "reset"} => n.code \in 1..codes'
  <2>1. CASE n.pc \in {"storeLink", "storeOtp"}
    BY <1>1, <1>3, <2>1
  <2>2. CASE n.pc \notin {"storeLink", "storeOtp"}
    <3>1. n.code \in mailed \cup {0} /\ mailed \subseteq 1..codes /\ (n.pc = "reset" => n.code \in mailed)
      BY <2>2 DEF Reads, Inv1, Bounds
    <3>2. codes \in Nat /\ codes' \in Nat /\ codes <= codes'
      BY <1>1, <1>3, AccountAssumption
    <3> DEFINE c == n.code
    <3> HIDE DEF c
    <3>3. c \in mailed \cup {0} => c \in 0..codes'
      BY <3>1, <3>2
    <3>4. c \in mailed => c \in 1..codes'
      BY <3>1, <3>2
    <3> USE DEF c
    <3> QED BY <2>2, <3>1, <3>3, <3>4
  <2> QED BY <2>1, <2>2
<1>6. n.entry.code <= codes'
  <2>1. otp[n.user] \in Entries /\ otp[n.user].code <= codes /\ NoOtp.code = 0
    BY IdleType DEF Reads, Inv1, Typed, Bounds
  <2>2. n.entry = otp[n.user] \/ n.entry = NoOtp
    BY DEF Reads
  <2>3. otp[n.user].code \in Nat
    BY <2>1 DEF Entries
  <2> QED BY <1>1, <1>3, <2>1, <2>2, <2>3
<1>7. n.pc \in FirstPcs /\ n.user \in Users
  BY DEF Reads
<1>8. /\ n.pc \in {"createUser", "reset", "setPassword"} => n.word \in Passwords
      /\ n.pc \in NamePcs => n.word \in Names
      /\ n.pc \in LoginPcs \cup RegisterPcs => n.hand \in Handsets
  BY DEF Reads, FirstPcs, LoginPcs, RegisterPcs
<1>9. n.n \in 1..begun' /\ n.dev <= ids' /\ n.code <= codes'
  BY <1>1, <1>3, <1>4, <1>5
<1>10. HandlerOK(s)'
  BY <1>1, <1>4, <1>5, <1>6, <1>7, <1>8, <1>9 DEF HandlerOK, FirstPcs
<1> QED BY <1>1, <1>3, <1>10

\* The facts about a handler in progress that the steps below need.
LEMMA Working ==
  ASSUME Inv1, NEW s \in Slots, req[s].pc # "idle"
  PROVE  LET h == req[s]
         IN /\ h \in Handlers /\ h.user \in Users /\ h.user # NoUser /\ HandlerOK(s)
            /\ h.n \in 1..begun /\ h.code \in 0..codes /\ codes \in 0..MaxCodes
            /\ ids \in 0..MaxDevices /\ begun \in Nat /\ MaxCodes \in Nat /\ MaxDevices \in Nat
<1>1. begun \in Nat
  <2>1. begun \in 0..scene.limit /\ scene.limit \in Nat
    BY AccountAssumption DEF Inv1, Typed
  <2> QED BY <2>1
<1>2. req[s] \in Handlers /\ HandlerOK(s) /\ codes \in 0..MaxCodes /\ ids \in 0..MaxDevices
  BY DEF Inv1, Typed
<1>3. req[s].code \in Nat
  BY <1>2 DEF Handlers
<1>4. req[s].code \in 0..codes /\ req[s].user \in Users /\ req[s].n \in 1..begun
  BY <1>2, <1>3 DEF HandlerOK
<1> QED BY <1>1, <1>2, <1>4, AccountAssumption

LEMMA ContinueTyped ==
  ASSUME Inv1, NEW s \in Slots, Continue(s)
  PROVE  Typed'
<1> DEFINE h == req[s]
<1>1. Moves(s) /\ UserWrites(s) /\ DeviceWrites(s) /\ TokenWrites(s) /\ ids' \in ids..MaxDevices
      /\ CopyWrites(s) /\ CodeWrites(s) /\ OtpWrites(s)
  BY ContinueMoves, ContinueUser, ContinueDevice, ContinueCopy, ContinueCodes, ContinueOtp
<1>2. /\ h \in Handlers /\ h.user \in Users /\ h.n \in 1..begun /\ h.code \in 0..codes
      /\ codes \in 0..MaxCodes /\ ids \in 0..MaxDevices /\ begun \in Nat /\ MaxCodes \in Nat
      /\ MaxDevices \in Nat /\ HandlerOK(s)
  BY <1>1, Working DEF Moves
<1>3. /\ scene' \in Scenes /\ req' \in [Slots -> Handlers]
      /\ begun' \in 0..scene'.limit /\ overlapped' \in BOOLEAN /\ restarts' \in 0..scene'.restarts
  BY <1>1 DEF Moves, Inv1, Typed
<1>4. user' \in [Users -> UserDocs] /\ copy' \in [Users -> Copies] /\ otp' \in [Users -> Entries]
  BY <1>1 DEF UserWrites, CopyWrites, OtpWrites
<1>5. device' \in [Devices -> DeviceDocs]
  BY <1>1 DEF DeviceWrites, DeviceMade, DevicesGone, DevicesKept
<1>6. codes' \in 0..MaxCodes /\ ids' \in 0..MaxDevices
  BY <1>1, <1>2 DEF CodeWrites
<1>7. tokens' \subseteq Users \X Nat
  <2>1. tokens \subseteq Users \X Nat /\ tokens' \subseteq tokens \cup {<<h.user, d>> : d \in 0..ids'}
    BY <1>1 DEF TokenWrites, Inv1, Typed
  <2> QED BY <1>2, <1>6, <2>1
<1>8. refreshes' \subseteq Users \X Nat \X Nat
  <2>1. /\ refreshes \subseteq Users \X Nat \X Nat
        /\ refreshes' \subseteq refreshes \cup {<<h.user, d, h.n>> : d \in 1..ids'}
    BY <1>1 DEF TokenWrites, Inv1, Typed
  <2> QED BY <1>2, <1>6, <2>1
<1>9. registered' \subseteq Users /\ proved' \subseteq Users
  BY <1>1, <1>2 DEF OtpWrites, Inv1, Typed
<1>10. latest' \in [Users -> Nat]
  BY <1>1, <1>2 DEF CodeWrites, Inv1, Typed
<1>11. changes' \in [Codes -> Nat] /\ stale' \in BOOLEAN
  <2>1. CASE h.pc = "reset"
    <3>1. h.code \in Codes
      BY <1>2, <2>1 DEF HandlerOK, Codes
    <3>2. changes \in [Codes -> Nat] /\ changes' = [changes EXCEPT ![h.code] = @ + 1]
      BY <1>1, <2>1 DEF CodeWrites, Inv1, Typed
    <3>3. changes' \in [Codes -> Nat]
      <4> DEFINE c == h.code
      <4> HIDE DEF c
      <4>1. c \in Codes /\ changes' = [changes EXCEPT ![c] = @ + 1] /\ changes[c] + 1 \in Nat
        BY <3>1, <3>2 DEF c
      <4> QED BY <3>2, <4>1
    <3>4. stale' \in BOOLEAN
      BY <1>1, <2>1 DEF CodeWrites
    <3> QED BY <3>3, <3>4
  <2>2. CASE h.pc # "reset"
    BY <1>1, <2>2 DEF CodeWrites, Inv1, Typed
  <2> QED BY <2>1, <2>2
<1> QED BY <1>3, <1>4, <1>5, <1>6, <1>7, <1>8, <1>9, <1>10, <1>11 DEF Typed

LEMMA ContinueBounds ==
  ASSUME Inv1, NEW s \in Slots, Continue(s)
  PROVE  Bounds'
<1> DEFINE h == req[s]
<1>1. Moves(s) /\ UserWrites(s) /\ DeviceWrites(s) /\ TokenWrites(s) /\ ids' \in ids..MaxDevices
      /\ CodeWrites(s) /\ OtpWrites(s)
  BY ContinueMoves, ContinueUser, ContinueDevice, ContinueCodes, ContinueOtp
<1>2. /\ h \in Handlers /\ h.user \in Users /\ h.n \in 1..begun /\ h.code \in 0..codes
      /\ codes \in 0..MaxCodes /\ ids \in 0..MaxDevices /\ begun \in Nat /\ MaxCodes \in Nat
      /\ MaxDevices \in Nat /\ HandlerOK(s) /\ h.user # NoUser
  BY <1>1, Working DEF Moves
<1>3. codes' \in Nat /\ codes <= codes' /\ begun' = begun /\ ids' \in Nat /\ ids <= ids'
  BY <1>1, <1>2 DEF CodeWrites, Moves
<1>4. ASSUME NEW u \in Users
      PROVE  user'[u].resetPasswordOTP <= codes' /\ otp'[u].code <= codes' /\ latest'[u] <= codes'
  <2>1. /\ user[u].resetPasswordOTP <= codes /\ user[u].resetPasswordOTP \in Nat
        /\ latest[u] <= codes /\ latest \in [Users -> Nat]
    BY DEF Inv1, Typed, Bounds, UserDocs
  <2>2. user'[u].resetPasswordOTP \in {user[u].resetPasswordOTP, h.code, 0}
    BY <1>1 DEF UserWrites
  <2>3. otp'[u].code <= codes'
    BY <1>1 DEF OtpWrites
  <2>4. latest'[u] \in {latest[u], codes + 1, h.code} /\ (latest'[u] = codes + 1 => codes' = codes + 1 \/ latest[u] = codes + 1 \/ h.code = codes + 1)
    BY <1>1, <2>1 DEF CodeWrites
  <2>5. latest'[u] <= codes'
    BY <1>2, <1>3, <2>1, <2>4
  <2>6. user'[u].resetPasswordOTP <= codes'
    BY <1>2, <1>3, <2>1, <2>2
  <2> QED BY <2>3, <2>5, <2>6
<1>5. ASSUME NEW d \in Devices
      PROVE  device'[d].refreshToken <= begun' /\ (device'[d].uId # NoUser => d <= ids')
  <2>1. /\ device[d].refreshToken <= begun /\ (device[d].uId # NoUser => d <= ids) /\ d \in Nat
    BY DEF Inv1, Typed, Bounds, Devices
  <2>2. NoDevice.uId = NoUser /\ NoDevice.refreshToken = 0
    BY NoDeviceType
  <2>3. /\ device'[d].refreshToken \in {device[d].refreshToken, h.n, 0}
        /\ device'[d].uId # NoUser => device[d].uId # NoUser \/ (d = ids + 1 /\ ids' = ids + 1)
    BY <1>1, <2>2 DEF DeviceWrites, DeviceMade, DevicesGone, DevicesKept
  <2> QED BY <1>2, <1>3, <2>1, <2>3
<1>6. mailed' \subseteq 1..codes' /\ expired' \subseteq 1..codes'
  <2>1. mailed \subseteq 1..codes /\ expired' \subseteq 1..codes
    BY <1>1 DEF CodeWrites, Inv1, Bounds
  <2>2. h.pc = "mailLink" => h.code \in 1..codes
    BY <1>2 DEF HandlerOK
  <2>3. mailed' \subseteq mailed \cup (IF h.pc = "keepOtp" THEN {codes'} ELSE IF h.pc = "mailLink" THEN {h.code} ELSE {})
        /\ (h.pc = "keepOtp" => codes' = codes + 1)
    BY <1>1 DEF CodeWrites
  <2> QED BY <1>2, <1>3, <2>1, <2>2, <2>3
<1>7. loggedOut' \subseteq 1..ids'
  <2>1. loggedOut' \subseteq 1..ids
    BY <1>1 DEF DeviceWrites, DevicesGone, Inv1, Bounds
  <2> QED BY <1>2, <1>3, <2>1
<1>8. \A t \in tokens' : t[2] <= ids'
  <2>1. \A t \in tokens : t[2] <= ids /\ t[2] \in Nat
    BY DEF Inv1, Typed, Bounds
  <2>2. \A t \in tokens' : t \in tokens \/ \E d \in 0..ids' : t = <<h.user, d>>
    BY <1>1 DEF TokenWrites
  <2> QED BY <1>2, <1>3, <2>1, <2>2
<1>9. \A t \in refreshes' : t[2] \in 1..ids' /\ t[3] \in 1..begun'
  <2>1. \A t \in refreshes : t[2] \in 1..ids /\ t[3] \in 1..begun
    BY DEF Inv1, Bounds
  <2>2. \A t \in refreshes' : t \in refreshes \/ \E d \in 1..ids' : t = <<h.user, d, h.n>>
    BY <1>1 DEF TokenWrites
  <2> QED BY <1>2, <1>3, <2>1, <2>2
<1> QED BY <1>4, <1>5, <1>6, <1>7, <1>8, <1>9 DEF Bounds

LEMMA StartInv1 ==
  ASSUME Inv1, NEW s \in Slots, Start(s)
  PROVE  Inv1'
<1> DEFINE n == req'[s]
           u == n.user
<1>1. Begins(s) /\ Reads(s) /\ Writes(s)
  BY StartMoves
<1>2. HandlerOK(s)' /\ ids' = ids /\ codes' \in 0..MaxCodes /\ codes <= codes'
  BY <1>1, BegunOK
<1>3. begun' = begun + 1 /\ begun' \in 0..scene.limit /\ begun \in Nat /\ scene' = scene
  <2>1. begun \in 0..scene.limit /\ scene.limit \in Nat
    BY AccountAssumption DEF Inv1, Typed
  <2> QED BY <1>1, <2>1 DEF Begins
<1>4. /\ codes \in Nat /\ codes' \in Nat /\ ids \in Nat /\ u \in Users
      /\ n.pc \in {"storeLink", "storeOtp"} => codes' = codes + 1
  BY <1>1, <1>2, AccountAssumption DEF Inv1, Typed, Reads, Writes
<1>5. copy' \in [Users -> Copies]
  <2>1. CASE n.pc = "nameRooms"
    <3>1. SetName(u, "users", n.word) /\ n.word \in Names /\ "users" \in Places
      BY <1>1, <2>1 DEF Reads, Writes, NamePcs, Places
    <3>2. copy \in [Users -> Copies]
      BY DEF Inv1, Typed
    <3> DEFINE w == n.word
               v == u
    <3> HIDE DEF v, w
    <3>3. SetName(v, "users", w) /\ w \in Names /\ v \in Users
      BY <1>4, <3>1 DEF v, w
    <3> QED BY <3>1, <3>2, <3>3, NameFields
  <2>2. CASE n.pc # "nameRooms"
    BY <1>1, <2>2 DEF Writes, Inv1, Typed
  <2> QED BY <2>1, <2>2
<1>6. latest' \in [Users -> Nat] /\ \A v \in Users : latest'[v] <= codes'
  <2>1. latest \in [Users -> Nat] /\ \A v \in Users : latest[v] <= codes
    BY DEF Inv1, Typed, Bounds
  <2>2. \/ latest' = latest
        \/ latest' = [latest EXCEPT ![u] = codes + 1] /\ codes' = codes + 1
    BY <1>1 DEF Writes
  <2> QED BY <1>2, <1>4, <2>1, <2>2
<1>7. mailed' \subseteq 1..codes'
  <2>1. mailed \subseteq 1..codes
    BY DEF Inv1, Bounds
  <2>2. \/ mailed' = mailed
        \/ mailed' = mailed \cup {codes + 1} /\ codes' = codes + 1
    BY <1>1 DEF Writes
  <2>3. \A c \in mailed : c \in 1..codes'
    BY <1>2, <1>4, <2>1
  <2>4. codes' = codes + 1 => codes + 1 \in 1..codes'
    BY <1>4
  <2> QED BY <2>2, <2>3, <2>4
<1>8. Typed'
  BY <1>1, <1>2, <1>3, <1>5, <1>6 DEF Begins, Inv1, Typed
<1>9. Bounds'
  <2>1. /\ UNCHANGED <<user, device, otp, expired, ids, tokens, refreshes, loggedOut>>
    BY <1>1 DEF Begins
  <2>2. ASSUME NEW v \in Users
        PROVE  user'[v].resetPasswordOTP <= codes' /\ otp'[v].code <= codes'
    <3>1. /\ user[v].resetPasswordOTP <= codes /\ user[v].resetPasswordOTP \in Nat
          /\ otp[v].code <= codes /\ otp[v].code \in Nat
      BY DEF Inv1, Typed, Bounds, UserDocs, Entries
    <3> QED BY <1>2, <1>4, <2>1, <3>1
  <2>3. ASSUME NEW d \in Devices
        PROVE  device'[d].refreshToken <= begun' /\ (device'[d].uId # NoUser => d <= ids')
    <3>1. device[d].refreshToken <= begun /\ (device[d].uId # NoUser => d <= ids)
      BY DEF Inv1, Bounds
    <3>2. device[d].refreshToken \in Nat
      BY DEF Inv1, Typed, DeviceDocs
    <3> QED BY <1>3, <2>1, <3>1, <3>2
  <2>4. expired' \subseteq 1..codes' /\ loggedOut' \subseteq 1..ids' /\ \A t \in tokens' : t[2] <= ids'
    <3>1. expired \subseteq 1..codes /\ loggedOut \subseteq 1..ids /\ \A t \in tokens : t[2] <= ids
      BY DEF Inv1, Bounds
    <3> QED BY <1>2, <1>4, <2>1, <3>1
  <2>5. \A t \in refreshes' : t[2] \in 1..ids' /\ t[3] \in 1..begun'
    <3>1. \A t \in refreshes : t[2] \in 1..ids /\ t[3] \in 1..begun
      BY DEF Inv1, Bounds
    <3> QED BY <1>3, <2>1, <3>1
  <2> QED BY <1>6, <1>7, <2>2, <2>3, <2>4, <2>5 DEF Bounds
<1>10. \A t \in Slots \ {s} : HandlerOK(t)'
  BY <1>1, <1>2, <1>3, <1>4, OthersOK DEF Begins
<1> QED BY <1>2, <1>8, <1>9, <1>10 DEF Inv1

LEMMA ContinueInv1 ==
  ASSUME Inv1, NEW s \in Slots, Continue(s)
  PROVE  Inv1'
<1>1. Moves(s) /\ ids' \in ids..MaxDevices /\ CodeWrites(s)
  BY ContinueMoves, ContinueDevice, ContinueCodes
<1>2. ids \in Nat /\ ids' \in Nat /\ codes \in Nat /\ codes' \in Nat /\ begun \in Nat
      /\ ids <= ids' /\ codes <= codes' /\ begun' = begun
  <2>1. codes \in 0..MaxCodes /\ ids \in 0..MaxDevices /\ begun \in Nat /\ MaxCodes \in Nat /\ MaxDevices \in Nat
    BY <1>1, Working DEF Moves
  <2> QED BY <1>1, <2>1 DEF Moves, CodeWrites
<1>3. HandlerOK(s)' /\ \A t \in Slots \ {s} : HandlerOK(t)'
  <2>1. \A t \in Slots \ {s} : req'[t] = req[t]
    BY <1>1 DEF Moves
  <2> QED BY <1>1, <1>2, <2>1, MovedOK, OthersOK
<1> QED BY <1>3, ContinueTyped, ContinueBounds DEF Inv1

LEMMA AtOnceInv1 ==
  ASSUME Inv1, AtOnceStep
  PROVE  Inv1'
<1>1. OnceWrites
  BY OnceFields
<1>2. begun' = begun + 1 /\ begun' \in 0..scene.limit /\ begun \in Nat /\ scene' = scene
      /\ codes \in Nat /\ ids \in Nat /\ codes' = codes /\ ids' = ids
  <2>1. begun \in 0..scene.limit /\ scene.limit \in Nat
    BY AccountAssumption DEF Inv1, Typed
  <2> QED BY <1>1, <2>1, AccountAssumption DEF OnceWrites, Inv1, Typed
<1>3. Typed'
  <2>1. tokens' \subseteq Users \X Nat
    BY <1>1, <1>2 DEF OnceWrites, Inv1, Typed
  <2> QED BY <1>1, <1>2, <2>1 DEF OnceWrites, DevicesKept, Inv1, Typed
<1>4. Bounds'
  <2>1. UNCHANGED <<otp, codes, mailed, expired, ids, refreshes, loggedOut, latest>>
    BY <1>1 DEF OnceWrites
  <2>2. ASSUME NEW d \in Devices
        PROVE  device'[d].refreshToken <= begun' /\ (device'[d].uId # NoUser => d <= ids')
    <3>1. device[d].refreshToken <= begun /\ (device[d].uId # NoUser => d <= ids)
      BY DEF Inv1, Bounds
    <3>2. device[d].refreshToken \in Nat
      BY DEF Inv1, Typed, DeviceDocs
    <3>3. device'[d].refreshToken \in {device[d].refreshToken, 0} /\ device'[d].uId = device[d].uId
      BY <1>1 DEF OnceWrites, DevicesKept
    <3> QED BY <1>2, <3>1, <3>2, <3>3
  <2>3. \A t \in tokens' : t[2] <= ids'
    <3>1. \A t \in tokens : t[2] <= ids
      BY DEF Inv1, Bounds
    <3>2. \A t \in tokens' : t \in tokens \/ t[2] \in 1..ids
      BY <1>1 DEF OnceWrites
    <3> QED BY <1>2, <3>1, <3>2
  <2>4. \A t \in refreshes' : t[2] \in 1..ids' /\ t[3] \in 1..begun'
    <3>1. \A t \in refreshes : t[2] \in 1..ids /\ t[3] \in 1..begun
      BY DEF Inv1, Bounds
    <3> QED BY <1>2, <2>1, <3>1
  <2>5. \A v \in Users : user'[v].resetPasswordOTP = user[v].resetPasswordOTP
    BY <1>1 DEF OnceWrites
  <2> QED BY <2>1, <2>2, <2>3, <2>4, <2>5 DEF Inv1, Bounds
<1>5. \A t \in Slots : HandlerOK(t)'
  <2>1. \A t \in Slots : req'[t] = req[t]
    BY <1>1 DEF OnceWrites
  <2> QED BY <1>2, <2>1, OthersOK
<1> QED BY <1>3, <1>4, <1>5 DEF Inv1

LEMMA ExpireInv1 ==
  ASSUME Inv1, NEW c \in Codes, Expire(c)
  PROVE  Inv1'
<1>1. /\ UNCHANGED <<scene, user, device, copy, otp, codes, mailed, ids, tokens, refreshes, req>>
      /\ UNCHANGED <<registered, proved, loggedOut, latest, changes, stale, begun, overlapped>>
      /\ restarts' = restarts /\ expired' = expired \cup {c} /\ c \in 1..codes
  BY DEF Expire, handed, history, process
<1>2. Typed'
  BY <1>1 DEF Inv1, Typed
<1>3. Bounds'
  BY <1>1 DEF Inv1, Bounds
<1>4. \A t \in Slots : HandlerOK(t)'
  BY <1>1 DEF Inv1, HandlerOK
<1> QED BY <1>2, <1>3, <1>4 DEF Inv1

LEMMA RestartInv1 ==
  ASSUME Inv1, Restart
  PROVE  Inv1'
<1>1. /\ UNCHANGED <<scene, user, device, copy, codes, mailed, expired, ids, tokens, refreshes>>
      /\ UNCHANGED <<registered, proved, loggedOut, latest, changes, stale, begun, overlapped>>
      /\ restarts' = restarts + 1 /\ restarts < scene.restarts
      /\ otp' = [u \in Users |-> NoOtp] /\ req' = [s \in Slots |-> Idle]
  BY DEF Restart, handed, history, mail
<1>2. NoOtp \in Entries /\ NoOtp.code = 0 /\ Idle \in Handlers
  BY IdleType
<1>3. restarts' \in 0..scene.restarts
  <2>1. restarts \in 0..scene.restarts /\ scene.restarts \in Nat
    BY AccountAssumption DEF Inv1, Typed
  <2> QED BY <1>1, <2>1
<1>4. Typed'
  BY <1>1, <1>2, <1>3 DEF Inv1, Typed
<1>5. Bounds'
  <2>1. codes \in Nat
    BY DEF Inv1, Typed
  <2> QED BY <1>1, <1>2, <2>1 DEF Inv1, Bounds
<1>6. \A t \in Slots : HandlerOK(t)'
  <2>1. ids' \in Nat /\ codes' \in Nat /\ \A t \in Slots : req'[t] = Idle
    BY <1>1 DEF Inv1, Typed
  <2> QED BY <2>1, IdleOK
<1> QED BY <1>4, <1>5, <1>6 DEF Inv1

\* Who has a device to begin with: one each, some handset's.
LEMMA InitDevices ==
  ASSUME Init
  PROVE  /\ ids \in 0..MaxDevices /\ ids = Cardinality(scene.members)
         /\ device \in [Devices -> DeviceDocs] /\ tokens \subseteq Users \X (1..ids)
         /\ \A d \in Devices : device[d].refreshToken = 0 /\ (device[d].uId # NoUser => d <= ids)
         /\ \A d \in Devices : device[d].uId # NoUser => device[d].uId \in scene.members
         /\ \A d, e \in Devices : /\ device[d].uId # NoUser /\ device[e].uId = device[d].uId
                                  => d = e
<1> DEFINE firsts == 1..Cardinality(scene.members)
           hand == CHOOSE h \in Handsets : TRUE
           made(of) == [d \in Devices |-> IF d \in firsts THEN Device(of[d], hand, 0) ELSE NoDevice]
<1>1. /\ scene.members \in SUBSET Users /\ IsFiniteSet(scene.members)
      /\ Cardinality(scene.members) \in 0..MaxDevices
  <2>1. /\ scene.members \in SUBSET Users /\ IsFiniteSet(scene.members)
        /\ Cardinality(scene.members) <= MaxDevices /\ MaxDevices \in Nat
    BY AccountAssumption DEF Init
  <2> QED BY <2>1, FS_CardinalityType
<1>2. hand \in Handsets
  BY AccountAssumption
<1>3. ids = Cardinality(scene.members)
  BY DEF Init
<1>4. PICK of \in [firsts -> scene.members] :
        /\ \A u \in scene.members : \E d \in firsts : of[d] = u
        /\ device = made(of) /\ tokens = {<<of[d], d>> : d \in firsts}
  BY DEF Init
<1> HIDE DEF hand
<1>5. ASSUME NEW d \in firsts
      PROVE  /\ Device(of[d], hand, 0) \in DeviceDocs /\ Device(of[d], hand, 0).uId = of[d]
             /\ Device(of[d], hand, 0).refreshToken = 0 /\ of[d] \in Users
  BY <1>1, <1>2, <1>4, DeviceType
<1>6. NoDevice \in DeviceDocs /\ NoDevice.uId = NoUser /\ NoDevice.refreshToken = 0
  BY NoDeviceType
<1>7. device \in [Devices -> DeviceDocs]
  BY <1>4, <1>5, <1>6
<1>8. ASSUME NEW d \in Devices
      PROVE  /\ device[d].refreshToken = 0
             /\ device[d].uId # NoUser => d \in firsts /\ device[d].uId = of[d]
  <2>1. device[d] = IF d \in firsts THEN Device(of[d], hand, 0) ELSE NoDevice
    BY <1>4
  <2> QED BY <1>5, <1>6, <2>1
<1>9. \A d, e \in firsts : of[d] = of[e] => d = e
  <2>1. of \in Surjection(firsts, scene.members)
    BY <1>4 DEF Surjection
  <2>2. IsFiniteSet(firsts) /\ Cardinality(firsts) = Cardinality(scene.members)
    <3>1. Cardinality(scene.members) \in Nat
      BY <1>1
    <3> QED BY <3>1, FS_Interval
  <2>3. of \in Injection(firsts, scene.members)
    BY <1>1, <2>1, <2>2, FS_SurjSameCardinalityImpliesInj
  <2> QED BY <2>3 DEF Injection, IsInjective
<1>10. tokens \subseteq Users \X firsts
  BY <1>1, <1>4, <1>5
<1>11. \A d \in firsts : of[d] \in scene.members /\ d \in Nat /\ d <= ids
  BY <1>1, <1>3, <1>4
<1> QED BY <1>1, <1>3, <1>7, <1>8, <1>9, <1>10, <1>11

\* Who has an account to begin with, and what everything else starts as.
LEMMA InitFields ==
  ASSUME Init
  PROVE  /\ scene \in Scenes /\ user \in [Users -> UserDocs]
         /\ \A u \in Users : /\ user[u].here <=> u \in scene.members
                             /\ user[u].resetPasswordOTP = 0
         /\ copy \in [Users -> Copies]
         /\ \A u \in Users, p \in Places : copy[u][p].name = "old" /\ copy[u][p].image = "old"
         /\ otp = [u \in Users |-> NoOtp] /\ codes = 0 /\ mailed = {} /\ expired = {}
         /\ refreshes = {} /\ req = [s \in Slots |-> Idle]
         /\ registered = {} /\ proved = {} /\ loggedOut = {} /\ stale = FALSE
         /\ latest = [u \in Users |-> 0] /\ changes = [c \in Codes |-> 0]
         /\ begun = 0 /\ overlapped = FALSE /\ restarts = 0
<1> DEFINE roles == IF "adminOtp" \in scene.menu THEN {"admin"} ELSE {}
           b == NewAccount("old")
           n == [b EXCEPT !.roles = roles]
<1>1. b \in UserDocs /\ b.here /\ b.resetPasswordOTP = 0
  BY AccountDoc DEF Passwords
<1>2. roles \in SUBSET UserRoles
  BY DEF UserRoles
<1>3. NoAccount \in UserDocs /\ ~NoAccount.here /\ NoAccount.resetPasswordOTP = 0
  BY DEF NoAccount, UserDocs, Passwords
<1>4. user = [u \in Users |-> IF u \in scene.members THEN n ELSE NoAccount]
  BY DEF Init
<1> HIDE DEF b, roles
<1>5. n \in UserDocs /\ n.here /\ n.resetPasswordOTP = 0
  BY <1>1, <1>2 DEF UserDocs
<1> HIDE DEF n
<1>6. /\ user \in [Users -> UserDocs]
      /\ \A u \in Users : /\ user[u].here <=> u \in scene.members
                          /\ user[u].resetPasswordOTP = 0
  BY <1>3, <1>4, <1>5
<1>7. /\ copy \in [Users -> Copies]
      /\ \A u \in Users, p \in Places : copy[u][p].name = "old" /\ copy[u][p].image = "old"
  <2>1. copy = [u \in Users |-> [p \in Places |-> [name |-> "old", image |-> "old"]]]
    BY DEF Init
  <2> QED BY <2>1 DEF Copies, Names
<1> QED BY <1>6, <1>7 DEF Init

LEMMA InitInv1 ==
  ASSUME Init
  PROVE  Inv1
<1>1. /\ NoOtp \in Entries /\ NoOtp.code = 0 /\ Idle \in Handlers
      /\ scene \in [members : SUBSET Users, menu : SUBSET Requests, limit : Nat, restarts : Nat]
      /\ MaxCodes \in Nat /\ MaxDevices \in Nat
  BY IdleType, InitFields, AccountAssumption
<1>2. Typed
  <2>1. device \in [Devices -> DeviceDocs] /\ ids \in 0..MaxDevices /\ tokens \subseteq Users \X Nat
    BY InitDevices
  <2> QED BY <1>1, <2>1, InitFields DEF Typed
<1>3. Bounds
  <2>1. \A t \in tokens : t[2] <= ids
    BY InitDevices
  <2>2. ids \in Nat
    BY InitDevices
  <2>3. \A d \in Devices : device[d].refreshToken <= begun /\ (device[d].uId # NoUser => d <= ids)
    BY InitDevices, InitFields
  <2>4. \A u \in Users : user[u].resetPasswordOTP <= codes /\ otp[u].code <= codes
                         /\ latest[u] <= codes
    BY <1>1, InitFields
  <2> QED BY <2>1, <2>2, <2>3, <2>4, InitFields DEF Bounds
<1>4. ASSUME NEW s \in Slots
      PROVE  HandlerOK(s)
  <2>1. ids \in Nat /\ codes \in Nat /\ req[s] = Idle
    BY InitDevices, InitFields
  <2> QED BY <2>1, IdleType DEF HandlerOK, NamePcs, LoginPcs, RegisterPcs
<1> QED BY <1>2, <1>3, <1>4 DEF Inv1

LEMMA StutterInv1 ==
  ASSUME Inv1, UNCHANGED vars
  PROVE  Inv1'
<1>1. /\ UNCHANGED <<scene, user, device, copy, otp, codes, mailed, expired, ids, tokens>>
      /\ UNCHANGED <<refreshes, req, registered, proved, loggedOut, latest, changes, stale>>
      /\ UNCHANGED <<begun, overlapped, restarts>>
  BY DEF vars, mail, handed, history, process
<1>2. Typed'
  BY <1>1 DEF Inv1, Typed
<1>3. Bounds'
  BY <1>1 DEF Inv1, Bounds
<1>4. \A s \in Slots : HandlerOK(s)'
  BY <1>1 DEF Inv1, HandlerOK
<1> QED BY <1>2, <1>3, <1>4 DEF Inv1

\* A step is one of five.
LEMMA Steps ==
  ASSUME Next
  PROVE  \/ \E s \in Slots : Start(s)
         \/ \E s \in Slots : Continue(s)
         \/ AtOnceStep
         \/ \E c \in Codes : Expire(c)
         \/ Restart
BY DEF Next, Start, Continue, AtOnceStep

LEMMA NextInv1 ==
  ASSUME Inv1, [Next]_vars
  PROVE  Inv1'
BY Steps, StartInv1, ContinueInv1, AtOnceInv1, ExpireInv1, RestartInv1, StutterInv1

\* In every state the handlers and the documents are what the code takes them for.
THEOREM Inv1Holds == Spec => []Inv1
<1>1. Init => Inv1
  BY InitInv1
<1>2. Inv1 /\ [Next]_vars => Inv1'
  BY NextInv1
<1> QED BY <1>1, <1>2, PTL DEF Spec

\* Type correctness of the accounts: every id, code and token that is anywhere was
\* handed out before.
THEOREM TypeCorrect == Spec => []TypeOK
<1>1. Inv1 => TypeOK
  <2> SUFFICES ASSUME Inv1 PROVE TypeOK
    OBVIOUS
  <2>1. codes \in 0..MaxCodes /\ ids \in 0..MaxDevices /\ begun \in 0..scene.limit
        /\ scene.limit \in Nat /\ MaxCodes \in Nat /\ MaxDevices \in Nat
    BY AccountAssumption DEF Inv1, Typed
  <2>2. user \in [Users -> [here : BOOLEAN, password : Passwords, banTo : BOOLEAN,
                         deletedAt : BOOLEAN, isTwoFactorEnabled : BOOLEAN,
                         twoFactorSecret : Secrets \cup {"none"}, resetPasswordOTP : 0..codes,
                         roles : SUBSET UserRoles, edited : SUBSET Fields]]
    <3>1. user \in [Users -> UserDocs] /\ \A u \in Users : user[u].resetPasswordOTP <= codes
      BY DEF Inv1, Typed, Bounds
    <3> QED BY <2>1, <3>1 DEF UserDocs
  <2>3. device \in [Devices -> [uId : Users \cup {NoUser}, userDeviceId : Handsets \cup {NoHandset},
                                refreshToken : 0..scene.limit, push : BOOLEAN]]
    <3>1. device \in [Devices -> DeviceDocs] /\ \A d \in Devices : device[d].refreshToken <= begun
      BY DEF Inv1, Typed, Bounds
    <3> QED BY <2>1, <3>1 DEF DeviceDocs
  <2>4. copy \in [Users -> [Places -> [name : Names, image : Names]]]
    BY DEF Inv1, Typed, Copies
  <2>5. otp \in [Users -> [code : 0..codes, expired : BOOLEAN, verified : BOOLEAN]]
    <3>1. otp \in [Users -> Entries] /\ \A u \in Users : otp[u].code <= codes
      BY DEF Inv1, Typed, Bounds
    <3> QED BY <2>1, <3>1 DEF Entries
  <2>6. latest \in [Users -> 0..codes]
    <3>1. latest \in [Users -> Nat] /\ \A u \in Users : latest[u] <= codes
      BY DEF Inv1, Typed, Bounds
    <3> QED BY <2>1, <3>1
  <2>7. tokens \subseteq Users \X (0..ids)
    <3>1. tokens \subseteq Users \X Nat /\ \A t \in tokens : t[2] <= ids
      BY DEF Inv1, Typed, Bounds
    <3> QED BY <2>1, <3>1
  <2>8. refreshes \subseteq Users \X Devices \X (1..scene.limit)
    <3>1. /\ refreshes \subseteq Users \X Nat \X Nat
          /\ \A t \in refreshes : t[2] \in 1..ids /\ t[3] \in 1..begun
      BY DEF Inv1, Typed, Bounds
    <3>2. 1..ids \subseteq Devices /\ 1..begun \subseteq 1..scene.limit
      BY <2>1 DEF Devices
    <3> QED BY <3>1, <3>2
  <2>9. \A s \in Slots : req[s].user \in Users \cup {NoUser} /\ req[s].dev \in 0..ids
                         /\ req[s].code \in 0..codes
    <3>1. ASSUME NEW s \in Slots
          PROVE  req[s].user \in Users \cup {NoUser} /\ req[s].dev \in 0..ids /\ req[s].code \in 0..codes
      <4>1. req[s] \in Handlers /\ HandlerOK(s)
        BY DEF Inv1, Typed
      <4>2. req[s].dev \in Nat /\ req[s].code \in Nat /\ req[s].user \in Users \cup {NoUser}
        BY <4>1 DEF Handlers
      <4>3. req[s].dev <= ids /\ req[s].code <= codes
        BY <4>1 DEF HandlerOK
      <4> QED BY <2>1, <4>2, <4>3
    <3> QED BY <3>1
  <2>10. loggedOut \subseteq Devices /\ mailed \cup expired \subseteq 1..codes
    BY <2>1 DEF Inv1, Bounds, Devices
  <2> QED BY <2>2, <2>3, <2>4, <2>5, <2>6, <2>7, <2>8, <2>9, <2>10 DEF Inv1, Typed, TypeOK
<1> QED BY <1>1, Inv1Holds, PTL

-----------------------------------------------------------------------------
(* What holds whatever overlaps and wherever the process ends *)

HerePcs == {"findDevice", "createDevice", "updateDevice", "deleteDevices", "firstDevice",
            "storeLink", "mailLink", "storeOtp", "reset"}

\* A device is of somebody with an account, what was logged out is no device, and
\* handlers that write for an account have found it.
DocsOwned ==
  /\ \A d \in Devices : device[d].uId # NoUser => user[device[d].uId].here
  /\ \A d \in loggedOut : device[d].uId = NoUser

OwnersOK ==
  /\ DocsOwned
  /\ \A s \in Slots : req[s].pc \in HerePcs => user[req[s].user].here

\* Whose code is marked as entered has entered it.
ProvedOK ==
  /\ registered \subseteq proved
  /\ \A u \in Users : otp[u].verified => u \in proved
  /\ \A s \in Slots : req[s].pc = "createUser" => req[s].user \in proved

\* A code changes no password before it is generated, and none is kept for nobody.
FreshOK ==
  /\ \A u \in Users : ~user[u].here => user[u].resetPasswordOTP = 0
  /\ \A c \in Codes : c > codes => changes[c] = 0

\* Time and the end of the process leave the documents alone.
Elapses ==
  /\ UNCHANGED <<scene, user, device, copy, registered, proved, loggedOut, latest, changes, stale>>
  /\ UNCHANGED <<codes, mailed, ids, tokens, refreshes, begun, overlapped>>
  /\ \/ req' = req /\ otp' = otp /\ restarts' = restarts
     \/ /\ req' = [s \in Slots |-> Idle] /\ otp' = [u \in Users |-> NoOtp]
        /\ restarts' = restarts + 1

LEMMA Elapse ==
  ASSUME Inv1, (\E c \in Codes : Expire(c)) \/ Restart \/ UNCHANGED vars
  PROVE  Elapses
BY DEF Expire, Restart, vars, Elapses, mail, handed, history, process

\* A step is one of four, each with what it may write.
LEMMA StepKinds ==
  ASSUME Inv1, [Next]_vars
  PROVE  \/ \E s \in Slots : Begins(s) /\ Reads(s) /\ Writes(s)
         \/ \E s \in Slots : /\ Moves(s) /\ UserWrites(s) /\ DeviceWrites(s) /\ CopyWrites(s)
                             /\ CodeWrites(s) /\ OtpWrites(s) /\ ids' \in ids..MaxDevices
         \/ OnceWrites
         \/ Elapses
<1>1. ASSUME NEW s \in Slots, Start(s)
      PROVE  Begins(s) /\ Reads(s) /\ Writes(s)
  BY <1>1, StartMoves
<1>2. ASSUME NEW s \in Slots, Continue(s)
      PROVE  /\ Moves(s) /\ UserWrites(s) /\ DeviceWrites(s) /\ CopyWrites(s)
             /\ CodeWrites(s) /\ OtpWrites(s) /\ ids' \in ids..MaxDevices
  BY <1>2, ContinueMoves, ContinueUser, ContinueDevice, ContinueCopy, ContinueCodes, ContinueOtp
<1>3. CASE AtOnceStep
  BY <1>3, OnceFields
<1>4. CASE (\E c \in Codes : Expire(c)) \/ Restart \/ UNCHANGED vars
  BY <1>4, Elapse
<1> QED BY <1>1, <1>2, <1>3, <1>4, Steps

\* Who has an account keeps it.
LEMMA HereStays ==
  ASSUME Inv1, [Next]_vars, NEW u \in Users, user[u].here
  PROVE  user'[u].here
<1>1. ASSUME NEW s \in Slots, Moves(s), UserWrites(s)
      PROVE  user'[u].here
  BY <1>1 DEF UserWrites
<1> QED BY <1>1, StepKinds DEF Begins, OnceWrites, Elapses

LEMMA OwnersStep ==
  ASSUME Inv1, OwnersOK, [Next]_vars
  PROVE  OwnersOK'
<1>0. \A u \in Users : user[u].here => user'[u].here
  BY HereStays
<1>1. ASSUME NEW s \in Slots, Begins(s), Reads(s), Writes(s)
      PROVE  OwnersOK'
  <2>1. UNCHANGED <<user, device, loggedOut>> /\ \A t \in Slots \ {s} : req'[t] = req[t]
    BY <1>1 DEF Begins
  <2>2. req'[s].pc \in HerePcs => user[req'[s].user].here
    BY <1>1 DEF Reads, FirstPcs, HerePcs
  <2> QED BY <2>1, <2>2 DEF OwnersOK, DocsOwned
<1>2. ASSUME NEW s \in Slots, Moves(s), UserWrites(s), DeviceWrites(s), ids' \in ids..MaxDevices
      PROVE  OwnersOK'
  <2> DEFINE h == req[s]
             n == req'[s]
  <2>1. /\ h.pc # "idle" /\ \A t \in Slots \ {s} : req'[t] = req[t]
    BY <1>2 DEF Moves
  <2>2. /\ h.user \in Users /\ h.user # NoUser /\ ids \in Nat
    BY <2>1, Working
  <2>3. /\ loggedOut \subseteq 1..ids /\ \A d \in loggedOut : device[d].uId = NoUser
        /\ \A d \in Devices : device[d].uId \in Users \cup {NoUser}
    <3>1. device \in [Devices -> DeviceDocs] /\ loggedOut \subseteq 1..ids /\ ids <= MaxDevices
          /\ ids \in Nat /\ MaxDevices \in Nat
      BY AccountAssumption DEF Inv1, Typed, Bounds
    <3> QED BY <3>1 DEF OwnersOK, DocsOwned, DeviceDocs
  <2>9. \A d \in loggedOut : d \in Devices
    <3>1. ids <= MaxDevices /\ ids \in Nat /\ MaxDevices \in Nat
      BY AccountAssumption DEF Inv1, Typed
    <3> QED BY <2>3, <3>1 DEF Devices
  <2>4. ASSUME h.pc \in {"createDevice", "firstDevice"}
        PROVE  DocsOwned'
    <3>1. DeviceMade(h.user, h.hand, h.n) /\ loggedOut' = loggedOut
      BY <1>2, <2>4 DEF DeviceWrites
    <3>2. user[h.user].here
      BY <2>4 DEF OwnersOK, DocsOwned, HerePcs
    <3>3. \A d \in Devices : device'[d].uId # NoUser => user'[device'[d].uId].here
      BY <1>0, <2>2, <2>3, <3>1, <3>2 DEF DeviceMade, OwnersOK, DocsOwned
    <3>4. \A d \in loggedOut' : device'[d].uId = NoUser
      BY <2>2, <2>3, <2>9, <3>1 DEF DeviceMade
    <3> QED BY <3>3, <3>4 DEF DocsOwned
  <2>5. ASSUME h.pc \in {"deleteDevices", "logOut", "dropOthers", "dropDevice"}
        PROVE  DocsOwned'
    <3>1. PICK gone \in SUBSET Devices : DevicesGone(gone)
      BY <1>2, <2>5 DEF DeviceWrites
    <3>2. NoDevice.uId = NoUser
      BY NoDeviceType
    <3>3. \A d \in Devices : device'[d].uId # NoUser => user'[device'[d].uId].here
      BY <1>0, <2>3, <2>9, <3>1, <3>2 DEF DevicesGone, OwnersOK, DocsOwned
    <3>4. \A d \in loggedOut' : device'[d].uId = NoUser
      BY <2>3, <2>9, <3>1, <3>2 DEF DevicesGone
    <3> QED BY <3>3, <3>4 DEF DocsOwned
  <2>6. ASSUME h.pc \notin {"createDevice", "firstDevice", "deleteDevices", "logOut",
                            "dropOthers", "dropDevice"}
        PROVE  DocsOwned'
    <3>1. DevicesKept(h.n) /\ loggedOut' = loggedOut
      BY <1>2, <2>6 DEF DeviceWrites
    <3>2. \A d \in Devices : device'[d].uId = device[d].uId
      BY <3>1 DEF DevicesKept
    <3>3. \A d \in Devices : device'[d].uId # NoUser => user'[device'[d].uId].here
      BY <1>0, <2>3, <3>2 DEF OwnersOK, DocsOwned
    <3>4. \A d \in loggedOut' : device'[d].uId = NoUser
      BY <2>3, <2>9, <3>1, <3>2
    <3> QED BY <3>3, <3>4 DEF DocsOwned
  <2>7. n.pc \in HerePcs => user'[n.user].here
    <3>1. CASE n = Idle
      BY <3>1, IdleType DEF HerePcs
    <3>2. CASE n # Idle
      <4>1. Flow(h.pc, n.pc) /\ n.user = h.user
        BY <1>2, <3>2 DEF Moves
      <4>2. h.pc \in HerePcs => user[h.user].here
        BY DEF OwnersOK, DocsOwned
      <4>3. h.pc = "createUser" => user'[h.user].here
        BY <1>2 DEF UserWrites
      <4> QED BY <1>0, <2>2, <4>1, <4>2, <4>3 DEF Flow, HerePcs
    <3> QED BY <3>1, <3>2
  <2>8. ASSUME NEW t \in Slots \ {s}, req'[t].pc \in HerePcs
        PROVE  user'[req'[t].user].here
    <3>1. req[t].pc \in HerePcs /\ req'[t].user = req[t].user
      BY <2>1, <2>8
    <3>2. req[t].user \in Users
      BY <3>1, Working DEF HerePcs
    <3> QED BY <1>0, <3>1, <3>2 DEF OwnersOK, DocsOwned
  <2> QED BY <2>4, <2>5, <2>6, <2>7, <2>8 DEF OwnersOK, DocsOwned
<1>3. CASE OnceWrites
  <2>1. /\ req' = req /\ loggedOut' = loggedOut
        /\ \A d \in Devices : device'[d].uId = device[d].uId
        /\ \A u \in Users : user'[u].here <=> user[u].here
    BY <1>3 DEF OnceWrites, DevicesKept
  <2>2. \A d \in Devices : device[d].uId \in Users \cup {NoUser}
    BY DEF Inv1, Typed, DeviceDocs
  <2>3. \A d \in loggedOut : d \in Devices
    BY AccountAssumption DEF Inv1, Typed, Bounds, Devices
  <2>4. \A t \in Slots : req[t].pc \in HerePcs => req[t].user \in Users
    BY Working DEF HerePcs
  <2> QED BY <2>1, <2>2, <2>3, <2>4 DEF OwnersOK, DocsOwned
<1>4. CASE Elapses
  <2>1. UNCHANGED <<user, device, loggedOut>> /\ \A t \in Slots : req'[t] \in {req[t], Idle}
    BY <1>4 DEF Elapses
  <2>2. Idle.pc \notin HerePcs
    BY IdleType DEF HerePcs
  <2> QED BY <2>1, <2>2 DEF OwnersOK, DocsOwned
<1> QED BY <1>1, <1>2, <1>3, <1>4, StepKinds

LEMMA ProvedStep ==
  ASSUME Inv1, ProvedOK, [Next]_vars
  PROVE  ProvedOK'
<1>1. ASSUME NEW s \in Slots, Begins(s), Reads(s), Writes(s)
      PROVE  ProvedOK'
  <2>1. UNCHANGED <<otp, registered, proved>> /\ \A t \in Slots \ {s} : req'[t] = req[t]
    BY <1>1 DEF Begins
  <2>2. req'[s].pc = "createUser" => req'[s].user \in proved
    BY <1>1 DEF Reads, ProvedOK
  <2> QED BY <2>1, <2>2 DEF ProvedOK
<1>2. ASSUME NEW s \in Slots, Moves(s), OtpWrites(s)
      PROVE  ProvedOK'
  <2> DEFINE h == req[s]
             n == req'[s]
  <2>1. /\ h.pc # "idle" /\ \A t \in Slots \ {s} : req'[t] = req[t]
    BY <1>2 DEF Moves
  <2>2. proved \subseteq proved' /\ \A u \in Users : otp'[u].verified => otp[u].verified \/ u \in proved'
    BY <1>2 DEF OtpWrites
  <2>3. registered' \subseteq proved'
    BY <1>2, <2>2 DEF OtpWrites, ProvedOK
  <2>4. n.pc # "createUser"
    BY <1>2, IdleType DEF Moves, Flow
  <2> QED BY <2>1, <2>2, <2>3, <2>4 DEF ProvedOK
<1>3. CASE OnceWrites
  BY <1>3 DEF OnceWrites, ProvedOK
<1>4. CASE Elapses
  <2>1. /\ UNCHANGED <<registered, proved>> /\ \A t \in Slots : req'[t] \in {req[t], Idle}
        /\ \A u \in Users : otp'[u] \in {otp[u], NoOtp}
    BY <1>4 DEF Elapses
  <2>2. Idle.pc # "createUser" /\ NoOtp.verified = FALSE
    BY IdleType
  <2> QED BY <2>1, <2>2 DEF ProvedOK
<1> QED BY <1>1, <1>2, <1>3, <1>4, StepKinds

LEMMA FreshStep ==
  ASSUME Inv1, OwnersOK, FreshOK, [Next]_vars
  PROVE  FreshOK'
<1>0. codes \in Nat
  BY DEF Inv1, Typed
<1>1. ASSUME NEW s \in Slots, Begins(s), Reads(s), Writes(s)
      PROVE  FreshOK'
  <2>1. UNCHANGED <<user, changes>> /\ codes' \in Nat /\ codes <= codes'
    BY <1>1, BegunOK DEF Begins
  <2> QED BY <1>0, <2>1 DEF FreshOK, Codes
<1>2. ASSUME NEW s \in Slots, Moves(s), UserWrites(s), CodeWrites(s)
      PROVE  FreshOK'
  <2> DEFINE h == req[s]
  <2>1. h.pc # "idle"
    BY <1>2 DEF Moves
  <2>2. h.user \in Users /\ HandlerOK(s) /\ h.code \in 0..codes
    BY <2>1, Working
  <2>3. codes' \in Nat /\ codes <= codes'
    BY <1>0, <1>2 DEF CodeWrites
  <2>4. ASSUME NEW u \in Users, ~user'[u].here
        PROVE  user'[u].resetPasswordOTP = 0
    <3>1. CASE u # h.user
      BY <1>2, <2>4, <3>1 DEF UserWrites, FreshOK
    <3>2. CASE u = h.user
      <4>1. ~user[u].here /\ h.pc \notin {"storeLink", "storeOtp"}
        BY <1>2, <2>4, <3>2 DEF UserWrites, OwnersOK, HerePcs
      <4> QED BY <1>2, <3>2, <4>1 DEF UserWrites, FreshOK
    <3> QED BY <3>1, <3>2
  <2>5. ASSUME NEW c \in Codes, c > codes'
        PROVE  changes'[c] = 0
    <3>1. c > codes /\ c # h.code
      BY <1>0, <2>2, <2>3, <2>5 DEF Codes
    <3>2. changes'[c] = changes[c]
      BY <1>2, <3>1 DEF CodeWrites, Inv1, Typed
    <3> QED BY <3>1, <3>2 DEF FreshOK
  <2> QED BY <2>4, <2>5 DEF FreshOK
<1>3. CASE OnceWrites
  BY <1>3 DEF OnceWrites, FreshOK
<1>4. CASE Elapses
  BY <1>4 DEF Elapses, FreshOK
<1> QED BY <1>1, <1>2, <1>3, <1>4, StepKinds

Always == Inv1 /\ OwnersOK /\ ProvedOK /\ FreshOK

LEMMA InitAlways ==
  ASSUME Init
  PROVE  Always
<1>1. Inv1
  BY InitInv1
<1>2. /\ \A s \in Slots : req[s] = Idle
      /\ \A u \in Users : (user[u].here <=> u \in scene.members) /\ otp[u] = NoOtp
                          /\ user[u].resetPasswordOTP = 0
      /\ registered = {} /\ loggedOut = {} /\ \A c \in Codes : changes[c] = 0
  BY InitFields
<1>3. scene.members \subseteq Users /\ \A d \in Devices : device[d].uId # NoUser => device[d].uId \in scene.members
  BY InitFields, InitDevices, AccountAssumption
<1>4. Idle.pc = "idle" /\ NoOtp.verified = FALSE
  BY IdleType
<1>5. OwnersOK
  BY <1>2, <1>3, <1>4 DEF OwnersOK, DocsOwned, HerePcs
<1>6. ProvedOK /\ FreshOK
  BY <1>2, <1>4 DEF ProvedOK, FreshOK
<1> QED BY <1>1, <1>5, <1>6 DEF Always

-----------------------------------------------------------------------------
(* What holds while nothing has overlapped: the one handler expects what it has  *)
(* read to be so still. *)

Lone == \A s, t \in Slots : req[s].pc # "idle" /\ req[t].pc # "idle" => s = t

\* One device for a handset.
DeviceUnique ==
  \A d, e \in Devices : /\ device[d].uId # NoUser /\ device[e].uId = device[d].uId
                        /\ device[e].userDeviceId = device[d].userDeviceId
                        => d = e

DevicesOK ==
  ~overlapped =>
    /\ Lone /\ DeviceUnique
    /\ \A s \in Slots :
         /\ req[s].pc = "createDevice" => OldDevices(req[s].user, req[s].hand) = {}
         /\ req[s].pc = "firstDevice" => DevicesOf(req[s].user) = {}

\* Whether the code of user u may differ from the last that was mailed: one is
\* stored and will be mailed, or is mailed and will be stored.
Between(u) == \E s \in Slots : req[s].pc \in {"mailLink", "storeOtp"} /\ req[s].user = u

\* The code kept for u has changed no password and is kept for nobody else.
CodeUnused(u) ==
  LET c == user[u].resetPasswordOTP
  IN c # 0 => /\ changes[c] = 0
              /\ \A v \in Users : user[v].resetPasswordOTP = c => v = u

CodeExpects(s) ==
  LET h == req[s]
  IN /\ h.pc \in {"storeLink", "storeOtp"} =>
          changes[h.code] = 0 /\ \A v \in Users : user[v].resetPasswordOTP # h.code
     /\ h.pc \in {"mailLink", "reset"} => user[h.user].resetPasswordOTP = h.code
     /\ h.pc = "storeOtp" => latest[h.user] = h.code
     /\ h.pc = "keepOtp" => ~user[h.user].here

CodesOK ==
  ~overlapped /\ restarts = 0 =>
    /\ ~stale /\ \A c \in Codes : changes[c] <= 1
    /\ \A u \in Users : /\ CodeUnused(u)
                        /\ \/ user[u].resetPasswordOTP \in {0, latest[u]}
                           \/ Between(u)
    /\ \A s \in Slots : CodeExpects(s)

\* The copies of a name, and of an image, that the handler has yet to write.
NamesDue(pc) ==
  IF pc = "nameRooms" THEN {"room_member", "group_member", "broadcast_member"}
  ELSE IF pc = "nameGroups" THEN {"group_member", "broadcast_member"}
  ELSE IF pc = "nameBroadcasts" THEN {"broadcast_member"} ELSE {}

NameDue(u, p) == \E s \in Slots : req[s].user = u /\ p \in NamesDue(req[s].pc)
ImageDue(u) == \E s \in Slots : req[s].user = u /\ req[s].pc = "imageRooms"

CopyExpects(s) ==
  LET h == req[s]
  IN /\ h.pc \in {"nameRooms", "nameGroups", "nameBroadcasts"} =>
          copy[h.user]["users"].name = h.word
     /\ h.pc = "imageRooms" => copy[h.user]["users"].image = h.word

CopiesOK ==
  ~overlapped /\ restarts = 0 =>
    /\ \A u \in Users :
         /\ \A p \in Places : copy[u][p].name = copy[u]["users"].name \/ NameDue(u, p)
         /\ copy[u]["room_member"].image = copy[u]["users"].image \/ ImageDue(u)
    /\ \A s \in Slots : CopyExpects(s)

\* While nothing has overlapped, a handler begins when no other is in progress, a
\* request of one operation meets none, and a step of a handler leaves no other.
LEMMA Alone ==
  ASSUME Inv1, Lone
  PROVE  /\ \A s \in Slots : Begins(s) /\ ~overlapped' =>
              ~overlapped /\ \A t \in Slots \ {s} : req[t].pc = "idle" /\ req'[t].pc = "idle"
         /\ \A s \in Slots : Moves(s) =>
              \A t \in Slots \ {s} : req[t].pc = "idle" /\ req'[t].pc = "idle"
         /\ OnceWrites /\ ~overlapped' => ~overlapped /\ \A t \in Slots : req[t].pc = "idle"
<1>1. ASSUME NEW s \in Slots, Begins(s), ~overlapped'
      PROVE  ~overlapped /\ \A t \in Slots \ {s} : req[t].pc = "idle" /\ req'[t].pc = "idle"
  <2>1. ~overlapped /\ InProgress = {}
    BY <1>1 DEF Begins, Inv1, Typed
  <2> QED BY <1>1, <2>1 DEF InProgress, Begins
<1>2. ASSUME NEW s \in Slots, Moves(s), NEW t \in Slots \ {s}
      PROVE  req[t].pc = "idle" /\ req'[t].pc = "idle"
  BY <1>2 DEF Moves, Lone
<1>3. ASSUME OnceWrites, ~overlapped'
      PROVE  ~overlapped /\ \A t \in Slots : req[t].pc = "idle"
  BY <1>3 DEF OnceWrites, Quiet, InProgress, Inv1, Typed
<1> QED BY <1>1, <1>2, <1>3

LEMMA LoneStep ==
  ASSUME Inv1, ~overlapped => Lone, [Next]_vars, ~overlapped'
  PROVE  Lone' /\ ~overlapped
<1>1. ASSUME NEW s \in Slots, Begins(s)
      PROVE  Lone' /\ ~overlapped
  <2>1. ~overlapped /\ InProgress = {}
    BY <1>1 DEF Begins, Inv1, Typed
  <2> QED BY <1>1, <2>1, Alone DEF Lone
<1>2. ASSUME NEW s \in Slots, Moves(s)
      PROVE  Lone' /\ ~overlapped
  <2>1. ~overlapped
    BY <1>2 DEF Moves
  <2> QED BY <1>2, <2>1, Alone DEF Lone
<1>3. CASE OnceWrites
  BY <1>3 DEF OnceWrites, Lone, Inv1, Typed
<1>4. CASE Elapses
  <2>1. ~overlapped /\ \A t \in Slots : req'[t] \in {req[t], Idle}
    BY <1>4 DEF Elapses
  <2> QED BY <1>4, <2>1, IdleType DEF Elapses, Lone
<1> QED BY <1>1, <1>2, <1>3, <1>4, StepKinds

DeviceDue(s) ==
  /\ req[s].pc = "createDevice" => OldDevices(req[s].user, req[s].hand) = {}
  /\ req[s].pc = "firstDevice" => DevicesOf(req[s].user) = {}

LEMMA DevicesStep ==
  ASSUME Inv1, DevicesOK, [Next]_vars
  PROVE  DevicesOK'
<1> SUFFICES ASSUME ~overlapped' PROVE DevicesOK'
  BY DEF DevicesOK
<1>0. Lone' /\ ~overlapped /\ Lone /\ DeviceUnique /\ \A s \in Slots : DeviceDue(s)
  BY LoneStep DEF DevicesOK, DeviceDue
<1>q. ASSUME DeviceUnique', \A s \in Slots : DeviceDue(s)'
      PROVE  DevicesOK'
  BY <1>0, <1>q DEF DevicesOK, DeviceDue
<1>1. ASSUME NEW s \in Slots, Begins(s), Reads(s)
      PROVE  DevicesOK'
  <2>1. /\ device' = device /\ \A t \in Slots \ {s} : req'[t].pc = "idle"
    BY <1>0, <1>1, Alone DEF Begins
  <2>2. req'[s].pc \notin {"createDevice", "firstDevice"}
    BY <1>1 DEF Reads, FirstPcs
  <2> QED BY <1>0, <1>q, <2>1, <2>2 DEF DeviceUnique, DeviceDue
<1>2. ASSUME NEW s \in Slots, Moves(s), DeviceWrites(s)
      PROVE  DevicesOK'
  <2> DEFINE h == req[s]
             n == req'[s]
  <2>1. /\ h.pc # "idle" /\ \A t \in Slots \ {s} : req'[t].pc = "idle"
    BY <1>0, <1>2, Alone DEF Moves
  <2>2. h.user \in Users /\ h.user # NoUser
    BY <2>1, Working
  <2>3. NoDevice.uId = NoUser
    BY NoDeviceType
  <2>4. DeviceUnique'
    <3>1. CASE h.pc \in {"createDevice", "firstDevice"}
      <4>1. DeviceMade(h.user, h.hand, h.n)
        BY <1>2, <3>1 DEF DeviceWrites
      <4>2. OldDevices(h.user, h.hand) = {}
        BY <1>0, <3>1 DEF DeviceDue, OldDevices
      <4> DEFINE m == ids + 1
      <4>3. /\ \A d \in Devices \ {m} : device'[d] = device[d]
            /\ m \in Devices /\ device'[m].uId = h.user /\ device'[m].userDeviceId = h.hand
        BY <4>1 DEF DeviceMade
      <4> HIDE DEF m
      <4>4. \A d \in Devices : ~(device[d].uId = h.user /\ device[d].userDeviceId = h.hand)
        BY <4>2 DEF OldDevices, DevicesOf
      <4> QED BY <1>0, <4>3, <4>4 DEF DeviceUnique
    <3>2. CASE h.pc \in {"deleteDevices", "logOut", "dropOthers", "dropDevice"}
      <4>1. PICK gone \in SUBSET Devices : DevicesGone(gone)
        BY <1>2, <3>2 DEF DeviceWrites
      <4> QED BY <1>0, <2>3, <4>1 DEF DeviceUnique, DevicesGone
    <3>3. CASE h.pc \notin {"createDevice", "firstDevice", "deleteDevices", "logOut",
                            "dropOthers", "dropDevice"}
      BY <1>0, <1>2, <3>3 DEF DeviceWrites, DevicesKept, DeviceUnique
    <3> QED BY <3>1, <3>2, <3>3
  <2>5. DeviceDue(s)'
    <3>1. CASE n = Idle
      BY <3>1, IdleType DEF DeviceDue
    <3>2. CASE n # Idle
      <4>1. Flow(h.pc, n.pc) /\ n.user = h.user /\ n.hand = h.hand
        BY <1>2, <3>2 DEF Moves
      <4>2. ASSUME n.pc = "createDevice"
            PROVE  OldDevices(req[s].user, req[s].hand)' = {}
        <5>1. OldDevices(h.user, h.hand) = {} /\ device' = device
          BY <1>2, <3>2, <4>2 DEF Moves
        <5> QED BY <4>1, <5>1 DEF OldDevices, DevicesOf
      <4>3. ASSUME n.pc = "firstDevice"
            PROVE  DevicesOf(req[s].user)' = {}
        <5>1. h.pc = "deleteDevices"
          BY <4>1, <4>3 DEF Flow
        <5>2. DevicesGone(DevicesOf(h.user))
          BY <1>2, <5>1 DEF DeviceWrites
        <5> QED BY <2>2, <2>3, <4>1, <5>2 DEF DevicesGone, DevicesOf
      <4> QED BY <4>2, <4>3 DEF DeviceDue
    <3> QED BY <3>1, <3>2
  <2>6. \A t \in Slots \ {s} : DeviceDue(t)'
    BY <2>1 DEF DeviceDue
  <2> QED BY <1>q, <2>4, <2>5, <2>6
<1>3. CASE OnceWrites
  <2>1. req' = req /\ \A t \in Slots : req[t].pc = "idle"
    BY <1>0, <1>3, Alone DEF OnceWrites
  <2>2. DeviceUnique'
    BY <1>0, <1>3 DEF OnceWrites, DevicesKept, DeviceUnique
  <2> QED BY <1>q, <2>1, <2>2 DEF DeviceDue
<1>4. CASE Elapses
  <2>1. device' = device /\ \A t \in Slots : req'[t] \in {req[t], Idle}
    BY <1>4 DEF Elapses
  <2>2. ASSUME NEW t \in Slots
        PROVE  DeviceDue(t)'
    BY <1>0, <2>1, IdleType DEF DeviceDue, OldDevices, DevicesOf
  <2> QED BY <1>0, <1>q, <2>1, <2>2 DEF DeviceUnique
<1> QED BY <1>1, <1>2, <1>3, <1>4, StepKinds

-----------------------------------------------------------------------------

CodeLatest(u) == user[u].resetPasswordOTP \in {0, latest[u]} \/ Between(u)
ChangesOnce == ~stale /\ \A c \in Codes : changes[c] <= 1

LEMMA CodesContinue ==
  ASSUME Inv1, FreshOK, Lone, ~overlapped, restarts = 0, CodesOK,
         NEW s \in Slots, Moves(s), UserWrites(s), CodeWrites(s)
  PROVE  /\ ChangesOnce'
         /\ \A u \in Users : CodeUnused(u)' /\ CodeLatest(u)'
         /\ CodeExpects(s)'
<1> DEFINE h == req[s]
           n == req'[s]
           c0 == h.code
           u0 == h.user
<1>1. /\ h.pc # "idle" /\ \A t \in Slots \ {s} : req[t].pc = "idle" /\ req'[t].pc = "idle"
  BY Alone DEF Moves
<1>2. /\ ChangesOnce /\ \A u \in Users : CodeUnused(u) /\ CodeLatest(u)
      /\ CodeExpects(s)
  BY DEF CodesOK, ChangesOnce, CodeLatest
<1>3. /\ u0 \in Users /\ HandlerOK(s) /\ codes \in 0..MaxCodes /\ MaxCodes \in Nat
      /\ c0 \in 0..codes
  BY <1>1, Working
<1>4. /\ h.pc \in {"storeLink", "mailLink", "storeOtp", "reset"} => c0 \in 1..codes
  BY <1>3 DEF HandlerOK
<1>5. /\ changes \in [Codes -> Nat] /\ latest \in [Users -> Nat]
      /\ \A u \in Users : user[u].resetPasswordOTP \in 0..codes
  <2>1. user \in [Users -> UserDocs] /\ \A u \in Users : user[u].resetPasswordOTP <= codes
    BY DEF Inv1, Typed, Bounds
  <2>2. \A u \in Users : user[u].resetPasswordOTP \in Nat
    BY <2>1 DEF UserDocs
  <2> QED BY <1>3, <2>1, <2>2 DEF Inv1, Typed
<1>6. \A u \in Users : Between(u) <=> h.pc \in {"mailLink", "storeOtp"} /\ u = u0
  BY <1>1 DEF Between
<1>7. \A u \in Users \ {u0} : user'[u].resetPasswordOTP = user[u].resetPasswordOTP
  BY DEF UserWrites
<1>8. CASE h.pc = "reset"
  <2>1. /\ user[u0].resetPasswordOTP = c0 /\ c0 # 0 /\ c0 \in Codes
    BY <1>2, <1>3, <1>4, <1>8 DEF CodeExpects, Codes
  <2>2. /\ changes[c0] = 0 /\ \A v \in Users : user[v].resetPasswordOTP = c0 => v = u0
    BY <1>2, <1>3, <2>1 DEF CodeUnused
  <2>3. c0 = latest[u0]
    BY <1>2, <1>3, <1>6, <1>8, <2>1 DEF CodeLatest
  <2>4. changes' = [changes EXCEPT ![c0] = @ + 1] /\ stale' = (stale \/ c0 # latest[u0])
    BY <1>8 DEF CodeWrites
  <2>5. user'[u0].resetPasswordOTP = 0 /\ latest' = latest
    BY <1>8 DEF UserWrites, CodeWrites
  <2> HIDE DEF c0, u0
  <2>6. changes'[c0] = 1 /\ \A c \in Codes \ {c0} : changes'[c] = changes[c]
    BY <1>5, <2>1, <2>2, <2>4
  <2>7. ChangesOnce'
    <3>1. ~stale'
      BY <1>2, <2>3, <2>4 DEF ChangesOnce
    <3> QED BY <1>2, <2>6, <3>1 DEF ChangesOnce
  <2>8. ASSUME NEW u \in Users
        PROVE  CodeUnused(u)' /\ CodeLatest(u)'
    <3>1. CASE u = u0
      BY <2>5, <3>1 DEF CodeUnused, CodeLatest
    <3>2. CASE u # u0
      <4> DEFINE c == user[u].resetPasswordOTP
      <4>1. user'[u].resetPasswordOTP = c /\ c # c0
        BY <1>3, <1>7, <2>2, <3>2
      <4>2. c \in {0, latest[u]}
        BY <1>2, <1>6, <1>8 DEF CodeLatest
      <4>3. ASSUME c # 0
            PROVE  changes'[c] = 0 /\ \A v \in Users : user'[v].resetPasswordOTP = c => v = u
        <5>1. changes[c] = 0 /\ \A v \in Users : user[v].resetPasswordOTP = c => v = u
          BY <1>2, <4>3 DEF CodeUnused
        <5>2. c \in Codes
          BY <1>3, <1>5, <4>3 DEF Codes
        <5> QED BY <1>7, <2>5, <2>6, <4>1, <4>3, <5>1, <5>2
      <4> QED BY <2>5, <4>1, <4>2, <4>3 DEF CodeUnused, CodeLatest
    <3> QED BY <3>1, <3>2
  <2>9. n.pc = "idle"
    BY <1>8, IdleType DEF Moves, Flow
  <2> QED BY <2>7, <2>8, <2>9 DEF CodeExpects
<1>9. CASE h.pc \in {"storeLink", "storeOtp"}
  <2>1. /\ changes' = changes /\ stale' = stale /\ latest' = latest
        /\ user'[u0].resetPasswordOTP = c0
    BY <1>9 DEF UserWrites, CodeWrites
  <2>2. /\ changes[c0] = 0 /\ \A v \in Users : user[v].resetPasswordOTP # c0
        /\ h.pc = "storeOtp" => latest[u0] = c0
    BY <1>2, <1>9 DEF CodeExpects
  <2>3. h.pc = "storeLink" => n.pc = "mailLink" /\ n.user = u0 /\ n.code = c0
    BY DEF Moves, GoingOn, Flow
  <2>4. h.pc = "storeOtp" => n.pc = "idle"
    BY IdleType DEF Moves, Flow
  <2> HIDE DEF c0, u0
  <2>5. ChangesOnce'
    BY <1>2, <2>1 DEF ChangesOnce
  <2>6. ASSUME NEW u \in Users
        PROVE  CodeUnused(u)' /\ CodeLatest(u)'
    <3>1. CASE u = u0
      <4>1. CodeUnused(u)'
        BY <1>7, <2>1, <2>2, <3>1 DEF CodeUnused
      <4>2. CodeLatest(u)'
        BY <1>9, <2>1, <2>2, <2>3, <3>1 DEF CodeLatest, Between
      <4> QED BY <4>1, <4>2
    <3>2. CASE u # u0
      <4> DEFINE c == user[u].resetPasswordOTP
      <4>1. user'[u].resetPasswordOTP = c /\ c # c0
        BY <1>7, <2>2, <3>2
      <4>2. c \in {0, latest[u]}
        BY <1>2, <1>6, <3>2 DEF CodeLatest
      <4>3. ASSUME c # 0
            PROVE  changes'[c] = 0 /\ \A v \in Users : user'[v].resetPasswordOTP = c => v = u
        BY <1>2, <1>7, <2>1, <4>1, <4>3 DEF CodeUnused
      <4> QED BY <2>1, <4>1, <4>2, <4>3 DEF CodeUnused, CodeLatest
    <3> QED BY <3>1, <3>2
  <2>7. CodeExpects(s)'
    BY <1>9, <2>1, <2>3, <2>4 DEF CodeExpects
  <2> QED BY <2>5, <2>6, <2>7
<1>10. CASE h.pc \notin {"reset", "storeLink", "storeOtp"}
  <2>1. /\ changes' = changes /\ stale' = stale
        /\ user'[u0].resetPasswordOTP \in {user[u0].resetPasswordOTP, 0}
    BY <1>10 DEF UserWrites, CodeWrites
  <2>2. ChangesOnce'
    BY <1>2, <2>1 DEF ChangesOnce
  <2>3. \A v \in Users : user'[v].resetPasswordOTP \in {user[v].resetPasswordOTP, 0}
    BY <1>7, <2>1
  <2>4. ASSUME NEW u \in Users
        PROVE  CodeUnused(u)'
    BY <1>2, <2>1, <2>3 DEF CodeUnused
  <2>5. ASSUME NEW u \in Users
        PROVE  user'[u].resetPasswordOTP \in {0, latest'[u]}
    <3>1. CASE h.pc = "mailLink"
      <4>1. latest' = [latest EXCEPT ![u0] = c0] /\ user[u0].resetPasswordOTP = c0
        BY <1>2, <3>1 DEF CodeWrites, CodeExpects
      <4> HIDE DEF c0, u0
      <4>2. CASE u = u0
        BY <1>3, <1>5, <2>3, <4>1, <4>2
      <4>3. CASE u # u0
        BY <1>2, <1>3, <1>5, <1>6, <2>3, <4>1, <4>3 DEF CodeLatest
      <4> QED BY <4>2, <4>3
    <3>2. CASE h.pc = "keepOtp"
      <4>1. latest' = [latest EXCEPT ![u0] = codes + 1] /\ ~user[u0].here
        BY <1>2, <3>2 DEF CodeWrites, CodeExpects
      <4>2. user[u0].resetPasswordOTP = 0
        BY <1>3, <4>1 DEF FreshOK
      <4> HIDE DEF c0, u0
      <4>3. CASE u = u0
        BY <2>3, <4>2, <4>3
      <4>4. CASE u # u0
        BY <1>2, <1>3, <1>5, <1>6, <2>3, <4>1, <4>4 DEF CodeLatest
      <4> QED BY <4>3, <4>4
    <3>3. CASE h.pc \notin {"mailLink", "keepOtp"}
      <4>1. latest' = latest
        BY <3>3 DEF CodeWrites
      <4> QED BY <1>2, <1>6, <1>10, <2>3, <3>3, <4>1 DEF CodeLatest
    <3> QED BY <3>1, <3>2, <3>3
  <2>6. n.pc \notin {"storeLink", "storeOtp", "mailLink", "reset", "keepOtp"}
    BY <1>10, IdleType DEF Moves, Flow
  <2>7. CodeExpects(s)'
    BY <2>6 DEF CodeExpects
  <2> QED BY <2>2, <2>4, <2>5, <2>7 DEF CodeLatest
<1> QED BY <1>8, <1>9, <1>10

LEMMA CodesStep ==
  ASSUME Inv1, FreshOK, ~overlapped => Lone, CodesOK, [Next]_vars
  PROVE  CodesOK'
<1> SUFFICES ASSUME ~overlapped', restarts' = 0 PROVE CodesOK'
  BY DEF CodesOK
<1>0. ~overlapped /\ Lone
  BY LoneStep
<1>q. ASSUME ChangesOnce', \A u \in Users : CodeUnused(u)' /\ CodeLatest(u)',
             \A s \in Slots : CodeExpects(s)'
      PROVE  CodesOK'
  BY <1>q DEF CodesOK, ChangesOnce, CodeLatest
<1>p. ASSUME restarts = 0
      PROVE  /\ ChangesOnce /\ \A u \in Users : CodeUnused(u) /\ CodeLatest(u)
             /\ \A s \in Slots : CodeExpects(s)
  BY <1>0, <1>p DEF CodesOK, ChangesOnce, CodeLatest
<1>1. ASSUME NEW s \in Slots, Begins(s), Reads(s), Writes(s)
      PROVE  CodesOK'
  <2> DEFINE n == req'[s]
             w == n.user
  <2>1. /\ UNCHANGED <<user, changes, stale, restarts>>
        /\ req[s].pc = "idle" /\ \A t \in Slots \ {s} : req[t].pc = "idle" /\ req'[t].pc = "idle"
    BY <1>0, <1>1, Alone DEF Begins
  <2>2. /\ ChangesOnce /\ \A u \in Users : CodeUnused(u) /\ CodeLatest(u)
    BY <1>p, <2>1
  <2>3. \A u \in Users : user[u].resetPasswordOTP \in {0, latest[u]}
    BY <2>1, <2>2 DEF CodeLatest, Between
  <2>4. w \in Users /\ latest \in [Users -> Nat] /\ codes \in Nat
        /\ \A u \in Users : user[u].resetPasswordOTP <= codes
    BY <1>1 DEF Reads, Inv1, Typed, Bounds
  <2>5. \A u \in Users : user[u].resetPasswordOTP # codes + 1
    <3>1. \A u \in Users : user[u].resetPasswordOTP \in Nat
      BY DEF Inv1, Typed, UserDocs
    <3> QED BY <2>4, <3>1
  <2>6. n.pc \in {"storeLink", "storeOtp"} => /\ n.code = codes + 1 /\ changes[codes + 1] = 0
    <3>1. n.pc \in {"storeLink", "storeOtp"} => n.code = codes + 1 /\ codes + 1 \in Codes
      BY <1>1 DEF Reads
    <3> QED BY <2>4, <3>1 DEF FreshOK
  <2>7. CodeExpects(s)'
    <3>1. n.pc \in {"storeLink", "storeOtp"} =>
             changes'[n.code] = 0 /\ \A v \in Users : user'[v].resetPasswordOTP # n.code
      BY <2>1, <2>5, <2>6
    <3>2. n.pc \in {"mailLink", "reset"} => user'[w].resetPasswordOTP = n.code
      BY <1>1, <2>1 DEF Reads, FirstPcs
    <3>3. n.pc = "storeOtp" => latest'[w] = n.code
      <4>1. n.pc = "storeOtp" => latest' = [latest EXCEPT ![w] = codes + 1]
        BY <1>1 DEF Writes
      <4> HIDE DEF w
      <4> QED BY <2>4, <2>6, <4>1
    <3>4. n.pc = "keepOtp" => ~user'[w].here
      BY <1>1, <2>1 DEF Reads
    <3> QED BY <3>1, <3>2, <3>3, <3>4 DEF CodeExpects
  <2>8. ASSUME NEW u \in Users
        PROVE  CodeLatest(u)'
    <3>1. CASE n.pc = "storeOtp" /\ u = w
      BY <3>1 DEF CodeLatest, Between
    <3>2. CASE ~(n.pc = "storeOtp" /\ u = w)
      <4>1. latest' = latest \/ (n.pc = "storeOtp" /\ latest' = [latest EXCEPT ![w] = codes + 1])
        BY <1>1 DEF Writes
      <4> HIDE DEF w
      <4>2. latest'[u] = latest[u]
        BY <2>4, <3>2, <4>1
      <4> QED BY <2>1, <2>3, <4>2 DEF CodeLatest
    <3> QED BY <3>1, <3>2
  <2>9. ASSUME NEW u \in Users
        PROVE  CodeUnused(u)'
    BY <2>1, <2>2 DEF CodeUnused
  <2>10. ChangesOnce'
    BY <2>1, <2>2 DEF ChangesOnce
  <2>11. \A t \in Slots \ {s} : CodeExpects(t)'
    BY <2>1 DEF CodeExpects
  <2> QED BY <1>q, <2>7, <2>8, <2>9, <2>10, <2>11
<1>2. ASSUME NEW s \in Slots, Moves(s), UserWrites(s), CodeWrites(s)
      PROVE  CodesOK'
  <2>1. restarts = 0 /\ \A t \in Slots \ {s} : req'[t].pc = "idle"
    BY <1>0, <1>2, Alone DEF Moves
  <2>2. /\ ChangesOnce' /\ \A u \in Users : CodeUnused(u)' /\ CodeLatest(u)'
        /\ CodeExpects(s)'
    BY <1>0, <1>2, <2>1, CodesContinue
  <2>3. \A t \in Slots \ {s} : CodeExpects(t)'
    BY <2>1 DEF CodeExpects
  <2> QED BY <1>q, <2>2, <2>3
<1>3. CASE OnceWrites
  <2>1. /\ UNCHANGED <<req, latest, changes, stale, restarts>>
        /\ \A t \in Slots : req[t].pc = "idle"
        /\ \A u \in Users : user'[u].resetPasswordOTP = user[u].resetPasswordOTP
    BY <1>0, <1>3, Alone DEF OnceWrites
  <2>2. ChangesOnce /\ \A u \in Users : CodeUnused(u) /\ CodeLatest(u)
    BY <1>p, <2>1
  <2>3. ChangesOnce'
    BY <2>1, <2>2 DEF ChangesOnce
  <2>4. ASSUME NEW u \in Users
        PROVE  CodeUnused(u)' /\ CodeLatest(u)'
    BY <2>1, <2>2 DEF CodeUnused, CodeLatest, Between
  <2>5. \A s \in Slots : CodeExpects(s)'
    BY <2>1 DEF CodeExpects
  <2> QED BY <1>q, <2>3, <2>4, <2>5
<1>4. CASE Elapses
  <2>1. restarts \in Nat
    BY AccountAssumption DEF Inv1, Typed
  <2>2. UNCHANGED <<req, user, latest, changes, stale, restarts>>
    BY <1>4, <2>1 DEF Elapses
  <2> QED BY <1>0, <1>p, <1>q, <2>2 DEF ChangesOnce, CodeUnused, CodeLatest, CodeExpects, Between
<1> QED BY <1>1, <1>2, <1>3, <1>4, StepKinds

-----------------------------------------------------------------------------

Copied(u) ==
  /\ \A p \in Places : copy[u][p].name = copy[u]["users"].name \/ NameDue(u, p)
  /\ copy[u]["room_member"].image = copy[u]["users"].image \/ ImageDue(u)

LEMMA CopiesContinue ==
  ASSUME Inv1, Lone, ~overlapped, restarts = 0, CopiesOK,
         NEW s \in Slots, Moves(s), CopyWrites(s)
  PROVE  (\A u \in Users : Copied(u)') /\ CopyExpects(s)'
<1> DEFINE h == req[s]
           n == req'[s]
           place == PlaceOf(h.pc)
<1>1. /\ h.pc # "idle" /\ \A t \in Slots \ {s} : req[t].pc = "idle" /\ req'[t].pc = "idle"
  BY Alone DEF Moves
<1>2. (\A u \in Users : Copied(u)) /\ CopyExpects(s)
  BY DEF CopiesOK, Copied
<1>3. h.user \in Users
  BY <1>1, Working
<1>4. /\ \A u \in Users, p \in Places : NameDue(u, p) <=> u = h.user /\ p \in NamesDue(h.pc)
      /\ \A u \in Users : ImageDue(u) <=> u = h.user /\ h.pc = "imageRooms"
  BY <1>1 DEF NameDue, ImageDue, NamesDue
<1>5. \A u \in Users, q \in Places :
          /\ copy'[u][q].name = IF /\ h.pc \in {"nameRooms", "nameGroups", "nameBroadcasts"}
                                   /\ u = h.user /\ q = place
                                THEN h.word ELSE copy[u][q].name
          /\ copy'[u][q].image = IF /\ h.pc \in {"imageUsers", "imageRooms"}
                                    /\ u = h.user /\ q = place
                                 THEN h.word ELSE copy[u][q].image
  BY DEF CopyWrites
<1>6. /\ "users" \in Places /\ "room_member" \in Places
      /\ Places = {"users", "room_member", "group_member", "broadcast_member"}
  BY DEF Places
<1>7. /\ h.pc = "nameRooms" => n.pc = "nameGroups" /\ n.user = h.user /\ n.word = h.word
      /\ h.pc = "nameGroups" => n.pc = "nameBroadcasts" /\ n.user = h.user /\ n.word = h.word
      /\ h.pc = "imageUsers" => n.pc = "imageRooms" /\ n.user = h.user /\ n.word = h.word
  BY DEF Moves, GoingOn, Flow
<1>8. /\ h.pc \notin {"nameRooms", "nameGroups"} => n.pc \notin {"nameRooms", "nameGroups", "nameBroadcasts"}
      /\ h.pc # "imageUsers" => n.pc # "imageRooms"
      /\ n.pc # "nameRooms"
  BY IdleType DEF Moves, Flow
<1>9. ASSUME NEW u \in Users, NEW p \in Places
      PROVE  copy'[u][p].name = copy'[u]["users"].name \/ NameDue(u, p)'
  <2>1. copy[u][p].name = copy[u]["users"].name \/ (u = h.user /\ p \in NamesDue(h.pc))
    BY <1>2, <1>4 DEF Copied
  <2>2. CASE h.pc \notin {"nameRooms", "nameGroups", "nameBroadcasts"}
    BY <1>5, <1>6, <2>1, <2>2 DEF NamesDue
  <2>3. CASE h.pc \in {"nameRooms", "nameGroups", "nameBroadcasts"}
    <3>1. copy[h.user]["users"].name = h.word /\ place # "users"
      BY <1>2, <2>3 DEF CopyExpects, PlaceOf
    <3>2. copy'[u]["users"].name = copy[u]["users"].name
      BY <1>5, <1>6, <3>1
    <3>3. CASE u # h.user
      BY <1>5, <2>1, <3>2, <3>3
    <3>4. CASE u = h.user /\ p = place
      BY <1>5, <2>3, <3>1, <3>2, <3>4
    <3>5. CASE u = h.user /\ p # place
      <4>1. copy'[u][p].name = copy[u][p].name
        BY <1>5, <3>5
      <4>2. p \in NamesDue(h.pc) => n.user = u /\ p \in NamesDue(n.pc)
        BY <1>7, <2>3, <3>5 DEF NamesDue, PlaceOf
      <4> QED BY <2>1, <3>2, <4>1, <4>2 DEF NameDue
    <3> QED BY <3>3, <3>4, <3>5
  <2> QED BY <2>2, <2>3
<1>10. ASSUME NEW u \in Users
       PROVE  copy'[u]["room_member"].image = copy'[u]["users"].image \/ ImageDue(u)'
  <2>1. copy[u]["room_member"].image = copy[u]["users"].image \/ (u = h.user /\ h.pc = "imageRooms")
    BY <1>2, <1>4 DEF Copied
  <2>2. CASE h.pc = "imageUsers"
    <3>1. CASE u = h.user
      BY <1>7, <2>2, <3>1 DEF ImageDue
    <3>2. CASE u # h.user
      BY <1>5, <1>6, <2>1, <2>2, <3>2
    <3> QED BY <3>1, <3>2
  <2>3. CASE h.pc = "imageRooms"
    <3>1. copy[h.user]["users"].image = h.word /\ place = "room_member"
      BY <1>2, <2>3 DEF CopyExpects, PlaceOf
    <3> QED BY <1>5, <1>6, <2>1, <2>3, <3>1
  <2>4. CASE h.pc \notin {"imageUsers", "imageRooms"}
    BY <1>5, <1>6, <2>1, <2>4
  <2> QED BY <2>2, <2>3, <2>4
<1>11. CopyExpects(s)'
  <2>1. ASSUME n.pc \in {"nameRooms", "nameGroups", "nameBroadcasts"}
        PROVE  copy'[n.user]["users"].name = n.word
    <3>1. h.pc \in {"nameRooms", "nameGroups"} /\ n.user = h.user /\ n.word = h.word
      BY <1>7, <1>8, <2>1
    <3>2. copy[h.user]["users"].name = h.word /\ place # "users"
      BY <1>2, <3>1 DEF CopyExpects, PlaceOf
    <3> QED BY <1>3, <1>5, <1>6, <3>1, <3>2
  <2>2. ASSUME n.pc = "imageRooms"
        PROVE  copy'[n.user]["users"].image = n.word
    <3>1. h.pc = "imageUsers" /\ n.user = h.user /\ n.word = h.word /\ place = "users"
      BY <1>7, <1>8, <2>2 DEF PlaceOf
    <3> QED BY <1>3, <1>5, <1>6, <3>1
  <2> QED BY <2>1, <2>2 DEF CopyExpects
<1> QED BY <1>9, <1>10, <1>11 DEF Copied

LEMMA CopiesStep ==
  ASSUME Inv1, ~overlapped => Lone, CopiesOK, [Next]_vars
  PROVE  CopiesOK'
<1> SUFFICES ASSUME ~overlapped', restarts' = 0 PROVE CopiesOK'
  BY DEF CopiesOK
<1>0. ~overlapped /\ Lone
  BY LoneStep
<1>q. ASSUME \A u \in Users : Copied(u)', \A s \in Slots : CopyExpects(s)'
      PROVE  CopiesOK'
  BY <1>q DEF CopiesOK, Copied
<1>p. ASSUME restarts = 0
      PROVE  (\A u \in Users : Copied(u)) /\ \A s \in Slots : CopyExpects(s)
  BY <1>0, <1>p DEF CopiesOK, Copied
<1>1. ASSUME NEW s \in Slots, Begins(s), Reads(s), Writes(s)
      PROVE  CopiesOK'
  <2> DEFINE n == req'[s]
             u0 == n.user
             w == n.word
  <2>1. /\ restarts = 0 /\ req[s].pc = "idle"
        /\ \A t \in Slots \ {s} : req[t].pc = "idle" /\ req'[t].pc = "idle"
    BY <1>0, <1>1, Alone DEF Begins
  <2>2. \A u \in Users : ~ImageDue(u) /\ \A p \in Places : ~NameDue(u, p)
    BY <2>1 DEF ImageDue, NameDue, NamesDue
  <2>3. \A u \in Users : /\ \A p \in Places : copy[u][p].name = copy[u]["users"].name
                         /\ copy[u]["room_member"].image = copy[u]["users"].image
    BY <1>p, <2>1, <2>2 DEF Copied
  <2>4. n.pc \notin {"nameGroups", "nameBroadcasts", "imageRooms"} /\ u0 \in Users
    BY <1>1 DEF Reads, FirstPcs
  <2>5. \A t \in Slots \ {s} : CopyExpects(t)'
    BY <2>1 DEF CopyExpects
  <2>6. CASE n.pc = "nameRooms"
    <3>1. SetName(u0, "users", w) /\ w \in Names /\ "users" \in Places /\ "room_member" \in Places
          /\ copy \in [Users -> Copies]
      BY <1>1, <2>6 DEF Reads, Writes, NamePcs, Places, Inv1, Typed
    <3>2. \A p \in Places \ {"users"} : p \in NamesDue(n.pc)
      BY <2>6 DEF NamesDue, Places
    <3> HIDE DEF u0, w
    <3>3. /\ copy'[u0]["users"].name = w
          /\ \A v \in Users, q \in Places : /\ copy'[v][q].image = copy[v][q].image
                                            /\ <<v, q>> # <<u0, "users">> =>
                                                 copy'[v][q].name = copy[v][q].name
      BY <2>4, <3>1, NameFields
    <3>4. ASSUME NEW u \in Users, NEW p \in Places
          PROVE  copy'[u][p].name = copy'[u]["users"].name \/ NameDue(u, p)'
      <4>1. CASE u # u0
        BY <2>3, <3>1, <3>3, <4>1
      <4>2. CASE u = u0 /\ p # "users"
        BY <3>2, <4>2 DEF NameDue, u0
      <4> QED BY <4>1, <4>2
    <3>5. \A u \in Users : copy'[u]["room_member"].image = copy'[u]["users"].image
      BY <2>3, <3>1, <3>3
    <3>6. CopyExpects(s)'
      BY <2>6, <3>3 DEF CopyExpects, u0, w
    <3> QED BY <1>q, <2>5, <3>4, <3>5, <3>6 DEF Copied
  <2>7. CASE n.pc # "nameRooms"
    <3>1. copy' = copy
      BY <1>1, <2>7 DEF Writes
    <3>2. CopyExpects(s)'
      BY <2>4, <2>7 DEF CopyExpects
    <3> QED BY <1>q, <2>3, <2>5, <3>1, <3>2 DEF Copied
  <2> QED BY <2>6, <2>7
<1>2. ASSUME NEW s \in Slots, Moves(s), CopyWrites(s)
      PROVE  CopiesOK'
  <2>1. restarts = 0 /\ \A t \in Slots \ {s} : req'[t].pc = "idle"
    BY <1>0, <1>2, Alone DEF Moves
  <2>2. (\A u \in Users : Copied(u)') /\ CopyExpects(s)'
    BY <1>0, <1>2, <2>1, CopiesContinue
  <2>3. \A t \in Slots \ {s} : CopyExpects(t)'
    BY <2>1 DEF CopyExpects
  <2> QED BY <1>q, <2>2, <2>3
<1>3. CASE OnceWrites
  <2>1. UNCHANGED <<req, copy, restarts>>
    BY <1>3 DEF OnceWrites
  <2> QED BY <1>p, <1>q, <2>1 DEF Copied, CopyExpects, NameDue, ImageDue
<1>4. CASE Elapses
  <2>1. restarts \in Nat
    BY AccountAssumption DEF Inv1, Typed
  <2>2. UNCHANGED <<req, copy, restarts>>
    BY <1>4, <2>1 DEF Elapses
  <2> QED BY <1>p, <1>q, <2>2 DEF Copied, CopyExpects, NameDue, ImageDue
<1> QED BY <1>1, <1>2, <1>3, <1>4, StepKinds

-----------------------------------------------------------------------------

Invariant == Always /\ DevicesOK /\ CodesOK /\ CopiesOK

THEOREM InvariantHolds == Spec => []Invariant
<1>1. Init => Invariant
  <2> SUFFICES ASSUME Init, Always PROVE Invariant
    BY InitAlways
  <2>1. /\ \A s \in Slots : req[s].pc = "idle"
        /\ \A c \in Codes : changes[c] = 0
        /\ ~stale
        /\ \A u \in Users : user[u].resetPasswordOTP = 0
        /\ \A u \in Users, p \in Places : copy[u][p].name = "old" /\ copy[u][p].image = "old"
    BY InitFields, IdleType
  <2>2. DevicesOK
    <3>1. DeviceUnique
      BY InitDevices DEF DeviceUnique
    <3> QED BY <2>1, <3>1 DEF DevicesOK, Lone
  <2>3. CodesOK
    <3>1. \A u \in Users : CodeUnused(u)
      BY <2>1 DEF CodeUnused
    <3>2. \A s \in Slots : CodeExpects(s)
      BY <2>1 DEF CodeExpects
    <3>3. \A c \in Codes : changes[c] <= 1
      BY <2>1
    <3> QED BY <2>1, <3>1, <3>2, <3>3 DEF CodesOK
  <2>4. CopiesOK
    BY <2>1 DEF CopiesOK, CopyExpects, Places
  <2> QED BY <2>2, <2>3, <2>4 DEF Invariant
<1>2. Invariant /\ [Next]_vars => Invariant'
  <2> SUFFICES ASSUME Invariant, [Next]_vars PROVE Invariant'
    OBVIOUS
  <2>1. Inv1 /\ FreshOK /\ (~overlapped => Lone)
    BY DEF Invariant, Always, DevicesOK
  <2>2. Always'
    BY NextInv1, OwnersStep, ProvedStep, FreshStep DEF Invariant, Always
  <2>3. DevicesOK' /\ CodesOK' /\ CopiesOK'
    BY <2>1, DevicesStep, CodesStep, CopiesStep DEF Invariant
  <2> QED BY <2>2, <2>3 DEF Invariant
<1> QED BY <1>1, <1>2, PTL DEF Spec

\* Who registered with an email entered the code mailed to it, whatever overlaps and
\* wherever the process ends; and while nothing does, a code changes a password once
\* at most, and never after another was mailed.
THEOREM CodesCorrect == Spec => []CodesWorkOnce
<1>1. Invariant => CodesWorkOnce
  BY DEF Invariant, Always, ProvedOK, CodesOK, CodesWorkOnce
<1> QED BY <1>1, InvariantHolds, PTL

\* A device that was logged out never comes back and none of its tokens is of use,
\* whatever overlaps; and while nothing does, a handset has one device of a user.
THEOREM LoggedOutCorrect == Spec => []LoggedOutStaysOut
<1>1. Invariant => LoggedOutStaysOut
  <2> SUFFICES ASSUME Invariant PROVE LoggedOutStaysOut
    OBVIOUS
  <2>1. /\ \A d \in loggedOut : device[d].uId = NoUser
        /\ \A d \in Devices : Exists(d) => user[device[d].uId].here
    BY DEF Invariant, Always, OwnersOK, DocsOwned, Exists
  <2>2. \A d \in loggedOut, u \in Users : ~Exists(d) /\ ~Verified(u, d)
    BY <2>1 DEF Exists, Verified
  <2>3. \A t \in refreshes : t[2] \in loggedOut => ~Refreshable(t)
    BY <2>1 DEF Exists, Refreshable
  <2>4. ~overlapped => DeviceUnique
    BY DEF Invariant, DevicesOK
  <2>5. ASSUME Undisturbed, NEW d \in Devices, NEW e \in Devices, Exists(d),
               device[e].uId = device[d].uId, device[e].userDeviceId = device[d].userDeviceId
        PROVE  d = e
    BY <2>4, <2>5 DEF Undisturbed, DeviceUnique, Exists
  <2> QED BY <2>1, <2>2, <2>3, <2>5 DEF LoggedOutStaysOut
<1> QED BY <1>1, InvariantHolds, PTL

\* Without overlap and without a restart the name and the image of a user have
\* reached the copies they are meant to reach when the handler is done.
THEOREM CopiesCorrect == Spec => []ProfileIsCopied
<1>1. Invariant => ProfileIsCopied
  <2> SUFFICES ASSUME Invariant, Undisturbed PROVE ProfileIsCopied
    BY DEF ProfileIsCopied
  <2>1. \A s \in Slots : req[s].pc = "idle"
    BY DEF Undisturbed, Quiet, InProgress
  <2>2. \A u \in Users : ~ImageDue(u) /\ \A p \in Places : ~NameDue(u, p)
    BY <2>1 DEF ImageDue, NameDue, NamesDue
  <2> QED BY <2>2 DEF Invariant, CopiesOK, Undisturbed, ProfileIsCopied
<1> QED BY <1>1, InvariantHolds, PTL
=============================================================================
