------------------------------ MODULE Account ------------------------------
(***************************************************************************)
(* The accounts: the handlers of AccountSessions and AccountProfile on one *)
(* database, the passing of time for the codes, the end of the process,    *)
(* and what is expected of all of them together.                           *)
(***************************************************************************)
EXTENDS AccountSessions, AccountProfile

\* The members of a scene have an account and are logged in on one handset,
\* and are administrators if the scene asks for their code.
Init ==
  /\ scene \in Scenes
  /\ LET firsts == 1..Cardinality(scene.members)
         hand == CHOOSE h \in Handsets : TRUE
     IN \E of \in [firsts -> scene.members] :
          /\ \A u \in scene.members : \E d \in firsts : of[d] = u
          /\ device = [d \in Devices |-> IF d \in firsts THEN Device(of[d], hand, 0)
                                         ELSE NoDevice]
          /\ tokens = {<<of[d], d>> : d \in firsts}
  /\ user = [u \in Users |-> IF u \in scene.members
       THEN [NewAccount("old") EXCEPT
               !.roles = IF "adminOtp" \in scene.menu THEN {"admin"} ELSE {}]
       ELSE NoAccount]
  /\ copy = [u \in Users |-> [p \in Places |-> [name |-> "old", image |-> "old"]]]
  /\ otp = [u \in Users |-> NoOtp]
  /\ codes = 0 /\ mailed = {} /\ expired = {}
  /\ ids = Cardinality(scene.members) /\ refreshes = {}
  /\ req = [s \in Slots |-> Idle]
  /\ registered = {} /\ proved = {} /\ loggedOut = {} /\ stale = FALSE
  /\ latest = [u \in Users |-> 0] /\ changes = [c \in Codes |-> 0]
  /\ begun = 0 /\ overlapped = FALSE /\ restarts = 0

\* The time of a code is over: 15 minutes for a link, 10 for the number of an
\* administrator, maxExpireEmailTime for that of a registration.
Expire(c) ==
  /\ c \in 1..codes \ expired
  /\ expired' = expired \cup {c}
  /\ UNCHANGED <<scene, user, device, copy, otp, codes, mailed, handed, req, history, process>>

\* The process ends and starts anew: handlers and the codes of registrations,
\* which are in memory only, are gone.
Restart ==
  /\ restarts < scene.restarts
  /\ restarts' = restarts + 1
  /\ otp' = [u \in Users |-> NoOtp]
  /\ req' = [s \in Slots |-> Idle]
  /\ UNCHANGED <<scene, user, device, copy, mail, handed, history, begun, overlapped>>

Next ==
  \/ \E s \in Slots : \/ SessionsContinue(s) \/ ProfileContinue(s)
                      \/ SessionsStart(s) \/ ProfileStart(s)
  \/ SessionsAtOnce \/ ProfileAtOnce
  \/ \E c \in Codes : Expire(c)
  \/ Restart

Spec == Init /\ [][Next]_vars

-----------------------------------------------------------------------------
(* Properties *)

\* The type of every variable.
TypeOK ==
  /\ scene \in Scenes
  /\ user \in [Users -> [here : BOOLEAN, password : Passwords, banTo : BOOLEAN,
                         deletedAt : BOOLEAN, isTwoFactorEnabled : BOOLEAN,
                         twoFactorSecret : Secrets \cup {"none"}, resetPasswordOTP : 0..codes,
                         roles : SUBSET UserRoles, edited : SUBSET Fields]]
  /\ device \in [Devices -> [uId : Users \cup {NoUser}, userDeviceId : Handsets \cup {NoHandset},
                             refreshToken : 0..scene.limit, push : BOOLEAN]]
  /\ copy \in [Users -> [Places -> [name : Names, image : Names]]]
  /\ otp \in [Users -> [code : 0..codes, expired : BOOLEAN, verified : BOOLEAN]]
  /\ codes \in 0..MaxCodes /\ mailed \cup expired \subseteq 1..codes
  /\ ids \in 0..MaxDevices /\ tokens \subseteq Users \X (0..ids)
  /\ refreshes \subseteq Users \X Devices \X (1..scene.limit)
  /\ registered \cup proved \subseteq Users /\ loggedOut \subseteq Devices
  /\ latest \in [Users -> 0..codes] /\ changes \in [Codes -> Nat] /\ stale \in BOOLEAN
  /\ \A s \in Slots : req[s].user \in Users \cup {NoUser} /\ req[s].dev \in 0..ids
                      /\ req[s].code \in 0..codes
  /\ begun \in 0..scene.limit /\ overlapped \in BOOLEAN /\ restarts \in 0..scene.restarts

Undisturbed == ~overlapped /\ restarts = 0 /\ Quiet

\* Whatever overlaps and wherever the process ends, who has registered with an
\* email has entered a code that was mailed to it.  Without overlap and without
\* a restart a code changes a password once at most, and only if no other was
\* mailed to the user since, although links and numbers share their place.
CodesWorkOnce ==
  /\ registered \subseteq proved
  /\ ~overlapped /\ restarts = 0 => ~stale /\ \A c \in Codes : changes[c] <= 1

\* A device that was logged out or deleted never comes back, whatever overlaps:
\* no handler that knew it creates it again, so that no token opens a route or
\* is renewed for it.  Without overlap and without a restart a user has one
\* device at most for a handset, and no device is of nobody's.
LoggedOutStaysOut ==
  /\ \A d \in loggedOut, u \in Users : ~Exists(d) /\ ~Verified(u, d)
  /\ \A t \in refreshes : t[2] \in loggedOut => ~Refreshable(t)
  /\ Undisturbed =>
       \A d, e \in Devices :
         Exists(d) => /\ user[device[d].uId].here
                      /\ /\ device[e].uId = device[d].uId
                         /\ device[e].userDeviceId = device[d].userDeviceId
                         => d = e

\* Without overlap and without a restart the copies of a name follow it into all
\* rooms, and those of an image into the rooms of two.
ProfileIsCopied ==
  Undisturbed =>
    \A u \in Users :
      /\ \A p \in Places : copy[u][p].name = copy[u]["users"].name
      /\ copy[u]["room_member"].image = copy[u]["users"].image
=============================================================================
