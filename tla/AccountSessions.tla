-------------------------- MODULE AccountSessions --------------------------
(***************************************************************************)
(* Registration, login, codes, second factor and logout: AuthService.  A   *)
(* handler reads in its first step and writes in the later ones.           *)
(***************************************************************************)
EXTENDS AccountState

\* login, up to _finalizeLogin: with a second factor there are no tokens.  An
\* account deleted by its user is let in, the guard refuses its tokens.
LoginStart(s, u, p, h, remember) ==
  /\ Free(s, "login")
  /\ user[u].here /\ p = user[u].password /\ ~user[u].banTo /\ ~user[u].isTwoFactorEnabled
  /\ Begin(s, [Call("findDevice", u) EXCEPT !.hand = h, !.all = remember])
  /\ UNCHANGED <<scene, user, device, copy, otp, mail, handed, history>>

\* authenticateTwoFactor: the route is guarded as the others are.
AuthenticateTwoFactor(s, u, d, secret, h, remember) ==
  /\ Free(s, "authenticate") /\ Verified(u, d)
  /\ secret = user[u].twoFactorSecret
  /\ Begin(s, [Call("findDevice", u) EXCEPT !.hand = h, !.all = remember])
  /\ UNCHANGED <<scene, user, device, copy, otp, mail, handed, history>>

\* _finalizeLogin: the device of this handset, if there is one.
OldDevices(u, h) == {d \in DevicesOf(u) : device[d].userDeviceId = h}
Using(h, d) == [h EXCEPT !.pc = "updateDevice", !.dev = d]

FindDevice(s) ==
  /\ At(s, "findDevice")
  /\ LET old == OldDevices(req[s].user, req[s].hand)
     IN IF old = {} THEN Goto(s, "createDevice")
        ELSE \E d \in old : Resume(s, Using(req[s], d))
  /\ UNCHANGED <<scene, user, device, copy, otp, mail, handed, history>>

HandOut(u, d, remember, n) ==
  /\ tokens' = tokens \cup {<<u, d>>}
  /\ refreshes' = IF remember THEN refreshes \cup {<<u, d, n>>} ELSE refreshes

\* Mutant: the update creates the document if it is gone.
UpdateDeviceUpsert(s) ==
  /\ At(s, "updateDevice")
  /\ LET h == req[s]
     IN /\ device' = [device EXCEPT ![h.dev] = Device(h.user, h.hand, IF h.all THEN h.n ELSE 0)]
        /\ HandOut(h.user, h.dev, h.all, h.n)
  /\ Return(s)
  /\ UNCHANGED <<scene, user, copy, otp, mail, ids, history>>

UpdateDevice(s) ==
  /\ At(s, "updateDevice")
  /\ LET h == req[s]
         Again(doc) == [doc EXCEPT !.push = TRUE, !.refreshToken = IF h.all THEN h.n ELSE @]
     IN device' = SetDevice(h.dev, Again) /\ HandOut(h.user, h.dev, h.all, h.n)
  /\ Return(s)
  /\ UNCHANGED <<scene, user, copy, otp, mail, ids, history>>

CreateDevice(s) ==
  /\ At(s, "createDevice") /\ NewId \in Devices
  /\ LET h == req[s]
     IN /\ device' = [device EXCEPT ![NewId] = Device(h.user, h.hand, IF h.all THEN h.n ELSE 0)]
        /\ ids' = NewId /\ HandOut(h.user, NewId, h.all, h.n)
  /\ Return(s)
  /\ UNCHANGED <<scene, user, copy, otp, mail, history>>

\* refreshAccessToken
RefreshAccessToken(t) ==
  /\ AtOnce("refresh") /\ Refreshable(t)
  /\ tokens' = tokens \cup {<<t[1], t[2]>>}
  /\ UNCHANGED <<scene, user, device, copy, otp, mail, ids, refreshes, history>>

-----------------------------------------------------------------------------
(* Registration *)

\* sendOtpRegister: the code is mailed and kept once the lookup has found nobody.
OtpRegisterStart(s, u) ==
  /\ Free(s, "otpRegister") /\ ~user[u].here
  /\ Begin(s, Call("keepOtp", u))
  /\ UNCHANGED <<scene, user, device, copy, otp, mail, handed, history>>

KeepOtp(s) ==
  /\ At(s, "keepOtp") /\ NewCode \in Codes
  /\ codes' = NewCode /\ mailed' = mailed \cup {NewCode}
  /\ otp' = [otp EXCEPT ![req[s].user] = [NoOtp EXCEPT !.code = NewCode]]
  /\ latest' = [latest EXCEPT ![req[s].user] = NewCode]
  /\ Return(s)
  /\ UNCHANGED <<scene, user, device, copy, expired, handed, registered, proved, loggedOut,
                 changes, stale>>

\* verifyOtpRegister: the entry is looked up, judged and written back after the
\* settings have come.
VerifyOtpStart(s, u, c) ==
  /\ Free(s, "verifyOtp") /\ otp[u] # NoOtp /\ c \in mailed
  /\ Begin(s, [Call("verifyOtp", u) EXCEPT !.code = c, !.entry = otp[u]])
  /\ UNCHANGED <<scene, user, device, copy, otp, mail, handed, history>>

VerifyOtp(s) ==
  /\ At(s, "verifyOtp")
  /\ LET h == req[s]
         fits == ~h.entry.expired /\ h.entry.code \notin expired /\ h.entry.code = h.code
     IN /\ otp' = IF fits THEN [otp EXCEPT ![h.user] = [h.entry EXCEPT !.expired = TRUE,
                                                                       !.verified = TRUE]]
                  ELSE otp
        /\ proved' = IF fits THEN proved \cup {h.user} ELSE proved
  /\ Return(s)
  /\ UNCHANGED <<scene, user, device, copy, mail, handed, registered, loggedOut, latest,
                 changes, stale>>

\* register: nobody has the email and it was verified.
RegisterStart(s, u, p, h) ==
  /\ Free(s, "register") /\ ~user[u].here /\ otp[u].verified
  /\ Begin(s, [Call("createUser", u) EXCEPT !.word = p, !.hand = h])
  /\ UNCHANGED <<scene, user, device, copy, otp, mail, handed, history>>

RegisterUser(s) ==
  /\ At(s, "createUser")
  /\ LET u == req[s].user
     IN IF user[u].here THEN Return(s) /\ UNCHANGED <<user, registered>>  \* email is unique
        ELSE /\ user' = [user EXCEPT ![u] = NewAccount(req[s].word)]
             /\ registered' = registered \cup {u}
             /\ Goto(s, "deleteDevices")
  /\ UNCHANGED <<scene, device, copy, otp, mail, handed, proved, loggedOut, latest, changes, stale>>

\* deleteDevicesAndCreateNew
RegisterClear(s) ==
  /\ At(s, "deleteDevices")
  /\ device' = Without(DevicesOf(req[s].user))
  /\ loggedOut' = loggedOut \cup DevicesOf(req[s].user)
  /\ Goto(s, "firstDevice")
  /\ UNCHANGED <<scene, user, copy, otp, mail, handed, registered, proved, latest, changes, stale>>

RegisterDevice(s) ==
  /\ At(s, "firstDevice") /\ NewId \in Devices
  /\ LET h == req[s]
     IN device' = [device EXCEPT ![NewId] = Device(h.user, h.hand, 0)]
        /\ ids' = NewId /\ HandOut(h.user, NewId, FALSE, 0)
  /\ Goto(s, "forgetOtp")
  /\ UNCHANGED <<scene, user, copy, otp, mail, history>>

RegisterDone(s) ==
  /\ At(s, "forgetOtp")
  /\ otp' = [otp EXCEPT ![req[s].user] = NoOtp]
  /\ Return(s)
  /\ UNCHANGED <<scene, user, device, copy, mail, handed, history>>

\* googleLogin and the other six: the provider says whose email it is.
SocialStart(s, u) ==
  /\ Free(s, "social")
  /\ Begin(s, Call("socialLookup", u))
  /\ UNCHANGED <<scene, user, device, copy, otp, mail, handed, history>>

\* handleSocialLogin: a known email is let in, banned and deleted users too.
SocialLookup(s) ==
  /\ At(s, "socialLookup")
  /\ Goto(s, IF user[req[s].user].here THEN "socialToken" ELSE "socialUser")
  /\ UNCHANGED <<scene, user, device, copy, otp, mail, handed, history>>

SocialUser(s) ==
  /\ At(s, "socialUser")
  /\ LET u == req[s].user
     IN IF user[u].here THEN Return(s) /\ UNCHANGED user
        ELSE user' = [user EXCEPT ![u] = NewAccount("old")] /\ Goto(s, "socialToken")
  /\ UNCHANGED <<scene, device, copy, otp, mail, handed, history>>

\* The token names the handset, for which there is no document.
SocialToken(s) ==
  /\ At(s, "socialToken")
  /\ tokens' = tokens \cup {<<req[s].user, 0>>}
  /\ Return(s)
  /\ UNCHANGED <<scene, user, device, copy, otp, mail, ids, refreshes, history>>

-----------------------------------------------------------------------------
(* Forgotten passwords: a link for everybody, a number for administrators.  Both *)
(* are kept in the same two fields. *)

\* sendResetPasswordLink: stored, then mailed.
ResetLinkStart(s, u) ==
  /\ Free(s, "resetLink") /\ user[u].here /\ NewCode \in Codes
  /\ Begin(s, [Call("storeLink", u) EXCEPT !.code = NewCode])
  /\ codes' = NewCode
  /\ UNCHANGED <<scene, user, device, copy, otp, mailed, expired, handed, history>>

StoreLink(s) ==
  /\ At(s, "storeLink")
  /\ user' = [user EXCEPT ![req[s].user].resetPasswordOTP = req[s].code]
  /\ Goto(s, "mailLink")
  /\ UNCHANGED <<scene, device, copy, otp, mail, handed, history>>

MailLink(s) ==
  /\ At(s, "mailLink")
  /\ mailed' = mailed \cup {req[s].code}
  /\ latest' = [latest EXCEPT ![req[s].user] = req[s].code]
  /\ Return(s)
  /\ UNCHANGED <<scene, user, device, copy, otp, codes, expired, handed, registered, proved,
                 loggedOut, changes, stale>>

\* sendOtpAdminReset: mailed, then stored.
AdminOtpStart(s, u) ==
  /\ Free(s, "adminOtp") /\ user[u].here /\ "admin" \in user[u].roles /\ NewCode \in Codes
  /\ Begin(s, [Call("storeOtp", u) EXCEPT !.code = NewCode])
  /\ codes' = NewCode /\ mailed' = mailed \cup {NewCode}
  /\ latest' = [latest EXCEPT ![u] = NewCode]
  /\ UNCHANGED <<scene, user, device, copy, otp, expired, handed, registered, proved,
                 loggedOut, changes, stale>>

StoreOtp(s) ==
  /\ At(s, "storeOtp")
  /\ user' = [user EXCEPT ![req[s].user].resetPasswordOTP = req[s].code]
  /\ Return(s)
  /\ UNCHANGED <<scene, device, copy, otp, mail, handed, history>>

ResetStart(s, u, c, p) ==
  /\ Free(s, "reset") /\ user[u].here /\ c \in mailed /\ Stored(u, c)
  /\ Begin(s, [Call("reset", u) EXCEPT !.code = c, !.word = p])
  /\ UNCHANGED <<scene, user, device, copy, otp, mail, handed, history>>

\* Mutant: the code is not unset.
ResetKeepsCode(s) ==
  /\ At(s, "reset")
  /\ LET h == req[s]
     IN /\ user' = [user EXCEPT ![h.user].password = h.word]
        /\ changes' = [changes EXCEPT ![h.code] = @ + 1]
        /\ stale' = (stale \/ h.code # latest[h.user])
  /\ Return(s)
  /\ UNCHANGED <<scene, device, copy, otp, mail, handed, registered, proved, loggedOut, latest>>

\* $set of the password and $unset of the code in one update.
Reset(s) ==
  /\ At(s, "reset")
  /\ LET h == req[s]
         With(doc) == [doc EXCEPT !.password = h.word, !.resetPasswordOTP = 0]
     IN /\ user' = SetUser(h.user, With)
        /\ changes' = [changes EXCEPT ![h.code] = @ + 1]
        /\ stale' = (stale \/ h.code # latest[h.user])
  /\ Return(s)
  /\ UNCHANGED <<scene, device, copy, otp, mail, handed, registered, proved, loggedOut, latest>>

\* The guards of the two routes are the same; that of the administrator does not
\* look at the roles.
ResetPasswordWithLink(s, u, c, p) == ResetStart(s, u, c, p)
VerifyOtpAdminReset(s, u, c, p) == ResetStart(s, u, c, p)

-----------------------------------------------------------------------------
(* Second factor and logout, for a user let in by the guard *)

\* generateTwoFactorSecret: also of a user whose second factor is on.
GenerateTwoFactorSecret(u, d, secret) ==
  /\ AtOnce("twoFactor") /\ Verified(u, d) /\ secret # user[u].twoFactorSecret
  /\ user' = [user EXCEPT ![u].twoFactorSecret = secret]
  /\ UNCHANGED <<scene, device, copy, otp, mail, handed, history>>

TurnOffTwoFactorAuth(u, d) ==
  /\ AtOnce("twoFactor") /\ Verified(u, d)
  /\ user' = [user EXCEPT ![u].isTwoFactorEnabled = FALSE, ![u].twoFactorSecret = "none"]
  /\ UNCHANGED <<scene, device, copy, otp, mail, handed, history>>

\* turnOnTwoFactorAuth: the code fits the secret that was read.
TurnOnStart(s, u, d) ==
  /\ Free(s, "twoFactor") /\ Verified(u, d) /\ user[u].twoFactorSecret # "none"
  /\ Begin(s, Call("turnOn", u))
  /\ UNCHANGED <<scene, user, device, copy, otp, mail, handed, history>>

TurnOn(s) ==
  /\ At(s, "turnOn")
  /\ user' = [user EXCEPT ![req[s].user].isTwoFactorEnabled = TRUE]
  /\ Return(s)
  /\ UNCHANGED <<scene, device, copy, otp, mail, handed, history>>

\* logOut: of this device, or with the password of all.
LogOutStart(s, u, d, all, p) ==
  /\ Free(s, IF all THEN "logoutAll" ELSE "logout") /\ Verified(u, d)
  /\ all => p = user[u].password
  /\ Begin(s, [Call("logOut", u) EXCEPT !.dev = d, !.all = all])
  /\ UNCHANGED <<scene, user, device, copy, otp, mail, handed, history>>

LogOut(s) ==
  /\ At(s, "logOut")
  /\ LET gone == IF req[s].all THEN DevicesOf(req[s].user) ELSE {req[s].dev}
     IN device' = Without(gone) /\ loggedOut' = loggedOut \cup gone
  /\ Return(s)
  /\ UNCHANGED <<scene, user, copy, otp, mail, handed, registered, proved, latest, changes, stale>>

-----------------------------------------------------------------------------
(* The routes of AuthController.  Links to reset a password are sent, and      *)
(* followed, by two routes each. *)

LoginRoutes(s) ==
  \E u \in Users, p \in Passwords, h \in Handsets :
    \/ \E remember \in BOOLEAN : LoginStart(s, u, p, h, remember)
    \/ RegisterStart(s, u, p, h)

SocialRoutes(s) == \E u \in Users : SocialStart(s, u)

LinkRoutes(s) ==
  \/ \E u \in Users : ResetLinkStart(s, u)
  \/ \E u \in Users, c \in mailed, p \in Passwords : ResetPasswordWithLink(s, u, c, p)

AdminResetRoutes(s) ==
  \/ \E u \in Users : AdminOtpStart(s, u)
  \/ \E u \in Users, c \in mailed, p \in Passwords : VerifyOtpAdminReset(s, u, c, p)

TwoFactorRoutes(s) ==
  \E t \in tokens :
    \/ TurnOnStart(s, t[1], t[2])
    \/ \E secret \in Secrets, h \in Handsets, remember \in BOOLEAN :
         AuthenticateTwoFactor(s, t[1], t[2], secret, h, remember)

OtpRoutes(s) ==
  \/ \E u \in Users : OtpRegisterStart(s, u)
  \/ \E u \in Users, c \in mailed : VerifyOtpStart(s, u, c)

LogOutRoute(s) ==
  \E t \in tokens, all \in BOOLEAN, p \in Passwords : LogOutStart(s, t[1], t[2], all, p)

SessionsStart(s) ==
  \/ LoginRoutes(s) \/ SocialRoutes(s) \/ LinkRoutes(s) \/ AdminResetRoutes(s)
  \/ TwoFactorRoutes(s) \/ OtpRoutes(s) \/ LogOutRoute(s)

SessionsAtOnce ==
  \/ \E t \in refreshes : RefreshAccessToken(t)
  \/ \E t \in tokens : \/ TurnOffTwoFactorAuth(t[1], t[2])
                       \/ \E secret \in Secrets : GenerateTwoFactorSecret(t[1], t[2], secret)

SessionsContinue(s) ==
  \/ FindDevice(s) \/ UpdateDevice(s) \/ CreateDevice(s) \/ KeepOtp(s) \/ VerifyOtp(s)
  \/ RegisterUser(s) \/ RegisterClear(s) \/ RegisterDevice(s) \/ RegisterDone(s)
  \/ SocialLookup(s) \/ SocialUser(s) \/ SocialToken(s) \/ StoreLink(s) \/ MailLink(s) \/ StoreOtp(s)
  \/ Reset(s) \/ TurnOn(s) \/ LogOut(s)
=============================================================================
