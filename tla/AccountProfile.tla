--------------------------- MODULE AccountProfile ---------------------------
(***************************************************************************)
(* What a user changes of the own account (ProfileService) and what the    *)
(* administrator changes of any (AdminPanelService).                       *)
(***************************************************************************)
EXTENDS AccountState

SetName(u, place, name) == copy' = [copy EXCEPT ![u][place].name = name]

\* updateMyName: the name in users, then the copies in the rooms of the others.
UpdateMyName(s, u, d, name) ==
  /\ Free(s, "name") /\ Verified(u, d)
  /\ Begin(s, [Call("nameRooms", u) EXCEPT !.word = name])
  /\ SetName(u, "users", name)
  /\ UNCHANGED <<scene, user, device, otp, mail, handed, history>>

NameRooms(s) ==
  /\ At(s, "nameRooms")
  /\ SetName(req[s].user, "room_member", req[s].word)
  /\ Goto(s, "nameGroups")
  /\ UNCHANGED <<scene, user, device, otp, mail, handed, history>>

\* Mutant: the copies in the groups are forgotten.
NameGroupsForgotten(s) ==
  /\ At(s, "nameGroups")
  /\ Goto(s, "nameBroadcasts")
  /\ UNCHANGED <<scene, user, device, copy, otp, mail, handed, history>>

NameGroups(s) ==
  /\ At(s, "nameGroups")
  /\ SetName(req[s].user, "group_member", req[s].word)
  /\ Goto(s, "nameBroadcasts")
  /\ UNCHANGED <<scene, user, device, otp, mail, handed, history>>

NameBroadcasts(s) ==
  /\ At(s, "nameBroadcasts")
  /\ SetName(req[s].user, "broadcast_member", req[s].word)
  /\ Return(s)
  /\ UNCHANGED <<scene, user, device, otp, mail, handed, history>>

\* updateMyImage: uploaded, then set in users and in room_member.  What it sets
\* in the other two collections is no field of theirs (userImages for userImage).
UpdateMyImage(s, u, d, image) ==
  /\ Free(s, "image") /\ Verified(u, d)
  /\ Begin(s, [Call("imageUsers", u) EXCEPT !.word = image])
  /\ UNCHANGED <<scene, user, device, copy, otp, mail, handed, history>>

ImageUsers(s) ==
  /\ At(s, "imageUsers")
  /\ copy' = [copy EXCEPT ![req[s].user]["users"].image = req[s].word]
  /\ Goto(s, "imageRooms")
  /\ UNCHANGED <<scene, user, device, otp, mail, handed, history>>

ImageRooms(s) ==
  /\ At(s, "imageRooms")
  /\ copy' = [copy EXCEPT ![req[s].user]["room_member"].image = req[s].word]
  /\ Return(s)
  /\ UNCHANGED <<scene, user, device, otp, mail, handed, history>>

-----------------------------------------------------------------------------
(* Single fields *)

Edit(u, d, fields) ==
  /\ AtOnce("edit") /\ Verified(u, d)
  /\ user' = [user EXCEPT ![u].edited = @ \cup fields]
  /\ UNCHANGED <<scene, device, copy, otp, mail, handed, history>>

UpdateMyBio(u, d) == Edit(u, d, {"bio"})
UpdateMyPhoneNumber(u, d) == Edit(u, d, {"phoneNumber"})
UpdateMyGender(u, d) == Edit(u, d, {"gender"})
UpdateMyLocation(u, d) == Edit(u, d, {"location"})
UpdateMyPayoutDetails(u, d) == Edit(u, d, {"payoutDetails"})
UpdateMyPrivacy(u, d) == Edit(u, d, {"userPrivacy"})
UpdateMyWorkLocation(u, d) == Edit(u, d, {"myLocations"})

\* updateMyDob: from the age of 18 on, which is then taken as verified.
UpdateMyDob(u, d) == Edit(u, d, {"dateOfBirth", "isAgeVerified"})

\* addPushKey and updateFcm, deleteFcmFor: of the device the request comes from.
UpdateFcm(u, d, push) ==
  /\ AtOnce("push") /\ Verified(u, d)
  /\ LET With(doc) == [doc EXCEPT !.push = push] IN device' = SetDevice(d, With)
  /\ UNCHANGED <<scene, user, copy, otp, mail, handed, history>>

-----------------------------------------------------------------------------
(* Password, devices, end of the account *)

\* updateMyPassword: the old one is compared with what was read.
UpdateMyPassword(s, u, d, old, new, logoutAll) ==
  /\ Free(s, "password") /\ Verified(u, d) /\ old = user[u].password
  /\ Begin(s, [Call("setPassword", u) EXCEPT !.dev = d, !.word = new, !.all = logoutAll])
  /\ UNCHANGED <<scene, user, device, copy, otp, mail, handed, history>>

SetPassword(s) ==
  /\ At(s, "setPassword")
  /\ user' = [user EXCEPT ![req[s].user].password = req[s].word]
  /\ IF req[s].all THEN Goto(s, "dropOthers") ELSE Return(s)
  /\ UNCHANGED <<scene, device, copy, otp, mail, handed, history>>

\* All devices of the user but this one.
DropOthers(s) ==
  /\ At(s, "dropOthers")
  /\ LET gone == DevicesOf(req[s].user) \ {req[s].dev}
     IN device' = Without(gone) /\ loggedOut' = loggedOut \cup gone
  /\ Return(s)
  /\ UNCHANGED <<scene, user, copy, otp, mail, handed, registered, proved, latest, changes, stale>>

\* deleteDevice: another one than this, whosever it is.
DeleteDevice(s, u, d, other, p) ==
  /\ Free(s, "dropDevice") /\ Verified(u, d) /\ other # d /\ Exists(other)
  /\ p = user[u].password
  /\ Begin(s, [Call("dropDevice", u) EXCEPT !.dev = other])
  /\ UNCHANGED <<scene, user, device, copy, otp, mail, handed, history>>

DropDevice(s) ==
  /\ At(s, "dropDevice")
  /\ device' = Without({req[s].dev}) /\ loggedOut' = loggedOut \cup {req[s].dev}
  /\ Return(s)
  /\ UNCHANGED <<scene, user, copy, otp, mail, handed, registered, proved, latest, changes, stale>>

\* deleteMyAccount: the documents stay.
DeleteMyAccount(s, u, d, p) ==
  /\ Free(s, "deleteAccount") /\ Verified(u, d) /\ p = user[u].password
  /\ Begin(s, Call("deleteAccount", u))
  /\ UNCHANGED <<scene, user, device, copy, otp, mail, handed, history>>

MarkDeleted(s) ==
  /\ At(s, "deleteAccount")
  /\ user' = [user EXCEPT ![req[s].user].deletedAt = TRUE]
  /\ Return(s)
  /\ UNCHANGED <<scene, device, copy, otp, mail, handed, history>>

-----------------------------------------------------------------------------
(* The administrator *)

Ban(u, banned) ==
  /\ AtOnce("ban") /\ user[u].here
  /\ user' = [user EXCEPT ![u].banTo = banned]
  /\ UNCHANGED <<scene, device, copy, otp, mail, handed, history>>

BanUser(u) == Ban(u, TRUE)
UnbanUser(u) == Ban(u, FALSE)

\* The roles are saved as they were read, with what is added or taken.
RolesStart(s, u, roles) ==
  /\ Free(s, "roles") /\ user[u].here
  /\ Begin(s, [Call("saveRoles", u) EXCEPT !.roles = roles])
  /\ UNCHANGED <<scene, user, device, copy, otp, mail, handed, history>>

UpdateUserRole(s, u, role) == RolesStart(s, u, user[u].roles \cup {role})
UpdateUserInfo(s, u, hasBadge) ==
  RolesStart(s, u, IF hasBadge THEN user[u].roles \cup {"hasBadge"}
                               ELSE user[u].roles \ {"hasBadge"})

\* Mutant: the badge is taken from the body of the request as it is.
SaveRolesRaw(s) ==
  /\ At(s, "saveRoles")
  /\ user' = [user EXCEPT ![req[s].user].roles = req[s].roles \cup {"badge"}]
  /\ Return(s)
  /\ UNCHANGED <<scene, device, copy, otp, mail, handed, history>>

SaveRoles(s) ==
  /\ At(s, "saveRoles")
  /\ user' = [user EXCEPT ![req[s].user].roles = req[s].roles]
  /\ Return(s)
  /\ UNCHANGED <<scene, device, copy, otp, mail, handed, history>>

-----------------------------------------------------------------------------
(* The routes of ProfileController, with the guard of a token that was handed *)
(* out, and those of AdminPanelController. *)

ProfileRoutes(s, u, d) ==
  \/ \E w \in Names : UpdateMyName(s, u, d, w)
  \/ \E other \in Devices, p \in Passwords : DeleteDevice(s, u, d, other, p)

PasswordRoutes(s, u, d) ==
  \/ \E old, new \in Passwords, all \in BOOLEAN : UpdateMyPassword(s, u, d, old, new, all)
  \/ \E w \in Names : UpdateMyImage(s, u, d, w)

EditRoutes(u, d) ==
  \/ UpdateMyBio(u, d) \/ UpdateMyPhoneNumber(u, d) \/ UpdateMyGender(u, d)
  \/ UpdateMyLocation(u, d) \/ UpdateMyPayoutDetails(u, d) \/ UpdateMyPrivacy(u, d)
  \/ UpdateMyWorkLocation(u, d) \/ UpdateMyDob(u, d)

\* addFcm and updateFcm keep a key, deleteFcm drops it.
PushRoutes(u, d) == \E push \in BOOLEAN : UpdateFcm(u, d, push)

DeleteAccountRoute(s, u, d) == \E p \in Passwords : DeleteMyAccount(s, u, d, p)

RoleRoutes(s) ==
  \E u \in Users : \/ \E role \in UserRoles : UpdateUserRole(s, u, role)
                   \/ \E hasBadge \in BOOLEAN : UpdateUserInfo(s, u, hasBadge)

BanRoutes == \E u \in Users : BanUser(u) \/ UnbanUser(u)

ProfileStart(s) ==
  \/ \E t \in tokens : \/ ProfileRoutes(s, t[1], t[2]) \/ PasswordRoutes(s, t[1], t[2])
                       \/ DeleteAccountRoute(s, t[1], t[2])
  \/ RoleRoutes(s)

ProfileAtOnce ==
  \/ \E t \in tokens : EditRoutes(t[1], t[2]) \/ PushRoutes(t[1], t[2])
  \/ BanRoutes

ProfileContinue(s) ==
  \/ NameRooms(s) \/ NameGroups(s) \/ NameBroadcasts(s) \/ ImageUsers(s) \/ ImageRooms(s)
  \/ SetPassword(s) \/ DropOthers(s) \/ DropDevice(s) \/ MarkDeleted(s) \/ SaveRoles(s)
=============================================================================
