------------------------------ MODULE Community ------------------------------
(***************************************************************************)
(* CommunityService: one community, whose members are an array in its      *)
(* document.  Every handler reads the document, checks and changes it in   *)
(* memory and saves it: mongoose then writes only what the handler has     *)
(* changed, and uses the version of the document (__v) as follows.         *)
(*   - an entry pushed to an array: appended, __v counted up, not checked; *)
(*   - a field of an entry: written at its index, provided __v is as read; *)
(*   - an array replaced: written provided __v is as read, __v counted up. *)
(***************************************************************************)
EXTENDS SocialState

CONSTANTS
  Limits,  \* values a client sends for maxMembers
  Groups   \* groups that may be added

ASSUME CommunityAssumption == Limits \subseteq Nat \ {0}

VARIABLES
  community,
  doubled,  \* history: somebody was added who was a member already
  exceeded, \* history: somebody was added to a full community
  dropped   \* history: the entries that were removed by the name of their user

history == <<doubled, exceeded, dropped>>
communityVars == <<community, history>>

Roles == {"ADMIN", "MEMBER"}
Statuses == {"ACTIVE", "PENDING", "REMOVED"}

\* maxMembers: 0 for null, no limit.  An entry has an id, in the order of the
\* array; seats is the number of ids given.
NoCommunity == [here |-> FALSE, members |-> {}, seats |-> 0, version |-> 0, maxMembers |-> 0,
                joinApprovalRequired |-> TRUE, groups |-> {}, cImg |-> FALSE]

CommunityInit ==
  community = NoCommunity /\ doubled = FALSE /\ exceeded = FALSE /\ dropped = {}

Entry(id, u, role, status) == [id |-> id, user |-> u, role |-> role, status |-> status]

EntriesOf(ms, u) == {m \in ms : m.user = u}
Admins(ms) == {m \in ms : m.role = "ADMIN"}

\* members.find: the first entry of the user.
First(ms, u) == CHOOSE m \in EntriesOf(ms, u) : \A e \in EntriesOf(ms, u) : m.id <= e.id

IsMember(u) == EntriesOf(community.members, u) # {}
IsCommunityAdmin(u) ==
  \E m \in EntriesOf(community.members, u) : m.role = "ADMIN" /\ m.status = "ACTIVE"
IsFull == community.maxMembers # 0 /\ Cardinality(community.members) >= community.maxMembers

-----------------------------------------------------------------------------
(* What a save writes *)

Saved(s, doc) ==
  /\ community' = doc
  /\ Return(s)

Unsaved(s) == community' = community /\ Return(s)

\* Mutant: a new entry takes the place of the last.
PushMemberOver(s) ==
  /\ At(s, "pushMember")
  /\ Saved(s, [community EXCEPT
       !.members = @ \cup {Entry(community.seats - 1, req[s].user, req[s].word, "ACTIVE")}])
  /\ UNCHANGED history

\* members.push and save.
PushMember(s) ==
  /\ At(s, "pushMember")
  /\ Saved(s, [community EXCEPT
       !.members = @ \cup {Entry(community.seats, req[s].user, req[s].word,
                                 IF req[s].flag THEN "PENDING" ELSE "ACTIVE")},
       !.seats = @ + 1, !.version = @ + 1])
  /\ doubled' = (doubled \/ IsMember(req[s].user))
  /\ exceeded' = (exceeded \/ IsFull)
  /\ UNCHANGED dropped

\* member.status = status and save: a VersionError if an array was changed since.
SaveStatus(s) ==
  /\ At(s, "saveStatus")
  /\ IF req[s].number = community.version
       THEN Saved(s, [community EXCEPT
              !.members = {IF m.id = req[s].id THEN [m EXCEPT !.status = req[s].word] ELSE m
                             : m \in community.members}])
       ELSE Unsaved(s)
  /\ UNCHANGED history

Remaining(s) == {m \in req[s].seen : m.user # req[s].other}

ReplaceMembers(s) ==
  /\ Saved(s, [community EXCEPT !.members = Remaining(s), !.version = @ + 1])
  /\ dropped' = dropped \cup {m.id : m \in EntriesOf(community.members, req[s].other)}
  /\ UNCHANGED <<doubled, exceeded>>

\* Mutant: the array is saved whatever has become of it.
SaveMembersUnversioned(s) == At(s, "saveMembers") /\ ReplaceMembers(s)

\* members = members.filter(...) and save, with the statuses as read.
SaveMembers(s) ==
  /\ At(s, "saveMembers")
  /\ IF req[s].number = community.version
       THEN ReplaceMembers(s)
       ELSE Unsaved(s) /\ UNCHANGED history

SaveSettings(s) ==
  /\ At(s, "saveSettings")
  /\ Saved(s, [community EXCEPT !.maxMembers = req[s].number,
                                !.joinApprovalRequired = req[s].flag])
  /\ UNCHANGED history

SaveImage(s) ==
  /\ At(s, "saveImage")
  /\ Saved(s, [community EXCEPT !.cImg = TRUE])
  /\ UNCHANGED history

\* groups.push and save; a group that was there already is not pushed.
SaveGroups(s) ==
  /\ At(s, "saveGroups")
  /\ Saved(s, [community EXCEPT !.groups = @ \cup req[s].seen, !.version = @ + 1])
  /\ UNCHANGED history

CommunityContinue(s) ==
  \/ PushMember(s) \/ SaveStatus(s) \/ SaveMembers(s)
  \/ SaveSettings(s) \/ SaveImage(s) \/ SaveGroups(s)

-----------------------------------------------------------------------------
(* The handlers, up to the save *)

CreateCommunity(u, limit, approval) ==
  /\ AtOnce("community") /\ ~community.here
  /\ community' = [NoCommunity EXCEPT
       !.here = TRUE, !.members = {Entry(0, u, "ADMIN", "ACTIVE")}, !.seats = 1,
       !.maxMembers = limit, !.joinApprovalRequired = approval]
  /\ UNCHANGED history

\* A handler of an ACTIVE administrator that has found the document.
ByAdmin(s, request, admin) ==
  /\ Free(s, request) /\ community.here /\ IsCommunityAdmin(admin)
  /\ UNCHANGED communityVars

AddMember(s, admin, u, role) ==
  /\ ByAdmin(s, "addMember", admin) /\ ~IsFull /\ ~IsMember(u)
  /\ Begin(s, [Call("pushMember", u) EXCEPT !.word = role])

JoinCommunity(s, u) ==
  /\ Free(s, "join") /\ community.here /\ ~IsFull /\ ~IsMember(u)
  /\ Begin(s, [Call("pushMember", u) EXCEPT !.word = "MEMBER",
                                           !.flag = community.joinApprovalRequired])
  /\ UNCHANGED communityVars

UpdateMemberStatus(s, admin, u, status) ==
  /\ ByAdmin(s, "status", admin) /\ IsMember(u)
  /\ LET member == First(community.members, u)
     IN /\ member.status # status  \* else there is nothing to save
        /\ Begin(s, [Call("saveStatus", admin) EXCEPT !.word = status, !.id = member.id,
                                                     !.number = community.version])

\* Mutant: no administrator is kept.
RemoveAnyMember(s, admin, u) ==
  /\ ByAdmin(s, "removeMember", admin) /\ IsMember(u)
  /\ Begin(s, [Call("saveMembers", admin) EXCEPT !.other = u, !.seen = community.members,
                                                !.number = community.version])

\* The last entry with the role of an administrator is kept, whatever the
\* status of the others.
RemoveMember(s, admin, u) ==
  /\ ByAdmin(s, "removeMember", admin) /\ IsMember(u)
  /\ First(community.members, u).role = "ADMIN" =>
       \E a, b \in Admins(community.members) : a.id # b.id
  /\ Begin(s, [Call("saveMembers", admin) EXCEPT !.other = u, !.seen = community.members,
                                                !.number = community.version])

UpdateCommunity(s, admin, limit, approval) ==
  /\ ByAdmin(s, "settings", admin)
  /\ Begin(s, [Call("saveSettings", admin) EXCEPT !.number = limit, !.flag = approval])

\* The image is uploaded first.  An administrator may be PENDING or REMOVED here.
UpdateImage(s, u) ==
  /\ Free(s, "cImg") /\ community.here /\ IsMember(u)
  /\ First(community.members, u).role = "ADMIN"
  /\ Begin(s, Call("saveImage", u))
  /\ UNCHANGED communityVars

AddGroup(s, admin, g) ==
  /\ ByAdmin(s, "group", admin) /\ g \notin community.groups
  /\ Begin(s, [Call("saveGroups", admin) EXCEPT !.seen = {g}])

CommunityStart(s) ==
  \E u \in Users :
    \/ JoinCommunity(s, u) \/ UpdateImage(s, u)
    \/ \E g \in Groups : AddGroup(s, u, g)
    \/ \E limit \in Limits, approval \in BOOLEAN : UpdateCommunity(s, u, limit, approval)
    \/ \E v \in Users :
         \/ RemoveMember(s, u, v)
         \/ \E role \in Roles : AddMember(s, u, v, role)
         \/ \E status \in Statuses : UpdateMemberStatus(s, u, v, status)

CommunityStep ==
  \/ \E s \in Slots : CommunityContinue(s) \/ CommunityStart(s)
  \/ \E u \in Users, limit \in Limits \cup {0}, approval \in BOOLEAN :
       CreateCommunity(u, limit, approval)

CommunityNext == CommunityStep \/ (Restart /\ UNCHANGED communityVars)

\* A behaviour that is about communities only.
CommunitySpec ==
  SocialInit /\ CommunityInit /\ [][CommunityNext]_<<social, communityVars>>

-----------------------------------------------------------------------------

\* However handlers overlap and wherever the process ends, who was added to a
\* community is a member until somebody removes that user: an array saved as it
\* was read loses nobody.  And a community keeps an entry with the role of an
\* administrator (removeMember: "Safeguard to prevent removing the last admin"),
\* as long as nobody was added twice, which takes two additions at once.
\* Without overlap nobody is added twice or beyond the limit.
MembersStay ==
  /\ \A i \in 0..(community.seats - 1) :
       i \in dropped \/ \E m \in community.members : m.id = i
  /\ community.here /\ ~doubled => Admins(community.members) # {}
  /\ ~overlapped => ~doubled /\ ~exceeded
=============================================================================
