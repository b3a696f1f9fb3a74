---------------------------- MODULE SocialProofs ----------------------------
(***************************************************************************)
(* Theorems about Social, for any number of users, handlers in progress,   *)
(* documents and restarts, and any limits.                                 *)
(*                                                                         *)
(* Each part has an invariant of its own, about its documents and about    *)
(* the handlers at its points of the code.  A step of a part touches the   *)
(* handlers at these points only (Touches), so the handlers of the others  *)
(* are spared and their invariants hold after it (the lemmas ...Rests).    *)
(* What the code guarantees without overlap is stated of a handler that is *)
(* alone, what it guarantees without restarts also counts what handlers in *)
(* progress have still to do (Attaching, Leaving, Opening, Put).           *)
(*                                                                         *)
(* MembersStay is not inductive: removeMember saves an array some time     *)
(* after it has read it.  What has to be known of such a handler is that   *)
(* the array it will save has an administrator, and that, unless the       *)
(* version has moved on, it has read the entries the document still has    *)
(* (HandlerRight).  Of a handler that is alone it has to be known that     *)
(* what it has checked still holds.                                        *)
(***************************************************************************)
EXTENDS Social, Sums, TLAPS

Entries == [id : Nat, user : Users, role : Roles, status : Statuses]

CommunityPcs ==
  {"pushMember", "saveStatus", "saveMembers", "saveSettings", "saveImage", "saveGroups"}

\* No two entries have one id, or one user.
Distinct(ms) == \A m, n \in ms : m.id = n.id => m = n
OnePerUser(ms) == \A m, n \in ms : m.user = n.user => m = n

\* Two arrays have the same entries but for roles and statuses.
SameEntries(ms, ns) ==
  /\ \A m \in ms : \E n \in ns : n.id = m.id /\ n.user = m.user
  /\ \A n \in ns : \E m \in ms : n.id = m.id /\ n.user = m.user

\* The members of a document that may be saved.
Sound(ms) ==
  /\ ms \subseteq Entries /\ \A m \in ms : m.id < community.seats
  /\ Distinct(ms) /\ (~doubled => OnePerUser(ms))

Documents ==
  [here : BOOLEAN, members : SUBSET Entries, seats : Nat, version : Nat,
   maxMembers : Limits \cup {0}, joinApprovalRequired : BOOLEAN, groups : SUBSET Groups, cImg : BOOLEAN]

\* What was removed had been added.
DroppedFits ==
  /\ \A i \in dropped : i \in Nat /\ i < community.seats
  /\ ~community.here => dropped = {}

CommunityTyped ==
  /\ req = [s \in Slots |-> req[s]]
  /\ community \in Documents
  /\ Sound(community.members)
  /\ DroppedFits
  /\ overlapped \in BOOLEAN /\ doubled \in BOOLEAN /\ exceeded \in BOOLEAN

HandlerRight(s) ==
  /\ req[s].pc \in CommunityPcs => community.here
  /\ req[s].pc = "pushMember" =>
       /\ req[s].user \in Users /\ req[s].word \in Roles
       /\ ~overlapped => ~IsMember(req[s].user) /\ ~IsFull
  /\ req[s].pc = "saveStatus" => req[s].word \in Statuses
  /\ req[s].pc = "saveSettings" => req[s].number \in Limits /\ req[s].flag \in BOOLEAN
  /\ req[s].pc = "saveGroups" => req[s].seen \subseteq Groups
  /\ req[s].pc = "saveMembers" =>
       /\ Sound(req[s].seen)
       /\ ~doubled => Admins(Remaining(s)) # {}
       /\ req[s].number \in Nat /\ req[s].number <= community.version
       /\ req[s].number = community.version => SameEntries(req[s].seen, community.members)

HandlersRight == \A s \in Slots : HandlerRight(s)

\* Handlers that do not overlap are one at a time.
Alone == ~overlapped => \A s, t \in InProgress : s = t

CommunityInv == CommunityTyped /\ HandlersRight /\ Alone /\ MembersStay

-----------------------------------------------------------------------------
(* What a handler in progress knows survives the steps of others *)

LEMMA StillRight ==
  ASSUME NEW s \in Slots, HandlerRight(s), req'[s] = req[s],
         UNCHANGED communityVars, ~overlapped' => ~overlapped
  PROVE  HandlerRight(s)'
BY DEF HandlerRight, communityVars, history, IsMember, EntriesOf, IsFull, Sound, Distinct,
       OnePerUser, SameEntries, Admins, Remaining

\* A handler begins: the others know what they knew.
LEMMA BeginRight ==
  ASSUME CommunityInv, NEW s \in Slots, req[s].pc = "idle", NEW h, Begin(s, h),
         UNCHANGED communityVars, HandlerRight(s)'
  PROVE  CommunityInv'
<1>1. /\ req'[s] = h
      /\ \A t \in Slots \ {s} : req'[t] = req[t]
      /\ req' = [t \in Slots |-> req'[t]]
      /\ overlapped' = (overlapped \/ ~Quiet)
  BY DEF CommunityInv, CommunityTyped, Begin, Counted
<1>2. CommunityTyped'
  BY <1>1 DEF CommunityInv, CommunityTyped, DroppedFits, communityVars, history, Sound, Distinct,
              OnePerUser
<1>3. HandlersRight'
  BY <1>1, StillRight DEF CommunityInv, HandlersRight, CommunityTyped
<1>4. Alone'
  BY ZenonT(60), <1>1 DEF CommunityInv, Alone, InProgress, Quiet
<1>5. MembersStay'
  BY <1>1 DEF CommunityInv, MembersStay, communityVars, history, Admins, CommunityTyped
<1>. QED
  BY <1>2, <1>3, <1>4, <1>5 DEF CommunityInv

\* A handler ends: what is left to show is about the community.
LEMMA ReturnAlone ==
  ASSUME CommunityInv, NEW s \in Slots, Return(s)
  PROVE  /\ req'[s] = Idle
         /\ \A t \in Slots \ {s} : req'[t] = req[t]
         /\ req' = [t \in Slots |-> req'[t]]
         /\ overlapped' = overlapped
         /\ Alone'
         /\ HandlerRight(s)'
<1>1. /\ req'[s] = Idle
      /\ \A t \in Slots \ {s} : req'[t] = req[t]
      /\ req' = [t \in Slots |-> req'[t]]
      /\ overlapped' = overlapped
  BY DEF CommunityInv, CommunityTyped, Return, Resume, process
<1>2. Idle.pc = "idle"
  BY DEF Idle
<1>3. Alone'
  BY <1>1, <1>2 DEF CommunityInv, Alone, InProgress
<1>4. HandlerRight(s)'
  BY <1>1, <1>2 DEF HandlerRight, CommunityPcs
<1>. QED
  BY <1>1, <1>3, <1>4

-----------------------------------------------------------------------------
(* The handlers, up to the save *)

\* What the code looks for is an entry of the user, if there is one.
LEMMA FirstIs ==
  ASSUME NEW ms, ms \subseteq Entries, OnePerUser(ms), NEW u, EntriesOf(ms, u) # {}
  PROVE  First(ms, u) \in EntriesOf(ms, u)
<1>1. PICK m \in EntriesOf(ms, u) : TRUE
  OBVIOUS
<1>2. m.id \in Nat
  BY <1>1 DEF EntriesOf, Entries
<1>3. \A e \in EntriesOf(ms, u) : m.id <= e.id
  BY <1>1, <1>2 DEF EntriesOf, OnePerUser
<1>. QED
  BY <1>1, <1>3 DEF First

\* The guard of removeMember: without the entries of the user there is still an
\* entry with the role of an administrator.
LEMMA AdminRemains ==
  ASSUME NEW ms, ms \subseteq Entries, OnePerUser(ms), NEW u, NEW admin,
         EntriesOf(ms, u) # {}, \E m \in EntriesOf(ms, admin) : m.role = "ADMIN",
         First(ms, u).role = "ADMIN" => \E a, b \in Admins(ms) : a.id # b.id
  PROVE  Admins({m \in ms : m.user # u}) # {}
<1>1. First(ms, u) \in ms /\ First(ms, u).user = u
  BY FirstIs DEF EntriesOf
<1>2. CASE First(ms, u).role = "ADMIN"
  <2>1. PICK a \in Admins(ms), b \in Admins(ms) : a.id # b.id
    BY <1>2
  <2>2. a \in ms /\ b \in ms /\ a.role = "ADMIN" /\ b.role = "ADMIN" /\ a # b
    BY <2>1 DEF Admins
  <2>3. a.user # u \/ b.user # u
    BY <1>1, <2>2 DEF OnePerUser
  <2>. QED
    BY <2>2, <2>3 DEF Admins
<1>3. CASE First(ms, u).role # "ADMIN"
  <2>1. PICK m \in ms : m.user = admin /\ m.role = "ADMIN"
    BY DEF EntriesOf
  <2>2. m.user # u
    BY <1>1, <1>3, <2>1 DEF OnePerUser
  <2>. QED
    BY <2>1, <2>2 DEF Admins
<1>. QED
  BY <1>2, <1>3

LEMMA SlotIsIdle ==
  ASSUME NEW s \in Slots, NEW request, Free(s, request)
  PROVE  req[s].pc = "idle"
<1>1. \E t \in Slots \ InProgress : TRUE
  BY DEF Free, InProgress
<1>2. s \in Slots \ InProgress
  BY <1>1 DEF Free
<1>. QED
  BY <1>2 DEF InProgress

\* A handler that begins alone still finds what it has checked.
LEMMA AddedRight ==
  ASSUME CommunityInv, NEW s \in Slots, NEW u \in Users, NEW role \in Roles, NEW h,
         Begin(s, h), h.pc = "pushMember", h.user = u, h.word = role,
         community.here, ~IsMember(u), ~IsFull, UNCHANGED communityVars
  PROVE  HandlerRight(s)'
<1>1. req'[s].pc = "pushMember" /\ req'[s].user = u /\ req'[s].word = role
  BY DEF CommunityInv, CommunityTyped, Begin
<1>2. ~IsMember(u)' /\ ~IsFull'
  BY DEF communityVars, IsMember, EntriesOf, IsFull
<1>. QED
  BY <1>1, <1>2 DEF HandlerRight, communityVars, IsMember

LEMMA StartKeeps ==
  ASSUME CommunityInv, NEW s \in Slots, CommunityStart(s), CommunityAssumption
  PROVE  CommunityInv'
<1>. PICK u \in Users : 
       \/ JoinCommunity(s, u) \/ UpdateImage(s, u)
       \/ \E g \in Groups : AddGroup(s, u, g)
       \/ \E limit \in Limits, approval \in BOOLEAN : UpdateCommunity(s, u, limit, approval)
       \/ \E v \in Users :
            \/ RemoveMember(s, u, v)
            \/ \E role \in Roles : AddMember(s, u, v, role)
            \/ \E status \in Statuses : UpdateMemberStatus(s, u, v, status)
  BY DEF CommunityStart
<1>. DEFINE begins(h) == Begin(s, h) /\ req[s].pc = "idle" /\ UNCHANGED communityVars
<1>0. Sound(community.members) /\ DOMAIN req = Slots
  BY DEF CommunityInv, CommunityTyped
<1>1. CASE JoinCommunity(s, u)
  <2>. DEFINE h == [Call("pushMember", u) EXCEPT !.word = "MEMBER",
                                                 !.flag = community.joinApprovalRequired]
  <2>1. begins(h) /\ community.here /\ ~IsMember(u) /\ ~IsFull
    BY <1>1, SlotIsIdle DEF JoinCommunity
  <2>2. "MEMBER" \in Roles /\ h.pc = "pushMember" /\ h.user = u /\ h.word = "MEMBER"
    BY DEF Roles, Call, Idle
  <2>3. HandlerRight(s)'
    BY <2>1, <2>2, AddedRight
  <2>. QED
    BY <2>1, <2>3, BeginRight
<1>2. CASE UpdateImage(s, u)
  <2>. DEFINE h == Call("saveImage", u)
  <2>1. begins(h) /\ community.here
    BY <1>2, SlotIsIdle DEF UpdateImage
  <2>2. req'[s].pc = "saveImage" /\ community' = community
    BY <1>0, <2>1 DEF Begin, Call, Idle, communityVars
  <2>3. HandlerRight(s)'
    BY <2>1, <2>2 DEF HandlerRight
  <2>. QED
    BY <2>1, <2>3, BeginRight
<1>3. ASSUME NEW g \in Groups, AddGroup(s, u, g) PROVE CommunityInv'
  <2>. DEFINE h == [Call("saveGroups", u) EXCEPT !.seen = {g}]
  <2>1. begins(h) /\ community.here
    BY <1>3, SlotIsIdle DEF AddGroup, ByAdmin
  <2>2. req'[s].pc = "saveGroups" /\ req'[s].seen = {g} /\ community' = community
    BY <1>0, <2>1 DEF Begin, Call, Idle, communityVars
  <2>3. HandlerRight(s)'
    BY <2>1, <2>2 DEF HandlerRight
  <2>. QED
    BY <2>1, <2>3, BeginRight
<1>4. ASSUME NEW limit \in Limits, NEW approval \in BOOLEAN,
             UpdateCommunity(s, u, limit, approval)
      PROVE CommunityInv'
  <2>. DEFINE h == [Call("saveSettings", u) EXCEPT !.number = limit, !.flag = approval]
  <2>1. begins(h) /\ community.here
    BY <1>4, SlotIsIdle DEF UpdateCommunity, ByAdmin
  <2>2. /\ req'[s].pc = "saveSettings" /\ req'[s].number = limit /\ req'[s].flag = approval
        /\ community' = community
    BY <1>0, <2>1 DEF Begin, Call, Idle, communityVars
  <2>3. HandlerRight(s)'
    BY <2>1, <2>2 DEF HandlerRight, CommunityAssumption
  <2>. QED
    BY <2>1, <2>3, BeginRight
<1>5. ASSUME NEW v \in Users, RemoveMember(s, u, v) PROVE CommunityInv'
  <2>. DEFINE h == [Call("saveMembers", u) EXCEPT !.other = v, !.seen = community.members,
                                                  !.number = community.version]
  <2>1. /\ begins(h) /\ community.here /\ IsCommunityAdmin(u) /\ IsMember(v)
        /\ First(community.members, v).role = "ADMIN" =>
             \E a, b \in Admins(community.members) : a.id # b.id
    BY <1>5, SlotIsIdle DEF RemoveMember, ByAdmin
  <2>2. /\ req'[s].pc = "saveMembers" /\ req'[s].seen = community.members
        /\ req'[s].other = v /\ req'[s].number = community.version
        /\ community' = community /\ doubled' = doubled
    BY <1>0, <2>1 DEF Begin, Call, Idle, communityVars, history
  <2>3. ~doubled => Admins({m \in community.members : m.user # v}) # {}
    BY <1>0, <2>1, AdminRemains DEF Sound, IsCommunityAdmin, IsMember
  <2>4. (~doubled => Admins(Remaining(s)) # {})'
    BY <2>2, <2>3 DEF Remaining, Admins
  <2>5. Sound(req[s].seen)'
    BY <1>0, <2>2 DEF Sound, Distinct, OnePerUser
  <2>6. community.version \in Nat /\ SameEntries(req[s].seen, community.members)'
    BY <2>2 DEF CommunityInv, CommunityTyped, Documents, SameEntries
  <2>7. HandlerRight(s)'
    BY <2>1, <2>2, <2>4, <2>5, <2>6 DEF HandlerRight
  <2>. QED
    BY <2>1, <2>7, BeginRight
<1>6. ASSUME NEW v \in Users, NEW role \in Roles, AddMember(s, u, v, role) PROVE CommunityInv'
  <2>. DEFINE h == [Call("pushMember", v) EXCEPT !.word = role]
  <2>1. begins(h) /\ community.here /\ ~IsMember(v) /\ ~IsFull
    BY <1>6, SlotIsIdle DEF AddMember, ByAdmin
  <2>2. h.pc = "pushMember" /\ h.user = v /\ h.word = role
    BY DEF Call, Idle
  <2>3. HandlerRight(s)'
    BY <2>1, <2>2, AddedRight
  <2>. QED
    BY <2>1, <2>3, BeginRight
<1>7. ASSUME NEW v \in Users, NEW status \in Statuses, UpdateMemberStatus(s, u, v, status)
      PROVE CommunityInv'
  <2>. DEFINE found == First(community.members, v)
              h == [Call("saveStatus", u) EXCEPT !.word = status, !.id = found.id,
                                                 !.number = community.version]
  <2>1. begins(h) /\ community.here
    BY <1>7, SlotIsIdle DEF UpdateMemberStatus, ByAdmin
  <2>2. req'[s].pc = "saveStatus" /\ req'[s].word = status /\ community' = community
    BY <1>0, <2>1 DEF Begin, Call, Idle, communityVars
  <2>3. HandlerRight(s)'
    BY <2>1, <2>2 DEF HandlerRight
  <2>. QED
    BY <2>1, <2>3, BeginRight
<1>. QED
  BY <1>1, <1>2, <1>3, <1>4, <1>5, <1>6, <1>7

-----------------------------------------------------------------------------
(* What a save writes *)

\* Who has not saved yet keeps what it knows, if the document has not moved on
\* or has moved on in a way the version shows.
LEMMA OthersRight ==
  ASSUME CommunityInv, NEW s \in Slots, req[s].pc # "idle", Return(s),
         community'.here = community.here,
         community'.seats \in Nat, community'.version \in Nat,
         community'.seats >= community.seats, community'.version >= community.version,
         community'.version = community.version =>
           \A ms : SameEntries(ms, community.members) => SameEntries(ms, community'.members),
         ~doubled' => ~doubled
  PROVE  HandlersRight'
<1>. SUFFICES ASSUME NEW t \in Slots PROVE HandlerRight(t)'
  BY DEF HandlersRight
<1>1. CASE t = s
  BY <1>1, ReturnAlone
<1>2. CASE t # s
  <2>1. req'[t] = req[t] /\ overlapped' = overlapped /\ HandlerRight(t)
    BY <1>2, ReturnAlone DEF CommunityInv, HandlersRight
  <2>2. req[t].pc # "idle" => overlapped
    BY <1>2 DEF CommunityInv, Alone, InProgress
  <2>3. Sound(req[t].seen) => Sound(req[t].seen)'
    <3>. SUFFICES ASSUME Sound(req[t].seen) PROVE Sound(req[t].seen)'
      OBVIOUS
    <3>1. \A m \in req[t].seen : m.id \in Nat /\ m.id < community.seats
      BY DEF Sound, Entries
    <3>2. community.seats \in Nat
      BY DEF CommunityInv, CommunityTyped, Documents
    <3>3. \A m \in req[t].seen : m.id < community'.seats
      BY <3>1, <3>2
    <3>. QED
      BY <2>1, <3>3 DEF Sound, Distinct, OnePerUser
  <2>4. (~doubled => Admins(Remaining(t)) # {}) => (~doubled => Admins(Remaining(t)) # {})'
    BY <2>1 DEF Admins, Remaining
  <2>5. CASE req[t].pc = "saveMembers"
    <3>1. /\ Sound(req[t].seen) /\ (~doubled => Admins(Remaining(t)) # {})
          /\ req[t].number \in Nat /\ req[t].number <= community.version
          /\ req[t].number = community.version => SameEntries(req[t].seen, community.members)
          /\ community.here /\ community.version \in Nat
      BY <2>1, <2>5 DEF HandlerRight, CommunityPcs, CommunityInv, CommunityTyped, Documents
    <3>2. req[t].number <= community'.version
      BY <3>1
    <3>3. ASSUME req[t].number = community'.version
          PROVE  SameEntries(req[t].seen, community'.members)
      BY <3>1, <3>3
    <3>4. (req[t].number = community.version =>
             SameEntries(req[t].seen, community.members))'
      BY <2>1, <3>3 DEF SameEntries
    <3>. QED
      BY <2>1, <2>3, <2>4, <2>5, <3>1, <3>2, <3>4 DEF HandlerRight
  <2>6. CASE req[t].pc # "saveMembers"
    BY <2>1, <2>2, <2>6 DEF HandlerRight
  <2>. QED
    BY <2>5, <2>6
<1>. QED
  BY <1>1, <1>2

\* A save that leaves the members alone.
LEMMA MembersUntouched ==
  ASSUME CommunityInv, NEW s \in Slots, req[s].pc # "idle", Return(s), UNCHANGED history,
         community' \in Documents,
         community'.here = community.here, community'.members = community.members,
         community'.seats = community.seats, community'.version >= community.version
  PROVE  CommunityInv'
<1>1. /\ community.seats \in Nat /\ community'.seats \in Nat /\ community'.version \in Nat
      /\ community'.seats >= community.seats
  BY DEF CommunityInv, CommunityTyped, Documents
<1>2. /\ doubled' = doubled
      /\ \A ms : SameEntries(ms, community.members) => SameEntries(ms, community'.members)
  BY DEF history, SameEntries
<1>3. HandlersRight'
  BY <1>1, <1>2, OthersRight
<1>4. CommunityTyped'
  BY ReturnAlone DEF CommunityInv, CommunityTyped, DroppedFits, Documents, history, Sound,
                     Distinct, OnePerUser
<1>5. MembersStay'
  BY ReturnAlone DEF CommunityInv, MembersStay, history, Admins
<1>. QED
  BY <1>3, <1>4, <1>5, ReturnAlone DEF CommunityInv

\* PushMember: the new entry has the next id; it doubles a member, or does not.
LEMMA PushKeeps ==
  ASSUME CommunityInv, NEW s \in Slots, PushMember(s)
  PROVE  CommunityInv'
<1>. DEFINE new == Entry(community.seats, req[s].user, req[s].word,
                         IF req[s].flag THEN "PENDING" ELSE "ACTIVE")
<1>1. /\ Return(s) /\ req[s].pc = "pushMember" /\ req[s].pc # "idle"
      /\ req[s].user \in Users /\ req[s].word \in Roles /\ community.here
      /\ ~overlapped => ~IsMember(req[s].user) /\ ~IsFull
  BY DEF PushMember, Saved, At, CommunityInv, HandlersRight, HandlerRight, CommunityPcs
<1>2. /\ community.seats \in Nat /\ community.version \in Nat
      /\ community.members \subseteq Entries
      /\ \A m \in community.members : m.id < community.seats /\ m.id \in Nat
      /\ Distinct(community.members) /\ (~doubled => OnePerUser(community.members))
  BY DEF CommunityInv, CommunityTyped, Documents, Sound, Entries
<1>3. /\ community' = [community EXCEPT !.members = community.members \cup {new},
                         !.seats = community.seats + 1, !.version = community.version + 1]
      /\ doubled' = (doubled \/ IsMember(req[s].user))
      /\ exceeded' = (exceeded \/ IsFull)
      /\ dropped' = dropped
  BY DEF PushMember, Saved
<1>4. /\ community'.members = community.members \cup {new}
      /\ community'.seats = community.seats + 1
      /\ community'.version = community.version + 1
      /\ community'.here = community.here
  BY <1>3 DEF CommunityInv, CommunityTyped
<1>5. new \in Entries /\ new.id = community.seats /\ new.user = req[s].user
  BY <1>1, <1>2 DEF Entry, Entries, Statuses
<1>6. HandlersRight'
  <2>1. /\ community'.version # community.version /\ community'.version >= community.version
        /\ community'.seats >= community.seats
        /\ community'.version \in Nat /\ community'.seats \in Nat
    BY <1>2, <1>4
  <2>2. ~doubled' => ~doubled
    BY <1>3
  <2>. QED
    BY <1>1, <1>4, <2>1, <2>2, OthersRight
<1>7. Sound(community.members)'
  <2>1. community'.members \subseteq Entries
    BY <1>2, <1>4, <1>5
  <2>2. \A m \in community'.members : m.id < community'.seats
    BY <1>2, <1>4, <1>5
  <2>3. Distinct(community'.members)
    BY <1>2, <1>4, <1>5 DEF Distinct
  <2>4. ASSUME ~doubled' PROVE OnePerUser(community'.members)
    <3>1. ~doubled /\ ~IsMember(req[s].user)
      BY <1>3, <2>4
    <3>2. OnePerUser(community.members) /\ \A m \in community.members : m.user # new.user
      BY <1>2, <1>5, <3>1 DEF IsMember, EntriesOf
    <3>3. community'.members = community.members \cup {new}
      BY <1>4
    <3>. HIDE DEF new
    <3>. QED
      BY <3>2, <3>3 DEF OnePerUser
  <2>. QED
    BY <2>1, <2>2, <2>3, <2>4 DEF Sound, Distinct, OnePerUser
<1>8. CommunityTyped'
  <2>1. doubled' \in BOOLEAN /\ exceeded' \in BOOLEAN
    BY <1>3 DEF CommunityInv, CommunityTyped, IsMember, IsFull
  <2>2. community' \in Documents
    <3>1. community \in Documents /\ community.members \cup {new} \in SUBSET Entries
      BY <1>2, <1>5 DEF CommunityInv, CommunityTyped
    <3>2. community.seats + 1 \in Nat /\ community.version + 1 \in Nat
      BY <1>2
    <3>. HIDE DEF new
    <3>. QED
      BY <1>3, <3>1, <3>2 DEF Documents
  <2>3. DroppedFits'
    BY <1>1, <1>2, <1>3, <1>4 DEF CommunityInv, CommunityTyped, DroppedFits
  <2>. QED
    BY <1>1, <1>7, <2>1, <2>2, <2>3, ReturnAlone DEF CommunityInv, CommunityTyped
<1>9. MembersStay'
  <2>1. \A i \in 0..(community'.seats - 1) :
           i \in dropped' \/ \E m \in community'.members : m.id = i
    <3>. SUFFICES ASSUME NEW i \in 0..community.seats
                  PROVE  i \in dropped \/ \E m \in community'.members : m.id = i
      BY <1>2, <1>3, <1>4
    <3>1. CASE i = community.seats
      BY <3>1, <1>4, <1>5
    <3>2. CASE i \in 0..(community.seats - 1)
      BY <3>2, <1>4 DEF CommunityInv, MembersStay
    <3>. QED
      BY <3>1, <3>2, <1>2
  <2>2. community'.here /\ ~doubled' => Admins(community'.members) # {}
    BY <1>3, <1>4 DEF CommunityInv, MembersStay, Admins
  <2>3. ~overlapped' => ~doubled' /\ ~exceeded'
    BY <1>1, <1>3, ReturnAlone DEF CommunityInv, MembersStay
  <2>. QED
    BY <2>1, <2>2, <2>3 DEF MembersStay, Admins
<1>. QED
  BY <1>1, <1>6, <1>8, <1>9, ReturnAlone DEF CommunityInv

\* SaveStatus: the entries keep their ids, users and roles.
LEMMA StatusKeeps ==
  ASSUME CommunityInv, NEW s \in Slots, SaveStatus(s)
  PROVE  CommunityInv'
<1>. DEFINE ms == community.members
            changed(m) == IF m.id = req[s].id THEN [m EXCEPT !.status = req[s].word] ELSE m
<1>1. /\ Return(s) /\ req[s].pc = "saveStatus" /\ req[s].pc # "idle"
      /\ req[s].word \in Statuses /\ UNCHANGED history
  BY DEF SaveStatus, Saved, Unsaved, At, CommunityInv, HandlersRight, HandlerRight
<1>2. CASE req[s].number # community.version
  BY <1>1, <1>2, MembersUntouched DEF SaveStatus, Unsaved, CommunityInv, CommunityTyped, Documents
<1>3. CASE req[s].number = community.version
  <2>1. community' = [community EXCEPT !.members = {changed(m) : m \in ms}]
    BY <1>3 DEF SaveStatus, Saved
  <2>2. /\ community'.members = {changed(m) : m \in ms}
        /\ community'.seats = community.seats /\ community.seats \in Nat
        /\ community'.version = community.version /\ community.version \in Nat
        /\ community'.here = community.here
        /\ Sound(ms)
    BY <2>1 DEF CommunityInv, CommunityTyped, Documents
  <2>3. \A m \in ms : /\ changed(m) \in Entries /\ changed(m).id = m.id
                      /\ changed(m).user = m.user /\ changed(m).role = m.role
    BY <1>1, <2>2 DEF Sound, Entries
  <2>4. /\ \A n \in community'.members : \E m \in ms : n = changed(m)
        /\ \A m \in ms : changed(m) \in community'.members
    BY <2>2
  <2>. HIDE DEF changed
  <2>5. \A as : SameEntries(as, ms) => SameEntries(as, community'.members)
    <3>. SUFFICES ASSUME NEW as, SameEntries(as, ms) PROVE SameEntries(as, community'.members)
      OBVIOUS
    <3>1. ASSUME NEW m \in as
          PROVE  \E n \in community'.members : n.id = m.id /\ n.user = m.user
      <4>1. PICK n \in ms : n.id = m.id /\ n.user = m.user
        BY DEF SameEntries
      <4>. QED
        BY <4>1, <2>3, <2>4
    <3>2. ASSUME NEW n \in community'.members
          PROVE  \E m \in as : n.id = m.id /\ n.user = m.user
      <4>1. PICK k \in ms : n = changed(k)
        BY <2>4
      <4>2. PICK m \in as : k.id = m.id /\ k.user = m.user
        BY DEF SameEntries
      <4>. QED
        BY <4>1, <4>2, <2>3
    <3>. QED
      BY <3>1, <3>2 DEF SameEntries
  <2>6. HandlersRight'
    BY <1>1, <2>2, <2>5, OthersRight DEF history
  <2>7. Sound(community.members)'
    <3>1. community'.members \subseteq Entries
      BY <2>3, <2>4
    <3>2. \A n \in community'.members : n.id < community'.seats
      BY <2>2, <2>3, <2>4 DEF Sound
    <3>3. Distinct(community'.members)
      BY <2>2, <2>3, <2>4 DEF Sound, Distinct
    <3>4. ~doubled => OnePerUser(community'.members)
      BY <2>2, <2>3, <2>4 DEF Sound, OnePerUser
    <3>. QED
      BY <1>1, <3>1, <3>2, <3>3, <3>4 DEF Sound, Distinct, OnePerUser, history
  <2>8. CommunityTyped'
    <3>1. community' \in Documents
      BY <2>1, <2>3 DEF CommunityInv, CommunityTyped, Documents
    <3>2. DroppedFits'
      BY <1>1, <2>2 DEF CommunityInv, CommunityTyped, DroppedFits, history
    <3>. QED
      BY <1>1, <2>7, <3>1, <3>2, ReturnAlone DEF CommunityInv, CommunityTyped, history
  <2>9. MembersStay'
    <3>1. \A m \in ms : \E n \in community'.members : n.id = m.id /\ n.role = m.role
      BY <2>3, <2>4
    <3>2. Admins(ms) # {} => Admins(community'.members) # {}
      BY <3>1 DEF Admins
    <3>3. \A i \in 0..(community.seats - 1) :
             i \in dropped \/ \E n \in community'.members : n.id = i
      BY <3>1 DEF CommunityInv, MembersStay
    <3>. QED
      BY <1>1, <2>2, <3>2, <3>3, ReturnAlone DEF CommunityInv, MembersStay, history, Admins
  <2>. QED
    BY <1>1, <2>6, <2>8, <2>9, ReturnAlone DEF CommunityInv
<1>. QED
  BY <1>2, <1>3

\* SaveMembers: what is saved was read in this version, so that nobody is lost.
LEMMA RemovalKeeps ==
  ASSUME CommunityInv, NEW s \in Slots, SaveMembers(s)
  PROVE  CommunityInv'
<1>. DEFINE ms == community.members
<1>1. /\ Return(s) /\ req[s].pc = "saveMembers" /\ req[s].pc # "idle" /\ community.here
      /\ Sound(req[s].seen) /\ (~doubled => Admins(Remaining(s)) # {})
      /\ req[s].number = community.version => SameEntries(req[s].seen, ms)
  BY DEF SaveMembers, ReplaceMembers, Saved, Unsaved, At, CommunityInv, HandlersRight, HandlerRight,
         CommunityPcs
<1>2. CASE req[s].number # community.version
  <2>1. community' = community /\ UNCHANGED history /\ community \in Documents
    BY <1>2 DEF SaveMembers, Unsaved, CommunityInv, CommunityTyped
  <2>2. community.version >= community.version
    BY <2>1 DEF Documents
  <2>3. /\ community' \in Documents
        /\ community'.here = community.here /\ community'.members = community.members
        /\ community'.seats = community.seats /\ community'.version >= community.version
    BY <2>1, <2>2
  <2>. QED
    BY <1>1, <2>1, <2>3, MembersUntouched
<1>3. CASE req[s].number = community.version
  <2>1. /\ community' = [community EXCEPT !.members = Remaining(s),
                                          !.version = community.version + 1]
        /\ dropped' = dropped \cup {m.id : m \in EntriesOf(ms, req[s].other)}
        /\ doubled' = doubled /\ exceeded' = exceeded
    BY <1>3 DEF SaveMembers, ReplaceMembers, Saved
  <2>2. /\ community'.members = Remaining(s)
        /\ community'.seats = community.seats /\ community.seats \in Nat
        /\ community'.version = community.version + 1 /\ community.version \in Nat
        /\ community'.here = community.here
    BY <2>1 DEF CommunityInv, CommunityTyped, Documents
  <2>3. Remaining(s) \subseteq req[s].seen
    BY DEF Remaining
  <2>4. HandlersRight'
    <3>1. /\ community'.version # community.version /\ community'.version >= community.version
          /\ community'.seats >= community.seats
          /\ community'.version \in Nat /\ community'.seats \in Nat
      BY <2>2
    <3>2. ~doubled' => ~doubled
      BY <2>1
    <3>. QED
      BY <1>1, <2>2, <3>1, <3>2, OthersRight
  <2>5. Sound(community.members)'
    BY <1>1, <2>1, <2>2, <2>3 DEF Sound, Distinct, OnePerUser
  <2>6. CommunityTyped'
    <3>1. community' \in Documents
      <4>1. community \in Documents
        BY DEF CommunityInv, CommunityTyped
      <4>2. Remaining(s) \in SUBSET Entries
        BY <1>1, <2>3 DEF Sound
      <4>3. community.version + 1 \in Nat
        BY <2>2
      <4>. QED
        BY <2>1, <4>1, <4>2, <4>3 DEF Documents
    <3>2. DroppedFits'
      <4>1. \A m \in ms : m.id \in Nat /\ m.id < community.seats
        BY DEF CommunityInv, CommunityTyped, Sound, Entries
      <4>2. \A i \in dropped : i \in Nat /\ i < community.seats
        BY DEF CommunityInv, CommunityTyped, DroppedFits
      <4>3. \A i \in dropped' : i \in Nat /\ i < community'.seats
        BY <2>1, <2>2, <4>1, <4>2 DEF EntriesOf
      <4>. QED
        BY <1>1, <2>2, <4>3 DEF DroppedFits
    <3>. QED
      BY <1>1, <2>1, <2>5, <3>1, <3>2, ReturnAlone DEF CommunityInv, CommunityTyped
  <2>7. \A i \in 0..(community.seats - 1) :
           i \in dropped' \/ \E m \in community'.members : m.id = i
    <3>. SUFFICES ASSUME NEW i \in 0..(community.seats - 1), i \notin dropped
                  PROVE  i \in dropped' \/ \E m \in community'.members : m.id = i
      BY <2>1
    <3>1. PICK n \in ms : n.id = i
      BY DEF CommunityInv, MembersStay
    <3>2. PICK m \in req[s].seen : m.id = i /\ m.user = n.user
      BY <1>1, <1>3, <3>1 DEF SameEntries
    <3>3. CASE n.user = req[s].other
      BY <3>1, <3>3, <2>1 DEF EntriesOf
    <3>4. CASE n.user # req[s].other
      BY <3>2, <3>4, <2>2 DEF Remaining
    <3>. QED
      BY <3>3, <3>4
  <2>8. ~doubled' => Admins(community'.members) # {}
    BY <1>1, <2>1, <2>2
  <2>9. MembersStay'
    BY <1>1, <2>1, <2>2, <2>7, <2>8, ReturnAlone DEF CommunityInv, MembersStay, Admins
  <2>. QED
    BY <1>1, <2>4, <2>6, <2>9, ReturnAlone DEF CommunityInv
<1>. QED
  BY <1>2, <1>3

LEMMA ContinueKeeps ==
  ASSUME CommunityInv, NEW s \in Slots, CommunityContinue(s)
  PROVE  CommunityInv'
<1>0. community \in Documents /\ community.version \in Nat
  BY DEF CommunityInv, CommunityTyped, Documents
<1>1. CASE SaveSettings(s)
  <2>1. /\ req[s].pc # "idle" /\ req[s].number \in Limits /\ req[s].flag \in BOOLEAN
        /\ Return(s) /\ UNCHANGED history
        /\ community' = [community EXCEPT !.maxMembers = req[s].number,
                                          !.joinApprovalRequired = req[s].flag]
    BY <1>1 DEF SaveSettings, Saved, At, CommunityInv, HandlersRight, HandlerRight
  <2>2. /\ community' \in Documents
        /\ community'.here = community.here /\ community'.members = community.members
        /\ community'.seats = community.seats /\ community'.version >= community.version
    <3>1. community \in Documents
      BY <1>0
    <3>2. community' \in Documents
      BY <2>1, <3>1 DEF Documents
    <3>. QED
      BY <1>0, <2>1, <3>1, <3>2 DEF Documents
  <2>. QED
    BY <2>1, <2>2, MembersUntouched
<1>2. CASE SaveImage(s)
  <2>1. /\ req[s].pc # "idle" /\ Return(s) /\ UNCHANGED history
        /\ community' = [community EXCEPT !.cImg = TRUE]
    BY <1>2 DEF SaveImage, Saved, At
  <2>2. /\ community' \in Documents
        /\ community'.here = community.here /\ community'.members = community.members
        /\ community'.seats = community.seats /\ community'.version >= community.version
    <3>1. community \in Documents
      BY <1>0
    <3>2. community' \in Documents
      BY <2>1, <3>1 DEF Documents
    <3>. QED
      BY <1>0, <2>1, <3>1, <3>2 DEF Documents
  <2>. QED
    BY <2>1, <2>2, MembersUntouched
<1>3. CASE SaveGroups(s)
  <2>1. /\ req[s].pc # "idle" /\ req[s].seen \subseteq Groups /\ Return(s) /\ UNCHANGED history
        /\ community' = [community EXCEPT !.groups = community.groups \cup req[s].seen,
                                          !.version = community.version + 1]
    BY <1>3 DEF SaveGroups, Saved, At, CommunityInv, HandlersRight, HandlerRight
  <2>2. /\ community' \in Documents
        /\ community'.here = community.here /\ community'.members = community.members
        /\ community'.seats = community.seats /\ community'.version >= community.version
    <3>1. community \in Documents
      BY <1>0
    <3>2. community' \in Documents
      <4>1. community.groups \cup req[s].seen \in SUBSET Groups
        BY <2>1, <3>1 DEF Documents
      <4>2. community.version + 1 \in Nat
        BY <1>0
      <4>. QED
        BY <2>1, <3>1, <4>1, <4>2 DEF Documents
    <3>. QED
      BY <1>0, <2>1, <3>1, <3>2 DEF Documents
  <2>. QED
    BY <2>1, <2>2, MembersUntouched
<1>. QED
  BY <1>1, <1>2, <1>3, PushKeeps, StatusKeeps, RemovalKeeps DEF CommunityContinue

-----------------------------------------------------------------------------

LEMMA CreateKeeps ==
  ASSUME CommunityInv, CommunityAssumption, NEW u \in Users, NEW limit \in Limits \cup {0},
         NEW approval \in BOOLEAN, CreateCommunity(u, limit, approval)
  PROVE  CommunityInv'
<1>. DEFINE first == Entry(0, u, "ADMIN", "ACTIVE")
<1>1. /\ req' = req /\ ~community.here /\ UNCHANGED history
      /\ overlapped' = (overlapped \/ ~Quiet)
  BY DEF CreateCommunity, AtOnce, Counted, history
<1>2. /\ community' = [here |-> TRUE, members |-> {first}, seats |-> 1, version |-> 0,
                       maxMembers |-> limit, joinApprovalRequired |-> approval,
                       groups |-> {}, cImg |-> FALSE]
  BY DEF CreateCommunity, NoCommunity
<1>3. first \in Entries /\ first.id = 0 /\ first.role = "ADMIN" /\ limit \in Nat
  BY DEF Entry, Entries, Roles, Statuses, CommunityAssumption
<1>4. \A s \in Slots : req[s].pc \notin CommunityPcs
  BY <1>1 DEF CommunityInv, HandlersRight, HandlerRight
<1>5. HandlersRight'
  BY <1>1, <1>4 DEF HandlersRight, HandlerRight, CommunityPcs
<1>6. Sound(community.members)'
  BY <1>2, <1>3 DEF Sound, Distinct, OnePerUser
<1>7. CommunityTyped'
  <2>1. DroppedFits'
    BY <1>1 DEF CommunityInv, CommunityTyped, DroppedFits, history
  <2>2. community' \in Documents
    BY <1>2, <1>3 DEF Documents
  <2>. QED
    BY <1>1, <1>6, <2>1, <2>2 DEF CommunityInv, CommunityTyped, history, Quiet
<1>8. Alone'
  BY <1>1 DEF CommunityInv, Alone, InProgress
<1>9. MembersStay'
  <2>1. \A i \in 0..(community'.seats - 1) : \E m \in community'.members : m.id = i
    BY <1>2, <1>3
  <2>2. Admins(community'.members) # {}
    BY <1>2, <1>3 DEF Admins
  <2>. QED
    BY <1>1, <2>1, <2>2 DEF CommunityInv, MembersStay, history, Admins
<1>. QED
  BY <1>5, <1>7, <1>8, <1>9 DEF CommunityInv

LEMMA RestartKeeps ==
  ASSUME CommunityInv, Restart, UNCHANGED communityVars
  PROVE  CommunityInv'
<1>1. /\ req' = [s \in Slots |-> Idle] /\ overlapped' = overlapped
      /\ community' = community /\ doubled' = doubled /\ exceeded' = exceeded
      /\ dropped' = dropped
  BY DEF Restart, communityVars, history
<1>2. \A s \in Slots : req'[s] = Idle /\ Idle.pc = "idle"
  BY <1>1 DEF Idle
<1>3. HandlersRight'
  BY <1>2 DEF HandlersRight, HandlerRight, CommunityPcs
<1>4. CommunityTyped'
  BY <1>1 DEF CommunityInv, CommunityTyped, DroppedFits, Sound, Distinct, OnePerUser
<1>5. Alone'
  BY <1>2 DEF Alone, InProgress
<1>6. MembersStay'
  BY <1>1 DEF CommunityInv, MembersStay, Admins
<1>. QED
  BY <1>3, <1>4, <1>5, <1>6 DEF CommunityInv

LEMMA InitKeeps ==
  ASSUME SocialInit, CommunityInit
  PROVE  CommunityInv
<1>1. \A s \in Slots : req[s] = Idle /\ Idle.pc = "idle"
  BY DEF SocialInit, Idle
<1>2. HandlersRight
  BY <1>1 DEF HandlersRight, HandlerRight, CommunityPcs
<1>3. CommunityTyped
  BY DEF SocialInit, CommunityInit, NoCommunity, CommunityTyped, DroppedFits, Documents, Sound,
         Distinct, OnePerUser
<1>4. Alone
  BY <1>1 DEF Alone, InProgress
<1>5. MembersStay
  BY DEF SocialInit, CommunityInit, NoCommunity, MembersStay
<1>. QED
  BY <1>2, <1>3, <1>4, <1>5 DEF CommunityInv

LEMMA StutterKeeps ==
  ASSUME CommunityInv, UNCHANGED <<social, communityVars>>
  PROVE  CommunityInv'
<1>1. /\ req' = req /\ overlapped' = overlapped /\ UNCHANGED communityVars
  BY DEF social, process
<1>2. HandlersRight'
  BY <1>1, StillRight DEF CommunityInv, HandlersRight
<1>. QED
  BY <1>1, <1>2 DEF CommunityInv, CommunityTyped, DroppedFits, Alone, MembersStay, communityVars,
                    history, Sound, Distinct, OnePerUser, InProgress, Admins

\* However many handlers overlap and wherever the process ends: nobody who was
\* added to a community is lost by the removal of another, and an administrator
\* remains unless somebody was added twice (removeMember and its safeguard).
THEOREM CommunityMembersStay == CommunitySpec => []MembersStay
<1>1. SocialInit /\ CommunityInit => CommunityInv
  BY InitKeeps
<1>2. CommunityInv /\ [CommunityNext]_<<social, communityVars>> => CommunityInv'
  <2>. SUFFICES ASSUME CommunityInv, [CommunityNext]_<<social, communityVars>> PROVE CommunityInv'
    OBVIOUS
  <2>1. CASE \E s \in Slots : CommunityContinue(s)
    BY <2>1, ContinueKeeps
  <2>2. CASE \E s \in Slots : CommunityStart(s)
    BY <2>2, StartKeeps, CommunityAssumption
  <2>3. CASE \E u \in Users, limit \in Limits \cup {0}, approval \in BOOLEAN :
               CreateCommunity(u, limit, approval)
    BY <2>3, CreateKeeps, CommunityAssumption
  <2>4. CASE Restart /\ UNCHANGED communityVars
    BY <2>4, RestartKeeps
  <2>5. CASE UNCHANGED <<social, communityVars>>
    BY <2>5, StutterKeeps
  <2>. QED
    BY <2>1, <2>2, <2>3, <2>4, <2>5 DEF CommunityNext, CommunityStep
<1>3. CommunityInv => MembersStay
  BY DEF CommunityInv
<1>. QED
  BY <1>1, <1>2, <1>3, PTL DEF CommunitySpec

-----------------------------------------------------------------------------
(* The handlers of all parts *)

\* A handler has its fields, and they are what they may be.
HandlerTyped(h) ==
  /\ h = [pc |-> h.pc, user |-> h.user, other |-> h.other, id |-> h.id, word |-> h.word,
          seen |-> h.seen, number |-> h.number, flag |-> h.flag]
  /\ h.user \in Users \cup {NoUser} /\ h.other \in Users \cup {NoUser}
  /\ h.id \in Nat /\ h.number \in Nat /\ h.flag \in BOOLEAN

SocialInv ==
  /\ req = [s \in Slots |-> req[s]]
  /\ \A s \in Slots : HandlerTyped(req[s])
  /\ scene \in Scenes /\ begun \in 0..scene.limit /\ restarts \in 0..scene.restarts
  /\ overlapped \in BOOLEAN
  /\ Alone

\* Nothing has overlapped, no restart has cut anything off.
InOrder == ~overlapped /\ restarts = 0

\* The scene stays, what has overlapped has overlapped.
Goes == /\ scene' = scene /\ restarts' = restarts
        /\ ~overlapped' => ~overlapped

\* A step of a part: its handlers only, which are at certain points.
Touches(pcs) ==
  /\ Goes
  /\ \A s \in Slots : req'[s] = req[s] \/ {req[s].pc, req'[s].pc} \subseteq pcs \cup {"idle"}

\* A step that leaves the handlers at certain points alone.
Spares(pcs) ==
  /\ Goes
  /\ \A s \in Slots : req[s].pc \in pcs \/ req'[s].pc \in pcs => req'[s] = req[s]

LEMMA TouchesSpares ==
  ASSUME NEW pcs, NEW others_, Touches(pcs), pcs \cap others_ = {}, "idle" \notin others_
  PROVE  Spares(others_)
BY DEF Touches, Spares

\* What a handler that begins, one that goes on, and one operation do to all.
Begun(s, h) ==
  /\ req[s].pc = "idle" /\ req'[s] = h /\ (\A t \in Slots \ {s} : req'[t] = req[t])
  /\ Goes /\ (~overlapped' => \A t \in Slots : req[t].pc = "idle")

Resumed(s, h) ==
  /\ req[s].pc # "idle" /\ req'[s] = h /\ (\A t \in Slots \ {s} : req'[t] = req[t])
  /\ Goes /\ overlapped' = overlapped
  /\ ~overlapped => \A t \in Slots \ {s} : req[t].pc = "idle"

Done == req' = req /\ Goes /\ (~overlapped' => \A t \in Slots : req[t].pc = "idle")

LEMMA IdleTyped == HandlerTyped(Idle) /\ Idle.pc = "idle"
BY DEF HandlerTyped, Idle

\* What a handler knows when it begins.
LEMMA CallTyped ==
  ASSUME NEW pc, NEW u, u \in Users \cup {NoUser}
  PROVE  /\ HandlerTyped(Call(pc, u)) /\ Call(pc, u).pc = pc /\ Call(pc, u).user = u
         /\ Call(pc, u).other = NoUser /\ Call(pc, u).id = 0 /\ Call(pc, u).word = "none"
         /\ Call(pc, u).seen = {} /\ Call(pc, u).number = 0 /\ ~Call(pc, u).flag
<1>1. /\ Call(pc, u).pc = pc /\ Call(pc, u).user = u
      /\ Call(pc, u).other = NoUser /\ Call(pc, u).id = 0 /\ Call(pc, u).word = "none"
      /\ Call(pc, u).seen = {} /\ Call(pc, u).number = 0 /\ ~Call(pc, u).flag
  BY DEF Call, Idle
<1>. DEFINE g == [Idle EXCEPT !.pc = pc]
<1>2. HandlerTyped(g)
  BY IdleTyped DEF HandlerTyped
<1>3. Call(pc, u) = [g EXCEPT !.user = u]
  BY DEF Call
<1>. HIDE DEF g
<1>4. HandlerTyped([g EXCEPT !.user = u])
  BY <1>2 DEF HandlerTyped
<1>. QED
  BY <1>1, <1>3, <1>4

\* One request more.
LEMMA CountedOne ==
  ASSUME SocialInv, begun < scene.limit, Counted
  PROVE  /\ Goes /\ (~overlapped' => \A t \in Slots : req[t].pc = "idle")
         /\ scene' \in Scenes /\ begun' \in 0..scene'.limit
         /\ restarts' \in 0..scene'.restarts /\ overlapped' \in BOOLEAN
<1>1. begun' = begun + 1 /\ overlapped' = (overlapped \/ ~Quiet) /\ scene' = scene
      /\ restarts' = restarts
  BY DEF Counted
<1>2. scene \in Scenes /\ scene.limit \in Nat /\ begun \in 0..scene.limit
  BY SocialAssumption DEF SocialInv
<1>3. begun + 1 \in 0..scene.limit
  BY <1>2
<1>. QED
  BY <1>1, <1>2, <1>3 DEF SocialInv, Goes, Quiet, InProgress

LEMMA BeginStep ==
  ASSUME SocialInv, NEW s \in Slots, NEW request, Free(s, request),
         NEW h, HandlerTyped(h), Begin(s, h), NEW pcs, h.pc \in pcs
  PROVE  SocialInv' /\ Touches(pcs) /\ Begun(s, h)
<1>1. /\ req[s].pc = "idle" /\ req'[s] = h /\ (\A t \in Slots \ {s} : req'[t] = req[t])
      /\ req' = [t \in Slots |-> req'[t]]
  BY SlotIsIdle DEF SocialInv, Begin
<1>2. /\ Goes /\ (~overlapped' => \A t \in Slots : req[t].pc = "idle")
      /\ scene' \in Scenes /\ begun' \in 0..scene'.limit
      /\ restarts' \in 0..scene'.restarts /\ overlapped' \in BOOLEAN
  BY CountedOne DEF Free, Begin
<1>3. \A t \in Slots : HandlerTyped(req[t])'
  <2>. TAKE t \in Slots
  <2>1. HandlerTyped(req[t])
    BY DEF SocialInv
  <2>2. CASE t = s
    BY <1>1, <2>2 DEF HandlerTyped
  <2>3. CASE t # s
    BY <1>1, <2>1, <2>3 DEF HandlerTyped
  <2>. QED
    BY <2>2, <2>3
<1>4. Alone'
  BY <1>1, <1>2 DEF Alone, InProgress
<1>5. SocialInv'
  BY <1>1, <1>2, <1>3, <1>4 DEF SocialInv
<1>6. Touches(pcs)
  BY <1>1, <1>2 DEF Touches
<1>. QED
  BY <1>1, <1>2, <1>5, <1>6 DEF Begun

LEMMA ResumeStep ==
  ASSUME SocialInv, NEW s \in Slots, req[s].pc # "idle",
         NEW h, HandlerTyped(h), Resume(s, h), NEW pcs, req[s].pc \in pcs,
         h.pc \in pcs \cup {"idle"}
  PROVE  SocialInv' /\ Touches(pcs) /\ Resumed(s, h)
<1>1. /\ req'[s] = h /\ (\A t \in Slots \ {s} : req'[t] = req[t])
      /\ req' = [t \in Slots |-> req'[t]]
      /\ scene' = scene /\ begun' = begun /\ overlapped' = overlapped /\ restarts' = restarts
  BY DEF SocialInv, Resume, process
<1>2. \A t \in Slots : HandlerTyped(req[t])'
  <2>. TAKE t \in Slots
  <2>1. HandlerTyped(req[t])
    BY DEF SocialInv
  <2>2. CASE t = s
    BY <1>1, <2>2 DEF HandlerTyped
  <2>3. CASE t # s
    BY <1>1, <2>1, <2>3 DEF HandlerTyped
  <2>. QED
    BY <2>2, <2>3
<1>3. Alone'
  BY <1>1 DEF SocialInv, Alone, InProgress
<1>4. SocialInv'
  BY <1>1, <1>2, <1>3 DEF SocialInv
<1>5. Touches(pcs) /\ Goes
  BY <1>1 DEF Touches, Goes
<1>6. ~overlapped => \A t \in Slots \ {s} : req[t].pc = "idle"
  BY DEF SocialInv, Alone, InProgress
<1>. QED
  BY <1>1, <1>4, <1>5, <1>6 DEF Resumed

LEMMA ReturnStep ==
  ASSUME SocialInv, NEW s \in Slots, req[s].pc # "idle", Return(s), NEW pcs, req[s].pc \in pcs
  PROVE  SocialInv' /\ Touches(pcs) /\ Resumed(s, Idle)
BY IdleTyped, ResumeStep DEF Return

\* Only the place is another.
Moved(s, pc) == [req[s] EXCEPT !.pc = pc]

LEMMA GotoStep ==
  ASSUME SocialInv, NEW s \in Slots, req[s].pc # "idle", NEW pc, Goto(s, pc),
         NEW pcs, {req[s].pc, pc} \subseteq pcs
  PROVE  /\ SocialInv' /\ Touches(pcs) /\ Resumed(s, Moved(s, pc))
         /\ Moved(s, pc).pc = pc /\ Moved(s, pc).user = req[s].user
         /\ Moved(s, pc).id = req[s].id /\ Moved(s, pc).word = req[s].word
         /\ Moved(s, pc).seen = req[s].seen /\ Moved(s, pc).number = req[s].number
         /\ Moved(s, pc).flag = req[s].flag
<1>1. HandlerTyped(req[s])
  BY DEF SocialInv
<1>2. /\ Moved(s, pc).pc = pc /\ Moved(s, pc).user = req[s].user
      /\ Moved(s, pc).other = req[s].other
      /\ Moved(s, pc).id = req[s].id /\ Moved(s, pc).word = req[s].word
      /\ Moved(s, pc).seen = req[s].seen /\ Moved(s, pc).number = req[s].number
      /\ Moved(s, pc).flag = req[s].flag
  BY <1>1 DEF HandlerTyped, Moved
<1>3. HandlerTyped(Moved(s, pc))
  BY <1>1 DEF HandlerTyped, Moved
<1>4. Resume(s, Moved(s, pc))
  BY DEF Goto, Moved
<1>5. SocialInv' /\ Touches(pcs) /\ Resumed(s, Moved(s, pc))
  <2>1. req[s].pc \in pcs /\ Moved(s, pc).pc \in pcs \cup {"idle"}
    BY <1>2
  <2>. QED
    BY <1>3, <1>4, <2>1, ResumeStep
<1>. QED
  BY <1>2, <1>5

LEMMA SameStep ==
  ASSUME SocialInv, UNCHANGED social, NEW pcs
  PROVE  SocialInv' /\ Touches(pcs) /\ Goes /\ req' = req /\ overlapped' = overlapped
<1>1. /\ req' = req /\ scene' = scene /\ begun' = begun /\ overlapped' = overlapped
      /\ restarts' = restarts
  BY DEF social, process
<1>2. Alone' /\ \A t \in Slots : HandlerTyped(req[t])'
  BY <1>1 DEF SocialInv, HandlerTyped, Alone, InProgress
<1>. QED
  BY <1>1, <1>2 DEF SocialInv, Touches, Goes

\* A request that is one operation.
LEMMA DoneStep ==
  ASSUME SocialInv, NEW request, AtOnce(request), NEW pcs
  PROVE  SocialInv' /\ Touches(pcs) /\ Done
<1>1. /\ Goes /\ (~overlapped' => \A t \in Slots : req[t].pc = "idle")
      /\ scene' \in Scenes /\ begun' \in 0..scene'.limit
      /\ restarts' \in 0..scene'.restarts /\ overlapped' \in BOOLEAN
  BY CountedOne DEF AtOnce
<1>2. req' = req
  BY DEF AtOnce
<1>3. Alone'
  BY <1>1, <1>2 DEF Alone, InProgress
<1>4. \A t \in Slots : HandlerTyped(req[t])'
  BY <1>2 DEF SocialInv, HandlerTyped
<1>. QED
  BY <1>1, <1>2, <1>3, <1>4 DEF SocialInv, Touches, Done

-----------------------------------------------------------------------------
(* Channels *)

OrbitPcs ==
  {"insertMember", "insertBroadcast", "setChannel", "setChannelImage",
   "removeChannel", "removeMembers", "removeBroadcasts"}

\* Channels have ids in the order of their creation, and handlers and broadcasts
\* name one of them.
OrbitTyped ==
  /\ channel \in [ChannelIds -> [ownerId : Users \cup {NoUser}, edited : BOOLEAN, image : BOOLEAN]]
  /\ channels \in 0..MaxChannels
  /\ \A c \in ChannelIds : c > channels => channel[c].ownerId = NoUser
  /\ member \subseteq ChannelIds \X Users /\ listening \subseteq ChannelIds \X Users
  /\ message \in [BroadcastIds -> [channelId : {0} \cup ChannelIds, senderId : Users \cup {NoUser}]]
  /\ \A m \in BroadcastIds : message[m].channelId <= channels
                             /\ (message[m] # NoBroadcast => message[m].channelId \in ChannelIds)

OrbitHandler(s) ==
  /\ req[s].pc \in OrbitPcs =>
       req[s].id \in ChannelIds /\ req[s].id <= channels /\ req[s].user \in Users
  /\ req[s].pc \in {"removeMembers", "removeBroadcasts"} => ~ChannelHere(req[s].id)
  /\ req[s].pc = "insertBroadcast" /\ ChannelHere(req[s].id) =>
       req[s].user = channel[req[s].id].ownerId
  /\ InOrder /\ req[s].pc \in {"insertMember", "insertBroadcast"} => ChannelHere(req[s].id)

\* Whose members, and whose broadcasts, are about to be removed.
Leaving(c) == \E s \in Slots : req[s].pc = "removeMembers" /\ req[s].id = c
Fading(c) == \E s \in Slots : req[s].pc \in {"removeMembers", "removeBroadcasts"} /\ req[s].id = c

ByTheOwner ==
  \A m \in BroadcastIds :
    ChannelHere(message[m].channelId) =>
      message[m].senderId = channel[message[m].channelId].ownerId

NothingLeft ==
  InOrder =>
    /\ \A m \in member : ChannelHere(m[1]) \/ Leaving(m[1])
    /\ \A m \in BroadcastIds :
         message[m] # NoBroadcast =>
           ChannelHere(message[m].channelId) \/ Fading(message[m].channelId)

OrbitInv == OrbitTyped /\ (\A s \in Slots : OrbitHandler(s)) /\ ByTheOwner /\ NothingLeft

\* What a channel is to its handlers and broadcasts is a matter of its owner.
OwnersSame ==
  /\ channels' = channels
  /\ \A c \in ChannelIds : channel'[c].ownerId = channel[c].ownerId

LEMMA HereSame == OwnersSame => \A c : ChannelHere(c)' <=> ChannelHere(c)
BY DEF OwnersSame, ChannelHere, ChannelIds

\* Steps of others.
LEMMA OrbitRests ==
  ASSUME OrbitInv, Spares(OrbitPcs), UNCHANGED orbitVars
  PROVE  OrbitInv'
<1>1. /\ channel' = channel /\ channels' = channels /\ member' = member /\ message' = message
      /\ listening' = listening
  BY DEF orbitVars
<1>2. OwnersSame /\ (InOrder' => InOrder)
  BY <1>1 DEF OwnersSame, Spares, Goes, InOrder
<1>3. OrbitTyped'
  BY <1>1 DEF OrbitInv, OrbitTyped
<1>4. ASSUME NEW s \in Slots PROVE OrbitHandler(s)'
  <2>1. CASE req'[s].pc \in OrbitPcs
    BY <1>1, <1>2, <2>1, HereSame DEF OrbitInv, OrbitHandler, Spares
  <2>2. CASE req'[s].pc \notin OrbitPcs
    BY <2>2 DEF OrbitHandler, OrbitPcs
  <2>. QED
    BY <2>1, <2>2
<1>5. ByTheOwner'
  BY <1>1, <1>2, HereSame DEF OrbitInv, ByTheOwner
<1>6. NothingLeft'
  <2>1. \A c : (Leaving(c) => Leaving(c)') /\ (Fading(c) => Fading(c)')
    BY DEF Leaving, Fading, Spares, OrbitPcs
  <2>. QED
    BY <1>1, <1>2, <2>1, HereSame DEF OrbitInv, NothingLeft
<1>. QED
  BY <1>3, <1>4, <1>5, <1>6 DEF OrbitInv

\* The handlers, up to the first change: they have found the channel.
LEMMA OrbitBegins ==
  ASSUME SocialInv, OrbitInv, NEW s \in Slots, NEW request, Free(s, request),
         NEW pc \in OrbitPcs \ {"removeMembers", "removeBroadcasts"},
         NEW u \in Users, NEW c \in ChannelIds,
         Begin(s, [Call(pc, u) EXCEPT !.id = c]), ChannelHere(c), UNCHANGED orbitVars,
         pc = "insertBroadcast" => channel[c].ownerId = u
  PROVE  SocialInv' /\ Touches(OrbitPcs) /\ OrbitInv'
<1>. DEFINE h == [Call(pc, u) EXCEPT !.id = c]
<1>1. h.pc = pc /\ h.user = u /\ h.id = c /\ HandlerTyped(h)
  <2>. DEFINE g == Call(pc, u)
  <2>0. u \in Users \cup {NoUser} /\ c \in Nat
    BY DEF ChannelIds
  <2>1. HandlerTyped(g) /\ g.pc = pc /\ g.user = u /\ c \in Nat
    BY <2>0, CallTyped
  <2>2. h = [g EXCEPT !.id = c]
    OBVIOUS
  <2>. HIDE DEF g, h
  <2>. QED
    BY <2>1, <2>2 DEF HandlerTyped
<1>2. Begin(s, h)
  OBVIOUS
<1>. HIDE DEF h
<1>3. SocialInv' /\ Touches(OrbitPcs) /\ Begun(s, h)
  BY <1>1, <1>2, BeginStep
<1>4. /\ req'[s] = h /\ req[s].pc = "idle" /\ (InOrder' => InOrder)
      /\ \A t \in Slots \ {s} : req'[t] = req[t]
  BY <1>3 DEF Begun, Goes, InOrder
<1>5. /\ channel' = channel /\ channels' = channels /\ member' = member /\ message' = message
      /\ listening' = listening
  BY DEF orbitVars
<1>6. OwnersSame
  BY <1>5 DEF OwnersSame
<1>7. c <= channels
  BY DEF OrbitInv, OrbitTyped, ChannelHere, ChannelIds
<1>8. OrbitTyped' /\ ByTheOwner'
  BY <1>5, <1>6, HereSame DEF OrbitInv, OrbitTyped, ByTheOwner
<1>9. ASSUME NEW t \in Slots PROVE OrbitHandler(t)'
  <2>1. CASE t = s
    BY <1>1, <1>4, <1>5, <1>6, <1>7, <2>1, HereSame DEF OrbitHandler
  <2>2. CASE t # s
    BY <1>4, <1>5, <1>6, <2>2, HereSame DEF OrbitInv, OrbitHandler
  <2>. QED
    BY <2>1, <2>2
<1>10. NothingLeft'
  <2>1. \A d : (Leaving(d) => Leaving(d)') /\ (Fading(d) => Fading(d)')
    BY <1>4 DEF Leaving, Fading
  <2>. QED
    BY <1>4, <1>5, <1>6, <2>1, HereSame DEF OrbitInv, NothingLeft
<1>. QED
  BY <1>3, <1>8, <1>9, <1>10 DEF OrbitInv

LEMMA OrbitStarts ==
  ASSUME SocialInv, OrbitInv, NEW s \in Slots, OrbitStart(s)
  PROVE  SocialInv' /\ Touches(OrbitPcs) /\ OrbitInv'
<1>. PICK u \in Users, c \in ChannelIds :
       \/ JoinChannel(s, u, c) \/ SendBroadcastMessage(s, u, c)
       \/ UpdateChannel(s, u, c) \/ UpdateChannelImage(s, u, c) \/ DeleteChannel(s, u, c)
  BY DEF OrbitStart
<1>1. CASE JoinChannel(s, u, c)
  BY <1>1, OrbitBegins DEF JoinChannel, OrbitPcs
<1>2. CASE SendBroadcastMessage(s, u, c)
  BY <1>2, OrbitBegins DEF SendBroadcastMessage, ByOwner, OrbitPcs
<1>3. CASE UpdateChannel(s, u, c)
  BY <1>3, OrbitBegins DEF UpdateChannel, ByOwner, OrbitPcs
<1>4. CASE UpdateChannelImage(s, u, c)
  BY <1>4, OrbitBegins DEF UpdateChannelImage, ByOwner, OrbitPcs
<1>5. CASE DeleteChannel(s, u, c)
  BY <1>5, OrbitBegins DEF DeleteChannel, ByOwner, OrbitPcs
<1>. QED
  BY <1>1, <1>2, <1>3, <1>4, <1>5

\* The steps of a handler: where it stands, and what it leaves to the others.
LEMMA OrbitStep ==
  ASSUME SocialInv, OrbitInv, NEW s \in Slots, req[s].pc \in OrbitPcs
  PROVE  /\ req[s].pc # "idle" /\ req[s].id \in ChannelIds /\ req[s].id <= channels
         /\ req[s].user \in Users /\ HandlerTyped(req[s])
BY DEF OrbitPcs, OrbitInv, OrbitHandler, SocialInv

LEMMA InsertMemberKeeps ==
  ASSUME SocialInv, OrbitInv, NEW s \in Slots, InsertMember(s)
  PROVE  SocialInv' /\ Touches(OrbitPcs) /\ OrbitInv'
<1>1. /\ req[s].pc = "insertMember" /\ req[s].pc \in OrbitPcs /\ Return(s)
      /\ member' = member \cup {<<req[s].id, req[s].user>>}
      /\ channel' = channel /\ channels' = channels /\ message' = message
      /\ listening' = listening
  BY DEF InsertMember, At, OrbitPcs
<1>2. /\ req[s].id \in ChannelIds /\ req[s].user \in Users
      /\ InOrder => ChannelHere(req[s].id)
  BY <1>1, OrbitStep DEF OrbitInv, OrbitHandler
<1>3. SocialInv' /\ Touches(OrbitPcs) /\ Resumed(s, Idle)
  BY <1>1, OrbitStep, ReturnStep
<1>4. /\ req'[s].pc = "idle" /\ (\A t \in Slots \ {s} : req'[t] = req[t])
      /\ (InOrder' => InOrder)
  BY <1>3, IdleTyped DEF Resumed, Goes, InOrder
<1>5. OwnersSame
  BY <1>1 DEF OwnersSame
<1>6. OrbitTyped' /\ ByTheOwner'
  BY <1>1, <1>2, <1>5, HereSame DEF OrbitInv, OrbitTyped, ByTheOwner
<1>7. ASSUME NEW t \in Slots PROVE OrbitHandler(t)'
  <2>1. CASE t = s
    BY <1>4, <2>1 DEF OrbitHandler, OrbitPcs
  <2>2. CASE t # s
    BY <1>1, <1>4, <1>5, <2>2, HereSame DEF OrbitInv, OrbitHandler
  <2>. QED
    BY <2>1, <2>2
<1>8. NothingLeft'
  <2>1. \A d : (Leaving(d) => Leaving(d)') /\ (Fading(d) => Fading(d)')
    BY <1>1, <1>4 DEF Leaving, Fading
  <2>. QED
    BY <1>1, <1>2, <1>4, <1>5, <2>1, HereSame DEF OrbitInv, NothingLeft
<1>. QED
  BY <1>3, <1>6, <1>7, <1>8 DEF OrbitInv

LEMMA InsertBroadcastKeeps ==
  ASSUME SocialInv, OrbitInv, NEW s \in Slots, InsertBroadcast(s)
  PROVE  SocialInv' /\ Touches(OrbitPcs) /\ OrbitInv'
<1>. DEFINE new == [channelId |-> req[s].id, senderId |-> req[s].user]
<1>1. /\ req[s].pc = "insertBroadcast" /\ req[s].pc \in OrbitPcs /\ Return(s)
      /\ channel' = channel /\ channels' = channels /\ member' = member
      /\ listening' = listening
  BY DEF InsertBroadcast, At, OrbitPcs
<1>2. PICK n \in BroadcastIds : message' = [message EXCEPT ![n] = new]
  BY DEF InsertBroadcast, Unused
<1>3. /\ req[s].id \in ChannelIds /\ req[s].id <= channels /\ req[s].user \in Users
      /\ InOrder => ChannelHere(req[s].id)
      /\ ChannelHere(req[s].id) => req[s].user = channel[req[s].id].ownerId
  BY <1>1, OrbitStep DEF OrbitInv, OrbitHandler
<1>4. SocialInv' /\ Touches(OrbitPcs) /\ Resumed(s, Idle)
  BY <1>1, OrbitStep, ReturnStep
<1>5. /\ req'[s].pc = "idle" /\ (\A t \in Slots \ {s} : req'[t] = req[t])
      /\ (InOrder' => InOrder)
  BY <1>4, IdleTyped DEF Resumed, Goes, InOrder
<1>6. OwnersSame
  BY <1>1 DEF OwnersSame
<1>7. /\ message' \in [BroadcastIds -> [channelId : {0} \cup ChannelIds, senderId : Users \cup {NoUser}]]
      /\ message'[n] = new /\ new.channelId = req[s].id /\ new.senderId = req[s].user
      /\ \A m \in BroadcastIds \ {n} : message'[m] = message[m]
  BY <1>2, <1>3 DEF OrbitInv, OrbitTyped
<1>. HIDE DEF new
<1>8. OrbitTyped'
  BY <1>1, <1>3, <1>7 DEF OrbitInv, OrbitTyped
<1>9. ByTheOwner'
  BY <1>1, <1>3, <1>6, <1>7, HereSame DEF OrbitInv, ByTheOwner
<1>10. ASSUME NEW t \in Slots PROVE OrbitHandler(t)'
  <2>1. CASE t = s
    BY <1>5, <2>1 DEF OrbitHandler, OrbitPcs
  <2>2. CASE t # s
    BY <1>1, <1>5, <1>6, <2>2, HereSame DEF OrbitInv, OrbitHandler
  <2>. QED
    BY <2>1, <2>2
<1>11. NothingLeft'
  <2>1. \A d : (Leaving(d) => Leaving(d)') /\ (Fading(d) => Fading(d)')
    BY <1>1, <1>5 DEF Leaving, Fading
  <2>. QED
    BY <1>1, <1>3, <1>5, <1>6, <1>7, <2>1, HereSame DEF OrbitInv, NothingLeft
<1>. QED
  BY <1>4, <1>8, <1>9, <1>10, <1>11 DEF OrbitInv

LEMMA SetChannelKeeps ==
  ASSUME SocialInv, OrbitInv, NEW s \in Slots, SetChannel(s)
  PROVE  SocialInv' /\ Touches(OrbitPcs) /\ OrbitInv'
<1>1. /\ req[s].pc \in {"setChannel", "setChannelImage"} /\ req[s].pc \in OrbitPcs /\ Return(s)
      /\ channels' = channels /\ message' = message /\ member' = member
      /\ listening' = listening
      /\ \/ channel' = channel
         \/ channel' = [channel EXCEPT ![req[s].id].edited = TRUE]
         \/ channel' = [channel EXCEPT ![req[s].id].image = TRUE]
  BY DEF SetChannel, At, OrbitPcs, orbitUsers
<1>2. req[s].id \in ChannelIds
  BY <1>1, OrbitStep
<1>3. SocialInv' /\ Touches(OrbitPcs) /\ Resumed(s, Idle)
  BY <1>1, OrbitStep, ReturnStep
<1>4. /\ req'[s].pc = "idle" /\ (\A t \in Slots \ {s} : req'[t] = req[t])
      /\ (InOrder' => InOrder)
  BY <1>3, IdleTyped DEF Resumed, Goes, InOrder
<1>5. /\ channel' \in [ChannelIds -> [ownerId : Users \cup {NoUser}, edited : BOOLEAN, image : BOOLEAN]]
      /\ \A d \in ChannelIds : channel'[d].ownerId = channel[d].ownerId
  <2>1. CASE channel' = channel
    BY <2>1 DEF OrbitInv, OrbitTyped
  <2>2. CASE channel' = [channel EXCEPT ![req[s].id].edited = TRUE]
    BY <1>2, <2>2 DEF OrbitInv, OrbitTyped
  <2>3. CASE channel' = [channel EXCEPT ![req[s].id].image = TRUE]
    BY <1>2, <2>3 DEF OrbitInv, OrbitTyped
  <2>. QED
    BY <1>1, <2>1, <2>2, <2>3
<1>9. OwnersSame
  BY <1>1, <1>5 DEF OwnersSame
<1>6. OrbitTyped' /\ ByTheOwner'
  BY <1>1, <1>5, <1>9, HereSame DEF OrbitInv, OrbitTyped, ByTheOwner, ChannelHere
<1>7. ASSUME NEW t \in Slots PROVE OrbitHandler(t)'
  <2>1. CASE t = s
    BY <1>4, <2>1 DEF OrbitHandler, OrbitPcs
  <2>2. CASE t # s
    BY <1>1, <1>4, <1>5, <1>9, <2>2, HereSame DEF OrbitInv, OrbitHandler, ChannelHere
  <2>. QED
    BY <2>1, <2>2
<1>8. NothingLeft'
  <2>1. \A d : (Leaving(d) => Leaving(d)') /\ (Fading(d) => Fading(d)')
    BY <1>1, <1>4 DEF Leaving, Fading
  <2>. QED
    BY <1>1, <1>4, <1>9, <2>1, HereSame DEF OrbitInv, NothingLeft
<1>. QED
  BY <1>3, <1>6, <1>7, <1>8 DEF OrbitInv

\* A channel goes first; its members and broadcasts are about to.
LEMMA RemoveChannelKeeps ==
  ASSUME SocialInv, OrbitInv, NEW s \in Slots, RemoveChannel(s)
  PROVE  SocialInv' /\ Touches(OrbitPcs) /\ OrbitInv'
<1>. DEFINE c == req[s].id
            h == Moved(s, "removeMembers")
<1>1. /\ req[s].pc = "removeChannel" /\ req[s].pc \in OrbitPcs /\ "removeMembers" \in OrbitPcs
      /\ Goto(s, "removeMembers")
      /\ channels' = channels /\ message' = message /\ member' = member
      /\ listening' = listening /\ channel' = [channel EXCEPT ![c] = NoChannel]
  BY DEF RemoveChannel, At, OrbitPcs, orbitUsers
<1>2. c \in ChannelIds /\ c <= channels /\ req[s].user \in Users
  BY <1>1, OrbitStep
<1>3. /\ SocialInv' /\ Touches(OrbitPcs) /\ Resumed(s, h)
      /\ h.pc = "removeMembers" /\ h.id = c /\ h.user = req[s].user
  BY <1>1, OrbitStep, GotoStep
<1>. HIDE DEF h
<1>4. /\ req'[s].pc = "removeMembers" /\ req'[s].id = c /\ req'[s].user = req[s].user
      /\ (\A t \in Slots \ {s} : req'[t] = req[t]) /\ (InOrder' => InOrder)
      /\ ~overlapped => \A t \in Slots \ {s} : req[t].pc = "idle"
  BY <1>3 DEF Resumed, Goes, InOrder
<1>5. /\ channel' \in [ChannelIds -> [ownerId : Users \cup {NoUser}, edited : BOOLEAN, image : BOOLEAN]]
      /\ channel'[c].ownerId = NoUser
      /\ \A d \in ChannelIds \ {c} : channel'[d].ownerId = channel[d].ownerId
  BY <1>1, <1>2 DEF OrbitInv, OrbitTyped, NoChannel
<1>6. \A d : ChannelHere(d)' <=> ChannelHere(d) /\ d # c
  BY <1>2, <1>5 DEF ChannelHere
<1>. HIDE DEF c
<1>7. OrbitTyped'
  BY <1>1, <1>2, <1>5 DEF OrbitInv, OrbitTyped
<1>8. ByTheOwner'
  BY <1>1, <1>2, <1>5, <1>6 DEF OrbitInv, ByTheOwner, ChannelHere
<1>9. ASSUME NEW t \in Slots PROVE OrbitHandler(t)'
  <2>1. CASE t = s
    BY <1>1, <1>2, <1>4, <1>6, <2>1 DEF OrbitHandler
  <2>2. CASE t # s
    <3>1. req'[t] = req[t] /\ OrbitHandler(t) /\ (InOrder => req[t].pc = "idle")
      BY <1>4, <2>2 DEF OrbitInv, InOrder
    <3>. QED
      BY <1>1, <1>4, <1>5, <1>6, <3>1 DEF OrbitHandler
  <2>. QED
    BY <2>1, <2>2
<1>10. NothingLeft'
  <2>1. \A d : d = c => Leaving(d)' /\ Fading(d)'
    BY <1>4 DEF Leaving, Fading
  <2>2. \A d : (Leaving(d) => Leaving(d)') /\ (Fading(d) => Fading(d)')
    BY <1>1, <1>4 DEF Leaving, Fading
  <2>. QED
    BY <1>1, <1>4, <1>6, <2>1, <2>2 DEF OrbitInv, NothingLeft
<1>. QED
  BY <1>3, <1>7, <1>8, <1>9, <1>10 DEF OrbitInv

LEMMA RemoveMembersKeeps ==
  ASSUME SocialInv, OrbitInv, NEW s \in Slots, RemoveMembers(s)
  PROVE  SocialInv' /\ Touches(OrbitPcs) /\ OrbitInv'
<1>. DEFINE c == req[s].id
            h == Moved(s, "removeBroadcasts")
<1>1. /\ req[s].pc = "removeMembers" /\ req[s].pc \in OrbitPcs /\ "removeBroadcasts" \in OrbitPcs
      /\ Goto(s, "removeBroadcasts")
      /\ channels' = channels /\ message' = message /\ channel' = channel
      /\ listening' = listening /\ member' = {m \in member : m[1] # c}
  BY DEF RemoveMembers, At, OrbitPcs
<1>2. c \in ChannelIds /\ c <= channels /\ req[s].user \in Users /\ ~ChannelHere(c)
  BY <1>1, OrbitStep DEF OrbitInv, OrbitHandler
<1>3. /\ SocialInv' /\ Touches(OrbitPcs) /\ Resumed(s, h)
      /\ h.pc = "removeBroadcasts" /\ h.id = c /\ h.user = req[s].user
  BY <1>1, OrbitStep, GotoStep
<1>. HIDE DEF h
<1>4. /\ req'[s].pc = "removeBroadcasts" /\ req'[s].id = c /\ req'[s].user = req[s].user
      /\ (\A t \in Slots \ {s} : req'[t] = req[t]) /\ (InOrder' => InOrder)
  BY <1>3 DEF Resumed, Goes, InOrder
<1>5. OwnersSame
  BY <1>1 DEF OwnersSame
<1>6. OrbitTyped' /\ ByTheOwner'
  BY <1>1, <1>5, HereSame DEF OrbitInv, OrbitTyped, ByTheOwner
<1>7. ASSUME NEW t \in Slots PROVE OrbitHandler(t)'
  <2>1. CASE t = s
    BY <1>1, <1>2, <1>4, <1>5, <2>1, HereSame DEF OrbitHandler
  <2>2. CASE t # s
    BY <1>1, <1>4, <1>5, <2>2, HereSame DEF OrbitInv, OrbitHandler
  <2>. QED
    BY <2>1, <2>2
<1>8. NothingLeft'
  <2>1. \A d : /\ Leaving(d) /\ d # c => Leaving(d)'
               /\ Fading(d) => Fading(d)'
    BY <1>1, <1>4 DEF Leaving, Fading
  <2>. QED
    BY <1>1, <1>4, <1>5, <2>1, HereSame DEF OrbitInv, NothingLeft
<1>. QED
  BY <1>3, <1>6, <1>7, <1>8 DEF OrbitInv

LEMMA RemoveBroadcastsKeeps ==
  ASSUME SocialInv, OrbitInv, NEW s \in Slots, RemoveBroadcasts(s)
  PROVE  SocialInv' /\ Touches(OrbitPcs) /\ OrbitInv'
<1>. DEFINE c == req[s].id
<1>1. /\ req[s].pc = "removeBroadcasts" /\ req[s].pc \in OrbitPcs /\ Return(s)
      /\ channels' = channels /\ member' = member /\ channel' = channel
      /\ listening' = listening
      /\ message' = [m \in BroadcastIds |-> IF message[m].channelId = c THEN NoBroadcast
                                                                        ELSE message[m]]
  BY DEF RemoveBroadcasts, At, OrbitPcs, orbitUsers
<1>2. SocialInv' /\ Touches(OrbitPcs) /\ Resumed(s, Idle)
  BY <1>1, OrbitStep, ReturnStep
<1>3. /\ req'[s].pc = "idle" /\ (\A t \in Slots \ {s} : req'[t] = req[t])
      /\ (InOrder' => InOrder)
  BY <1>2, IdleTyped DEF Resumed, Goes, InOrder
<1>4. OwnersSame
  BY <1>1 DEF OwnersSame
<1>5. \A m \in BroadcastIds : \/ message'[m] = NoBroadcast
                              \/ message'[m] = message[m] /\ message[m].channelId # c
  BY <1>1
<1>6. NoBroadcast.channelId = 0 /\ 0 \notin ChannelIds /\ 0 <= channels
      /\ NoBroadcast \in [channelId : {0} \cup ChannelIds, senderId : Users \cup {NoUser}]
  BY OrbitChannelAssumption DEF NoBroadcast, ChannelIds, OrbitInv, OrbitTyped
<1>7. /\ message' \in [BroadcastIds -> [channelId : {0} \cup ChannelIds, senderId : Users \cup {NoUser}]]
      /\ OrbitTyped'
  BY <1>1, <1>5, <1>6 DEF OrbitInv, OrbitTyped
<1>8. ByTheOwner'
  BY <1>1, <1>4, <1>5, <1>6, HereSame DEF OrbitInv, ByTheOwner, ChannelHere
<1>9. ASSUME NEW t \in Slots PROVE OrbitHandler(t)'
  <2>1. CASE t = s
    BY <1>3, <2>1 DEF OrbitHandler, OrbitPcs
  <2>2. CASE t # s
    BY <1>1, <1>3, <1>4, <2>2, HereSame DEF OrbitInv, OrbitHandler
  <2>. QED
    BY <2>1, <2>2
<1>10. NothingLeft'
  <2>1. \A d : /\ Leaving(d) => Leaving(d)'
               /\ Fading(d) /\ d # c => Fading(d)'
    BY <1>1, <1>3 DEF Leaving, Fading
  <2>. QED
    BY <1>1, <1>3, <1>4, <1>5, <2>1, HereSame DEF OrbitInv, NothingLeft
<1>. QED
  BY <1>2, <1>7, <1>8, <1>9, <1>10 DEF OrbitInv

\* A new channel has an id that nothing names.
LEMMA CreateChannelKeeps ==
  ASSUME SocialInv, OrbitInv, NEW u \in Users, CreateChannel(u)
  PROVE  SocialInv' /\ Touches(OrbitPcs) /\ OrbitInv'
<1>. DEFINE c == channels + 1
<1>1. /\ AtOnce("channel") /\ channels < MaxChannels /\ channels' = channels + 1
      /\ channel' = [channel EXCEPT ![c].ownerId = u]
      /\ member' = member /\ message' = message /\ listening' = listening
  BY DEF CreateChannel, orbitUsers
<1>2. SocialInv' /\ Touches(OrbitPcs) /\ Done
  BY <1>1, DoneStep
<1>3. req' = req /\ (InOrder' => InOrder)
  BY <1>2 DEF Done, Goes, InOrder
<1>4. channels \in Nat /\ c \in ChannelIds /\ c > channels
  BY <1>1, OrbitChannelAssumption DEF OrbitInv, OrbitTyped, ChannelIds
<1>5. /\ channel' \in [ChannelIds -> [ownerId : Users \cup {NoUser}, edited : BOOLEAN, image : BOOLEAN]]
      /\ channel'[c].ownerId = u /\ u # NoUser
      /\ \A d \in ChannelIds \ {c} : channel'[d].ownerId = channel[d].ownerId
  BY <1>1, <1>4, SocialAssumption DEF OrbitInv, OrbitTyped
<1>6. \A d : ChannelHere(d)' <=> ChannelHere(d) \/ d = c
  BY <1>4, <1>5 DEF ChannelHere
<1>7. channels' \in 0..MaxChannels /\ channels' = c
  BY <1>1, <1>4, OrbitChannelAssumption
<1>. HIDE DEF c
<1>8. \A m \in BroadcastIds : message[m].channelId # c
  BY <1>4 DEF OrbitInv, OrbitTyped, ChannelIds
<1>9. \A t \in Slots : req[t].pc \in OrbitPcs => req[t].id # c
  BY <1>4 DEF OrbitInv, OrbitHandler, ChannelIds
<1>10. OrbitTyped'
  <2>1. \A d \in ChannelIds : d > channels' => channel'[d].ownerId = NoUser
    BY <1>4, <1>5, <1>7 DEF OrbitInv, OrbitTyped, ChannelIds
  <2>2. \A m \in BroadcastIds : message[m].channelId <= channels'
    BY <1>1, <1>4 DEF OrbitInv, OrbitTyped, ChannelIds
  <2>. QED
    BY <1>1, <1>5, <1>7, <2>1, <2>2 DEF OrbitInv, OrbitTyped
<1>11. ByTheOwner'
  BY <1>1, <1>5, <1>6, <1>8 DEF OrbitInv, ByTheOwner, ChannelHere
<1>12. ASSUME NEW t \in Slots PROVE OrbitHandler(t)'
  <2>1. CASE req[t].pc \in OrbitPcs
    <3>. DEFINE d == req[t].id
    <3>0. OrbitHandler(t) /\ d # c /\ d \in ChannelIds /\ d <= channels
      BY <1>9, <2>1 DEF OrbitInv, OrbitHandler
    <3>1. /\ channel'[d].ownerId = channel[d].ownerId
          /\ \A e : e = d => (ChannelHere(e)' <=> ChannelHere(e))
      BY <1>5, <1>6, <3>0
    <3>2. d <= channels'
      BY <1>1, <1>4, <3>0 DEF ChannelIds
    <3>. QED
      BY <1>3, <3>0, <3>1, <3>2 DEF OrbitHandler
  <2>2. CASE req[t].pc \notin OrbitPcs
    BY <1>3, <2>2 DEF OrbitHandler, OrbitPcs
  <2>. QED
    BY <2>1, <2>2
<1>13. NothingLeft'
  <2>1. \A d : (Leaving(d) => Leaving(d)') /\ (Fading(d) => Fading(d)')
    BY <1>3 DEF Leaving, Fading
  <2>. QED
    BY <1>1, <1>3, <1>6, <2>1 DEF OrbitInv, NothingLeft
<1>. QED
  BY <1>2, <1>10, <1>11, <1>12, <1>13 DEF OrbitInv

\* The gateway.
LEMMA ListenKeeps ==
  ASSUME SocialInv, OrbitInv, NEW u \in Users, NEW c \in ChannelIds,
         HandleJoinChannel(u, c) \/ HandleLeaveChannel(u, c)
  PROVE  SocialInv' /\ Touches(OrbitPcs) /\ OrbitInv'
<1>1. /\ AtOnce("listen") /\ channels' = channels /\ channel' = channel
      /\ member' = member /\ message' = message /\ listening' \subseteq ChannelIds \X Users
  BY DEF HandleJoinChannel, HandleLeaveChannel, OrbitInv, OrbitTyped
<1>2. SocialInv' /\ Touches(OrbitPcs) /\ Done
  BY <1>1, DoneStep
<1>3. req' = req /\ (InOrder' => InOrder)
  BY <1>2 DEF Done, Goes, InOrder
<1>4. OwnersSame
  BY <1>1 DEF OwnersSame
<1>5. OrbitTyped' /\ ByTheOwner'
  BY <1>1, <1>4, HereSame DEF OrbitInv, OrbitTyped, ByTheOwner
<1>6. ASSUME NEW t \in Slots PROVE OrbitHandler(t)'
  BY <1>1, <1>3, <1>4, HereSame DEF OrbitInv, OrbitHandler
<1>7. NothingLeft'
  <2>1. \A d : (Leaving(d) => Leaving(d)') /\ (Fading(d) => Fading(d)')
    BY <1>3 DEF Leaving, Fading
  <2>. QED
    BY <1>1, <1>3, <1>4, <2>1, HereSame DEF OrbitInv, NothingLeft
<1>. QED
  BY <1>2, <1>5, <1>6, <1>7 DEF OrbitInv

LEMMA OrbitMoves ==
  ASSUME SocialInv, OrbitInv, OrbitNext
  PROVE  SocialInv' /\ Touches(OrbitPcs) /\ OrbitInv'
<1>1. CASE OrbitAtOnce
  BY <1>1, CreateChannelKeeps, ListenKeeps DEF OrbitAtOnce
<1>2. ASSUME NEW s \in Slots, OrbitContinue(s)
      PROVE  SocialInv' /\ Touches(OrbitPcs) /\ OrbitInv'
  BY <1>2, InsertMemberKeeps, InsertBroadcastKeeps, SetChannelKeeps, RemoveChannelKeeps,
     RemoveMembersKeeps, RemoveBroadcastsKeeps DEF OrbitContinue
<1>. QED
  BY <1>1, <1>2, OrbitStarts DEF OrbitNext

LEMMA OrbitRestarts ==
  ASSUME OrbitInv, Crash, SocialInv
  PROVE  OrbitInv'
<1>1. /\ req' = [s \in Slots |-> Idle] /\ restarts' = restarts + 1
      /\ channel' = channel /\ channels' = channels /\ member' = member /\ message' = message
      /\ listening' = {}
  BY DEF Crash, Restart
<1>2. OwnersSame
  BY <1>1 DEF OwnersSame
<1>3. \A s \in Slots : req'[s].pc = "idle"
  BY <1>1, IdleTyped
<1>4. ~InOrder'
  BY <1>1, SocialAssumption DEF SocialInv, InOrder
<1>5. OrbitTyped' /\ ByTheOwner'
  BY <1>1, <1>2, HereSame DEF OrbitInv, OrbitTyped, ByTheOwner
<1>6. \A s \in Slots : OrbitHandler(s)'
  BY <1>3 DEF OrbitHandler, OrbitPcs
<1>. QED
  BY <1>4, <1>5, <1>6 DEF OrbitInv, NothingLeft

LEMMA OrbitBeginning ==
  ASSUME SocialInit, OrbitInit
  PROVE  OrbitInv
<1>1. \A s \in Slots : req[s].pc = "idle"
  BY IdleTyped DEF SocialInit
<1>2. NoBroadcast.channelId = 0 /\ 0 \notin ChannelIds
      /\ NoBroadcast \in [channelId : {0} \cup ChannelIds, senderId : Users \cup {NoUser}]
      /\ NoChannel \in [ownerId : Users \cup {NoUser}, edited : BOOLEAN, image : BOOLEAN]
      /\ NoChannel.ownerId = NoUser
  BY DEF NoBroadcast, NoChannel, ChannelIds
<1>3. OrbitTyped
  BY <1>2, OrbitChannelAssumption DEF OrbitInit, OrbitTyped
<1>4. \A s \in Slots : OrbitHandler(s)
  BY <1>1 DEF OrbitHandler, OrbitPcs
<1>. QED
  BY <1>2, <1>3, <1>4 DEF OrbitInit, OrbitInv, ByTheOwner, NothingLeft, ChannelHere

-----------------------------------------------------------------------------
(* Stories *)

StoriesPcs ==
  {"insertStory", "insertAttachment", "insertMemory", "removeStory", "toggleLike",
   "findOwner", "findUnliked", "tell", "enter", "tellReply"}

StoriesTyped ==
  /\ story \in [StoryIds -> [here : BOOLEAN, userId : Users \cup {NoUser}, views : SUBSET Users,
                             somePeople : SUBSET Users, expired : BOOLEAN]]
  /\ stories \in 0..MaxStories
  /\ attachment \in [StoryIds -> [here : BOOLEAN, likes : SUBSET Users, reply : Nat]]
  /\ memory \in [StoryIds -> [Users -> Nat]] /\ told \in [StoryIds -> [Users -> Nat]]
  /\ banned \in [StoryIds -> SUBSET Users]

\* A story that was not begun yet.
Unbegun ==
  \A t \in StoryIds : t > stories => ~story[t].here /\ \A u \in Users : memory[t][u] = 0

StoriesHandler(s) ==
  /\ req[s].pc \in StoriesPcs => req[s].id \in StoryIds
  /\ req[s].pc \in StoriesPcs \ {"removeStory"} => req[s].user \in Users
  /\ req[s].pc = "insertStory" => req[s].seen \subseteq Users \ {req[s].user}
  /\ req[s].pc \in {"insertStory", "insertAttachment", "insertMemory"} =>
       req[s].id <= stories
  /\ ~overlapped /\ req[s].pc = "insertStory" => req[s].seen \cap Blocked(req[s].user) = {}
  /\ ~overlapped /\ req[s].pc \in {"insertStory", "insertAttachment", "insertMemory"} =>
       memory[req[s].id][req[s].user] = 0

Attaching(t) == \E s \in Slots : req[s].pc = "insertAttachment" /\ req[s].id = t

AudienceRight ==
  \A t \in StoryIds :
    /\ story[t].userId \notin story[t].somePeople
    /\ ~overlapped => /\ story[t].somePeople \cap banned[t] = {}
                      /\ \A u \in Users : memory[t][u] <= 1

AttachmentThere ==
  restarts = 0 => \A t \in StoryIds : story[t].here => attachment[t].here \/ Attaching(t)

StoriesInv ==
  /\ StoriesTyped /\ Unbegun /\ (\A s \in Slots : StoriesHandler(s))
  /\ AudienceRight /\ AttachmentThere

\* A handler that is not disturbed knows what it knew; one that is need not.
LEMMA StoriesOthers ==
  ASSUME StoriesInv, NEW t \in Slots, req'[t] = req[t], stories' \in Nat, stories <= stories',
         ~overlapped' => req[t].pc = "idle"
  PROVE  StoriesHandler(t)'
<1>1. StoriesHandler(t)
  BY DEF StoriesInv
<1>2. stories \in Nat
  BY StoriesAssumption DEF StoriesInv, StoriesTyped
<1>3. req[t].id \in StoryIds /\ req[t].id <= stories => req[t].id <= stories'
  BY <1>2 DEF StoryIds
<1>4. overlapped' \/ req[t].pc = "idle"
  OBVIOUS
<1>. QED
  BY <1>1, <1>3, <1>4 DEF StoriesHandler, StoriesPcs

\* Steps of others.
LEMMA StoriesRests ==
  ASSUME StoriesInv, Spares(StoriesPcs), UNCHANGED storiesVars
  PROVE  StoriesInv'
<1>1. /\ story' = story /\ stories' = stories /\ attachment' = attachment /\ memory' = memory
      /\ ban' = ban /\ told' = told /\ alone' = alone /\ banned' = banned
  BY DEF storiesVars
<1>2. (~overlapped' => ~overlapped) /\ restarts' = restarts
  BY DEF Spares, Goes
<1>3. StoriesTyped' /\ Unbegun'
  BY <1>1 DEF StoriesInv, StoriesTyped, Unbegun
<1>4. ASSUME NEW s \in Slots PROVE StoriesHandler(s)'
  <2>1. CASE req'[s].pc \in StoriesPcs
    BY <1>1, <1>2, <2>1 DEF StoriesInv, StoriesHandler, Spares, Blocked
  <2>2. CASE req'[s].pc \notin StoriesPcs
    BY <2>2 DEF StoriesHandler, StoriesPcs
  <2>. QED
    BY <2>1, <2>2
<1>5. AudienceRight'
  BY <1>1, <1>2 DEF StoriesInv, AudienceRight
<1>6. AttachmentThere'
  <2>1. \A t : Attaching(t) => Attaching(t)'
    BY DEF Attaching, Spares, StoriesPcs
  <2>. QED
    BY <1>1, <1>2, <2>1 DEF StoriesInv, AttachmentThere
<1>. QED
  BY <1>3, <1>4, <1>5, <1>6 DEF StoriesInv

\* Stories that stay what they were, or go.
StoriesStay ==
  \A t \in StoryIds : /\ story'[t].userId = story[t].userId
                      /\ story'[t].somePeople = story[t].somePeople
                      /\ story'[t].here => story[t].here
AttachmentsStay == \A t \in StoryIds : attachment[t].here => attachment'[t].here
MemoriesStay == \A t \in StoryIds, u \in Users : memory'[t][u] <= memory[t][u]

\* Steps that make nothing new.
LEMMA StoriesSame ==
  ASSUME StoriesInv, StoriesTyped', StoriesStay, AttachmentsStay, MemoriesStay,
         stories' = stories, banned' = banned, Goes,
         \A t \in StoryIds : Attaching(t) => Attaching(t)' \/ attachment'[t].here
  PROVE  Unbegun' /\ AudienceRight' /\ AttachmentThere'
<1>1. \A t \in StoryIds, u \in Users : memory[t][u] \in Nat /\ memory'[t][u] \in Nat
  BY DEF StoriesInv, StoriesTyped
<1>2. Unbegun'
  BY <1>1 DEF StoriesInv, Unbegun, StoriesStay, MemoriesStay
<1>3. AudienceRight'
  <2>1. \A t \in StoryIds, u \in Users : memory[t][u] <= 1 => memory'[t][u] <= 1
    BY <1>1 DEF MemoriesStay
  <2>. QED
    BY <2>1 DEF StoriesInv, AudienceRight, StoriesStay, Goes
<1>4. AttachmentThere'
  BY DEF StoriesInv, AttachmentThere, StoriesStay, AttachmentsStay, Goes
<1>. QED
  BY <1>2, <1>3, <1>4

LEMMA StoriesAt ==
  ASSUME SocialInv, StoriesInv, NEW s \in Slots, req[s].pc \in StoriesPcs
  PROVE  /\ req[s].pc # "idle" /\ req[s].id \in StoryIds
         /\ req[s].pc # "removeStory" => req[s].user \in Users
BY DEF StoriesPcs, StoriesInv, StoriesHandler

LEMMA NoneAttaching ==
  ASSUME NEW s \in Slots, req[s].pc # "insertAttachment",
         \A t \in Slots \ {s} : req'[t] = req[t]
  PROVE  \A t : Attaching(t) => Attaching(t)'
BY DEF Attaching

-----------------------------------------------------------------------------
(* The creation of a story *)

LEMMA CreateStoryKeeps ==
  ASSUME SocialInv, StoriesInv, NEW s \in Slots, NEW u \in Users, NEW privacy \in Privacies,
         NEW people \in SUBSET Users, CreateStory(s, u, privacy, people)
  PROVE  SocialInv' /\ Touches(StoriesPcs) /\ StoriesInv'
<1>. DEFINE seen == Audience(u, privacy, people)
            n == stories + 1
            h == [Call("insertStory", u) EXCEPT !.id = n, !.seen = seen]
<1>1. /\ Free(s, "story") /\ stories < MaxStories /\ stories' = n /\ Begin(s, h)
      /\ story' = story /\ attachment' = attachment /\ memory' = memory /\ ban' = ban
      /\ told' = told /\ alone' = alone /\ banned' = banned
  BY DEF CreateStory
<1>2. stories \in Nat /\ n \in Nat /\ n \in StoryIds /\ n > stories /\ n \in 0..MaxStories
  BY <1>1, StoriesAssumption DEF StoriesInv, StoriesTyped, StoryIds
<1>3. seen \subseteq Users \ {u} /\ seen \cap Blocked(u) = {}
  BY DEF Audience, Privacies
<1>. HIDE DEF seen, n
<1>4. h.pc = "insertStory" /\ h.user = u /\ h.id = n /\ h.seen = seen /\ HandlerTyped(h)
  <2>. DEFINE g == Call("insertStory", u)
  <2>1. u \in Users \cup {NoUser}
    OBVIOUS
  <2>2. HandlerTyped(g) /\ g.pc = "insertStory" /\ g.user = u
    BY <2>1, CallTyped
  <2>3. h = [g EXCEPT !.id = n, !.seen = seen]
    OBVIOUS
  <2>. HIDE DEF g, h
  <2>. QED
    BY <1>2, <2>2, <2>3 DEF HandlerTyped
<1>. HIDE DEF h
<1>5. SocialInv' /\ Touches(StoriesPcs) /\ Begun(s, h)
  BY <1>1, <1>4, BeginStep DEF StoriesPcs
<1>6. /\ req[s].pc = "idle" /\ req'[s] = h /\ (\A t \in Slots \ {s} : req'[t] = req[t])
      /\ Goes /\ (~overlapped' => \A t \in Slots : req[t].pc = "idle")
  BY <1>5 DEF Begun
<1>7. StoriesTyped'
  BY <1>1, <1>2 DEF StoriesInv, StoriesTyped
<1>8. Unbegun'
  BY <1>1, <1>2 DEF StoriesInv, Unbegun, StoryIds
<1>9. AudienceRight'
  BY <1>1, <1>6 DEF StoriesInv, AudienceRight, Goes
<1>10. AttachmentThere'
  BY <1>1, <1>6, NoneAttaching DEF StoriesInv, AttachmentThere, Goes
<1>11. ASSUME NEW t \in Slots PROVE StoriesHandler(t)'
  <2>1. CASE t = s
    <3>1. memory'[n][u] = 0 /\ n <= stories'
      BY <1>1, <1>2 DEF StoriesInv, Unbegun
    <3>2. seen \cap Blocked(u)' = {}
      BY <1>1, <1>3 DEF Blocked
    <3>3. /\ req'[t].pc = "insertStory" /\ req'[t].user = u /\ req'[t].id = n
          /\ req'[t].seen = seen
      BY <1>4, <1>6, <2>1
    <3>4. seen \cap Blocked(req[t].user)' = {}
      BY <3>2, <3>3 DEF Blocked
    <3>. QED
      BY <1>2, <1>3, <3>1, <3>3, <3>4 DEF StoriesHandler, StoriesPcs
  <2>2. CASE t # s
    BY <1>1, <1>2, <1>6, <2>2, StoriesOthers
  <2>. QED
    BY <2>1, <2>2
<1>. QED
  BY <1>5, <1>7, <1>8, <1>9, <1>10, <1>11 DEF StoriesInv

LEMMA InsertStoryKeeps ==
  ASSUME SocialInv, StoriesInv, NEW s \in Slots, InsertStory(s)
  PROVE  SocialInv' /\ Touches(StoriesPcs) /\ StoriesInv'
<1>. DEFINE t == req[s].id
            u == req[s].user
            new == [NoStory EXCEPT !.here = TRUE, !.userId = u, !.somePeople = req[s].seen]
            h == Moved(s, "insertAttachment")
<1>1. /\ req[s].pc = "insertStory" /\ {req[s].pc, "insertAttachment"} \subseteq StoriesPcs
      /\ Goto(s, "insertAttachment")
      /\ story' = [story EXCEPT ![t] = new] /\ banned' = [banned EXCEPT ![t] = Blocked(u)]
      /\ stories' = stories /\ attachment' = attachment /\ memory' = memory /\ ban' = ban
      /\ told' = told /\ alone' = alone
  BY DEF InsertStory, At, StoriesPcs
<1>2. /\ req[s].pc # "idle" /\ t \in StoryIds /\ u \in Users /\ t <= stories
      /\ req[s].seen \subseteq Users \ {u}
      /\ ~overlapped => req[s].seen \cap Blocked(u) = {} /\ memory[t][u] = 0
  BY <1>1, StoriesAt DEF StoriesInv, StoriesHandler
<1>3. /\ SocialInv' /\ Touches(StoriesPcs) /\ Resumed(s, h)
      /\ h.pc = "insertAttachment" /\ h.id = t /\ h.user = u
  BY <1>1, <1>2, GotoStep
<1>. HIDE DEF h
<1>4. /\ req'[s] = h /\ (\A r \in Slots \ {s} : req'[r] = req[r]) /\ Goes
      /\ overlapped' = overlapped /\ (~overlapped => \A r \in Slots \ {s} : req[r].pc = "idle")
  BY <1>3 DEF Resumed
<1>5. /\ new.here /\ new.userId = u /\ new.somePeople = req[s].seen
      /\ new \in [here : BOOLEAN, userId : Users \cup {NoUser}, views : SUBSET Users,
                  somePeople : SUBSET Users, expired : BOOLEAN]
      /\ Blocked(u) \subseteq Users
  BY <1>2 DEF NoStory, Blocked
<1>. HIDE DEF new, t, u
<1>6. StoriesTyped'
  BY <1>1, <1>2, <1>5 DEF StoriesInv, StoriesTyped
<1>7. /\ story'[t] = new /\ banned'[t] = Blocked(u)
      /\ \A r \in StoryIds \ {t} : story'[r] = story[r] /\ banned'[r] = banned[r]
  BY <1>1, <1>2 DEF StoriesInv, StoriesTyped
<1>8. Unbegun'
  <2>1. stories \in Nat /\ t \in Nat /\ ~(t > stories)
    BY <1>2, StoriesAssumption DEF StoriesInv, StoriesTyped, StoryIds
  <2>. QED
    BY <1>1, <1>7, <2>1 DEF StoriesInv, Unbegun
<1>9. AudienceRight'
  BY <1>1, <1>2, <1>4, <1>5, <1>7 DEF StoriesInv, AudienceRight
<1>10. AttachmentThere'
  <2>1. \A r : (r = t => Attaching(r)') /\ (Attaching(r) => Attaching(r)')
    BY <1>1, <1>3, <1>4 DEF Attaching
  <2>. QED
    BY <1>1, <1>4, <1>7, <2>1 DEF StoriesInv, AttachmentThere, Goes
<1>11. ASSUME NEW r \in Slots PROVE StoriesHandler(r)'
  <2>1. CASE r = s
    BY <1>1, <1>2, <1>3, <1>4, <2>1 DEF StoriesHandler, StoriesPcs
  <2>2. CASE r # s
    <3>1. stories \in Nat /\ stories <= stories'
      BY <1>1, StoriesAssumption DEF StoriesInv, StoriesTyped
    <3>. QED
      BY <1>1, <1>4, <2>2, <3>1, StoriesOthers
  <2>. QED
    BY <2>1, <2>2
<1>. QED
  BY <1>3, <1>6, <1>8, <1>9, <1>10, <1>11 DEF StoriesInv

LEMMA InsertAttachmentKeeps ==
  ASSUME SocialInv, StoriesInv, NEW s \in Slots, InsertAttachment(s)
  PROVE  SocialInv' /\ Touches(StoriesPcs) /\ StoriesInv'
<1>. DEFINE t == req[s].id
            u == req[s].user
            h == Moved(s, "insertMemory")
<1>1. /\ req[s].pc = "insertAttachment" /\ {req[s].pc, "insertMemory"} \subseteq StoriesPcs
      /\ Goto(s, "insertMemory")
      /\ attachment' = [attachment EXCEPT ![t].here = TRUE] /\ banned' = banned
      /\ stories' = stories /\ story' = story /\ memory' = memory /\ ban' = ban
      /\ told' = told /\ alone' = alone
  BY DEF InsertAttachment, At, StoriesPcs
<1>2. /\ req[s].pc # "idle" /\ t \in StoryIds /\ u \in Users
      /\ t <= stories /\ (~overlapped => memory[t][u] = 0)
  BY <1>1, StoriesAt DEF StoriesInv, StoriesHandler
<1>3. /\ SocialInv' /\ Touches(StoriesPcs) /\ Resumed(s, h)
      /\ h.pc = "insertMemory" /\ h.id = t /\ h.user = u
  BY <1>1, <1>2, GotoStep
<1>. HIDE DEF h
<1>4. /\ req'[s] = h /\ (\A r \in Slots \ {s} : req'[r] = req[r]) /\ Goes
      /\ overlapped' = overlapped /\ (~overlapped => \A r \in Slots \ {s} : req[r].pc = "idle")
  BY <1>3 DEF Resumed
<1>. HIDE DEF u
<1>5. /\ StoriesTyped' /\ AttachmentsStay /\ attachment'[t].here
  <2>1. attachment \in [StoryIds -> [here : BOOLEAN, likes : SUBSET Users, reply : Nat]]
    BY DEF StoriesInv, StoriesTyped
  <2>2. /\ attachment' \in [StoryIds -> [here : BOOLEAN, likes : SUBSET Users, reply : Nat]]
        /\ attachment'[t].here
        /\ \A r \in StoryIds \ {t} : attachment'[r] = attachment[r]
    BY <1>1, <1>2, <2>1
  <2>. QED
    BY <1>1, <2>2 DEF StoriesInv, StoriesTyped, AttachmentsStay
<1>6. \A r \in StoryIds : Attaching(r) => Attaching(r)' \/ attachment'[r].here
  BY <1>4, <1>5 DEF Attaching
<1>7. stories \in Nat /\ stories <= stories' /\ StoriesStay /\ MemoriesStay
  BY <1>1, StoriesAssumption DEF StoriesInv, StoriesTyped, StoriesStay, MemoriesStay
<1>8. Unbegun' /\ AudienceRight' /\ AttachmentThere'
  BY <1>1, <1>4, <1>5, <1>6, <1>7, StoriesSame
<1>9. ASSUME NEW r \in Slots PROVE StoriesHandler(r)'
  <2>1. CASE r = s
    BY <1>1, <1>2, <1>3, <1>4, <2>1 DEF StoriesHandler, StoriesPcs
  <2>2. CASE r # s
    BY <1>1, <1>4, <1>7, <2>2, StoriesOthers
  <2>. QED
    BY <2>1, <2>2
<1>. QED
  BY <1>3, <1>5, <1>8, <1>9 DEF StoriesInv

\* One memory more, of a user who had none unless handlers have overlapped.
LEMMA InsertMemoryKeeps ==
  ASSUME SocialInv, StoriesInv, NEW s \in Slots, InsertMemory(s)
  PROVE  SocialInv' /\ Touches(StoriesPcs) /\ StoriesInv'
<1>. DEFINE t == req[s].id
            u == req[s].user
<1>1. /\ req[s].pc = "insertMemory" /\ req[s].pc \in StoriesPcs /\ Return(s)
      /\ memory' = [memory EXCEPT ![t][u] = memory[t][u] + 1] /\ banned' = banned
      /\ stories' = stories /\ story' = story /\ attachment' = attachment /\ ban' = ban
      /\ told' = told /\ alone' = alone
  BY DEF InsertMemory, Remember, At, StoriesPcs
<1>2. /\ req[s].pc # "idle" /\ t \in StoryIds /\ u \in Users
      /\ t <= stories /\ (~overlapped => memory[t][u] = 0)
  BY <1>1, StoriesAt DEF StoriesInv, StoriesHandler
<1>3. SocialInv' /\ Touches(StoriesPcs) /\ Resumed(s, Idle)
  BY <1>1, <1>2, ReturnStep
<1>4. /\ req'[s].pc = "idle" /\ (\A r \in Slots \ {s} : req'[r] = req[r]) /\ Goes
      /\ overlapped' = overlapped /\ (~overlapped => \A r \in Slots \ {s} : req[r].pc = "idle")
  BY <1>3, IdleTyped DEF Resumed
<1>. HIDE DEF t, u
<1>5. memory \in [StoryIds -> [Users -> Nat]]
  BY DEF StoriesInv, StoriesTyped
<1>6. /\ memory' \in [StoryIds -> [Users -> Nat]]
      /\ memory'[t][u] = memory[t][u] + 1
      /\ \A r \in StoryIds, v \in Users : r # t \/ v # u => memory'[r][v] = memory[r][v]
  BY <1>1, <1>2, <1>5
<1>7. StoriesTyped'
  BY <1>1, <1>6 DEF StoriesInv, StoriesTyped
<1>8. Unbegun'
  <2>1. stories \in Nat /\ t \in Nat /\ ~(t > stories)
    BY <1>2, StoriesAssumption DEF StoriesInv, StoriesTyped, StoryIds
  <2>. QED
    BY <1>1, <1>6, <2>1 DEF StoriesInv, Unbegun
<1>9. AudienceRight'
  <2>1. ASSUME ~overlapped, NEW r \in StoryIds, NEW v \in Users PROVE memory'[r][v] <= 1
    <3>1. CASE r = t /\ v = u
      BY <1>2, <1>6, <2>1, <3>1
    <3>2. CASE r # t \/ v # u
      BY <1>6, <2>1, <3>2 DEF StoriesInv, AudienceRight
    <3>. QED
      BY <3>1, <3>2
  <2>. QED
    BY <1>1, <1>4, <2>1 DEF StoriesInv, AudienceRight
<1>10. AttachmentThere'
  BY <1>1, <1>4, NoneAttaching DEF StoriesInv, AttachmentThere, Goes
<1>11. ASSUME NEW r \in Slots PROVE StoriesHandler(r)'
  <2>1. CASE r = s
    BY <1>4, <2>1 DEF StoriesHandler, StoriesPcs
  <2>2. CASE r # s
    <3>1. stories \in Nat /\ stories <= stories'
      BY <1>1, StoriesAssumption DEF StoriesInv, StoriesTyped
    <3>. QED
      BY <1>1, <1>4, <2>2, <3>1, StoriesOthers
  <2>. QED
    BY <2>1, <2>2
<1>. QED
  BY <1>3, <1>7, <1>8, <1>9, <1>10, <1>11 DEF StoriesInv

-----------------------------------------------------------------------------
(* What becomes of a story *)

\* A handler that has found the story or its attachment, and that changes no more
\* than replies and messages before it goes on.
StoriesBegun(s, h) ==
  /\ HandlerTyped(h) /\ Begin(s, h) /\ h.id \in StoryIds
  /\ story' = story /\ stories' = stories /\ memory' = memory /\ ban' = ban
  /\ told' = told /\ banned' = banned
  /\ attachment' \in [StoryIds -> [here : BOOLEAN, likes : SUBSET Users, reply : Nat]]
  /\ AttachmentsStay

LEMMA StoriesBegins ==
  ASSUME SocialInv, StoriesInv, NEW s \in Slots, NEW request, Free(s, request),
         NEW h, StoriesBegun(s, h),
         h.pc \in {"insertMemory", "removeStory", "toggleLike", "findOwner"},
         h.pc # "removeStory" => h.user \in Users,
         h.pc = "insertMemory" => h.id <= stories /\ memory[h.id][h.user] = 0
  PROVE  SocialInv' /\ Touches(StoriesPcs) /\ StoriesInv'
<1>1. SocialInv' /\ Touches(StoriesPcs) /\ Begun(s, h)
  BY BeginStep DEF StoriesPcs, StoriesBegun
<1>2. /\ req[s].pc = "idle" /\ req'[s] = h /\ (\A t \in Slots \ {s} : req'[t] = req[t])
      /\ Goes /\ (~overlapped' => \A t \in Slots : req[t].pc = "idle")
  BY <1>1 DEF Begun
<1>3. StoriesTyped' /\ StoriesStay /\ MemoriesStay /\ AttachmentsStay
  BY DEF StoriesInv, StoriesTyped, StoriesStay, MemoriesStay, StoriesBegun
<1>4. stories \in Nat /\ stories <= stories' /\ stories' = stories /\ banned' = banned
      /\ memory' = memory
  BY StoriesAssumption DEF StoriesInv, StoriesTyped, StoriesBegun
<1>5. Unbegun' /\ AudienceRight' /\ AttachmentThere'
  BY <1>2, <1>3, <1>4, StoriesSame, NoneAttaching
<1>6. ASSUME NEW t \in Slots PROVE StoriesHandler(t)'
  <2>1. CASE t = s
    BY <1>2, <1>4, <2>1 DEF StoriesHandler, StoriesPcs, StoriesBegun
  <2>2. CASE t # s
    BY <1>2, <1>4, <2>2, StoriesOthers
  <2>. QED
    BY <2>1, <2>2
<1>. QED
  BY <1>1, <1>3, <1>5, <1>6 DEF StoriesInv

LEMMA FoundTyped ==
  ASSUME NEW pc, NEW u, u \in Users \cup {NoUser}, NEW t \in StoryIds
  PROVE  LET h == [Call(pc, u) EXCEPT !.id = t]
         IN HandlerTyped(h) /\ h.pc = pc /\ h.user = u /\ h.id = t
<1>. DEFINE g == Call(pc, u)
            h == [Call(pc, u) EXCEPT !.id = t]
<1>1. HandlerTyped(g) /\ g.pc = pc /\ g.user = u /\ t \in Nat
  BY CallTyped DEF StoryIds
<1>2. h = [g EXCEPT !.id = t]
  OBVIOUS
<1>. HIDE DEF g
<1>3. HandlerTyped(h) /\ h.pc = pc /\ h.user = u /\ h.id = t
  BY <1>1, <1>2 DEF HandlerTyped
<1>. QED
  BY <1>3

LEMMA StoriesStarts ==
  ASSUME SocialInv, StoriesInv, NEW s \in Slots, StoriesStart(s)
  PROVE  SocialInv' /\ Touches(StoriesPcs) /\ StoriesInv'
<1>0. /\ attachment \in [StoryIds -> [here : BOOLEAN, likes : SUBSET Users, reply : Nat]]
      /\ (UNCHANGED storiesVars => /\ story' = story /\ stories' = stories /\ memory' = memory
                                   /\ ban' = ban /\ told' = told /\ banned' = banned
                                   /\ attachment' = attachment /\ AttachmentsStay)
  BY DEF StoriesInv, StoriesTyped, storiesVars, AttachmentsStay
<1>1. ASSUME NEW t \in StoryIds, DeleteStory(s, t)
      PROVE  SocialInv' /\ Touches(StoriesPcs) /\ StoriesInv'
  <2>. DEFINE u == story[t].userId
              h == [Call("removeStory", u) EXCEPT !.id = t]
  <2>1. u \in Users \cup {NoUser}
    BY DEF StoriesInv, StoriesTyped
  <2>2. HandlerTyped(h) /\ h.pc = "removeStory" /\ h.user = u /\ h.id = t
    BY <2>1, FoundTyped
  <2>3. Free(s, "removeStory") /\ Begin(s, h) /\ UNCHANGED storiesVars
    BY <1>1 DEF DeleteStory
  <2>. HIDE DEF h
  <2>4. StoriesBegun(s, h)
    BY <1>0, <2>2, <2>3 DEF StoriesBegun
  <2>. QED
    BY <2>2, <2>3, <2>4, StoriesBegins
<1>2. ASSUME NEW u \in Users, NEW privacy \in Privacies, NEW people \in SUBSET Users,
             CreateStory(s, u, privacy, people)
      PROVE  SocialInv' /\ Touches(StoriesPcs) /\ StoriesInv'
  BY <1>2, CreateStoryKeeps
<1>3. ASSUME NEW u \in Users, NEW t \in StoryIds, KeepMemory(s, u, t)
      PROVE  SocialInv' /\ Touches(StoriesPcs) /\ StoriesInv'
  <2>. DEFINE h == [Call("insertMemory", u) EXCEPT !.id = t]
  <2>1. u \in Users \cup {NoUser} /\ u \in Users
    OBVIOUS
  <2>2. HandlerTyped(h) /\ h.pc = "insertMemory" /\ h.user = u /\ h.id = t
    BY <2>1, FoundTyped
  <2>3. /\ Free(s, "memory") /\ Begin(s, h) /\ UNCHANGED storiesVars
        /\ memory[t][u] = 0 /\ story[t].here
    BY <1>3 DEF KeepMemory
  <2>. HIDE DEF h
  <2>4. StoriesBegun(s, h)
    BY <1>0, <2>2, <2>3 DEF StoriesBegun
  <2>5. t <= stories
    BY <2>3, StoriesAssumption DEF StoriesInv, StoriesTyped, Unbegun, StoryIds
  <2>. QED
    BY <2>1, <2>2, <2>3, <2>4, <2>5, StoriesBegins
<1>4. ASSUME NEW u \in Users, NEW t \in StoryIds, RemoveStart(s, u, t)
      PROVE  SocialInv' /\ Touches(StoriesPcs) /\ StoriesInv'
  <2>. DEFINE h == [Call("removeStory", u) EXCEPT !.id = t]
  <2>1. u \in Users \cup {NoUser}
    OBVIOUS
  <2>2. HandlerTyped(h) /\ h.pc = "removeStory" /\ h.user = u /\ h.id = t
    BY <2>1, FoundTyped
  <2>3. Free(s, "removeStory") /\ Begin(s, h) /\ UNCHANGED storiesVars
    BY <1>4 DEF RemoveStart
  <2>. HIDE DEF h
  <2>4. StoriesBegun(s, h)
    BY <1>0, <2>2, <2>3 DEF StoriesBegun
  <2>. QED
    BY <2>2, <2>3, <2>4, StoriesBegins
<1>5. ASSUME NEW u \in Users, NEW t \in StoryIds, ReactToStory(s, u, t)
      PROVE  SocialInv' /\ Touches(StoriesPcs) /\ StoriesInv'
  <2>. DEFINE g == [Call("toggleLike", u) EXCEPT !.id = t]
              liked == u \notin attachment[t].likes
              h == [g EXCEPT !.flag = liked]
  <2>1. u \in Users \cup {NoUser} /\ u \in Users
    OBVIOUS
  <2>2. HandlerTyped(g) /\ g.pc = "toggleLike" /\ g.user = u /\ g.id = t
    BY <2>1, FoundTyped
  <2>3. Free(s, "react") /\ UNCHANGED storiesVars
        /\ Begin(s, [Call("toggleLike", u) EXCEPT !.id = t, !.flag = liked])
    BY <1>5 DEF ReactToStory
  <2>4. h = [Call("toggleLike", u) EXCEPT !.id = t, !.flag = liked] /\ liked \in BOOLEAN
    OBVIOUS
  <2>. HIDE DEF g, liked
  <2>5. HandlerTyped(h) /\ h.pc = "toggleLike" /\ h.user = u /\ h.id = t
    BY <2>2, <2>4 DEF HandlerTyped
  <2>6. Begin(s, h)
    BY <2>3, <2>4
  <2>. HIDE DEF h
  <2>7. StoriesBegun(s, h)
    BY <1>0, <2>3, <2>5, <2>6 DEF StoriesBegun
  <2>. QED
    BY <2>1, <2>3, <2>5, <2>7, StoriesBegins
<1>6. ASSUME NEW u \in Users, NEW t \in StoryIds, ReplyToStory(s, u, t)
      PROVE  SocialInv' /\ Touches(StoriesPcs) /\ StoriesInv'
  <2>. DEFINE g == [Call("findOwner", u) EXCEPT !.id = t]
              h == [g EXCEPT !.word = "reply"]
  <2>1. u \in Users \cup {NoUser} /\ u \in Users
    OBVIOUS
  <2>2. HandlerTyped(g) /\ g.pc = "findOwner" /\ g.user = u /\ g.id = t
    BY <2>1, FoundTyped
  <2>3. /\ Free(s, "reply") /\ story' = story /\ stories' = stories /\ memory' = memory
        /\ ban' = ban /\ told' = told /\ banned' = banned
        /\ attachment' = [attachment EXCEPT ![t].reply = attachment[t].reply + 1]
        /\ Begin(s, [Call("findOwner", u) EXCEPT !.id = t, !.word = "reply"])
    BY <1>6 DEF ReplyToStory
  <2>4. h = [Call("findOwner", u) EXCEPT !.id = t, !.word = "reply"]
    OBVIOUS
  <2>. HIDE DEF g
  <2>5. HandlerTyped(h) /\ h.pc = "findOwner" /\ h.user = u /\ h.id = t
    BY <2>2, <2>4 DEF HandlerTyped
  <2>6. Begin(s, h)
    BY <2>3, <2>4
  <2>. HIDE DEF h
  <2>7. attachment[t].reply + 1 \in Nat
    BY <1>0
  <2>8. /\ attachment' \in [StoryIds -> [here : BOOLEAN, likes : SUBSET Users, reply : Nat]]
        /\ \A r \in StoryIds : attachment'[r].here = attachment[r].here
    BY <1>0, <2>3, <2>7
  <2>9. StoriesBegun(s, h)
    BY <1>0, <2>3, <2>5, <2>6, <2>8 DEF StoriesBegun, AttachmentsStay
  <2>. QED
    BY <2>1, <2>3, <2>5, <2>9, StoriesBegins
<1>. QED
  BY <1>1, <1>2, <1>3, <1>4, <1>5, <1>6 DEF StoriesStart

\* The other steps of a handler: nothing is made, but for likes and messages.
StoriesOn(s) ==
  /\ StoriesTyped' /\ StoriesStay /\ AttachmentsStay
  /\ stories' = stories /\ memory' = memory /\ banned' = banned

LEMMA StoriesReturn ==
  ASSUME SocialInv, StoriesInv, NEW s \in Slots, req[s].pc \in StoriesPcs \ {"insertAttachment"},
         StoriesOn(s), Return(s)
  PROVE  SocialInv' /\ Touches(StoriesPcs) /\ StoriesInv'
<1>1. SocialInv' /\ Touches(StoriesPcs) /\ Resumed(s, Idle)
  BY StoriesAt, ReturnStep
<1>2. /\ req'[s].pc = "idle" /\ (\A r \in Slots \ {s} : req'[r] = req[r]) /\ Goes
      /\ overlapped' = overlapped /\ (~overlapped => \A r \in Slots \ {s} : req[r].pc = "idle")
  BY <1>1, IdleTyped DEF Resumed
<1>3. stories \in Nat /\ stories <= stories' /\ MemoriesStay
  BY StoriesAssumption DEF StoriesInv, StoriesTyped, StoriesOn, MemoriesStay
<1>4. Unbegun' /\ AudienceRight' /\ AttachmentThere'
  BY <1>2, <1>3, StoriesSame, NoneAttaching DEF StoriesOn
<1>5. ASSUME NEW r \in Slots PROVE StoriesHandler(r)'
  <2>1. CASE r = s
    BY <1>2, <2>1 DEF StoriesHandler, StoriesPcs
  <2>2. CASE r # s
    BY <1>2, <1>3, <2>2, StoriesOthers DEF StoriesOn
  <2>. QED
    BY <2>1, <2>2
<1>. QED
  BY <1>1, <1>4, <1>5 DEF StoriesInv, StoriesOn

LEMMA StoriesGoto ==
  ASSUME SocialInv, StoriesInv, NEW s \in Slots,
         req[s].pc \in StoriesPcs \ {"insertAttachment", "removeStory"},
         NEW pc \in {"findOwner", "findUnliked", "tell", "enter", "tellReply"},
         StoriesOn(s), Goto(s, pc)
  PROVE  SocialInv' /\ Touches(StoriesPcs) /\ StoriesInv'
<1>. DEFINE h == Moved(s, pc)
<1>0. {req[s].pc, pc} \subseteq StoriesPcs /\ req[s].pc # "idle"
      /\ req[s].id \in StoryIds /\ req[s].user \in Users
  BY StoriesAt DEF StoriesPcs
<1>1. SocialInv' /\ Touches(StoriesPcs) /\ Resumed(s, h)
      /\ h.pc = pc /\ h.id = req[s].id /\ h.user = req[s].user
  BY <1>0, GotoStep
<1>. HIDE DEF h
<1>2. /\ req'[s] = h /\ (\A r \in Slots \ {s} : req'[r] = req[r]) /\ Goes
      /\ overlapped' = overlapped /\ (~overlapped => \A r \in Slots \ {s} : req[r].pc = "idle")
  BY <1>1 DEF Resumed
<1>3. stories \in Nat /\ stories <= stories' /\ MemoriesStay
  BY StoriesAssumption DEF StoriesInv, StoriesTyped, StoriesOn, MemoriesStay
<1>4. Unbegun' /\ AudienceRight' /\ AttachmentThere'
  BY <1>2, <1>3, StoriesSame, NoneAttaching DEF StoriesOn
<1>5. ASSUME NEW r \in Slots PROVE StoriesHandler(r)'
  <2>1. CASE r = s
    BY <1>0, <1>1, <1>2, <2>1 DEF StoriesHandler, StoriesPcs
  <2>2. CASE r # s
    BY <1>2, <1>3, <2>2, StoriesOthers DEF StoriesOn
  <2>. QED
    BY <2>1, <2>2
<1>. QED
  BY <1>1, <1>4, <1>5 DEF StoriesInv, StoriesOn

LEMMA RemoveStoryKeeps ==
  ASSUME SocialInv, StoriesInv, NEW s \in Slots, RemoveStory(s)
  PROVE  SocialInv' /\ Touches(StoriesPcs) /\ StoriesInv'
<1>. DEFINE t == req[s].id
<1>1. /\ req[s].pc = "removeStory" /\ req[s].pc \in StoriesPcs \ {"insertAttachment"} /\ Return(s)
      /\ story' = [story EXCEPT ![t].here = FALSE] /\ banned' = banned
      /\ stories' = stories /\ memory' = memory /\ attachment' = attachment
      /\ told' = told
  BY DEF RemoveStory, At, StoriesPcs
<1>2. t \in StoryIds
  BY <1>1, StoriesAt
<1>. HIDE DEF t
<1>3. StoriesTyped' /\ StoriesStay /\ AttachmentsStay
  <2>1. story \in [StoryIds -> [here : BOOLEAN, userId : Users \cup {NoUser}, views : SUBSET Users,
                                somePeople : SUBSET Users, expired : BOOLEAN]]
    BY DEF StoriesInv, StoriesTyped
  <2>2. /\ story' \in [StoryIds -> [here : BOOLEAN, userId : Users \cup {NoUser}, views : SUBSET Users,
                                    somePeople : SUBSET Users, expired : BOOLEAN]]
        /\ \A r \in StoryIds : /\ story'[r].userId = story[r].userId
                               /\ story'[r].somePeople = story[r].somePeople
                               /\ story'[r].here => story[r].here
    BY <1>1, <1>2, <2>1
  <2>. QED
    BY <1>1, <2>2 DEF StoriesInv, StoriesTyped, StoriesStay, AttachmentsStay
<1>. QED
  BY <1>1, <1>3, StoriesReturn DEF StoriesOn

LEMMA ToggleLikeKeeps ==
  ASSUME SocialInv, StoriesInv, NEW s \in Slots, ToggleLike(s)
  PROVE  SocialInv' /\ Touches(StoriesPcs) /\ StoriesInv'
<1>. DEFINE t == req[s].id
            u == req[s].user
            likes == IF req[s].flag THEN attachment[t].likes \cup {u}
                                    ELSE attachment[t].likes \ {u}
            pc == IF req[s].flag THEN "findOwner" ELSE "findUnliked"
<1>1. /\ req[s].pc = "toggleLike"
      /\ req[s].pc \in StoriesPcs \ {"insertAttachment", "removeStory"}
      /\ Goto(s, pc) /\ pc \in {"findOwner", "findUnliked", "tell", "enter", "tellReply"}
      /\ attachment' = [attachment EXCEPT ![t].likes = likes] /\ banned' = banned
      /\ stories' = stories /\ memory' = memory /\ story' = story
      /\ told' = told
  BY DEF ToggleLike, At, StoriesPcs
<1>2. t \in StoryIds /\ u \in Users
  BY <1>1, StoriesAt
<1>3. attachment \in [StoryIds -> [here : BOOLEAN, likes : SUBSET Users, reply : Nat]]
  BY DEF StoriesInv, StoriesTyped
<1>4. likes \subseteq Users
  BY <1>2, <1>3
<1>. HIDE DEF t, likes, pc
<1>5. /\ attachment' \in [StoryIds -> [here : BOOLEAN, likes : SUBSET Users, reply : Nat]]
      /\ \A r \in StoryIds : attachment'[r].here = attachment[r].here
  BY <1>1, <1>2, <1>3, <1>4
<1>6. StoriesTyped' /\ StoriesStay /\ AttachmentsStay
  BY <1>1, <1>5 DEF StoriesInv, StoriesTyped, StoriesStay, AttachmentsStay
<1>. QED
  BY <1>1, <1>6, StoriesGoto DEF StoriesOn

LEMMA FindOwnerKeeps ==
  ASSUME SocialInv, StoriesInv, NEW s \in Slots, FindOwner(s)
  PROVE  SocialInv' /\ Touches(StoriesPcs) /\ StoriesInv'
<1>. DEFINE pc == IF req[s].word = "reply" THEN "enter" ELSE "tell"
<1>1. /\ req[s].pc \in StoriesPcs \ {"insertAttachment", "removeStory"}
      /\ Goto(s, pc) \/ Return(s)
      /\ pc \in {"findOwner", "findUnliked", "tell", "enter", "tellReply"}
      /\ UNCHANGED storiesVars
  BY DEF FindOwner, At, StoriesPcs
<1>2. StoriesOn(s)
  BY <1>1 DEF StoriesInv, StoriesTyped, StoriesStay, AttachmentsStay, StoriesOn, storiesVars
<1>. HIDE DEF pc
<1>. QED
  BY <1>1, <1>2, StoriesGoto, StoriesReturn

\* tell, enter and tellReply: messages, and the rooms with oneself.
LEMMA TellKeeps ==
  ASSUME SocialInv, StoriesInv, NEW s \in Slots, Tell(s) \/ EnterRoom(s) \/ TellReply(s)
  PROVE  SocialInv' /\ Touches(StoriesPcs) /\ StoriesInv'
<1>. DEFINE t == req[s].id
            u == req[s].user
<1>1. /\ req[s].pc \in StoriesPcs \ {"insertAttachment", "removeStory"}
      /\ Goto(s, "tellReply") \/ Return(s)
      /\ attachment' = attachment /\ banned' = banned
      /\ stories' = stories /\ memory' = memory /\ story' = story
      /\ told' = told \/ told' = [told EXCEPT ![t][u] = told[t][u] + 1]
  BY DEF Tell, EnterRoom, TellReply, At, StoriesPcs
<1>2. t \in StoryIds /\ u \in Users /\ told \in [StoryIds -> [Users -> Nat]]
  BY <1>1, StoriesAt DEF StoriesInv, StoriesTyped
<1>3. told' \in [StoryIds -> [Users -> Nat]]
  BY <1>1, <1>2
<1>4. StoriesTyped' /\ StoriesStay /\ AttachmentsStay
  BY <1>1, <1>3 DEF StoriesInv, StoriesTyped, StoriesStay, AttachmentsStay
<1>. QED
  BY <1>1, <1>4, StoriesGoto, StoriesReturn DEF StoriesOn

\* One operation: memories and views, bans, and the hours that pass.
LEMMA StoriesOnce ==
  ASSUME SocialInv, StoriesInv, StoriesTyped', StoriesStay, MemoriesStay,
         attachment' = attachment, stories' = stories, banned' = banned, SocialInv',
         \/ Done
         \/ /\ req' = req /\ overlapped' = overlapped /\ Goes
            /\ memory' = memory /\ ban' = ban
  PROVE  StoriesInv'
<1>1. req' = req /\ Goes
  BY DEF Done
<1>2. AttachmentsStay /\ \A r : Attaching(r) => Attaching(r)'
  BY <1>1 DEF AttachmentsStay, Attaching
<1>3. Unbegun' /\ AudienceRight' /\ AttachmentThere'
  BY <1>1, <1>2, StoriesSame
<1>4. stories \in Nat /\ stories <= stories'
  BY StoriesAssumption DEF StoriesInv, StoriesTyped
<1>5. ASSUME NEW t \in Slots PROVE StoriesHandler(t)'
  <2>1. CASE Done
    BY <1>4, <2>1, StoriesOthers DEF Done
  <2>2. CASE overlapped' = overlapped /\ memory' = memory /\ ban' = ban
    BY <1>1, <2>2 DEF StoriesInv, StoriesHandler, Blocked
  <2>. QED
    BY <2>1, <2>2
<1>. QED
  BY <1>3, <1>5 DEF StoriesInv

LEMMA StoriesMoves ==
  ASSUME SocialInv, StoriesInv, StoriesNext
  PROVE  SocialInv' /\ Touches(StoriesPcs) /\ StoriesInv'
<1>0. /\ story \in [StoryIds -> [here : BOOLEAN, userId : Users \cup {NoUser}, views : SUBSET Users,
                                 somePeople : SUBSET Users, expired : BOOLEAN]]
      /\ memory \in [StoryIds -> [Users -> Nat]]
  BY DEF StoriesInv, StoriesTyped
<1>1. ASSUME NEW u \in Users, NEW t \in StoryIds, RemoveMemory(u, t)
      PROVE  SocialInv' /\ Touches(StoriesPcs) /\ StoriesInv'
  <2>1. /\ AtOnce("memory") /\ memory[t][u] > 0
        /\ memory' = [memory EXCEPT ![t][u] = memory[t][u] - 1] /\ banned' = banned
        /\ stories' = stories /\ attachment' = attachment /\ story' = story /\ told' = told
    BY <1>1 DEF RemoveMemory
  <2>2. SocialInv' /\ Touches(StoriesPcs) /\ Done
    BY <2>1, DoneStep
  <2>3. memory[t][u] - 1 \in Nat
    BY <1>0, <2>1
  <2>4. /\ memory' \in [StoryIds -> [Users -> Nat]]
        /\ \A r \in StoryIds, v \in Users :
             memory'[r][v] = IF r = t /\ v = u THEN memory[t][u] - 1 ELSE memory[r][v]
    BY <1>0, <2>1, <2>3
  <2>5. MemoriesStay
    <3>1. \A r \in StoryIds, v \in Users : memory[r][v] \in Nat
      BY <1>0
    <3>2. \A r \in StoryIds, v \in Users : memory'[r][v] <= memory[r][v]
      BY <2>4, <3>1
    <3>. QED
      BY <3>2 DEF MemoriesStay
  <2>6. StoriesTyped' /\ StoriesStay
    BY <2>1, <2>4 DEF StoriesInv, StoriesTyped, StoriesStay
  <2>. QED
    BY <2>1, <2>2, <2>5, <2>6, StoriesOnce
<1>2. ASSUME NEW u \in Users, NEW t \in StoryIds, AddView(u, t)
      PROVE  SocialInv' /\ Touches(StoriesPcs) /\ StoriesInv'
  <2>1. /\ AtOnce("view")
        /\ story' = [story EXCEPT ![t].views = story[t].views \cup {u}] /\ banned' = banned
        /\ stories' = stories /\ attachment' = attachment /\ memory' = memory /\ told' = told
    BY <1>2 DEF AddView
  <2>2. SocialInv' /\ Touches(StoriesPcs) /\ Done
    BY <2>1, DoneStep
  <2>3. story[t].views \cup {u} \subseteq Users
    BY <1>0
  <2>4. /\ story' \in [StoryIds -> [here : BOOLEAN, userId : Users \cup {NoUser},
                                    views : SUBSET Users, somePeople : SUBSET Users,
                                    expired : BOOLEAN]]
        /\ \A r \in StoryIds : /\ story'[r].userId = story[r].userId
                               /\ story'[r].somePeople = story[r].somePeople
                               /\ story'[r].here = story[r].here
    BY ZenonT(60), <1>0, <2>1, <2>3
  <2>5. StoriesTyped' /\ StoriesStay /\ MemoriesStay
    BY <1>0, <2>1, <2>4 DEF StoriesInv, StoriesTyped, StoriesStay, MemoriesStay
  <2>. QED
    BY <2>1, <2>2, <2>5, StoriesOnce
<1>3. ASSUME NEW u \in Users, NEW v \in Users, Ban(u, v)
      PROVE  SocialInv' /\ Touches(StoriesPcs) /\ StoriesInv'
  <2>1. /\ AtOnce("ban") /\ story' = story /\ banned' = banned
        /\ stories' = stories /\ attachment' = attachment /\ memory' = memory /\ told' = told
    BY <1>3 DEF Ban
  <2>2. SocialInv' /\ Touches(StoriesPcs) /\ Done
    BY <2>1, DoneStep
  <2>3. StoriesTyped' /\ StoriesStay /\ MemoriesStay
    BY <1>0, <2>1 DEF StoriesInv, StoriesTyped, StoriesStay, MemoriesStay
  <2>. QED
    BY <2>1, <2>2, <2>3, StoriesOnce
<1>4. ASSUME NEW t \in StoryIds, ExpireStory(t)
      PROVE  SocialInv' /\ Touches(StoriesPcs) /\ StoriesInv'
  <2>1. /\ UNCHANGED social
        /\ story' = [story EXCEPT ![t].expired = TRUE] /\ banned' = banned
        /\ stories' = stories /\ attachment' = attachment /\ memory' = memory /\ told' = told
        /\ ban' = ban
    BY <1>4 DEF ExpireStory
  <2>2. SocialInv' /\ Touches(StoriesPcs) /\ Goes /\ req' = req /\ overlapped' = overlapped
    BY <2>1, SameStep
  <2>3. /\ story' \in [StoryIds -> [here : BOOLEAN, userId : Users \cup {NoUser},
                                    views : SUBSET Users, somePeople : SUBSET Users,
                                    expired : BOOLEAN]]
        /\ \A r \in StoryIds : /\ story'[r].userId = story[r].userId
                               /\ story'[r].somePeople = story[r].somePeople
                               /\ story'[r].here = story[r].here
    BY <1>0, <2>1
  <2>4. StoriesTyped' /\ StoriesStay /\ MemoriesStay
    <3>1. \A r \in StoryIds, v \in Users : memory[r][v] \in Nat
      BY <1>0
    <3>2. MemoriesStay
      BY <2>1, <3>1 DEF MemoriesStay
    <3>. QED
      BY <2>1, <2>3, <3>2 DEF StoriesInv, StoriesTyped, StoriesStay
  <2>. QED
    BY <2>1, <2>2, <2>4, StoriesOnce
<1>5. ASSUME NEW s \in Slots, StoriesContinue(s)
      PROVE  SocialInv' /\ Touches(StoriesPcs) /\ StoriesInv'
  BY <1>5, InsertStoryKeeps, InsertAttachmentKeeps, InsertMemoryKeeps, RemoveStoryKeeps,
     ToggleLikeKeeps, FindOwnerKeeps, TellKeeps DEF StoriesContinue
<1>. QED
  BY <1>1, <1>2, <1>3, <1>4, <1>5, StoriesStarts DEF StoriesNext, StoriesAtOnce

LEMMA StoriesRestarts ==
  ASSUME StoriesInv, Crash, SocialInv
  PROVE  StoriesInv'
<1>1. /\ req' = [s \in Slots |-> Idle] /\ restarts' = restarts + 1 /\ overlapped' = overlapped
      /\ UNCHANGED storiesVars
  BY DEF Crash, Restart
<1>2. \A s \in Slots : req'[s].pc = "idle"
  BY <1>1, IdleTyped
<1>3. restarts' # 0
  BY <1>1, SocialAssumption DEF SocialInv
<1>4. StoriesTyped' /\ Unbegun'
  BY <1>1 DEF StoriesInv, StoriesTyped, Unbegun, storiesVars
<1>5. AudienceRight'
  BY <1>1 DEF StoriesInv, AudienceRight, storiesVars
<1>6. \A s \in Slots : StoriesHandler(s)'
  BY <1>2 DEF StoriesHandler, StoriesPcs
<1>. QED
  BY <1>3, <1>4, <1>5, <1>6 DEF StoriesInv, AttachmentThere

LEMMA StoriesBeginning ==
  ASSUME SocialInit, StoriesInit
  PROVE  StoriesInv
<1>1. \A s \in Slots : req[s].pc = "idle"
  BY IdleTyped DEF SocialInit
<1>2. /\ NoStory \in [here : BOOLEAN, userId : Users \cup {NoUser}, views : SUBSET Users,
                      somePeople : SUBSET Users, expired : BOOLEAN]
      /\ NoAttachment \in [here : BOOLEAN, likes : SUBSET Users, reply : Nat]
      /\ NoStory.here = FALSE /\ NoStory.somePeople = {}
  BY DEF NoStory, NoAttachment
<1>3. /\ story = [t \in StoryIds |-> NoStory] /\ stories = 0
      /\ attachment = [t \in StoryIds |-> NoAttachment]
      /\ memory = [t \in StoryIds |-> [u \in Users |-> 0]]
      /\ told = [t \in StoryIds |-> [u \in Users |-> 0]]
      /\ banned = [t \in StoryIds |-> {}]
  BY DEF StoriesInit
<1>4. StoriesTyped
  BY <1>2, <1>3, StoriesAssumption DEF StoriesTyped
<1>5. \A s \in Slots : StoriesHandler(s)
  BY <1>1 DEF StoriesHandler, StoriesPcs
<1>6. Unbegun /\ AudienceRight /\ AttachmentThere
  BY <1>2, <1>3 DEF Unbegun, AudienceRight, AttachmentThere
<1>. QED
  BY <1>4, <1>5, <1>6 DEF StoriesInv

-----------------------------------------------------------------------------
(* The market *)

MarketPcs ==
  {"saveEdit", "saveVisibility", "saveRenewal", "removeListing", "saveViews", "saveLike",
   "insertReport", "saveApproval", "insertReview", "readRatings", "saveRating",
   "insertApplication"}

MarketTyped ==
  /\ listing \in [status : ListingStatus, hide : BOOLEAN, isExpired : BOOLEAN,
                  due : BOOLEAN, edited : BOOLEAN]
  /\ engagement \in [Users -> [here : BOOLEAN, isLiked : BOOLEAN, contacted : BOOLEAN]]
  /\ reports \in Nat
  /\ review \in [Users -> Ratings \cup {0}] /\ application \in [Users -> Nat]
  /\ profile = [here |-> profile.here, average |-> profile.average,
                blockedUsers |-> profile.blockedUsers, licence |-> profile.licence,
                badge |-> profile.badge]
  /\ profile.here \in BOOLEAN /\ profile.licence \in {"none", "pending", "approved"}
  /\ views \in [Opened -> Nat] /\ opened \in [Opened -> Nat]

MarketHandler(s) ==
  /\ req[s].pc \in {"saveLike", "insertReview", "insertApplication"} => req[s].user \in Users
  /\ req[s].pc = "insertReview" => req[s].number \in Ratings
  /\ req[s].pc = "saveViews" => req[s].word \in Opened
  /\ req[s].pc = "saveVisibility" => "hide" \in scene.menu
  /\ req[s].pc = "saveRenewal" /\ scene.menu \cap {"publish", "hide"} = {} =>
       (req[s].flag <=> req[s].word = "expired")
  /\ InOrder /\ req[s].pc = "saveViews" =>
       /\ req[s].number = views[req[s].word]
       /\ req[s].word = "listing" => Posted
  /\ InOrder /\ req[s].pc = "saveRating" => req[s].seen = Average
  /\ ~overlapped /\ req[s].pc = "insertApplication" => application[req[s].user] = 0

Opening(o) == \E s \in Slots : req[s].pc = "saveViews" /\ req[s].word = o
Rating == \E s \in Slots : req[s].pc \in {"readRatings", "saveRating"}

CountedRight ==
  /\ InOrder => /\ \A o \in Opened : opened[o] = IF Opening(o) THEN views[o] + 1 ELSE views[o]
                /\ profile.average \in {<<0, 0>>, Average} \/ Rating
  /\ ~profile.here => profile.average = <<0, 0>>
  /\ ~overlapped => \A u \in Users : application[u] <= 1

ExpiredRight ==
  /\ Posted /\ scene.menu \cap {"publish", "hide"} = {} =>
       (listing.isExpired <=> listing.status = "expired")
  /\ listing.due => Posted

MarketInv ==
  MarketTyped /\ (\A s \in Slots : MarketHandler(s)) /\ CountedRight /\ ExpiredRight

LEMMA AverageSame == ASSUME review' = review PROVE Average' = Average
BY DEF Average, Reviewers

\* A handler that is not disturbed knows what it knew; one that is need not.
LEMMA MarketOthers ==
  ASSUME MarketInv, NEW t \in Slots, req'[t] = req[t], Goes, ~overlapped' => req[t].pc = "idle"
  PROVE  MarketHandler(t)'
<1>1. MarketHandler(t) /\ scene' = scene
  BY DEF MarketInv, Goes
<1>2. overlapped' \/ req[t].pc = "idle"
  OBVIOUS
<1>3. CASE overlapped'
  BY <1>1, <1>3 DEF MarketHandler, InOrder
<1>4. CASE req[t].pc = "idle"
  BY <1>4 DEF MarketHandler
<1>. QED
  BY <1>2, <1>3, <1>4

\* What the counts depend on.
CountsSame ==
  /\ views' = views /\ opened' = opened /\ review' = review /\ application' = application
  /\ profile'.average = profile.average /\ (profile.here => profile'.here)

\* Handlers that count go on.
CountersStay ==
  /\ \A o : Opening(o)' <=> Opening(o)
  /\ Rating => Rating'

LEMMA CountedSame ==
  ASSUME MarketInv, CountsSame, Goes, InOrder' => CountersStay
  PROVE  CountedRight'
<1>1. /\ Average' = Average
      /\ InOrder' => InOrder
  BY AverageSame DEF CountsSame, Goes, InOrder
<1>2. CountedRight
  BY DEF MarketInv
<1>3. ASSUME InOrder'
      PROVE  /\ \A o \in Opened : opened'[o] = IF Opening(o)' THEN views'[o] + 1 ELSE views'[o]
             /\ profile'.average \in {<<0, 0>>, Average'} \/ Rating'
  BY <1>1, <1>2, <1>3 DEF CountedRight, CountsSame, CountersStay
<1>4. /\ ~profile'.here => profile'.average = <<0, 0>>
      /\ ~overlapped' => \A u \in Users : application'[u] <= 1
  BY <1>2 DEF CountedRight, CountsSame, Goes
<1>. QED
  BY <1>3, <1>4 DEF CountedRight

\* Steps of others.
LEMMA MarketRests ==
  ASSUME MarketInv, Spares(MarketPcs), UNCHANGED marketVars
  PROVE  MarketInv'
<1>1. /\ listing' = listing /\ engagement' = engagement /\ reports' = reports
      /\ review' = review /\ profile' = profile /\ saved' = saved
      /\ application' = application /\ views' = views /\ opened' = opened
  BY DEF marketVars
<1>2. Goes /\ (InOrder' => InOrder) /\ scene' = scene /\ (~overlapped' => ~overlapped)
  BY DEF Spares, Goes, InOrder
<1>3. MarketTyped' /\ ExpiredRight'
  BY <1>1, <1>2 DEF MarketInv, MarketTyped, ExpiredRight, Posted
<1>4. ASSUME NEW s \in Slots PROVE MarketHandler(s)'
  <2>1. CASE req'[s].pc \in MarketPcs
    <3>1. req'[s] = req[s] /\ MarketHandler(s) /\ Average' = Average /\ (Posted' <=> Posted)
      BY <1>1, <2>1, AverageSame DEF MarketInv, Spares, Posted
    <3>. QED
      BY <1>1, <1>2, <3>1 DEF MarketHandler
  <2>2. CASE req'[s].pc \notin MarketPcs
    BY <2>2 DEF MarketHandler, MarketPcs
  <2>. QED
    BY <2>1, <2>2
<1>5. CountersStay
  BY DEF CountersStay, Opening, Rating, Spares, MarketPcs
<1>6. CountedRight'
  BY <1>1, <1>2, <1>5, CountedSame DEF CountsSame
<1>. QED
  BY <1>3, <1>4, <1>6 DEF MarketInv

-----------------------------------------------------------------------------
(* The steps of the market that do not count *)

\* What a handler must know when it begins.
MarketKnows(h) ==
  /\ h.pc \in {"saveLike", "insertReview", "insertApplication"} => h.user \in Users
  /\ h.pc = "insertReview" => h.number \in Ratings
  /\ h.pc = "saveVisibility" => "hide" \in scene.menu
  /\ h.pc = "saveRenewal" /\ scene.menu \cap {"publish", "hide"} = {} =>
       (h.flag <=> h.word = "expired")
  /\ h.pc = "insertApplication" => application[h.user] = 0

LEMMA MarketBegins ==
  ASSUME SocialInv, MarketInv, NEW s \in Slots, NEW request, Free(s, request),
         NEW h, HandlerTyped(h), Begin(s, h), UNCHANGED marketVars, MarketKnows(h),
         h.pc \in MarketPcs \ {"saveViews", "readRatings", "saveRating"}
  PROVE  SocialInv' /\ Touches(MarketPcs) /\ MarketInv'
<1>1. SocialInv' /\ Touches(MarketPcs) /\ Begun(s, h)
  BY BeginStep
<1>2. /\ req[s].pc = "idle" /\ req'[s] = h /\ (\A t \in Slots \ {s} : req'[t] = req[t])
      /\ Goes /\ (~overlapped' => \A t \in Slots : req[t].pc = "idle")
      /\ scene' = scene
  BY <1>1 DEF Begun, Goes
<1>3. /\ listing' = listing /\ engagement' = engagement /\ reports' = reports
      /\ review' = review /\ profile' = profile /\ saved' = saved
      /\ application' = application /\ views' = views /\ opened' = opened
  BY DEF marketVars
<1>4. MarketTyped' /\ ExpiredRight'
  BY <1>2, <1>3 DEF MarketInv, MarketTyped, ExpiredRight, Posted
<1>5. CountersStay
  BY <1>2 DEF CountersStay, Opening, Rating
<1>6. CountedRight'
  BY <1>2, <1>3, <1>5, CountedSame DEF CountsSame
<1>7. ASSUME NEW t \in Slots PROVE MarketHandler(t)'
  <2>1. CASE t = s
    BY <1>2, <1>3, <2>1 DEF MarketHandler, MarketKnows
  <2>2. CASE t # s
    BY <1>2, <2>2, MarketOthers
  <2>. QED
    BY <2>1, <2>2
<1>. QED
  BY <1>1, <1>4, <1>6, <1>7 DEF MarketInv

\* A handler ends: what is left to show is about the documents.
LEMMA MarketReturns ==
  ASSUME SocialInv, MarketInv, NEW s \in Slots, req[s].pc \in MarketPcs, Return(s)
  PROVE  /\ SocialInv' /\ Touches(MarketPcs) /\ (\A t \in Slots : MarketHandler(t)')
         /\ Goes /\ scene' = scene /\ overlapped' = overlapped /\ restarts' = restarts
         /\ req[s].pc \notin {"saveViews", "readRatings", "saveRating"} => CountersStay
         /\ \A t \in Slots : IF t = s THEN req'[t].pc = "idle" ELSE req'[t] = req[t]
         /\ ~overlapped => \A t \in Slots \ {s} : req[t].pc = "idle"
<1>0. req[s].pc # "idle"
  BY DEF MarketPcs
<1>1. SocialInv' /\ Touches(MarketPcs) /\ Resumed(s, Idle)
  BY <1>0, ReturnStep
<1>2. /\ req'[s].pc = "idle" /\ (\A t \in Slots \ {s} : req'[t] = req[t]) /\ Goes
      /\ overlapped' = overlapped /\ (~overlapped => \A t \in Slots \ {s} : req[t].pc = "idle")
      /\ scene' = scene /\ restarts' = restarts
  BY <1>1, IdleTyped DEF Resumed, Goes
<1>3. ASSUME NEW t \in Slots PROVE MarketHandler(t)'
  <2>1. CASE t = s
    BY <1>2, <2>1 DEF MarketHandler
  <2>2. CASE t # s
    BY <1>2, <2>2, MarketOthers
  <2>. QED
    BY <2>1, <2>2
<1>4. req[s].pc \notin {"saveViews", "readRatings", "saveRating"} => CountersStay
  BY <1>2 DEF CountersStay, Opening, Rating
<1>. QED
  BY <1>1, <1>2, <1>3, <1>4

LEMMA MarketKeeps ==
  ASSUME SocialInv, MarketInv, NEW s \in Slots, Return(s), MarketTyped', CountsSame,
         ExpiredRight',
         req[s].pc \in MarketPcs \ {"saveViews", "readRatings", "saveRating"}
  PROVE  SocialInv' /\ Touches(MarketPcs) /\ MarketInv'
BY MarketReturns, CountedSame DEF MarketInv

\* One operation.
LEMMA MarketOnce ==
  ASSUME SocialInv, MarketInv, NEW request, AtOnce(request), MarketTyped', CountsSame,
         ExpiredRight'
  PROVE  SocialInv' /\ Touches(MarketPcs) /\ MarketInv'
<1>1. SocialInv' /\ Touches(MarketPcs) /\ Done
  BY DoneStep
<1>2. req' = req /\ Goes /\ (~overlapped' => \A t \in Slots : req[t].pc = "idle")
  BY <1>1 DEF Done
<1>3. CountersStay
  BY <1>2 DEF CountersStay, Opening, Rating
<1>4. CountedRight'
  BY <1>2, <1>3, CountedSame
<1>5. ASSUME NEW t \in Slots PROVE MarketHandler(t)'
  BY <1>2, MarketOthers
<1>. QED
  BY <1>1, <1>4, <1>5 DEF MarketInv

-----------------------------------------------------------------------------
(* The listing *)

Listings == [status : ListingStatus, hide : BOOLEAN, isExpired : BOOLEAN, due : BOOLEAN,
             edited : BOOLEAN]

\* A step that changes the listing only.
ListingOnly ==
  /\ engagement' = engagement /\ reports' = reports /\ review' = review /\ profile' = profile
  /\ saved' = saved /\ application' = application /\ views' = views /\ opened' = opened

LEMMA ListingChanged ==
  ASSUME MarketInv, ListingOnly, listing' \in Listings
  PROVE  MarketTyped' /\ CountsSame
BY DEF MarketInv, MarketTyped, ListingOnly, CountsSame, Listings

LEMMA SaveListingKeeps ==
  ASSUME SocialInv, MarketInv, NEW s \in Slots,
         SaveEdit(s) \/ SaveVisibility(s) \/ SaveRenewal(s) \/ RemoveListing(s)
  PROVE  SocialInv' /\ Touches(MarketPcs) /\ MarketInv'
<1>0. listing \in Listings /\ MarketHandler(s) /\ ExpiredRight
  BY DEF MarketInv, MarketTyped, Listings
<1>1. /\ Return(s) /\ ListingOnly
      /\ req[s].pc \in MarketPcs \ {"saveViews", "readRatings", "saveRating"}
  BY DEF SaveEdit, SaveVisibility, SaveRenewal, RemoveListing, SaveListing, At, ListingOnly,
         others, MarketPcs
<1>2. scene' = scene
  BY <1>1, MarketReturns
<1>3. listing' \in Listings /\ ExpiredRight'
  <2>1. CASE listing' = listing
    BY <1>0, <1>2, <2>1 DEF ExpiredRight, Posted
  <2>2. CASE SaveEdit(s) /\ listing' # listing
    <3>1. listing' = [listing EXCEPT !.edited = TRUE]
      BY <2>2 DEF SaveEdit, SaveListing
    <3>2. /\ listing' \in Listings /\ listing'.status = listing.status
          /\ listing'.isExpired = listing.isExpired /\ listing'.due = listing.due
      BY <1>0, <3>1 DEF Listings
    <3>. QED
      BY <1>0, <1>2, <3>2 DEF ExpiredRight, Posted
  <2>3. CASE SaveVisibility(s) /\ listing' # listing
    <3>. DEFINE status == IF req[s].flag THEN "inactive" ELSE "active"
                hide == IF req[s].flag = req[s].seen THEN listing.hide ELSE req[s].flag
                now == IF status = req[s].word THEN listing.status ELSE status
    <3>1. Posted /\ listing' = [listing EXCEPT !.hide = hide, !.status = now]
      BY <2>3 DEF SaveVisibility, SaveListing
    <3>2. "hide" \in scene.menu /\ hide \in BOOLEAN /\ now \in ListingStatus
          /\ now \notin {"none", "removed"}
      <4>1. req[s].pc = "saveVisibility" /\ req[s].flag \in BOOLEAN
        BY <2>3 DEF SaveVisibility, SaveListing, At, SocialInv, HandlerTyped
      <4>. QED
        BY <1>0, <3>1, <4>1 DEF MarketHandler, Listings, ListingStatus, Posted
    <3>. HIDE DEF hide, now
    <3>3. listing' \in Listings /\ listing'.status = now
      BY <1>0, <3>1, <3>2 DEF Listings
    <3>. QED
      BY <1>2, <3>2, <3>3 DEF ExpiredRight, Posted
  <2>4. CASE SaveRenewal(s) /\ listing' # listing
    <3>. DEFINE isExpired == IF req[s].flag THEN FALSE ELSE listing.isExpired
                now == IF req[s].word = "expired" THEN "active" ELSE listing.status
    <3>1. Posted /\ listing' = [listing EXCEPT !.due = FALSE, !.isExpired = isExpired,
                                               !.status = now]
      BY <2>4 DEF SaveRenewal, SaveListing
    <3>2. /\ isExpired \in BOOLEAN /\ now \in ListingStatus /\ now \notin {"none", "removed"}
          /\ scene.menu \cap {"publish", "hide"} = {} => (isExpired <=> now = "expired")
      <4>1. req[s].pc = "saveRenewal"
        BY <2>4 DEF SaveRenewal, SaveListing, At
      <4>. QED
        BY <1>0, <3>1, <4>1 DEF MarketHandler, Listings, ListingStatus, Posted, ExpiredRight
    <3>. HIDE DEF isExpired, now
    <3>3. /\ listing' \in Listings /\ listing'.status = now /\ listing'.isExpired = isExpired
          /\ listing'.due = FALSE
      BY <1>0, <3>1, <3>2 DEF Listings
    <3>. QED
      BY <1>2, <3>2, <3>3 DEF ExpiredRight, Posted
  <2>5. CASE RemoveListing(s)
    <3>1. listing' = [NoListing EXCEPT !.status = "removed"]
      BY <2>5 DEF RemoveListing
    <3>2. listing' \in Listings /\ listing'.status = "removed" /\ listing'.due = FALSE
      BY <3>1 DEF NoListing, Listings, ListingStatus
    <3>. QED
      BY <3>2 DEF ExpiredRight, Posted
  <2>. QED
    BY <2>1, <2>2, <2>3, <2>4, <2>5
<1>4. MarketTyped' /\ CountsSame
  BY <1>1, <1>3, ListingChanged
<1>. QED
  BY <1>1, <1>3, <1>4, MarketKeeps

LEMMA PostKeeps ==
  ASSUME SocialInv, MarketInv,
         PublishDraft \/ \E status \in {"active", "draft"} : Post(status)
  PROVE  SocialInv' /\ Touches(MarketPcs) /\ MarketInv'
<1>0. listing \in Listings /\ ExpiredRight
  BY DEF MarketInv, MarketTyped, Listings
<1>1. CASE PublishDraft
  <2>1. /\ AtOnce("publish") /\ Posted /\ ListingOnly
        /\ listing' = [listing EXCEPT !.status = "active"]
    BY <1>1 DEF PublishDraft, ListingOnly, others
  <2>2. listing' \in Listings /\ listing'.status = "active"
    BY <1>0, <2>1 DEF Listings, ListingStatus
  <2>3. "publish" \in scene'.menu
    BY <2>1 DEF AtOnce, Counted
  <2>4. ExpiredRight'
    BY <2>2, <2>3 DEF ExpiredRight, Posted
  <2>. QED
    BY <2>1, <2>2, <2>4, ListingChanged, MarketOnce
<1>2. ASSUME NEW status \in {"active", "draft"}, Post(status)
      PROVE  SocialInv' /\ Touches(MarketPcs) /\ MarketInv'
  <2>1. /\ AtOnce("post") /\ ListingOnly /\ listing' = [NoListing EXCEPT !.status = status]
    BY <1>2 DEF Post, ListingOnly, others
  <2>2. /\ listing' \in Listings /\ listing'.status = status /\ ~listing'.isExpired
        /\ ~listing'.due
    BY <2>1 DEF Listings, ListingStatus, NoListing
  <2>3. ExpiredRight'
    BY <2>2 DEF ExpiredRight
  <2>. QED
    BY <2>1, <2>2, <2>3, ListingChanged, MarketOnce
<1>. QED
  BY <1>1, <1>2

\* The days pass, and every midnight.
LEMMA ExpirationKeeps ==
  ASSUME SocialInv, MarketInv, ListingDue \/ HandleExpiration
  PROVE  SocialInv' /\ Touches(MarketPcs) /\ MarketInv'
<1>0. listing \in Listings /\ ExpiredRight
  BY DEF MarketInv, MarketTyped, Listings
<1>1. UNCHANGED social /\ ListingOnly
  BY DEF ListingDue, HandleExpiration, ListingOnly, others
<1>2. SocialInv' /\ Touches(MarketPcs) /\ Goes /\ req' = req /\ overlapped' = overlapped
      /\ scene' = scene /\ restarts' = restarts
  BY <1>1, SameStep DEF Goes
<1>3. listing' \in Listings /\ ExpiredRight' /\ Posted /\ Posted'
  <2>1. CASE ListingDue
    <3>1. Posted /\ listing' = [listing EXCEPT !.due = TRUE]
      BY <2>1 DEF ListingDue
    <3>2. /\ listing' \in Listings /\ listing'.status = listing.status
          /\ listing'.isExpired = listing.isExpired
      BY <1>0, <3>1 DEF Listings
    <3>. QED
      BY <1>0, <1>2, <3>1, <3>2 DEF ExpiredRight, Posted
  <2>2. CASE HandleExpiration
    <3>1. Posted /\ listing' = [listing EXCEPT !.isExpired = TRUE, !.status = "expired"]
      BY <1>0, <2>2 DEF HandleExpiration, ExpiredRight
    <3>2. listing' \in Listings /\ listing'.status = "expired" /\ listing'.isExpired
      BY <1>0, <3>1 DEF Listings, ListingStatus
    <3>. QED
      BY <3>1, <3>2 DEF ExpiredRight, Posted
  <2>. QED
    BY <2>1, <2>2
<1>4. MarketTyped' /\ CountsSame
  BY <1>1, <1>3, ListingChanged
<1>5. CountersStay
  BY <1>2 DEF CountersStay, Opening, Rating
<1>6. CountedRight'
  BY <1>2, <1>4, <1>5, CountedSame
<1>7. ASSUME NEW t \in Slots PROVE MarketHandler(t)'
  <2>1. Average' = Average /\ views' = views /\ application' = application
    BY <1>1, AverageSame DEF ListingOnly
  <2>. QED
    BY <1>2, <1>3, <2>1 DEF MarketInv, MarketHandler, InOrder
<1>. QED
  BY <1>2, <1>3, <1>4, <1>6, <1>7 DEF MarketInv

-----------------------------------------------------------------------------
(* Engagement, profiles and applications *)

Profiled(doc) ==
  /\ doc = [here |-> doc.here, average |-> doc.average, blockedUsers |-> doc.blockedUsers,
            licence |-> doc.licence, badge |-> doc.badge]
  /\ doc.here \in BOOLEAN /\ doc.licence \in {"none", "pending", "approved"}

LEMMA UpsertedIs ==
  ASSUME MarketInv
  PROVE  Profiled(profile) /\ Profiled(Upserted) /\ Upserted.here
         /\ Upserted.average = profile.average
<1>1. Profiled(profile)
  BY DEF MarketInv, MarketTyped, Profiled
<1>2. Upserted = [profile EXCEPT !.here = TRUE,
                    !.licence = IF profile.licence = "none" THEN "pending" ELSE profile.licence]
  BY DEF Upserted
<1>. QED
  BY <1>1, <1>2 DEF Profiled

\* The listing, the counts and what has been reviewed stay; the profile keeps its average.
LEMMA MarketSame ==
  ASSUME MarketInv, listing' = listing, views' = views, opened' = opened, review' = review,
         application' = application, Profiled(profile'), scene' = scene,
         profile'.average = profile.average, profile.here => profile'.here,
         engagement' \in [Users -> [here : BOOLEAN, isLiked : BOOLEAN, contacted : BOOLEAN]],
         reports' \in Nat
  PROVE  MarketTyped' /\ CountsSame /\ ExpiredRight'
BY DEF MarketInv, MarketTyped, CountsSame, ExpiredRight, Posted, Profiled

LEMMA SaveEngagementKeeps ==
  ASSUME SocialInv, MarketInv, NEW s \in Slots,
         SaveLike(s) \/ InsertReport(s) \/ SaveApproval(s)
  PROVE  SocialInv' /\ Touches(MarketPcs) /\ MarketInv'
<1>0. /\ Profiled(profile) /\ reports \in Nat
      /\ engagement \in [Users -> [here : BOOLEAN, isLiked : BOOLEAN, contacted : BOOLEAN]]
  BY UpsertedIs DEF MarketInv, MarketTyped
<1>1. /\ Return(s) /\ req[s].pc \in MarketPcs \ {"saveViews", "readRatings", "saveRating"}
      /\ listing' = listing /\ views' = views /\ opened' = opened /\ review' = review
      /\ application' = application
  BY DEF SaveLike, InsertReport, SaveApproval, SetProfile, At, MarketPcs
<1>2. scene' = scene
  BY <1>1, MarketReturns
<1>3. /\ Profiled(profile') /\ profile'.average = profile.average
      /\ profile.here => profile'.here
      /\ engagement' \in [Users -> [here : BOOLEAN, isLiked : BOOLEAN, contacted : BOOLEAN]]
      /\ reports' \in Nat
  <2>1. CASE SaveLike(s)
    <3>1. /\ req[s].user \in Users /\ req[s].flag \in BOOLEAN
      BY <2>1 DEF SaveLike, At, MarketInv, MarketHandler, SocialInv, HandlerTyped
    <3>2. /\ profile' = profile /\ reports' = reports
          /\ engagement' = [engagement EXCEPT ![req[s].user] =
               [engagement[req[s].user] EXCEPT !.here = TRUE, !.isLiked = req[s].flag]]
      BY <2>1 DEF SaveLike
    <3>. QED
      BY <1>0, <3>1, <3>2
  <2>2. CASE InsertReport(s)
    BY <1>0, <2>2 DEF InsertReport
  <2>3. CASE SaveApproval(s)
    <3>. DEFINE licence == IF req[s].flag THEN "approved" ELSE profile.licence
    <3>1. /\ engagement' = engagement /\ reports' = reports
          /\ profile' = [profile EXCEPT !.licence = licence, !.badge = TRUE]
      BY <2>3 DEF SaveApproval, SetProfile
    <3>2. licence \in {"none", "pending", "approved"}
      BY <1>0 DEF Profiled
    <3>. HIDE DEF licence
    <3>. QED
      BY <1>0, <3>1, <3>2 DEF Profiled
  <2>. QED
    BY <2>1, <2>2, <2>3
<1>4. MarketTyped' /\ CountsSame /\ ExpiredRight'
  BY <1>1, <1>2, <1>3, MarketSame
<1>. QED
  BY <1>1, <1>4, MarketKeeps

LEMMA EngageKeeps ==
  ASSUME SocialInv, MarketInv, NEW u \in Users,
         \/ SubmitBreederLicense \/ SaveForLater(u) \/ BlockUser(u)
         \/ \E contacted \in BOOLEAN : Engage(u, contacted)
  PROVE  SocialInv' /\ Touches(MarketPcs) /\ MarketInv'
<1>0. /\ Profiled(profile) /\ reports \in Nat
      /\ Profiled(Upserted) /\ Upserted.here /\ Upserted.average = profile.average
      /\ engagement \in [Users -> [here : BOOLEAN, isLiked : BOOLEAN, contacted : BOOLEAN]]
  BY UpsertedIs DEF MarketInv, MarketTyped
<1>1. /\ \E request : AtOnce(request)
      /\ listing' = listing /\ views' = views /\ opened' = opened /\ review' = review
      /\ application' = application
  BY DEF SubmitBreederLicense, SaveForLater, BlockUser, Engage, SetProfile
<1>2. scene' = scene
  BY <1>1 DEF AtOnce, Counted
<1>3. /\ Profiled(profile') /\ profile'.average = profile.average
      /\ profile.here => profile'.here
      /\ engagement' \in [Users -> [here : BOOLEAN, isLiked : BOOLEAN, contacted : BOOLEAN]]
      /\ reports' \in Nat
  <2>1. CASE SubmitBreederLicense
    <3>1. /\ engagement' = engagement /\ reports' = reports
          /\ profile' = [profile EXCEPT !.here = TRUE, !.licence = "pending"]
      BY <2>1 DEF SubmitBreederLicense, SetProfile
    <3>. QED
      BY <1>0, <3>1 DEF Profiled
  <2>2. CASE SaveForLater(u)
    <3>1. /\ engagement' = engagement /\ reports' = reports
          /\ profile' = Upserted \/ profile' = profile
      BY <2>2 DEF SaveForLater
    <3>. QED
      BY <1>0, <3>1
  <2>3. CASE BlockUser(u)
    <3>1. /\ engagement' = engagement /\ reports' = reports
          /\ profile' = [Upserted EXCEPT !.blockedUsers = Upserted.blockedUsers \cup {u}]
      BY <2>3 DEF BlockUser, SetProfile
    <3>. QED
      BY <1>0, <3>1 DEF Profiled
  <2>4. ASSUME NEW contacted \in BOOLEAN, Engage(u, contacted)
        PROVE  /\ profile' = profile /\ reports' = reports
               /\ engagement' \in [Users -> [here : BOOLEAN, isLiked : BOOLEAN, contacted : BOOLEAN]]
    <3>. DEFINE either == engagement[u].contacted \/ contacted
                mine == [engagement[u] EXCEPT !.here = TRUE, !.contacted = either]
    <3>1. profile' = profile /\ reports' = reports
      BY <2>4 DEF Engage
    <3>2. engagement' = [engagement EXCEPT ![u] = mine]
      BY <2>4 DEF Engage
    <3>3. either \in BOOLEAN
      OBVIOUS
    <3>. HIDE DEF either
    <3>4. mine \in [here : BOOLEAN, isLiked : BOOLEAN, contacted : BOOLEAN]
      BY <1>0, <3>3
    <3>. HIDE DEF mine
    <3>. QED
      BY <1>0, <3>1, <3>2, <3>4
  <2>. QED
    BY <1>0, <2>1, <2>2, <2>3, <2>4
<1>4. MarketTyped' /\ CountsSame /\ ExpiredRight'
  BY <1>1, <1>2, <1>3, MarketSame
<1>. QED
  BY <1>1, <1>4, MarketOnce

\* One application more, of a user who had none unless handlers have overlapped.
LEMMA InsertApplicationKeeps ==
  ASSUME SocialInv, MarketInv, NEW s \in Slots, InsertApplication(s)
  PROVE  SocialInv' /\ Touches(MarketPcs) /\ MarketInv'
<1>. DEFINE u == req[s].user
<1>1. /\ Return(s) /\ req[s].pc = "insertApplication" /\ req[s].pc \in MarketPcs
      /\ application' = [application EXCEPT ![u] = application[u] + 1]
      /\ listing' = listing /\ engagement' = engagement /\ reports' = reports
      /\ review' = review /\ profile' = profile /\ views' = views /\ opened' = opened
  BY DEF InsertApplication, At, MarketPcs
<1>2. u \in Users /\ (~overlapped => application[u] = 0) /\ application \in [Users -> Nat]
  BY <1>1 DEF MarketInv, MarketHandler, MarketTyped
<1>3. /\ SocialInv' /\ Touches(MarketPcs) /\ (\A t \in Slots : MarketHandler(t)')
      /\ Goes /\ CountersStay /\ scene' = scene /\ overlapped' = overlapped
      /\ restarts' = restarts
  BY <1>1, MarketReturns
<1>. HIDE DEF u
<1>4. /\ application' \in [Users -> Nat] /\ application'[u] = application[u] + 1
      /\ \A v \in Users \ {u} : application'[v] = application[v]
  BY <1>1, <1>2
<1>5. MarketTyped' /\ ExpiredRight'
  BY <1>1, <1>3, <1>4 DEF MarketInv, MarketTyped, ExpiredRight, Posted
<1>6. CountedRight'
  <2>1. ASSUME ~overlapped, NEW v \in Users PROVE application'[v] <= 1
    <3>1. CASE v = u
      BY <1>2, <1>4, <2>1, <3>1
    <3>2. CASE v # u
      BY <1>4, <2>1, <3>2 DEF MarketInv, CountedRight
    <3>. QED
      BY <3>1, <3>2
  <2>2. Average' = Average /\ (InOrder' => InOrder)
    BY <1>1, <1>3, AverageSame DEF InOrder
  <2>3. CountedRight
    BY DEF MarketInv
  <2>. QED
    BY <1>1, <1>3, <2>1, <2>2, <2>3 DEF CountedRight, CountersStay
<1>. QED
  BY <1>3, <1>5, <1>6 DEF MarketInv

-----------------------------------------------------------------------------
(* What is read and then counted up *)

LEMMA OpenKeeps ==
  ASSUME SocialInv, MarketInv, NEW s \in Slots, NEW o \in Opened, Open(s, o)
  PROVE  SocialInv' /\ Touches(MarketPcs) /\ MarketInv'
<1>. DEFINE n == views[o]
            h == [Call("saveViews", NoUser) EXCEPT !.word = o, !.number = n]
<1>0. views \in [Opened -> Nat] /\ opened \in [Opened -> Nat] /\ CountedRight
  BY DEF MarketInv, MarketTyped
<1>1. /\ Free(s, "open") /\ (o = "listing" => Posted) /\ Begin(s, h)
      /\ opened' = [opened EXCEPT ![o] = opened[o] + 1]
      /\ listing' = listing /\ engagement' = engagement /\ reports' = reports
      /\ review' = review /\ profile' = profile /\ views' = views
      /\ application' = application
  BY DEF Open, others
<1>2. n \in Nat
  BY <1>0
<1>. HIDE DEF n
<1>3. HandlerTyped(h) /\ h.pc = "saveViews" /\ h.word = o /\ h.number = n
  <2>. DEFINE g == Call("saveViews", NoUser)
  <2>1. HandlerTyped(g) /\ g.pc = "saveViews"
    BY CallTyped
  <2>2. h = [g EXCEPT !.word = o, !.number = n]
    OBVIOUS
  <2>. HIDE DEF g, h
  <2>. QED
    BY <1>2, <2>1, <2>2 DEF HandlerTyped
<1>. HIDE DEF h
<1>4. SocialInv' /\ Touches(MarketPcs) /\ Begun(s, h)
  BY <1>1, <1>3, BeginStep DEF MarketPcs
<1>5. /\ req[s].pc = "idle" /\ req'[s] = h /\ (\A t \in Slots \ {s} : req'[t] = req[t])
      /\ Goes /\ (~overlapped' => \A t \in Slots : req[t].pc = "idle")
      /\ scene' = scene /\ (InOrder' => InOrder)
  BY <1>4 DEF Begun, Goes, InOrder
<1>6. /\ opened' \in [Opened -> Nat] /\ opened'[o] = opened[o] + 1
      /\ \A p \in Opened \ {o} : opened'[p] = opened[p]
  BY <1>0, <1>1
<1>7. MarketTyped' /\ ExpiredRight'
  BY <1>1, <1>5, <1>6 DEF MarketInv, MarketTyped, ExpiredRight, Posted
<1>8. /\ \A p : p = o => Opening(p)'
      /\ \A p : p # o => (Opening(p)' <=> Opening(p))
      /\ Rating => Rating'
      /\ InOrder' => ~Opening(o)
  BY <1>3, <1>5 DEF Opening, Rating, InOrder
<1>9. CountedRight'
  <2>1. ASSUME InOrder', NEW p \in Opened
        PROVE  opened'[p] = IF Opening(p)' THEN views'[p] + 1 ELSE views'[p]
    <3>1. opened[p] = IF Opening(p) THEN views[p] + 1 ELSE views[p]
      BY <1>0, <1>5, <2>1 DEF CountedRight
    <3>2. CASE p = o
      BY <1>1, <1>6, <1>8, <2>1, <3>1, <3>2
    <3>3. CASE p # o
      BY <1>1, <1>6, <1>8, <2>1, <3>1, <3>3
    <3>. QED
      BY <3>2, <3>3
  <2>2. Average' = Average
    BY <1>1, AverageSame
  <2>. QED
    BY <1>0, <1>1, <1>5, <1>8, <2>1, <2>2 DEF CountedRight, Goes
<1>10. ASSUME NEW t \in Slots PROVE MarketHandler(t)'
  <2>1. CASE t = s
    <3>1. Posted' <=> Posted
      BY <1>1 DEF Posted
    <3>. QED
      BY <1>1, <1>3, <1>5, <2>1, <3>1 DEF MarketHandler, n
  <2>2. CASE t # s
    BY <1>5, <2>2, MarketOthers
  <2>. QED
    BY <2>1, <2>2
<1>. QED
  BY <1>4, <1>7, <1>9, <1>10 DEF MarketInv

LEMMA SaveViewsKeeps ==
  ASSUME SocialInv, MarketInv, NEW s \in Slots, SaveViews(s)
  PROVE  SocialInv' /\ Touches(MarketPcs) /\ MarketInv'
<1>. DEFINE o == req[s].word
<1>0. /\ views \in [Opened -> Nat] /\ opened \in [Opened -> Nat] /\ CountedRight
      /\ MarketHandler(s) /\ req[s].number \in Nat
  BY DEF MarketInv, MarketTyped, SocialInv, HandlerTyped
<1>1. /\ Return(s) /\ req[s].pc = "saveViews" /\ req[s].pc \in MarketPcs
      /\ views' = IF o = "listing" /\ ~Posted THEN views
                  ELSE [views EXCEPT ![o] = req[s].number + 1]
      /\ listing' = listing /\ engagement' = engagement /\ reports' = reports
      /\ review' = review /\ profile' = profile /\ opened' = opened
      /\ application' = application
  BY DEF SaveViews, At, MarketPcs, others
<1>2. /\ SocialInv' /\ Touches(MarketPcs) /\ (\A t \in Slots : MarketHandler(t)')
      /\ Goes /\ scene' = scene /\ overlapped' = overlapped /\ restarts' = restarts
      /\ \A t \in Slots : IF t = s THEN req'[t].pc = "idle" ELSE req'[t] = req[t]
      /\ ~overlapped => \A t \in Slots \ {s} : req[t].pc = "idle"
  BY <1>1, MarketReturns
<1>3. o \in Opened
  BY <1>0, <1>1 DEF MarketHandler
<1>4. views' \in [Opened -> Nat]
  BY <1>0, <1>1, <1>3
<1>5. MarketTyped' /\ ExpiredRight'
  BY <1>1, <1>2, <1>4 DEF MarketInv, MarketTyped, ExpiredRight, Posted
<1>6. ASSUME InOrder
      PROVE  /\ req[s].number = views[o] /\ views'[o] = views[o] + 1
             /\ \A p \in Opened \ {o} : views'[p] = views[p]
  BY <1>0, <1>1, <1>3, <1>6 DEF MarketHandler
<1>7. ASSUME InOrder
      PROVE  /\ Opening(o) /\ \A p \in Opened \ {o} : ~Opening(p)
             /\ \A p : ~Opening(p)'
             /\ Rating => Rating'
  BY <1>1, <1>2, <1>7 DEF Opening, Rating, InOrder
<1>. HIDE DEF o
<1>8. CountedRight'
  <2>0. (InOrder' => InOrder) /\ Average' = Average
    BY <1>1, <1>2, AverageSame DEF InOrder
  <2>1. ASSUME InOrder', NEW p \in Opened
        PROVE  opened'[p] = IF Opening(p)' THEN views'[p] + 1 ELSE views'[p]
    <3>1. InOrder /\ opened[p] = IF Opening(p) THEN views[p] + 1 ELSE views[p]
      BY <1>0, <2>0, <2>1 DEF CountedRight
    <3>2. CASE p = o
      BY <1>1, <1>6, <1>7, <3>1, <3>2
    <3>3. CASE p # o
      BY <1>1, <1>6, <1>7, <3>1, <3>3
    <3>. QED
      BY <3>2, <3>3
  <2>2. ASSUME InOrder' PROVE Rating => Rating'
    BY <1>7, <2>0, <2>2
  <2>. QED
    BY <1>0, <1>1, <1>2, <2>0, <2>1, <2>2 DEF CountedRight, Goes
<1>. QED
  BY <1>2, <1>5, <1>8 DEF MarketInv

-----------------------------------------------------------------------------
(* Reviews, and the average of the seller *)

LEMMA InsertReviewKeeps ==
  ASSUME SocialInv, MarketInv, NEW s \in Slots, InsertReview(s)
  PROVE  SocialInv' /\ Touches(MarketPcs) /\ MarketInv'
<1>. DEFINE u == req[s].user
<1>0. /\ req[s].pc = "insertReview" /\ req[s].pc \in MarketPcs /\ "readRatings" \in MarketPcs
      /\ req[s].pc # "idle"
      /\ u \in Users /\ req[s].number \in Ratings /\ CountedRight
      /\ review \in [Users -> Ratings \cup {0}]
  BY DEF InsertReview, At, MarketPcs, MarketInv, MarketHandler, MarketTyped
<1>1. CASE review[u] # 0
  <2>1. /\ Return(s) /\ UNCHANGED marketVars
    BY <1>1 DEF InsertReview, marketVars
  <2>2. scene' = scene
    BY <1>0, <2>1, MarketReturns
  <2>3. MarketTyped' /\ CountsSame /\ ExpiredRight'
    BY <2>1, <2>2 DEF MarketInv, MarketTyped, CountsSame, ExpiredRight, Posted, marketVars
  <2>. QED
    BY <1>0, <2>1, <2>3, MarketKeeps
<1>2. CASE review[u] = 0
  <2>. DEFINE h == Moved(s, "readRatings")
  <2>1. /\ Goto(s, "readRatings") /\ review' = [review EXCEPT ![u] = req[s].number]
        /\ listing' = listing /\ engagement' = engagement /\ reports' = reports
        /\ profile' = profile /\ views' = views /\ opened' = opened
        /\ application' = application
    BY <1>2 DEF InsertReview
  <2>2. SocialInv' /\ Touches(MarketPcs) /\ Resumed(s, h) /\ h.pc = "readRatings"
    BY <1>0, <2>1, GotoStep
  <2>. HIDE DEF h
  <2>3. /\ req'[s] = h /\ (\A t \in Slots \ {s} : req'[t] = req[t]) /\ Goes
        /\ overlapped' = overlapped /\ scene' = scene /\ restarts' = restarts
        /\ ~overlapped => \A t \in Slots \ {s} : req[t].pc = "idle"
    BY <2>2 DEF Resumed, Goes
  <2>4. review' \in [Users -> Ratings \cup {0}]
    BY <1>0, <2>1
  <2>5. MarketTyped' /\ ExpiredRight'
    BY <2>1, <2>3, <2>4 DEF MarketInv, MarketTyped, ExpiredRight, Posted
  <2>6. Rating' /\ \A o : Opening(o)' <=> Opening(o)
    BY <1>0, <2>2, <2>3 DEF Rating, Opening
  <2>7. CountedRight'
    BY <1>0, <2>1, <2>3, <2>6 DEF CountedRight, InOrder
  <2>8. ASSUME NEW t \in Slots PROVE MarketHandler(t)'
    <3>1. CASE t = s
      BY <2>2, <2>3, <3>1 DEF MarketHandler
    <3>2. CASE t # s
      BY <2>3, <3>2, MarketOthers
    <3>. QED
      BY <3>1, <3>2
  <2>. QED
    BY <2>2, <2>5, <2>7, <2>8 DEF MarketInv
<1>. QED
  BY <1>1, <1>2

LEMMA ReadRatingsKeeps ==
  ASSUME SocialInv, MarketInv, NEW s \in Slots, ReadRatings(s)
  PROVE  SocialInv' /\ Touches(MarketPcs) /\ MarketInv'
<1>. DEFINE average == Average
            h == [req[s] EXCEPT !.pc = "saveRating", !.seen = average]
<1>0. /\ req[s].pc = "readRatings" /\ req[s].pc \in MarketPcs /\ req[s].pc # "idle"
      /\ Resume(s, h)
      /\ listing' = listing /\ engagement' = engagement /\ reports' = reports
      /\ profile' = profile /\ views' = views /\ opened' = opened
      /\ application' = application /\ review' = review
  BY DEF ReadRatings, At, MarketPcs, marketVars
<1>. HIDE DEF average
<1>. DEFINE f == [req[s] EXCEPT !.pc = "saveRating"]
<1>11. HandlerTyped(req[s])
  BY DEF SocialInv
<1>12. HandlerTyped(f) /\ f.pc = "saveRating"
  BY <1>11 DEF HandlerTyped
<1>13. h = [f EXCEPT !.seen = average]
  BY <1>11 DEF HandlerTyped
<1>. HIDE DEF f
<1>. HIDE DEF h
<1>1. HandlerTyped(h) /\ h.pc = "saveRating" /\ h.seen = average
  BY <1>12, <1>13 DEF HandlerTyped
<1>2. SocialInv' /\ Touches(MarketPcs) /\ Resumed(s, h)
  <2>1. h.pc \in MarketPcs \cup {"idle"}
    BY <1>1 DEF MarketPcs
  <2>. QED
    BY <1>0, <1>1, <2>1, ResumeStep
<1>3. /\ req'[s] = h /\ (\A t \in Slots \ {s} : req'[t] = req[t]) /\ Goes
      /\ overlapped' = overlapped /\ scene' = scene /\ restarts' = restarts
      /\ ~overlapped => \A t \in Slots \ {s} : req[t].pc = "idle"
  BY <1>2 DEF Resumed, Goes
<1>4. MarketTyped' /\ ExpiredRight'
  BY <1>0, <1>3 DEF MarketInv, MarketTyped, ExpiredRight, Posted
<1>5. CountersStay
  BY <1>0, <1>1, <1>3 DEF CountersStay, Opening, Rating
<1>6. CountedRight'
  BY <1>0, <1>3, <1>5, CountedSame DEF CountsSame
<1>7. ASSUME NEW t \in Slots PROVE MarketHandler(t)'
  <2>1. CASE t = s
    <3>1. Average' = average
      BY <1>0, AverageSame DEF average
    <3>. QED
      BY <1>1, <1>3, <2>1, <3>1 DEF MarketHandler
  <2>2. CASE t # s
    BY <1>3, <2>2, MarketOthers
  <2>. QED
    BY <2>1, <2>2
<1>. QED
  BY <1>2, <1>4, <1>6, <1>7 DEF MarketInv

LEMMA SaveRatingKeeps ==
  ASSUME SocialInv, MarketInv, NEW s \in Slots, SaveRating(s)
  PROVE  SocialInv' /\ Touches(MarketPcs) /\ MarketInv'
<1>0. /\ req[s].pc = "saveRating" /\ req[s].pc \in MarketPcs /\ Return(s)
      /\ CountedRight /\ MarketHandler(s) /\ Profiled(profile)
      /\ listing' = listing /\ engagement' = engagement /\ reports' = reports
      /\ views' = views /\ opened' = opened
      /\ application' = application /\ review' = review
      /\ profile' = IF profile.here THEN [profile EXCEPT !.average = req[s].seen] ELSE profile
  BY UpsertedIs DEF SaveRating, SetProfile, At, MarketPcs, MarketInv
<1>1. /\ SocialInv' /\ Touches(MarketPcs) /\ (\A t \in Slots : MarketHandler(t)')
      /\ Goes /\ scene' = scene /\ overlapped' = overlapped /\ restarts' = restarts
      /\ \A t \in Slots : IF t = s THEN req'[t].pc = "idle" ELSE req'[t] = req[t]
  BY <1>0, MarketReturns
<1>2. /\ Profiled(profile') /\ profile'.here = profile.here
      /\ profile.here => profile'.average = req[s].seen
      /\ ~profile.here => profile' = profile
  BY <1>0 DEF Profiled
<1>3. MarketTyped' /\ ExpiredRight'
  BY <1>0, <1>1, <1>2 DEF MarketInv, MarketTyped, ExpiredRight, Posted, Profiled
<1>4. \A o : Opening(o)' <=> Opening(o)
  BY <1>0, <1>1 DEF Opening
<1>5. CountedRight'
  <2>1. (InOrder' => InOrder) /\ Average' = Average
    BY <1>0, <1>1, AverageSame DEF InOrder
  <2>2. InOrder => profile'.average \in {<<0, 0>>, Average}
    BY <1>0, <1>2 DEF CountedRight, MarketHandler
  <2>. QED
    BY <1>0, <1>1, <1>2, <1>4, <2>1, <2>2 DEF CountedRight
<1>. QED
  BY <1>1, <1>3, <1>5 DEF MarketInv

-----------------------------------------------------------------------------
(* The handlers of the market, up to the save *)

LEMMA MarketStarts ==
  ASSUME SocialInv, MarketInv, NEW s \in Slots, MarketStart(s)
  PROVE  SocialInv' /\ Touches(MarketPcs) /\ MarketInv'
<1>. USE MarketAssumption
<1>0. /\ Seller \in Users \cup {NoUser} /\ NoUser \in Users \cup {NoUser}
      /\ listing \in Listings /\ profile.licence \in {"none", "pending", "approved"}
  BY DEF MarketInv, MarketTyped, Listings
<1>1. CASE UpdateDraft(s) \/ UpdateListing(s)
  <2>. DEFINE h == Call("saveEdit", Seller)
  <2>1. Free(s, "edit") /\ Begin(s, h) /\ UNCHANGED marketVars
    BY <1>1 DEF UpdateDraft, UpdateListing, WithListing
  <2>2. HandlerTyped(h) /\ h.pc = "saveEdit"
    BY <1>0, CallTyped
  <2>. HIDE DEF h
  <2>. QED
    BY <2>1, <2>2, MarketBegins DEF MarketKnows, MarketPcs
<1>2. CASE RenewListing(s)
  <2>. DEFINE flag == listing.isExpired
              word == listing.status
              g == Call("saveRenewal", Seller)
              h == [g EXCEPT !.flag = flag, !.word = word]
  <2>1. Free(s, "renew") /\ Begin(s, h) /\ UNCHANGED marketVars /\ Posted
    BY <1>2 DEF RenewListing, WithListing
  <2>2. /\ flag \in BOOLEAN
        /\ scene.menu \cap {"publish", "hide"} = {} => (flag <=> word = "expired")
    BY <1>0, <2>1 DEF Listings, MarketInv, ExpiredRight
  <2>3. HandlerTyped(g) /\ g.pc = "saveRenewal"
    BY <1>0, CallTyped
  <2>. HIDE DEF flag, word, g
  <2>4. HandlerTyped(h) /\ h.pc = "saveRenewal" /\ h.flag = flag /\ h.word = word
    <3>. DEFINE f == [g EXCEPT !.flag = flag]
    <3>1. HandlerTyped(f) /\ f.pc = "saveRenewal" /\ f.flag = flag
      BY <2>2, <2>3 DEF HandlerTyped
    <3>2. h = [f EXCEPT !.word = word]
      OBVIOUS
    <3>. HIDE DEF f, h
    <3>. QED
      BY <3>1, <3>2 DEF HandlerTyped
  <2>. HIDE DEF h
  <2>. QED
    BY <2>1, <2>2, <2>4, MarketBegins DEF MarketKnows, MarketPcs
<1>3. CASE DeleteDraft(s)
  <2>. DEFINE h == Call("removeListing", Seller)
  <2>1. Free(s, "delete") /\ Begin(s, h) /\ UNCHANGED marketVars
    BY <1>3 DEF DeleteDraft, WithListing
  <2>2. HandlerTyped(h) /\ h.pc = "removeListing"
    BY <1>0, CallTyped
  <2>. HIDE DEF h
  <2>. QED
    BY <2>1, <2>2, MarketBegins DEF MarketKnows, MarketPcs
<1>4. CASE ApproveBreeder(s)
  <2>. DEFINE flag == profile.licence # "approved"
              g == Call("saveApproval", NoUser)
              h == [g EXCEPT !.flag = flag]
  <2>1. Free(s, "approve") /\ Begin(s, h) /\ UNCHANGED marketVars
    BY <1>4 DEF ApproveBreeder
  <2>2. HandlerTyped(g) /\ g.pc = "saveApproval" /\ flag \in BOOLEAN
    BY <1>0, CallTyped
  <2>. HIDE DEF g, flag
  <2>3. HandlerTyped(h) /\ h.pc = "saveApproval"
    BY <2>2 DEF HandlerTyped
  <2>. HIDE DEF h
  <2>. QED
    BY <2>1, <2>3, MarketBegins DEF MarketKnows, MarketPcs
<1>5. ASSUME NEW hide \in BOOLEAN, SetListingVisibility(s, hide)
      PROVE  SocialInv' /\ Touches(MarketPcs) /\ MarketInv'
  <2>. DEFINE word == listing.status
              seen == listing.hide
              g == Call("saveVisibility", Seller)
              h == [g EXCEPT !.flag = hide, !.word = word, !.seen = seen]
  <2>1. Free(s, "hide") /\ Begin(s, h) /\ UNCHANGED marketVars
    BY <1>5 DEF SetListingVisibility, WithListing
  <2>2. HandlerTyped(g) /\ g.pc = "saveVisibility"
    BY <1>0, CallTyped
  <2>3. "hide" \in scene.menu
    BY <2>1 DEF Free
  <2>. HIDE DEF word, seen, g
  <2>4. HandlerTyped(h) /\ h.pc = "saveVisibility"
    <3>. DEFINE f == [g EXCEPT !.flag = hide]
    <3>1. HandlerTyped(f) /\ f.pc = "saveVisibility"
      BY <2>2 DEF HandlerTyped
    <3>2. h = [f EXCEPT !.word = word, !.seen = seen]
      OBVIOUS
    <3>. HIDE DEF f, h
    <3>. QED
      BY <3>1, <3>2 DEF HandlerTyped
  <2>. HIDE DEF h
  <2>. QED
    BY <2>1, <2>3, <2>4, MarketBegins DEF MarketKnows, MarketPcs
<1>6. ASSUME NEW u \in Users, ToggleEngagement(s, u)
      PROVE  SocialInv' /\ Touches(MarketPcs) /\ MarketInv'
  <2>. DEFINE flag == ~engagement[u].isLiked
              g == Call("saveLike", u)
              h == [g EXCEPT !.flag = flag]
  <2>1. Free(s, "likeListing") /\ Begin(s, h) /\ UNCHANGED marketVars
    BY <1>6 DEF ToggleEngagement, WithListing
  <2>2. u \in Users \cup {NoUser} /\ flag \in BOOLEAN
    OBVIOUS
  <2>3. HandlerTyped(g) /\ g.pc = "saveLike" /\ g.user = u
    BY <2>2, CallTyped
  <2>. HIDE DEF g, flag
  <2>4. HandlerTyped(h) /\ h.pc = "saveLike" /\ h.user = u
    BY <2>2, <2>3 DEF HandlerTyped
  <2>. HIDE DEF h
  <2>. QED
    BY <2>1, <2>4, MarketBegins DEF MarketKnows, MarketPcs
<1>7. ASSUME NEW u \in Users, ReportListing(s, u)
      PROVE  SocialInv' /\ Touches(MarketPcs) /\ MarketInv'
  <2>. DEFINE h == Call("insertReport", u)
  <2>1. Free(s, "report") /\ Begin(s, h) /\ UNCHANGED marketVars /\ u \in Users \cup {NoUser}
    BY <1>7 DEF ReportListing, WithListing
  <2>2. HandlerTyped(h) /\ h.pc = "insertReport"
    BY <2>1, CallTyped
  <2>. HIDE DEF h
  <2>. QED
    BY <2>1, <2>2, MarketBegins DEF MarketKnows, MarketPcs
<1>8. ASSUME NEW u \in Users, ApplyForJob(s, u)
      PROVE  SocialInv' /\ Touches(MarketPcs) /\ MarketInv'
  <2>. DEFINE h == Call("insertApplication", u)
  <2>1. /\ Free(s, "apply") /\ Begin(s, h) /\ UNCHANGED marketVars
        /\ u \in Users \cup {NoUser} /\ application[u] = 0
    BY <1>8 DEF ApplyForJob
  <2>2. HandlerTyped(h) /\ h.pc = "insertApplication" /\ h.user = u
    BY <2>1, CallTyped
  <2>. HIDE DEF h
  <2>. QED
    BY <2>1, <2>2, MarketBegins DEF MarketKnows, MarketPcs
<1>9. ASSUME NEW u \in Users, NEW r \in Ratings, AddReview(s, u, r)
      PROVE  SocialInv' /\ Touches(MarketPcs) /\ MarketInv'
  <2>. DEFINE g == Call("insertReview", u)
              h == [g EXCEPT !.number = r]
  <2>1. Free(s, "review") /\ Begin(s, h) /\ UNCHANGED marketVars /\ u \in Users \cup {NoUser}
    BY <1>9 DEF AddReview
  <2>2. HandlerTyped(g) /\ g.pc = "insertReview" /\ g.user = u /\ r \in Nat
    BY <2>1, CallTyped
  <2>. HIDE DEF g
  <2>3. HandlerTyped(h) /\ h.pc = "insertReview" /\ h.user = u /\ h.number = r
    BY <2>2 DEF HandlerTyped
  <2>. HIDE DEF h
  <2>. QED
    BY <2>1, <2>3, MarketBegins DEF MarketKnows, MarketPcs
<1>. QED
  BY <1>1, <1>2, <1>3, <1>4, <1>5, <1>6, <1>7, <1>8, <1>9, OpenKeeps DEF MarketStart

LEMMA MarketMoves ==
  ASSUME SocialInv, MarketInv, MarketNext
  PROVE  SocialInv' /\ Touches(MarketPcs) /\ MarketInv'
<1>1. CASE MarketAtOnce
  <2>1. CASE \E status \in {"active", "draft"} : Post(status)
    BY <2>1, PostKeeps
  <2>2. CASE PublishDraft
    BY <2>2, PostKeeps
  <2>3. CASE SubmitBreederLicense
    BY <2>3, EngageKeeps, MarketAssumption
  <2>4. ASSUME NEW u \in Users,
               \/ SaveForLater(u) \/ BlockUser(u)
               \/ \E contacted \in BOOLEAN : Engage(u, contacted)
        PROVE  SocialInv' /\ Touches(MarketPcs) /\ MarketInv'
    BY <2>4, EngageKeeps
  <2>. QED
    BY <1>1, <2>1, <2>2, <2>3, <2>4 DEF MarketAtOnce
<1>2. ASSUME NEW s \in Slots, MarketContinue(s)
      PROVE  SocialInv' /\ Touches(MarketPcs) /\ MarketInv'
  BY <1>2, SaveListingKeeps, SaveViewsKeeps, SaveEngagementKeeps, InsertReviewKeeps,
     ReadRatingsKeeps, SaveRatingKeeps, InsertApplicationKeeps DEF MarketContinue
<1>. QED
  BY <1>1, <1>2, ExpirationKeeps, MarketStarts DEF MarketNext

LEMMA MarketRestarts ==
  ASSUME MarketInv, Crash, SocialInv
  PROVE  MarketInv'
<1>1. /\ req' = [s \in Slots |-> Idle] /\ restarts' = restarts + 1 /\ overlapped' = overlapped
      /\ scene' = scene
      /\ listing' = listing /\ engagement' = engagement /\ reports' = reports
      /\ review' = review /\ profile' = profile /\ saved' = saved
      /\ application' = application /\ views' = views /\ opened' = opened
  BY DEF Crash, Restart, marketVars
<1>2. \A s \in Slots : req'[s].pc = "idle"
  BY <1>1, IdleTyped
<1>3. ~InOrder'
  BY <1>1, SocialAssumption DEF SocialInv, InOrder
<1>4. MarketTyped' /\ ExpiredRight'
  BY <1>1 DEF MarketInv, MarketTyped, ExpiredRight, Posted
<1>5. CountedRight'
  BY <1>1, <1>3 DEF MarketInv, CountedRight
<1>6. \A s \in Slots : MarketHandler(s)'
  BY <1>2 DEF MarketHandler
<1>. QED
  BY <1>4, <1>5, <1>6 DEF MarketInv

LEMMA MarketBeginning ==
  ASSUME SocialInit, MarketInit
  PROVE  MarketInv
<1>1. \A s \in Slots : req[s].pc = "idle"
  BY IdleTyped DEF SocialInit
<1>2. /\ NoListing \in Listings /\ NoListing.status = "none" /\ NoListing.due = FALSE
      /\ NoEngagement \in [here : BOOLEAN, isLiked : BOOLEAN, contacted : BOOLEAN]
      /\ Profiled(NoProfile) /\ NoProfile.average = <<0, 0>>
  BY DEF NoListing, NoEngagement, NoProfile, Profiled, Listings, ListingStatus
<1>3. MarketTyped
  BY <1>2 DEF MarketInit, MarketTyped, Profiled, Listings
<1>4. ExpiredRight
  BY <1>2 DEF MarketInit, ExpiredRight, Posted
<1>5. CountedRight
  BY <1>1, <1>2 DEF MarketInit, CountedRight, Opening
<1>6. \A s \in Slots : MarketHandler(s)
  BY <1>1 DEF MarketHandler
<1>. QED
  BY <1>3, <1>4, <1>5, <1>6 DEF MarketInv

-----------------------------------------------------------------------------
(* Files *)

FilesPcs == {"putFile", "putThumb", "insertRecord", "unlinkFile", "removeRecord", "cleanNext"}

\* A handler that stores, or forwards.
Storing(s) == req[s].pc \in {"putFile", "putThumb", "insertRecord"}

Records == [here : BOOLEAN, sId : Users \cup {NoUser}, direct : BOOLEAN, url : 0..MaxFiles,
            thumb : BOOLEAN, fileSize : Sizes \cup {0}, attached : BOOLEAN, dltAt : BOOLEAN]

\* One key, or two.
Keyed(url, thumb) == url \in 1..keys /\ (thumb => url + 1 \in 1..keys)

FilesTyped ==
  /\ record \in [RecordIds -> Records]
  /\ records \in 0..MaxRecords /\ keys \in 0..MaxFiles
  /\ disk \subseteq 1..keys /\ refused \subseteq 1..keys
  /\ \A m \in RecordIds :
       /\ record[m].here \/ record[m].direct => m <= records
       /\ record[m].direct => ~record[m].thumb
       /\ record[m].url <= keys
       /\ record[m].here => Keyed(record[m].url, record[m].thumb)

FilesHandler(s) ==
  /\ Storing(s) =>
       /\ Keyed(req[s].id, req[s].flag) /\ req[s].user \in Users
       /\ req[s].number \in Sizes \cup {0}
       /\ req[s].word = "direct" => ~req[s].flag
  /\ req[s].pc = "putThumb" => req[s].flag
  /\ req[s].pc = "cleanNext" => req[s].seen \subseteq RecordIds
  /\ req[s].pc \in {"unlinkFile", "removeRecord"} => req[s].id \in RecordIds

\* The files a handler will put, and those it has put.
Pending(s, k) ==
  \/ req[s].pc = "putFile" /\ (k = req[s].id \/ (req[s].flag /\ k = req[s].id + 1))
  \/ req[s].pc = "putThumb" /\ k = req[s].id + 1
Put(s, k) ==
  \/ req[s].pc = "putThumb" /\ k = req[s].id
  \/ req[s].pc = "insertRecord" /\ (k = req[s].id \/ (req[s].flag /\ k = req[s].id + 1))

\* What is put has a key that nothing else has.
NewKeys ==
  \A s \in Slots :
    /\ \A m \in RecordIds : record[m].here => ~Pending(s, record[m].url)
    /\ \A t \in Slots \ {s} : Storing(t) => ~Pending(s, req[t].id)

\* The first and the second keys.
FirstKey(k) ==
  \/ \E m \in RecordIds : record[m].here /\ k = record[m].url
  \/ \E s \in Slots : Storing(s) /\ k = req[s].id
SecondKey(k) ==
  \/ \E m \in RecordIds : record[m].here /\ record[m].thumb /\ k = record[m].url + 1
  \/ \E s \in Slots : Storing(s) /\ req[s].flag /\ k = req[s].id + 1
Separate == \A k \in 1..keys : ~(FirstKey(k) /\ SecondKey(k))

ToldRight == \A m \in RecordIds : record[m].here /\ ~record[m].attached => record[m].url \notin disk

SizeOf == [m \in RecordIds |-> record[m].fileSize]
CountedOf(u) == {m \in RecordIds : Counts(m, u)}
DirectOf(u) == {m \in RecordIds : record[m].direct /\ Counts(m, u)}

Within ==
  ~overlapped =>
    /\ \A u \in Users : SumOf(SizeOf, DirectOf(u)) <= MaxStorage
    /\ \A s \in Slots : Storing(s) /\ req[s].word = "direct" =>
         SumOf(SizeOf, CountedOf(req[s].user)) + req[s].number <= MaxStorage

\* A direct upload that was deleted has taken its file along.
LostFile(k) == \E n \in RecordIds : ~record[n].here /\ record[n].direct /\ record[n].url = k
Deleting(m) == \E s \in Slots : req[s].pc = "removeRecord" /\ req[s].id = m

\* A handler that stores or deletes, if it is the only one.
FilesAlone(s) ==
  /\ req[s].pc = "putThumb" => req[s].id \in disk
  /\ req[s].pc = "insertRecord" => (\A k \in 1..keys : Put(s, k) => k \in disk) \/ LostFile(req[s].id)
  /\ Storing(s) /\ req[s].word = "direct" =>
       \A m \in RecordIds : record[m].direct => record[m].url # req[s].id
  /\ req[s].pc \in {"unlinkFile", "removeRecord"} =>
       record[req[s].id].here /\ record[req[s].id].direct
  /\ req[s].pc = "unlinkFile" =>
       req[s].number = IF record[req[s].id].attached THEN record[req[s].id].url ELSE 0
  /\ req[s].pc = "removeRecord" => record[req[s].id].url \notin disk

\* What is on disk, and what a message has.
OfSomeone ==
  \A k \in disk : \/ k \in refused
                  \/ \E m \in RecordIds : record[m].here /\ k \in FilesOf(m)
                  \/ \E s \in Slots : Put(s, k)
HasFiles ==
  \A m \in RecordIds :
    HereWithFile(m) =>
      \/ FilesOf(m) \subseteq disk
      \/ LostFile(record[m].url)
      \/ \E n \in RecordIds : Deleting(n) /\ record[n].url = record[m].url
DirectHas ==
  \A m \in RecordIds :
    record[m].direct /\ HereWithFile(m) => record[m].url \in disk \/ Deleting(m)
DirectApart ==
  \A m, n \in RecordIds :
    record[m].direct /\ record[n].direct /\ m # n => record[m].url # record[n].url

Kept ==
  InOrder => /\ \A s \in Slots : FilesAlone(s)
             /\ OfSomeone /\ HasFiles /\ DirectHas /\ DirectApart

FilesInv ==
  /\ FilesTyped /\ (\A s \in Slots : FilesHandler(s)) /\ NewKeys /\ Separate /\ ToldRight
  /\ Within /\ Kept

-----------------------------------------------------------------------------
(* What the messages with a file take up *)

LEMMA RecordsFinite ==
  ASSUME NEW R, R \subseteq RecordIds
  PROVE  IsFiniteSet(R)
<1>1. IsFiniteSet(RecordIds)
  BY FilesAssumption, FS_Interval DEF RecordIds
<1>. QED
  BY <1>1, FS_Subset

LEMMA SizesTyped ==
  ASSUME record \in [RecordIds -> Records]
  PROVE  \A m \in RecordIds : SizeOf[m] = record[m].fileSize /\ SizeOf[m] \in Nat /\ SizeOf[m] \in Int
<1>1. \A x \in Sizes \cup {0} : x \in Nat /\ x \in Int
  BY FilesAssumption
<1>2. \A m \in RecordIds : record[m].fileSize \in Sizes \cup {0}
  BY DEF Records
<1>. QED
  BY <1>1, <1>2 DEF SizeOf

\* What getCurrentStorageUsage adds up.
LEMMA UsageSum ==
  ASSUME record \in [RecordIds -> Records], NEW u
  PROVE  Usage(u) = SumOf(SizeOf, CountedOf(u))
<1>. DEFINE S == CountedOf(u)
            IsIter(g) == g = [T \in SUBSET S |-> IF T = {} THEN 0 ELSE
                                record[Some(T)].fileSize + g[T \ {Some(T)}]]
            iter == CHOOSE g : IsIter(g)
<1>1. S \subseteq RecordIds /\ IsFiniteSet(S)
  BY RecordsFinite DEF CountedOf
<1>2. \A T \in SUBSET S : T # {} => SizeOf[Some(T)] = record[Some(T)].fileSize
  BY <1>1, SomeIn, SizesTyped
<1>3. \A g : IsSumOf(g, SizeOf, S) <=> IsIter(g)
  BY <1>2 DEF IsSumOf
<1>4. Usage(u) = iter[S]
  BY DEF Usage, CountedOf, MapThenSumSet, MapThenFoldSet, Some
<1>5. IsIter(iter)
  <2>1. \A m \in S : SizeOf[m] \in Int
    BY <1>1, SizesTyped
  <2>2. \E g : IsIter(g)
    BY <1>1, <1>3, <2>1, SumIs
  <2>. HIDE DEF IsIter
  <2>. QED
    BY <2>2
<1>6. \A m \in S : SizeOf[m] \in Int
  BY <1>1, SizesTyped
<1>. HIDE DEF IsIter, iter, S
<1>7. IsSumOf(iter, SizeOf, S)
  BY <1>3, <1>5
<1>8. SumOf(SizeOf, S) = iter[S]
  BY <1>1, <1>6, <1>7, SumFrom
<1>. QED
  BY <1>4, <1>8 DEF S

\* What a user has uploaded directly is a part of it.
LEMMA DirectSum ==
  ASSUME record \in [RecordIds -> Records], NEW u
  PROVE  /\ LET Size(m) == record[m].fileSize
            IN MapThenSumSet(Size, {m \in RecordIds : record[m].direct /\ Counts(m, u)})
              = SumOf(SizeOf, DirectOf(u))
         /\ SumOf(SizeOf, DirectOf(u)) <= SumOf(SizeOf, CountedOf(u))
         /\ SumOf(SizeOf, DirectOf(u)) \in Int /\ SumOf(SizeOf, CountedOf(u)) \in Int
<1>. DEFINE S == DirectOf(u)
            IsIter(g) == g = [T \in SUBSET S |-> IF T = {} THEN 0 ELSE
                                record[Some(T)].fileSize + g[T \ {Some(T)}]]
            iter == CHOOSE g : IsIter(g)
<1>1. S \subseteq RecordIds /\ IsFiniteSet(S) /\ S \subseteq CountedOf(u)
      /\ CountedOf(u) \subseteq RecordIds /\ IsFiniteSet(CountedOf(u))
  BY RecordsFinite DEF CountedOf, DirectOf
<1>2. \A T \in SUBSET S : T # {} => SizeOf[Some(T)] = record[Some(T)].fileSize
  BY <1>1, SomeIn, SizesTyped
<1>3. \A g : IsSumOf(g, SizeOf, S) <=> IsIter(g)
  BY <1>2 DEF IsSumOf
<1>4. LET Size(m) == record[m].fileSize
      IN MapThenSumSet(Size, {m \in RecordIds : record[m].direct /\ Counts(m, u)}) = iter[S]
  BY DEF DirectOf, MapThenSumSet, MapThenFoldSet, Some
<1>5. IsIter(iter)
  <2>1. \A m \in S : SizeOf[m] \in Int
    BY <1>1, SizesTyped
  <2>2. \E g : IsIter(g)
    BY <1>1, <1>3, <2>1, SumIs
  <2>. HIDE DEF IsIter
  <2>. QED
    BY <2>2
<1>6. /\ \A m \in S : SizeOf[m] \in Int
      /\ \A m \in CountedOf(u) : SizeOf[m] \in Int /\ SizeOf[m] \in Nat
  BY <1>1, SizesTyped
<1>. HIDE DEF IsIter, iter, S
<1>7. IsSumOf(iter, SizeOf, S)
  BY <1>3, <1>5
<1>8. SumOf(SizeOf, S) = iter[S]
  BY <1>1, <1>6, <1>7, SumFrom
<1>9. SumOf(SizeOf, S) \in Int /\ SumOf(SizeOf, CountedOf(u)) \in Int
  BY <1>1, <1>6, SumType
<1>10. SumOf(SizeOf, S) <= SumOf(SizeOf, CountedOf(u))
  BY <1>1, <1>6, SumGrows
<1>. QED
  BY <1>4, <1>8, <1>9, <1>10 DEF S

\* Messages that keep their file, or lose it, and are there, or go.
Shrunk ==
  \A m \in RecordIds :
    /\ record'[m].url = record[m].url /\ record'[m].thumb = record[m].thumb
    /\ record'[m].direct = record[m].direct /\ record'[m].fileSize = record[m].fileSize
    /\ record'[m].sId = record[m].sId
    /\ record'[m].here => record[m].here
    /\ record'[m].attached => record[m].attached
    /\ record[m].dltAt => record'[m].dltAt

LEMMA DirectShrinks ==
  ASSUME record \in [RecordIds -> Records], record' \in [RecordIds -> Records], NEW u,
         \A m \in RecordIds : record'[m].direct /\ Counts(m, u)' =>
           record[m].direct /\ Counts(m, u) /\ record'[m].fileSize = record[m].fileSize
  PROVE  SumOf(SizeOf, DirectOf(u))' <= SumOf(SizeOf, DirectOf(u))
<1>. DEFINE f == SizeOf
            g == [m \in RecordIds |-> record'[m].fileSize]
            S == DirectOf(u)
            R == {m \in RecordIds : record'[m].direct /\ Counts(m, u)'}
<1>1. SumOf(SizeOf, DirectOf(u))' = SumOf(g, R)
  BY DEF SizeOf, DirectOf
<1>2. \A m \in S : f[m] \in Nat /\ f[m] \in Int
  BY SizesTyped DEF DirectOf
<1>3. R \subseteq S /\ S \subseteq RecordIds /\ R \subseteq RecordIds
  BY DEF DirectOf
<1>4. \A m \in R : g[m] = f[m]
  BY <1>3, SizesTyped
<1>5. IsFiniteSet(R) /\ IsFiniteSet(S)
  BY <1>3, RecordsFinite
<1>. HIDE DEF f, g, S, R
<1>6. SumOf(g, R) = SumOf(f, R)
  BY <1>2, <1>3, <1>4, <1>5, SumSame
<1>7. SumOf(f, R) <= SumOf(f, S)
  BY <1>2, <1>3, <1>5, SumGrows
<1>. QED
  BY <1>1, <1>6, <1>7 DEF f, S

\* Nothing new: nobody has more than before.
LEMMA WithinShrunk ==
  ASSUME FilesInv, FilesTyped', Shrunk, ~overlapped, NEW u \in Users
  PROVE  SumOf(SizeOf, DirectOf(u))' <= MaxStorage
<1>1. /\ record \in [RecordIds -> Records] /\ record' \in [RecordIds -> Records]
  BY DEF FilesInv, FilesTyped
<1>2. SumOf(SizeOf, DirectOf(u))' <= SumOf(SizeOf, DirectOf(u))
  <2>1. \A m \in RecordIds : record'[m].direct /\ Counts(m, u)' =>
           record[m].direct /\ Counts(m, u) /\ record'[m].fileSize = record[m].fileSize
    BY DEF Shrunk, Counts, HereWithFile
  <2>. QED
    BY <1>1, <2>1, DirectShrinks
<1>3. SumOf(SizeOf, DirectOf(u)) <= MaxStorage
  BY DEF FilesInv, Within
<1>4. SumOf(SizeOf, DirectOf(u)) \in Int
  BY <1>1, DirectSum
<1>5. SumOf(SizeOf, DirectOf(u))' \in Int
  <2>. DEFINE g == [m \in RecordIds |-> record'[m].fileSize]
              R == {m \in RecordIds : record'[m].direct /\ Counts(m, u)'}
  <2>1. SumOf(SizeOf, DirectOf(u))' = SumOf(g, R)
    BY DEF SizeOf, DirectOf
  <2>2. \A m \in R : g[m] \in Int
    <3>1. \A x \in Sizes \cup {0} : x \in Int
      BY FilesAssumption
    <3>2. \A m \in RecordIds : record'[m].fileSize \in Sizes \cup {0}
      BY <1>1 DEF Records
    <3>. QED
      BY <3>1, <3>2
  <2>3. IsFiniteSet(R)
    BY RecordsFinite
  <2>. HIDE DEF g, R
  <2>. QED
    BY <2>1, <2>2, <2>3, SumType
<1>. QED
  BY <1>2, <1>3, <1>4, <1>5, FilesAssumption

-----------------------------------------------------------------------------
(* What a handler of files does, and leaves *)

LEMMA FilesOthers ==
  ASSUME FilesInv, NEW t \in Slots, req'[t] = req[t], keys \in Nat, keys' \in Nat, keys <= keys'
  PROVE  FilesHandler(t)'
<1>1. FilesHandler(t)
  BY DEF FilesInv
<1>2. \A k \in 1..keys : k \in 1..keys'
  OBVIOUS
<1>. QED
  BY <1>1, <1>2 DEF FilesHandler, Storing, Keyed

LEMMA FilesNumbers ==
  ASSUME FilesInv
  PROVE  /\ keys \in Nat /\ records \in Nat /\ MaxRecords \in Nat /\ MaxFiles \in Nat
         /\ keys <= MaxFiles
         /\ \A m \in RecordIds : m \in Nat /\ record[m].url \in Nat /\ record[m].url <= keys
         /\ \A m \in RecordIds : record[m].here => record[m].url \in 1..keys
BY FilesAssumption DEF FilesInv, FilesTyped, RecordIds, Records, Keyed

\* Steps that give no key.
LEMMA KeysStay ==
  ASSUME FilesInv, NEW s \in Slots, Shrunk, keys' = keys,
         \A t \in Slots \ {s} : req'[t] = req[t],
         Storing(s)' => Storing(s) /\ req'[s].id = req[s].id /\ req'[s].flag = req[s].flag,
         \A k : Pending(s, k)' => Pending(s, k)
  PROVE  NewKeys' /\ Separate'
<1>1. \A t \in Slots : Storing(t)' => /\ Storing(t)
                                      /\ req'[t].id = req[t].id /\ req'[t].flag = req[t].flag
  BY DEF Storing
<1>2. \A t \in Slots : \A k : Pending(t, k)' => Pending(t, k)
  BY DEF Pending
<1>3. NewKeys'
  <2>1. ASSUME NEW t \in Slots, NEW m \in RecordIds, record'[m].here
        PROVE  ~Pending(t, record[m].url)'
    BY <1>2, <2>1 DEF FilesInv, NewKeys, Shrunk
  <2>2. ASSUME NEW t \in Slots, NEW r \in Slots \ {t}, Storing(r)'
        PROVE  ~Pending(t, req[r].id)'
    BY <1>1, <1>2, <2>2 DEF FilesInv, NewKeys
  <2>. QED
    BY <2>1, <2>2 DEF NewKeys
<1>4. ASSUME NEW k PROVE (FirstKey(k)' => FirstKey(k)) /\ (SecondKey(k)' => SecondKey(k))
  BY <1>1 DEF Shrunk, FirstKey, SecondKey
<1>. QED
  BY <1>3, <1>4 DEF FilesInv, Separate

\* Whose files are still those of a message that is not there any more.
LEMMA LostStay ==
  ASSUME Shrunk, NEW k, LostFile(k)
  PROVE  LostFile(k)'
BY DEF Shrunk, LostFile

LEMMA SameShrunk ==
  ASSUME record' = record
  PROVE  Shrunk
BY DEF Shrunk

\* What the limit is about stays, if nothing is inserted and nobody uploads.
LEMMA NoneUploads ==
  ASSUME FilesInv, FilesTyped', Shrunk, ~overlapped' => ~overlapped,
         \A s \in Slots : ~overlapped' => ~(Storing(s)' /\ req'[s].word = "direct")
  PROVE  Within'
BY WithinShrunk DEF Within

LEMMA OnlyMember ==
  ASSUME NEW s \in Slots, \A t \in Slots \ {s} : req'[t].pc = "idle"
  PROVE  /\ \A t \in Slots \ {s} : FilesAlone(t)'
         /\ \A k : (\E t \in Slots : Put(t, k)') <=> Put(s, k)'
         /\ \A m : Deleting(m)' <=> req'[s].pc = "removeRecord" /\ req'[s].id = m
BY DEF FilesAlone, Storing, Put, Deleting

LEMMA OnlyMemberNow ==
  ASSUME NEW s \in Slots, \A t \in Slots \ {s} : req[t].pc = "idle"
  PROVE  /\ \A k : (\E t \in Slots : Put(t, k)) <=> Put(s, k)
         /\ \A m : Deleting(m) <=> req[s].pc = "removeRecord" /\ req[s].id = m
BY DEF Put, Deleting

LEMMA NobodyNow ==
  ASSUME \A t \in Slots : req[t].pc = "idle"
  PROVE  (\A k : ~ \E t \in Slots : Put(t, k)) /\ (\A m : ~Deleting(m))
BY DEF Put, Deleting

-----------------------------------------------------------------------------
(* Uploads and messages with a file *)

LEMMA ToStoreKeeps ==
  ASSUME SocialInv, FilesInv, NEW s \in Slots, NEW request, NEW h, ToStore(s, request, h),
         HandlerTyped(h), h.user \in Users, h.number \in Sizes,
         h.word = "direct" =>
           ~h.flag /\ SumOf(SizeOf, CountedOf(h.user)) + h.number <= MaxStorage
  PROVE  SocialInv' /\ Touches(FilesPcs) /\ FilesInv'
<1>. DEFINE needed == IF h.flag THEN 2 ELSE 1
            key == keys + 1
            f == [h EXCEPT !.pc = "putFile"]
            g == [f EXCEPT !.id = key]
<1>0. /\ Free(s, request) /\ keys + needed <= MaxFiles /\ keys' = keys + needed
      /\ Begin(s, [h EXCEPT !.pc = "putFile", !.id = key])
      /\ record' = record /\ records' = records /\ disk' = disk /\ refused' = refused
  BY DEF ToStore
<1>1. /\ HandlerTyped(f) /\ f.pc = "putFile" /\ f.user = h.user /\ f.number = h.number
      /\ f.word = h.word /\ f.flag = h.flag
  BY DEF HandlerTyped
<1>2. key \in Nat /\ needed \in {1, 2} /\ keys \in Nat /\ h.flag \in BOOLEAN
      /\ key <= keys + needed /\ (h.flag => key + 1 <= keys + needed)
  BY FilesNumbers DEF HandlerTyped
<1>3. [h EXCEPT !.pc = "putFile", !.id = key] = g
  OBVIOUS
<1>. HIDE DEF f, g
<1>4. /\ HandlerTyped(g) /\ g.pc = "putFile" /\ g.user = h.user /\ g.number = h.number
      /\ g.word = h.word /\ g.flag = h.flag /\ g.id = key
  <2>1. g = [f EXCEPT !.id = key]
    BY DEF g
  <2>. QED
    BY <1>1, <1>2, <2>1 DEF HandlerTyped
<1>5. SocialInv' /\ Touches(FilesPcs) /\ Begun(s, g)
  <2>1. g.pc \in FilesPcs
    BY <1>4 DEF FilesPcs
  <2>. QED
    BY <1>0, <1>3, <1>4, <2>1, BeginStep
<1>6. /\ req[s].pc = "idle" /\ req'[s] = g /\ (\A t \in Slots \ {s} : req'[t] = req[t]) /\ Goes
      /\ ~overlapped' => \A t \in Slots : req[t].pc = "idle"
  BY <1>5 DEF Begun
<1>. HIDE DEF g, needed
<1>. HIDE DEF key
<1>7. /\ keys' \in Nat /\ keys < keys' /\ keys' <= MaxFiles /\ key \in 1..keys' /\ key = keys + 1
      /\ (h.flag => key + 1 \in 1..keys')
      /\ \A k \in 1..keys : k \in 1..keys'
  BY <1>0, <1>2 DEF key
<1>8. FilesTyped'
  <2>1. \A m \in RecordIds : record[m].url <= keys'
    BY <1>7, FilesNumbers
  <2>2. \A m \in RecordIds : record[m].here => Keyed(record[m].url, record[m].thumb)'
    BY <1>0, <1>7 DEF FilesInv, FilesTyped, Keyed
  <2>3. disk \subseteq 1..keys' /\ refused \subseteq 1..keys' /\ keys' \in 0..MaxFiles
    BY <1>7, FilesNumbers DEF FilesInv, FilesTyped
  <2>. QED
    BY <1>0, <2>1, <2>2, <2>3 DEF FilesInv, FilesTyped
<1>9. ASSUME NEW t \in Slots PROVE FilesHandler(t)'
  <2>1. CASE t = s
    BY <1>4, <1>6, <1>7, <2>1 DEF FilesHandler, Storing, Keyed
  <2>2. CASE t # s
    BY <1>2, <1>6, <1>7, <2>2, FilesOthers
  <2>. QED
    BY <2>1, <2>2
<1>10. \A t \in Slots \ {s} : /\ Storing(t)' <=> Storing(t)
                              /\ \A k : Pending(t, k)' <=> Pending(t, k)
  BY <1>6 DEF Storing, Pending
<1>11. Storing(s)' /\ \A k : Pending(s, k)' <=> k = key \/ (h.flag /\ k = key + 1)
  BY <1>4, <1>6 DEF Storing, Pending
<1>12. \A t \in Slots : Storing(t) => Keyed(req[t].id, req[t].flag)
  BY DEF FilesInv, FilesHandler
<1>13. \A t \in Slots : \A k : Pending(t, k) => k \in 1..keys
  <2>. SUFFICES ASSUME NEW t \in Slots, NEW k, Pending(t, k) PROVE k \in 1..keys
    OBVIOUS
  <2>1. FilesHandler(t)
    BY DEF FilesInv
  <2>. QED
    BY <2>1 DEF FilesHandler, Pending, Storing, Keyed
<1>14. \A k : k = key \/ (h.flag /\ k = key + 1) => k \notin 1..keys
  BY <1>2, <1>7
<1>15. NewKeys'
  <2>1. ASSUME NEW t \in Slots, NEW m \in RecordIds, record'[m].here
        PROVE  ~Pending(t, record[m].url)'
    <3>1. record[m].here /\ record[m].url \in 1..keys
      BY <1>0, <2>1, FilesNumbers
    <3>2. CASE t = s
      BY <1>0, <1>11, <1>14, <3>1, <3>2
    <3>3. CASE t # s
      BY <1>0, <1>10, <3>1, <3>3 DEF FilesInv, NewKeys
    <3>. QED
      BY <3>2, <3>3
  <2>2. ASSUME NEW t \in Slots, NEW r \in Slots \ {t}, Storing(r)'
        PROVE  ~Pending(t, req[r].id)'
    <3>1. CASE t = s
      <4>1. Storing(r) /\ req'[r].id = req[r].id /\ req[r].id \in 1..keys
        BY <1>6, <1>10, <1>12, <2>2, <3>1 DEF Keyed
      <4>. QED
        BY <1>11, <1>14, <3>1, <4>1
    <3>2. CASE r = s
      <4>1. req'[r].id = key /\ key \notin 1..keys
        BY <1>4, <1>6, <1>14, <3>2
      <4>. QED
        BY <1>10, <1>13, <3>2, <4>1
    <3>3. CASE t # s /\ r # s
      BY <1>6, <1>10, <2>2, <3>3 DEF FilesInv, NewKeys
    <3>. QED
      BY <3>1, <3>2, <3>3
  <2>. QED
    BY <2>1, <2>2 DEF NewKeys
<1>16. Separate'
  <2>1. ASSUME NEW k PROVE /\ FirstKey(k)' => FirstKey(k) \/ k = key
                           /\ SecondKey(k)' => SecondKey(k) \/ (h.flag /\ k = key + 1)
    BY <1>0, <1>4, <1>6, <1>10 DEF FirstKey, SecondKey
  <2>2. ASSUME NEW k PROVE FirstKey(k) \/ SecondKey(k) => k \in 1..keys
    BY <1>12, FilesNumbers DEF FirstKey, SecondKey, FilesInv, FilesTyped, Keyed
  <2>3. \A k \in 1..keys : ~(FirstKey(k) /\ SecondKey(k))
    BY DEF FilesInv, Separate
  <2>4. key # key + 1
    BY <1>2
  <2>. QED
    BY <1>14, <2>1, <2>2, <2>3, <2>4 DEF Separate
<1>17. ToldRight'
  BY <1>0 DEF FilesInv, ToldRight
<1>18. Within'
  <2>1. ASSUME ~overlapped', NEW t \in Slots, Storing(t)', req'[t].word = "direct"
        PROVE  SumOf(SizeOf, CountedOf(req[t].user))' + req'[t].number <= MaxStorage
    <3>1. t = s
      BY <1>6, <1>10, <2>1 DEF Storing
    <3>2. req'[t].user = h.user /\ req'[t].number = h.number /\ h.word = "direct"
      BY <1>4, <1>6, <2>1, <3>1
    <3>3. SizeOf' = SizeOf /\ CountedOf(req[t].user)' = CountedOf(h.user)
      BY <1>0, <3>2 DEF SizeOf, CountedOf, Counts, HereWithFile
    <3>4. SumOf(SizeOf, CountedOf(req[t].user))' = SumOf(SizeOf, CountedOf(h.user))
      BY <3>3
    <3>. QED
      BY <3>2, <3>4
  <2>2. ~overlapped' => \A u \in Users : SumOf(SizeOf, DirectOf(u))' <= MaxStorage
    BY <1>0, <1>6, <1>8, SameShrunk, WithinShrunk DEF Goes
  <2>. QED
    BY <2>1, <2>2 DEF Within
<1>19. Kept'
  <2>. SUFFICES ASSUME InOrder'
                PROVE  (\A t \in Slots : FilesAlone(t)') /\ OfSomeone' /\ HasFiles' /\ DirectHas'
                         /\ DirectApart'
    BY DEF Kept
  <2>1. /\ InOrder /\ \A t \in Slots : req[t].pc = "idle"
    BY <1>6 DEF InOrder, Goes
  <2>2. \A t \in Slots \ {s} : req'[t].pc = "idle"
    BY <1>6, <2>1
  <2>3. OfSomeone /\ HasFiles /\ DirectHas /\ DirectApart
    BY <2>1 DEF FilesInv, Kept
  <2>4. FilesAlone(s)'
    <3>1. \A m \in RecordIds : record'[m].url # key
      BY <1>0, <1>2, <1>7, FilesNumbers
    <3>. QED
      BY <1>4, <1>6, <3>1 DEF FilesAlone
  <2>5. (\A k : ~ \E t \in Slots : Put(t, k)) /\ (\A m : ~Deleting(m))
    BY <2>1, NobodyNow
  <2>6. \A k : LostFile(k)' <=> LostFile(k)
    BY <1>0 DEF LostFile
  <2>7. OfSomeone' /\ HasFiles' /\ DirectHas' /\ DirectApart'
    BY <1>0, <2>3, <2>5, <2>6 DEF OfSomeone, HasFiles, DirectHas, DirectApart, FilesOf, HereWithFile
  <2>. QED
    BY <2>2, <2>4, <2>7, OnlyMember
<1>. QED
  BY <1>5, <1>8, <1>9, <1>15, <1>16, <1>17, <1>18, <1>19 DEF FilesInv

LEMMA UploadKeeps ==
  ASSUME SocialInv, FilesInv, NEW s \in Slots, NEW u \in Users, NEW size \in Sizes,
         \/ UploadFiles(s, u, size)
         \/ \E thumb \in BOOLEAN : Attach(s, u, size, thumb)
  PROVE  SocialInv' /\ Touches(FilesPcs) /\ FilesInv'
<1>. DEFINE With(word, thumb) ==
              [Call("putFile", u) EXCEPT !.word = word, !.number = size, !.flag = thumb]
<1>1. size \in Nat
  BY FilesAssumption
<1>2. ASSUME NEW word, NEW thumb \in BOOLEAN
      PROVE  /\ HandlerTyped(With(word, thumb)) /\ With(word, thumb).user = u
             /\ With(word, thumb).number = size /\ With(word, thumb).word = word
             /\ With(word, thumb).flag = thumb
  <2>. DEFINE g == Call("putFile", u)
              f == [g EXCEPT !.word = word]
              e == [f EXCEPT !.number = size]
              d == [e EXCEPT !.flag = thumb]
  <2>1. HandlerTyped(g) /\ g.user = u
    <3>1. u \in Users \cup {NoUser}
      OBVIOUS
    <3>. QED
      BY <3>1, CallTyped
  <2>2. With(word, thumb) = d
    OBVIOUS
  <2>. HIDE DEF g
  <2>3. HandlerTyped(f) /\ f.user = u /\ f.word = word
    BY <2>1 DEF HandlerTyped
  <2>. HIDE DEF f
  <2>4. HandlerTyped(e) /\ e.user = u /\ e.word = word /\ e.number = size
    BY <1>1, <2>3 DEF HandlerTyped
  <2>. HIDE DEF e
  <2>5. HandlerTyped(d) /\ d.user = u /\ d.word = word /\ d.number = size /\ d.flag = thumb
    BY <2>4 DEF HandlerTyped
  <2>. HIDE DEF d, With
  <2>. QED
    BY <2>2, <2>5
<1>3. CASE UploadFiles(s, u, size)
  <2>. DEFINE h == [Call("putFile", u) EXCEPT !.word = "direct", !.number = size]
  <2>1. Usage(u) + size <= MaxStorage /\ ToStore(s, "upload", h)
    BY <1>3 DEF UploadFiles
  <2>2. /\ HandlerTyped(h) /\ h.user = u /\ h.number = size /\ ~h.flag
    <3>. DEFINE g == Call("putFile", u)
                f == [g EXCEPT !.word = "direct"]
                e == [f EXCEPT !.number = size]
    <3>1. HandlerTyped(g) /\ g.user = u /\ ~g.flag
      <4>1. u \in Users \cup {NoUser}
        OBVIOUS
      <4>. QED
        BY <4>1, CallTyped
    <3>2. h = e
      OBVIOUS
    <3>. HIDE DEF g
    <3>3. HandlerTyped(f) /\ f.user = u /\ ~f.flag
      BY <3>1 DEF HandlerTyped
    <3>. HIDE DEF f
    <3>4. HandlerTyped(e) /\ e.user = u /\ e.number = size /\ ~e.flag
      BY <1>1, <3>3 DEF HandlerTyped
    <3>. HIDE DEF e, h
    <3>. QED
      BY <3>2, <3>4
  <2>3. SumOf(SizeOf, CountedOf(u)) + size <= MaxStorage
    BY <2>1, UsageSum DEF FilesInv, FilesTyped
  <2>. HIDE DEF h
  <2>. QED
    BY <2>1, <2>2, <2>3, ToStoreKeeps
<1>4. ASSUME NEW thumb \in BOOLEAN, Attach(s, u, size, thumb)
      PROVE  SocialInv' /\ Touches(FilesPcs) /\ FilesInv'
  <2>1. ToStore(s, "attach", With("chat", thumb))
    BY <1>4 DEF Attach
  <2>. HIDE DEF With
  <2>. QED
    BY <1>2, <2>1, ToStoreKeeps
<1>. QED
  BY <1>3, <1>4

LEMMA ForwardKeeps ==
  ASSUME SocialInv, FilesInv, NEW s \in Slots, NEW u \in Users, NEW m \in RecordIds,
         Forward(s, u, m)
  PROVE  SocialInv' /\ Touches(FilesPcs) /\ FilesInv'
<1>. DEFINE key == record[m].url
            size == record[m].fileSize
            thumb == record[m].thumb
            g == Call("insertRecord", u)
            f == [g EXCEPT !.word = "chat"]
            e == [f EXCEPT !.id = key]
            d == [e EXCEPT !.number = size]
            h == [d EXCEPT !.flag = thumb]
<1>0. /\ Free(s, "forward") /\ HereWithFile(m) /\ Begin(s, h)
      /\ record' = record /\ records' = records /\ disk' = disk /\ refused' = refused
      /\ keys' = keys
  BY DEF Forward, filesVars
<1>1. /\ key \in Nat /\ key \in 1..keys /\ size \in Nat /\ size \in Sizes \cup {0}
      /\ thumb \in BOOLEAN /\ Keyed(key, thumb) /\ record[m].here
  <2>1. \A x \in Sizes \cup {0} : x \in Nat
    BY FilesAssumption
  <2>. QED
    BY <1>0, <2>1, FilesNumbers DEF FilesInv, FilesTyped, Records, HereWithFile
<1>2. HandlerTyped(g) /\ g.user = u /\ g.pc = "insertRecord"
  <2>1. u \in Users \cup {NoUser}
    OBVIOUS
  <2>. QED
    BY <2>1, CallTyped
<1>. HIDE DEF g
<1>3. HandlerTyped(f) /\ f.user = u /\ f.pc = "insertRecord" /\ f.word = "chat"
  BY <1>2 DEF HandlerTyped
<1>. HIDE DEF f, key
<1>4. HandlerTyped(e) /\ e.user = u /\ e.pc = "insertRecord" /\ e.word = "chat" /\ e.id = key
  BY <1>1, <1>3 DEF HandlerTyped
<1>. HIDE DEF e, size
<1>5. /\ HandlerTyped(d) /\ d.user = u /\ d.pc = "insertRecord" /\ d.word = "chat" /\ d.id = key
      /\ d.number = size
  BY <1>1, <1>4 DEF HandlerTyped
<1>. HIDE DEF d, thumb
<1>6. /\ HandlerTyped(h) /\ h.user = u /\ h.pc = "insertRecord" /\ h.word = "chat" /\ h.id = key
      /\ h.number = size /\ h.flag = thumb
  BY <1>1, <1>5 DEF HandlerTyped
<1>. HIDE DEF h
<1>7. SocialInv' /\ Touches(FilesPcs) /\ Begun(s, h)
  <2>1. h.pc \in FilesPcs
    BY <1>6 DEF FilesPcs
  <2>. QED
    BY <1>0, <1>6, <2>1, BeginStep
<1>8. /\ req[s].pc = "idle" /\ req'[s] = h /\ (\A t \in Slots \ {s} : req'[t] = req[t]) /\ Goes
      /\ ~overlapped' => \A t \in Slots : req[t].pc = "idle"
  BY <1>7 DEF Begun
<1>9. FilesTyped' /\ ToldRight'
  BY <1>0 DEF FilesInv, FilesTyped, Keyed, ToldRight
<1>10. ASSUME NEW t \in Slots PROVE FilesHandler(t)'
  <2>1. CASE t = s
    BY <1>0, <1>1, <1>6, <1>8, <2>1 DEF FilesHandler, Storing, Keyed
  <2>2. CASE t # s
    <3>1. keys \in Nat /\ keys' \in Nat /\ keys <= keys'
      BY <1>0, FilesNumbers
    <3>. QED
      BY <1>8, <2>2, <3>1, FilesOthers
  <2>. QED
    BY <2>1, <2>2
<1>11. \A t \in Slots \ {s} : /\ Storing(t)' <=> Storing(t)
                              /\ \A k : Pending(t, k)' <=> Pending(t, k)
  BY <1>8 DEF Storing, Pending
<1>12. Storing(s)' /\ \A k : ~Pending(s, k)'
  BY <1>6, <1>8 DEF Storing, Pending
<1>13. NewKeys'
  <2>1. \A t \in Slots : ~Pending(t, key)
    BY <1>1 DEF FilesInv, NewKeys, key
  <2>2. ASSUME NEW t \in Slots, NEW n \in RecordIds, record'[n].here
        PROVE  ~Pending(t, record[n].url)'
    BY <1>0, <1>11, <1>12, <2>2 DEF FilesInv, NewKeys
  <2>3. ASSUME NEW t \in Slots, NEW r \in Slots \ {t}, Storing(r)'
        PROVE  ~Pending(t, req[r].id)'
    <3>1. CASE t = s
      BY <1>12, <3>1
    <3>2. CASE r = s
      <4>1. req'[r].id = key
        BY <1>6, <1>8, <3>2
      <4>. QED
        BY <1>11, <2>1, <3>2, <4>1
    <3>3. CASE t # s /\ r # s
      BY <1>8, <1>11, <2>3, <3>3 DEF FilesInv, NewKeys
    <3>. QED
      BY <3>1, <3>2, <3>3
  <2>. QED
    BY <2>2, <2>3 DEF NewKeys
<1>14. Separate'
  <2>1. ASSUME NEW k PROVE (FirstKey(k)' => FirstKey(k)) /\ (SecondKey(k)' => SecondKey(k))
    BY <1>0, <1>1, <1>6, <1>8, <1>11 DEF FirstKey, SecondKey, key, thumb
  <2>. QED
    BY <1>0, <2>1 DEF FilesInv, Separate
<1>15. Within'
  <2>1. \A t \in Slots : ~overlapped' => ~(Storing(t)' /\ req'[t].word = "direct")
    BY <1>6, <1>8, <1>11 DEF Storing
  <2>. QED
    BY <1>0, <1>8, <1>9, <2>1, SameShrunk, NoneUploads DEF Goes
<1>16. Kept'
  <2>. SUFFICES ASSUME InOrder'
                PROVE  (\A t \in Slots : FilesAlone(t)') /\ OfSomeone' /\ HasFiles' /\ DirectHas'
                         /\ DirectApart'
    BY DEF Kept
  <2>1. /\ InOrder /\ \A t \in Slots : req[t].pc = "idle"
    BY <1>8 DEF InOrder, Goes
  <2>2. \A t \in Slots \ {s} : req'[t].pc = "idle"
    BY <1>8, <2>1
  <2>3. OfSomeone /\ HasFiles /\ DirectHas /\ DirectApart
    BY <2>1 DEF FilesInv, Kept
  <2>4. (\A k : ~ \E t \in Slots : Put(t, k)) /\ (\A n : ~Deleting(n))
    BY <2>1, NobodyNow
  <2>5. \A k : LostFile(k)' <=> LostFile(k)
    BY <1>0 DEF LostFile
  <2>6. FilesAlone(s)'
    <3>1. FilesOf(m) \subseteq disk \/ LostFile(key)
      BY <1>0, <2>3, <2>4 DEF HasFiles, key
    <3>2. \A k : Put(s, k)' => k \in FilesOf(m)
      BY <1>6, <1>8 DEF Put, FilesOf, key, thumb
    <3>3. req'[s].id = key
      BY <1>6, <1>8
    <3>4. (\A k \in 1..keys' : Put(s, k)' => k \in disk') \/ LostFile(req[s].id)'
      BY <1>0, <2>5, <3>1, <3>2, <3>3
    <3>. QED
      BY <1>6, <1>8, <3>4 DEF FilesAlone
  <2>7. OfSomeone' /\ HasFiles' /\ DirectHas' /\ DirectApart'
    BY <1>0, <2>3, <2>4, <2>5 DEF OfSomeone, HasFiles, DirectHas, DirectApart, FilesOf, HereWithFile
  <2>. QED
    BY <2>2, <2>6, <2>7, OnlyMember
<1>. QED
  BY <1>7, <1>9, <1>10, <1>13, <1>14, <1>15, <1>16 DEF FilesInv

\* One more file of a handler on disk.
LEMMA PutKeeps ==
  ASSUME SocialInv, FilesInv, NEW s \in Slots, PutFile(s) \/ PutThumb(s)
  PROVE  SocialInv' /\ Touches(FilesPcs) /\ FilesInv'
<1>. DEFINE key == IF req[s].pc = "putFile" THEN req[s].id ELSE req[s].id + 1
            next == IF req[s].pc = "putFile" /\ req[s].flag THEN "putThumb" ELSE "insertRecord"
            h == Moved(s, next)
<1>0. /\ req[s].pc \in {"putFile", "putThumb"} /\ Goto(s, next) /\ disk' = disk \cup {key}
      /\ req[s].pc = "putThumb" => req[s].flag
      /\ record' = record /\ records' = records /\ refused' = refused /\ keys' = keys
      /\ req[s].flag \in BOOLEAN
  BY DEF PutFile, PutThumb, At, FilesInv, FilesHandler, SocialInv, HandlerTyped
<1>1. /\ next \in {"putThumb", "insertRecord"} /\ (next = "putThumb" => req[s].flag)
      /\ req[s].pc = "putThumb" => next = "insertRecord"
      /\ req[s].pc = "putFile" /\ req[s].flag => next = "putThumb"
  BY <1>0
<1>2. /\ Storing(s) /\ Keyed(req[s].id, req[s].flag) /\ req[s].user \in Users
      /\ req[s].number \in Sizes \cup {0} /\ (req[s].word = "direct" => ~req[s].flag)
  BY <1>0 DEF FilesInv, FilesHandler, Storing
<1>3. key \in 1..keys /\ Pending(s, key)
  BY <1>0, <1>2 DEF Keyed, Pending
<1>. HIDE DEF next
<1>4. /\ SocialInv' /\ Touches(FilesPcs) /\ Resumed(s, h)
      /\ h.pc = next /\ h.user = req[s].user /\ h.id = req[s].id /\ h.word = req[s].word
      /\ h.number = req[s].number /\ h.flag = req[s].flag
  <2>1. {req[s].pc, next} \subseteq FilesPcs /\ req[s].pc # "idle"
    BY <1>0, <1>1 DEF FilesPcs
  <2>. QED
    BY <1>0, <2>1, GotoStep
<1>. HIDE DEF h
<1>5. /\ req'[s] = h /\ (\A t \in Slots \ {s} : req'[t] = req[t]) /\ Goes
      /\ overlapped' = overlapped
      /\ ~overlapped => \A t \in Slots \ {s} : req[t].pc = "idle"
  BY <1>4 DEF Resumed
<1>6. FilesTyped'
  BY <1>0, <1>3 DEF FilesInv, FilesTyped, Keyed
<1>7. ASSUME NEW t \in Slots PROVE FilesHandler(t)'
  <2>1. CASE t = s
    BY <1>0, <1>1, <1>2, <1>4, <1>5, <2>1 DEF FilesHandler, Storing, Keyed
  <2>2. CASE t # s
    <3>1. keys \in Nat /\ keys' \in Nat /\ keys <= keys'
      BY <1>0, FilesNumbers
    <3>. QED
      BY <1>5, <2>2, <3>1, FilesOthers
  <2>. QED
    BY <2>1, <2>2
<1>8. Shrunk
  BY <1>0, SameShrunk
<1>9. NewKeys' /\ Separate'
  <2>1. \A k : Pending(s, k)' => Pending(s, k)
    BY <1>0, <1>1, <1>4, <1>5 DEF Pending
  <2>. QED
    BY <1>0, <1>2, <1>4, <1>5, <1>8, <2>1, KeysStay
<1>10. ToldRight'
  BY <1>0, <1>3 DEF FilesInv, ToldRight, NewKeys
<1>11. Within'
  <2>1. ASSUME ~overlapped', NEW t \in Slots, Storing(t)', req'[t].word = "direct"
        PROVE  SumOf(SizeOf, CountedOf(req[t].user))' + req'[t].number <= MaxStorage
    <3>1. t = s
      BY <1>5, <2>1 DEF Storing
    <3>2. req'[t].user = req[s].user /\ req'[t].number = req[s].number /\ req[s].word = "direct"
      BY <1>4, <1>5, <2>1, <3>1
    <3>3. SizeOf' = SizeOf /\ CountedOf(req[t].user)' = CountedOf(req[s].user)
      BY <1>0, <3>2 DEF SizeOf, CountedOf, Counts, HereWithFile
    <3>4. SumOf(SizeOf, CountedOf(req[t].user))' = SumOf(SizeOf, CountedOf(req[s].user))
      BY <3>3
    <3>. QED
      BY <1>2, <1>5, <2>1, <3>2, <3>4 DEF FilesInv, Within
  <2>2. ~overlapped' => \A u \in Users : SumOf(SizeOf, DirectOf(u))' <= MaxStorage
    BY <1>5, <1>6, <1>8, WithinShrunk
  <2>. QED
    BY <2>1, <2>2 DEF Within
<1>12. Kept'
  <2>. SUFFICES ASSUME InOrder'
                PROVE  (\A t \in Slots : FilesAlone(t)') /\ OfSomeone' /\ HasFiles' /\ DirectHas'
                         /\ DirectApart'
    BY DEF Kept
  <2>1. /\ InOrder /\ \A t \in Slots \ {s} : req[t].pc = "idle"
    BY <1>5 DEF InOrder, Goes
  <2>2. \A t \in Slots \ {s} : req'[t].pc = "idle"
    BY <1>5, <2>1
  <2>3. FilesAlone(s) /\ OfSomeone /\ HasFiles /\ DirectHas /\ DirectApart
    BY <2>1 DEF FilesInv, Kept
  <2>4. /\ \A k : (\E t \in Slots : Put(t, k)) <=> Put(s, k)
        /\ \A n : ~Deleting(n)
    BY <1>0, <2>1, OnlyMemberNow
  <2>5. /\ \A t \in Slots \ {s} : FilesAlone(t)'
        /\ \A k : (\E t \in Slots : Put(t, k)') <=> Put(s, k)'
    BY <2>2, OnlyMember
  <2>6. \A k : LostFile(k)' <=> LostFile(k)
    BY <1>0 DEF LostFile
  <2>7. \A k : Put(s, k)' <=> Put(s, k) \/ k = key
    BY <1>0, <1>1, <1>4, <1>5 DEF Put, key, next
  <2>8. FilesAlone(s)'
    <3>1. \A k : Put(s, k) => k \in disk
      BY <1>0, <2>3 DEF Put, FilesAlone
    <3>2. \A k : Put(s, k)' => k \in disk'
      BY <1>0, <2>7, <3>1
    <3>3. req'[s].pc = "putThumb" => req'[s].id \in disk'
      BY <1>0, <1>1, <1>4, <1>5
    <3>4. Storing(s) /\ req'[s].word = req[s].word /\ req'[s].id = req[s].id
      BY <1>2, <1>4, <1>5
    <3>5. req'[s].pc \in {"putThumb", "insertRecord"}
      BY <1>1, <1>4, <1>5
    <3>. QED
      BY <1>0, <2>3, <3>2, <3>3, <3>4, <3>5 DEF FilesAlone
  <2>9. OfSomeone'
    BY <1>0, <2>3, <2>4, <2>5, <2>7 DEF OfSomeone, FilesOf
  <2>10. HasFiles' /\ DirectHas' /\ DirectApart'
    BY <1>0, <2>3, <2>4, <2>6 DEF HasFiles, DirectHas, DirectApart, FilesOf, HereWithFile
  <2>. QED
    BY <2>5, <2>8, <2>9, <2>10
<1>. QED
  BY <1>4, <1>6, <1>7, <1>9, <1>10, <1>11, <1>12 DEF FilesInv

\* A direct upload more.
LEMMA DirectMore ==
  ASSUME record \in [RecordIds -> Records], record' \in [RecordIds -> Records], NEW u,
         NEW e \in RecordIds, e \notin DirectOf(u), DirectOf(u)' = DirectOf(u) \cup {e},
         \A m \in RecordIds \ {e} : record'[m] = record[m]
  PROVE  SumOf(SizeOf, DirectOf(u))' = SumOf(SizeOf, DirectOf(u)) + record'[e].fileSize
<1>. DEFINE f == SizeOf
            g == [m \in RecordIds |-> record'[m].fileSize]
            S == DirectOf(u)
            R == DirectOf(u)'
            size == record'[e].fileSize
<1>1. SumOf(SizeOf, DirectOf(u))' = SumOf(g, R)
  BY DEF SizeOf
<1>2. \A m \in RecordIds : g[m] = record'[m].fileSize /\ g[m] \in Int
  <2>1. \A x \in Sizes \cup {0} : x \in Int
    BY FilesAssumption
  <2>2. \A m \in RecordIds : record'[m].fileSize \in Sizes \cup {0}
    BY DEF Records
  <2>. QED
    BY <2>1, <2>2
<1>3. \A m \in RecordIds : f[m] = record[m].fileSize /\ f[m] \in Int
  BY SizesTyped
<1>4. S \subseteq RecordIds /\ IsFiniteSet(S)
  BY RecordsFinite DEF DirectOf
<1>5. R = S \cup {e} /\ e \notin S
  OBVIOUS
<1>6. \A m \in S : g[m] = f[m] /\ f[m] \in Int
  BY <1>2, <1>3, <1>4, <1>5
<1>7. \A m \in S \cup {e} : g[m] \in Int
  BY <1>2, <1>4
<1>8. g[e] = size
  BY <1>2
<1>. HIDE DEF f, g, S, R, size
<1>9. SumOf(g, S) = SumOf(f, S)
  BY <1>4, <1>6, SumSame
<1>10. SumOf(g, S \cup {e}) = SumOf(g, S) + g[e]
  BY <1>4, <1>5, <1>7, SumMore
<1>. QED
  BY <1>1, <1>5, <1>8, <1>9, <1>10 DEF f, S, size

LEMMA RefuseKeeps ==
  ASSUME SocialInv, FilesInv, NEW s \in Slots, req[s].pc = "insertRecord", Return(s),
         refused' = refused \cup {req[s].id} \cup (IF req[s].flag THEN {req[s].id + 1} ELSE {}),
         record' = record, records' = records, disk' = disk, keys' = keys
  PROVE  SocialInv' /\ Touches(FilesPcs) /\ FilesInv'
<1>1. SocialInv' /\ Touches(FilesPcs) /\ Resumed(s, Idle)
  BY ReturnStep DEF FilesPcs
<1>2. /\ req'[s].pc = "idle" /\ (\A t \in Slots \ {s} : req'[t] = req[t]) /\ Goes
      /\ overlapped' = overlapped
      /\ ~overlapped => \A t \in Slots \ {s} : req[t].pc = "idle"
  BY <1>1, IdleTyped DEF Resumed
<1>3. /\ Keyed(req[s].id, req[s].flag) /\ \A k : Put(s, k) <=> k \in refused' \ refused \/ Put(s, k)
      /\ \A k : Put(s, k) => k \in refused'
  BY DEF FilesInv, FilesHandler, Storing, Put
<1>4. FilesTyped' /\ ToldRight'
  BY <1>3 DEF FilesInv, FilesTyped, Keyed, ToldRight
<1>5. ASSUME NEW t \in Slots PROVE FilesHandler(t)'
  <2>1. CASE t = s
    BY <1>2, <2>1 DEF FilesHandler, Storing
  <2>2. CASE t # s
    <3>1. keys \in Nat /\ keys' \in Nat /\ keys <= keys'
      BY FilesNumbers
    <3>. QED
      BY <1>2, <2>2, <3>1, FilesOthers
  <2>. QED
    BY <2>1, <2>2
<1>6. Shrunk
  BY SameShrunk
<1>7. ~Storing(s)' /\ \A k : ~Pending(s, k)'
  BY <1>2 DEF Storing, Pending
<1>8. NewKeys' /\ Separate'
  BY <1>2, <1>6, <1>7, KeysStay
<1>9. Within'
  <2>1. \A t \in Slots : ~overlapped' => ~(Storing(t)' /\ req'[t].word = "direct")
    BY <1>2 DEF Storing
  <2>. QED
    BY <1>2, <1>4, <1>6, <2>1, NoneUploads
<1>10. Kept'
  <2>. SUFFICES ASSUME InOrder'
                PROVE  (\A t \in Slots : FilesAlone(t)') /\ OfSomeone' /\ HasFiles' /\ DirectHas'
                         /\ DirectApart'
    BY DEF Kept
  <2>1. /\ InOrder /\ \A t \in Slots \ {s} : req[t].pc = "idle"
    BY <1>2 DEF InOrder, Goes
  <2>2. \A t \in Slots : req'[t].pc = "idle"
    BY <1>2, <2>1
  <2>3. OfSomeone /\ HasFiles /\ DirectHas /\ DirectApart
    BY <2>1 DEF FilesInv, Kept
  <2>4. /\ \A k : (\E t \in Slots : Put(t, k)) <=> Put(s, k)
        /\ \A n : ~Deleting(n)
    BY <2>1, OnlyMemberNow
  <2>5. \A t \in Slots : FilesAlone(t)'
    BY <2>2 DEF FilesAlone, Storing
  <2>6. \A k : LostFile(k)' <=> LostFile(k)
    BY DEF LostFile
  <2>7. OfSomeone'
    BY <1>3, <2>3, <2>4 DEF OfSomeone, FilesOf
  <2>8. HasFiles' /\ DirectHas' /\ DirectApart'
    BY <2>3, <2>4, <2>6 DEF HasFiles, DirectHas, DirectApart, FilesOf, HereWithFile
  <2>. QED
    BY <2>5, <2>7, <2>8
<1>. QED
  BY <1>1, <1>4, <1>5, <1>8, <1>9, <1>10 DEF FilesInv

LEMMA MessageKeeps ==
  ASSUME SocialInv, FilesInv, NEW s \in Slots, NEW made, NEW e, e = records + 1,
         req[s].pc = "insertRecord", records < MaxRecords, Return(s),
         made = [NoRecord EXCEPT !.here = TRUE, !.sId = req[s].user,
                   !.direct = (req[s].word = "direct"), !.url = req[s].id, !.thumb = req[s].flag,
                   !.fileSize = req[s].number, !.attached = TRUE],
         records' = e, record' = [record EXCEPT ![e] = made],
         refused' = refused, disk' = disk, keys' = keys
  PROVE  SocialInv' /\ Touches(FilesPcs) /\ FilesInv'
<1>1. SocialInv' /\ Touches(FilesPcs) /\ Resumed(s, Idle)
  BY ReturnStep DEF FilesPcs
<1>2. /\ req'[s].pc = "idle" /\ (\A t \in Slots \ {s} : req'[t] = req[t]) /\ Goes
      /\ overlapped' = overlapped
      /\ ~overlapped => \A t \in Slots \ {s} : req[t].pc = "idle"
  BY <1>1, IdleTyped DEF Resumed
<1>3. /\ Storing(s) /\ Keyed(req[s].id, req[s].flag) /\ req[s].user \in Users
      /\ req[s].number \in Sizes \cup {0} /\ (req[s].word = "direct" => ~req[s].flag)
      /\ req[s].flag \in BOOLEAN /\ req[s].id \in 0..MaxFiles /\ req[s].id <= keys
  <2>1. /\ Storing(s) /\ Keyed(req[s].id, req[s].flag) /\ req[s].user \in Users
        /\ req[s].number \in Sizes \cup {0} /\ (req[s].word = "direct" => ~req[s].flag)
    BY DEF FilesInv, FilesHandler, Storing
  <2>2. req[s].id \in 0..MaxFiles /\ req[s].id <= keys
    BY <2>1, FilesNumbers DEF Keyed
  <2>. QED
    BY <2>1, <2>2 DEF SocialInv, HandlerTyped
<1>4. /\ made \in Records /\ made.here /\ made.attached /\ ~made.dltAt
      /\ made.sId = req[s].user /\ made.url = req[s].id /\ made.thumb = req[s].flag
      /\ made.fileSize = req[s].number /\ (made.direct <=> req[s].word = "direct")
  BY <1>3 DEF NoRecord, Records
<1>5. /\ e \in RecordIds /\ ~(e <= records) /\ e \in Nat /\ e \in 0..MaxRecords
      /\ \A m \in RecordIds : m <= records => m <= e
  BY FilesNumbers DEF RecordIds
<1>6. ~record[e].here /\ ~record[e].direct
  BY <1>5 DEF FilesInv, FilesTyped
<1>7. /\ record' \in [RecordIds -> Records] /\ record'[e] = made
      /\ \A m \in RecordIds \ {e} : record'[m] = record[m]
      /\ record \in [RecordIds -> Records]
  BY <1>4, <1>5 DEF FilesInv, FilesTyped
<1>8. FilesTyped'
  <2>1. ASSUME NEW m \in RecordIds
        PROVE  /\ record'[m].here \/ record'[m].direct => m <= records'
               /\ record'[m].direct => ~record'[m].thumb
               /\ record'[m].url <= keys'
               /\ record'[m].here => Keyed(record[m].url, record[m].thumb)'
    <3>1. CASE m = e
      <4>1. e <= records'
        BY <1>5
      <4>. QED
        BY <1>3, <1>4, <1>7, <3>1, <4>1 DEF Keyed
    <3>2. CASE m # e
      <4>1. m <= records => m <= records'
        BY <1>5
      <4>. QED
        BY <1>7, <3>2, <4>1 DEF FilesInv, FilesTyped, Keyed
    <3>. QED
      BY <3>1, <3>2
  <2>2. records' \in 0..MaxRecords
    BY <1>5
  <2>. QED
    BY <1>7, <2>1, <2>2 DEF FilesInv, FilesTyped
<1>9. ASSUME NEW t \in Slots PROVE FilesHandler(t)'
  <2>1. CASE t = s
    BY <1>2, <2>1 DEF FilesHandler, Storing
  <2>2. CASE t # s
    <3>1. keys \in Nat /\ keys' \in Nat /\ keys <= keys'
      BY FilesNumbers
    <3>. QED
      BY <1>2, <2>2, <3>1, FilesOthers
  <2>. QED
    BY <2>1, <2>2
<1>10. /\ ~Storing(s)' /\ \A k : ~Pending(s, k)'
       /\ \A t \in Slots \ {s} : /\ Storing(t)' <=> Storing(t)
                                 /\ \A k : Pending(t, k)' <=> Pending(t, k)
  BY <1>2 DEF Storing, Pending
<1>11. NewKeys'
  <2>1. ASSUME NEW t \in Slots, NEW m \in RecordIds, record'[m].here
        PROVE  ~Pending(t, record[m].url)'
    <3>1. CASE t = s
      BY <1>10, <3>1
    <3>2. CASE t # s /\ m = e
      <4>1. record'[m].url = req[s].id
        BY <1>4, <1>7, <3>2
      <4>. QED
        BY <1>3, <1>10, <3>2, <4>1 DEF FilesInv, NewKeys
    <3>3. CASE t # s /\ m # e
      <4>1. record'[m] = record[m]
        BY <1>7, <3>3
      <4>. QED
        BY <1>10, <2>1, <3>3, <4>1 DEF FilesInv, NewKeys
    <3>. QED
      BY <3>1, <3>2, <3>3
  <2>2. ASSUME NEW t \in Slots, NEW r \in Slots \ {t}, Storing(r)'
        PROVE  ~Pending(t, req[r].id)'
    <3>1. r # s /\ Storing(r) /\ req'[r] = req[r]
      BY <1>2, <1>10, <2>2
    <3>. QED
      BY <1>10, <3>1 DEF FilesInv, NewKeys
  <2>. QED
    BY <2>1, <2>2 DEF NewKeys
<1>12. Separate'
  <2>1. ASSUME NEW k PROVE (FirstKey(k)' => FirstKey(k)) /\ (SecondKey(k)' => SecondKey(k))
    <3>1. ASSUME FirstKey(k)' PROVE FirstKey(k)
      <4>1. CASE \E m \in RecordIds : record'[m].here /\ k = record'[m].url
        BY <1>3, <1>4, <1>7, <4>1 DEF FirstKey
      <4>2. CASE \E t \in Slots : Storing(t)' /\ k = req'[t].id
        BY <1>2, <1>10, <4>2 DEF FirstKey
      <4>. QED
        BY <3>1, <4>1, <4>2 DEF FirstKey
    <3>2. ASSUME SecondKey(k)' PROVE SecondKey(k)
      <4>1. CASE \E m \in RecordIds :
                   record'[m].here /\ record'[m].thumb /\ k = record'[m].url + 1
        BY <1>3, <1>4, <1>7, <4>1 DEF SecondKey
      <4>2. CASE \E t \in Slots : Storing(t)' /\ req'[t].flag /\ k = req'[t].id + 1
        BY <1>2, <1>10, <4>2 DEF SecondKey
      <4>. QED
        BY <3>2, <4>1, <4>2 DEF SecondKey
    <3>. QED
      BY <3>1, <3>2
  <2>. QED
    BY <2>1 DEF FilesInv, Separate
<1>13. ToldRight'
  BY <1>4, <1>7 DEF FilesInv, ToldRight
<1>14. ASSUME ~overlapped', NEW u \in Users
       PROVE  SumOf(SizeOf, DirectOf(u))' <= MaxStorage
  <2>1. /\ SumOf(SizeOf, DirectOf(u)) <= MaxStorage /\ SumOf(SizeOf, DirectOf(u)) \in Int
        /\ SumOf(SizeOf, DirectOf(u)) <= SumOf(SizeOf, CountedOf(u))
        /\ SumOf(SizeOf, CountedOf(u)) \in Int
    BY <1>2, <1>7, <1>14, DirectSum DEF FilesInv, Within
  <2>2. CASE made.direct /\ u = req[s].user
    <3>1. DirectOf(u)' = DirectOf(u) \cup {e} /\ e \notin DirectOf(u)
      <4>1. \A m \in RecordIds : record'[m].direct /\ Counts(m, u)' <=>
                                  (record[m].direct /\ Counts(m, u)) \/ m = e
        BY <1>4, <1>6, <1>7, <2>2 DEF Counts, HereWithFile
      <4>. QED
        BY <1>5, <1>6, <4>1 DEF DirectOf
    <3>2. SumOf(SizeOf, DirectOf(u))' = SumOf(SizeOf, DirectOf(u)) + record'[e].fileSize
      BY <1>5, <1>7, <3>1, DirectMore
    <3>3. record'[e].fileSize = req[s].number /\ req[s].number \in Int
      <4>1. \A x \in Sizes \cup {0} : x \in Int
        BY FilesAssumption
      <4>. QED
        BY <1>3, <1>4, <1>7, <4>1
    <3>4. SumOf(SizeOf, CountedOf(u)) + req[s].number <= MaxStorage
      BY <1>2, <1>3, <1>4, <1>14, <2>2 DEF FilesInv, Within
    <3>. HIDE DEF FilesInv
    <3>. QED
      BY <2>1, <3>2, <3>3, <3>4, FilesAssumption
  <2>3. CASE ~(made.direct /\ u = req[s].user)
    <3>1. \A m \in RecordIds : record'[m].direct /\ Counts(m, u)' =>
             record[m].direct /\ Counts(m, u) /\ record'[m].fileSize = record[m].fileSize
      BY <1>4, <1>7, <2>3 DEF Counts, HereWithFile
    <3>2. SumOf(SizeOf, DirectOf(u))' <= SumOf(SizeOf, DirectOf(u))
      BY <1>7, <3>1, DirectShrinks
    <3>3. SumOf(SizeOf, DirectOf(u))' \in Int
      <4>1. DirectOf(u)' \subseteq DirectOf(u) \cup {e}
        BY <1>7 DEF DirectOf, Counts, HereWithFile
      <4>. DEFINE g == [m \in RecordIds |-> record'[m].fileSize]
                  R == {m \in RecordIds : record'[m].direct /\ Counts(m, u)'}
      <4>2. SumOf(SizeOf, DirectOf(u))' = SumOf(g, R)
        BY DEF SizeOf, DirectOf
      <4>3. \A m \in R : g[m] \in Int
        <5>1. \A x \in Sizes \cup {0} : x \in Int
          BY FilesAssumption
        <5>2. \A m \in RecordIds : record'[m].fileSize \in Sizes \cup {0}
          BY <1>7 DEF Records
        <5>. QED
          BY <5>1, <5>2
      <4>4. IsFiniteSet(R)
        BY RecordsFinite
      <4>. HIDE DEF g, R
      <4>. QED
        BY <4>2, <4>3, <4>4, SumType
    <3>. QED
      BY <2>1, <3>2, <3>3, FilesAssumption
  <2>. QED
    BY <2>2, <2>3
<1>15. Within'
  <2>1. \A t \in Slots : ~overlapped' => ~Storing(t)'
    BY <1>2, <1>10 DEF Storing
  <2>. QED
    BY <1>14, <2>1 DEF Within
<1>16. Kept'
  <2>. SUFFICES ASSUME InOrder'
                PROVE  (\A t \in Slots : FilesAlone(t)') /\ OfSomeone' /\ HasFiles' /\ DirectHas'
                         /\ DirectApart'
    BY DEF Kept
  <2>1. /\ InOrder /\ \A t \in Slots \ {s} : req[t].pc = "idle"
    BY <1>2 DEF InOrder, Goes
  <2>2. \A t \in Slots : req'[t].pc = "idle"
    BY <1>2, <2>1
  <2>3. FilesAlone(s) /\ OfSomeone /\ HasFiles /\ DirectHas /\ DirectApart
    BY <2>1 DEF FilesInv, Kept
  <2>4. /\ \A k : (\E t \in Slots : Put(t, k)) <=> Put(s, k)
        /\ \A n : ~Deleting(n)
    BY <2>1, OnlyMemberNow
  <2>5. \A t \in Slots : FilesAlone(t)'
    BY <2>2 DEF FilesAlone, Storing
  <2>6. \A k : LostFile(k)' <=> LostFile(k)
    BY <1>4, <1>6, <1>7 DEF LostFile
  <2>7. \A k : Put(s, k) <=> k \in FilesOf(e)'
    BY <1>4, <1>5, <1>7 DEF Put, FilesOf
  <2>8. \A m \in RecordIds \ {e} : FilesOf(m)' = FilesOf(m)
    BY <1>7 DEF FilesOf
  <2>9. OfSomeone'
    <3>1. ASSUME NEW k \in disk, NEW m \in RecordIds, record[m].here, k \in FilesOf(m)
          PROVE  \E n \in RecordIds : record'[n].here /\ k \in FilesOf(n)'
      BY <1>6, <1>7, <2>8, <3>1
    <3>2. record'[e].here
      BY <1>4, <1>7
    <3>. QED
      BY <1>5, <2>3, <2>4, <2>7, <3>1, <3>2 DEF OfSomeone
  <2>10. FilesOf(e)' \subseteq disk \/ LostFile(record'[e].url)
    <3>1. \A k \in FilesOf(e)' : k \in 1..keys
      BY <1>3, <1>4, <1>5, <1>7 DEF FilesOf, Keyed
    <3>2. record'[e].url = req[s].id
      BY <1>4, <1>7
    <3>. QED
      BY <2>3, <2>7, <3>1, <3>2 DEF FilesAlone
  <2>11. HasFiles'
    <3>1. ASSUME NEW m \in RecordIds, HereWithFile(m)'
          PROVE  FilesOf(m)' \subseteq disk' \/ LostFile(record[m].url)'
      <4>1. CASE m = e
        BY <2>6, <2>10, <4>1
      <4>2. CASE m # e
        <5>1. HereWithFile(m) /\ record'[m].url = record[m].url /\ FilesOf(m)' = FilesOf(m)
          BY <1>7, <2>8, <3>1, <4>2 DEF HereWithFile
        <5>. QED
          BY <2>3, <2>4, <2>6, <5>1 DEF HasFiles
      <4>. QED
        BY <4>1, <4>2
    <3>. QED
      BY <3>1 DEF HasFiles
  <2>12. made.direct => (\A m \in RecordIds : record[m].direct => record[m].url # made.url)
                          /\ ~LostFile(made.url) /\ made.url \in disk
    <3>1. made.direct => \A m \in RecordIds : record[m].direct => record[m].url # made.url
      BY <1>3, <1>4, <2>3 DEF FilesAlone
    <3>2. made.direct => ~LostFile(made.url)
      BY <3>1 DEF LostFile
    <3>3. made.url \in FilesOf(e)' /\ record'[e].url = made.url
      BY <1>7 DEF FilesOf
    <3>. QED
      BY <2>10, <3>1, <3>2, <3>3
  <2>13. DirectHas' /\ DirectApart'
    BY <1>7, <2>3, <2>4, <2>12 DEF DirectHas, DirectApart, HereWithFile
  <2>. QED
    BY <2>5, <2>9, <2>11, <2>13
<1>. QED
  BY <1>1, <1>8, <1>9, <1>11, <1>12, <1>13, <1>15, <1>16 DEF FilesInv

LEMMA InsertRecordKeeps ==
  ASSUME SocialInv, FilesInv, NEW s \in Slots, InsertRecord(s)
  PROVE  SocialInv' /\ Touches(FilesPcs) /\ FilesInv'
<1>. DEFINE made == [NoRecord EXCEPT !.here = TRUE, !.sId = req[s].user,
                       !.direct = (req[s].word = "direct"), !.url = req[s].id,
                       !.thumb = req[s].flag, !.fileSize = req[s].number, !.attached = TRUE]
            e == records + 1
<1>1. /\ req[s].pc = "insertRecord" /\ records < MaxRecords /\ Return(s)
      /\ disk' = disk /\ keys' = keys
      /\ \/ records' = e /\ record' = [record EXCEPT ![e] = made] /\ refused' = refused
         \/ /\ refused' = refused \cup {req[s].id}
                            \cup (IF req[s].flag THEN {req[s].id + 1} ELSE {})
            /\ record' = record /\ records' = records
  BY DEF InsertRecord, At
<1>2. CASE records' = e /\ record' = [record EXCEPT ![e] = made] /\ refused' = refused
  <2>1. \A m, n : /\ m = [NoRecord EXCEPT !.here = TRUE, !.sId = req[s].user,
                           !.direct = (req[s].word = "direct"), !.url = req[s].id,
                           !.thumb = req[s].flag, !.fileSize = req[s].number, !.attached = TRUE]
                  /\ n = records + 1 /\ records' = n /\ record' = [record EXCEPT ![n] = m]
                  => SocialInv' /\ Touches(FilesPcs) /\ FilesInv'
    BY <1>1, <1>2, MessageKeeps
  <2>2. made = made /\ e = records + 1
    OBVIOUS
  <2>. QED
    BY <1>2, <2>1, <2>2
<1>3. CASE /\ refused' = refused \cup {req[s].id}
                           \cup (IF req[s].flag THEN {req[s].id + 1} ELSE {})
           /\ record' = record /\ records' = records
  BY <1>1, <1>3, RefuseKeeps
<1>. QED
  BY <1>1, <1>2, <1>3

-----------------------------------------------------------------------------
(* Deletion and cleanup *)

\* A deletion that begins, or a cleanup.
LEMMA FilesBegins ==
  ASSUME SocialInv, FilesInv, NEW s \in Slots, NEW u \in Users,
         \/ \E m \in RecordIds : DeleteFile(s, u, m)
         \/ \E listed \in BOOLEAN : CleanupOrphanedFiles(s, u, listed)
  PROVE  SocialInv' /\ Touches(FilesPcs) /\ FilesInv'
<1>. DEFINE Right(h) ==
       \/ h.pc = "cleanNext" /\ h.seen \subseteq RecordIds
       \/ /\ h.pc = "unlinkFile" /\ h.id \in RecordIds
          /\ record[h.id].here /\ record[h.id].direct
          /\ h.number = IF record[h.id].attached THEN record[h.id].url ELSE 0
<1>1. /\ record' = record /\ records' = records /\ disk' = disk /\ refused' = refused
      /\ keys' = keys
  BY DEF DeleteFile, CleanupOrphanedFiles, filesVars
<1>2. PICK h, request : HandlerTyped(h) /\ Free(s, request) /\ Begin(s, h) /\ Right(h)
  <2>1. u \in Users \cup {NoUser}
    OBVIOUS
  <2>2. ASSUME NEW m \in RecordIds, DeleteFile(s, u, m)
        PROVE  \E h : HandlerTyped(h) /\ Free(s, "deleteFile") /\ Begin(s, h) /\ Right(h)
    <3>. DEFINE key == IF record[m].attached THEN record[m].url ELSE 0
                g == Call("unlinkFile", u)
                f == [g EXCEPT !.id = m]
                e == [f EXCEPT !.number = key]
    <3>1. /\ Free(s, "deleteFile") /\ record[m].here /\ record[m].direct /\ Begin(s, e)
      BY <2>2 DEF DeleteFile
    <3>2. key \in Nat /\ m \in Nat
      BY FilesNumbers
    <3>3. HandlerTyped(g) /\ g.pc = "unlinkFile"
      BY <2>1, CallTyped
    <3>. HIDE DEF g
    <3>4. HandlerTyped(f) /\ f.pc = "unlinkFile" /\ f.id = m
      BY <3>2, <3>3 DEF HandlerTyped
    <3>. HIDE DEF f, key
    <3>5. HandlerTyped(e) /\ e.pc = "unlinkFile" /\ e.id = m /\ e.number = key
      BY <3>2, <3>4 DEF HandlerTyped
    <3>. HIDE DEF e
    <3>6. Right(e)
      BY <3>1, <3>5 DEF key
    <3>. HIDE DEF Right
    <3>. QED
      BY <3>1, <3>5, <3>6
  <2>3. ASSUME NEW listed \in BOOLEAN, CleanupOrphanedFiles(s, u, listed)
        PROVE  \E h : HandlerTyped(h) /\ Free(s, "cleanup") /\ Begin(s, h) /\ Right(h)
    <3>. DEFINE found == {m \in RecordIds : /\ HereWithFile(m) /\ ~record[m].dltAt
                                            /\ \/ record[m].sId = u
                                               \/ listed /\ ~record[m].direct}
                g == Call("cleanNext", u)
                e == [g EXCEPT !.seen = found]
    <3>1. Free(s, "cleanup") /\ Begin(s, e)
      BY <2>3 DEF CleanupOrphanedFiles
    <3>2. found \subseteq RecordIds
      OBVIOUS
    <3>3. HandlerTyped(g) /\ g.pc = "cleanNext"
      BY <2>1, CallTyped
    <3>. HIDE DEF g, found
    <3>4. HandlerTyped(e) /\ e.pc = "cleanNext" /\ e.seen = found
      BY <3>3 DEF HandlerTyped
    <3>. HIDE DEF e
    <3>5. Right(e)
      BY <3>2, <3>4
    <3>. HIDE DEF Right
    <3>. QED
      BY <3>1, <3>4, <3>5
  <2>. HIDE DEF Right
  <2>. QED
    BY <2>2, <2>3
<1>3. SocialInv' /\ Touches(FilesPcs) /\ Begun(s, h)
  <2>1. h.pc \in FilesPcs
    BY <1>2 DEF FilesPcs
  <2>. QED
    BY <1>2, <2>1, BeginStep
<1>4. /\ req[s].pc = "idle" /\ req'[s] = h /\ (\A t \in Slots \ {s} : req'[t] = req[t]) /\ Goes
      /\ ~overlapped' => \A t \in Slots : req[t].pc = "idle"
  BY <1>3 DEF Begun
<1>5. FilesTyped' /\ ToldRight'
  BY <1>1 DEF FilesInv, FilesTyped, Keyed, ToldRight
<1>6. ASSUME NEW t \in Slots PROVE FilesHandler(t)'
  <2>1. CASE t = s
    BY <1>2, <1>4, <2>1 DEF FilesHandler, Storing
  <2>2. CASE t # s
    <3>1. keys \in Nat /\ keys' \in Nat /\ keys <= keys'
      BY <1>1, FilesNumbers
    <3>. QED
      BY <1>4, <2>2, <3>1, FilesOthers
  <2>. QED
    BY <2>1, <2>2
<1>7. Shrunk
  BY <1>1, SameShrunk
<1>8. ~Storing(s)' /\ \A k : ~Pending(s, k)' /\ ~Put(s, k)'
  BY <1>2, <1>4 DEF Storing, Pending, Put
<1>9. NewKeys' /\ Separate'
  BY <1>1, <1>4, <1>7, <1>8, KeysStay
<1>10. Within'
  <2>1. \A t \in Slots : ~overlapped' => ~(Storing(t)' /\ req'[t].word = "direct")
    BY <1>4, <1>8 DEF Storing
  <2>. QED
    BY <1>4, <1>5, <1>7, <2>1, NoneUploads DEF Goes
<1>11. Kept'
  <2>. SUFFICES ASSUME InOrder'
                PROVE  (\A t \in Slots : FilesAlone(t)') /\ OfSomeone' /\ HasFiles' /\ DirectHas'
                         /\ DirectApart'
    BY DEF Kept
  <2>1. /\ InOrder /\ \A t \in Slots : req[t].pc = "idle"
    BY <1>4 DEF InOrder, Goes
  <2>2. \A t \in Slots \ {s} : req'[t].pc = "idle"
    BY <1>4, <2>1
  <2>3. OfSomeone /\ HasFiles /\ DirectHas /\ DirectApart
    BY <2>1 DEF FilesInv, Kept
  <2>4. (\A k : ~ \E t \in Slots : Put(t, k)) /\ (\A n : ~Deleting(n))
    BY <2>1, NobodyNow
  <2>5. \A k : LostFile(k)' <=> LostFile(k)
    BY <1>1 DEF LostFile
  <2>6. FilesAlone(s)'
    BY <1>1, <1>2, <1>4, <1>8 DEF FilesAlone
  <2>7. OfSomeone' /\ HasFiles' /\ DirectHas' /\ DirectApart'
    BY <1>1, <2>3, <2>4, <2>5 DEF OfSomeone, HasFiles, DirectHas, DirectApart, FilesOf, HereWithFile
  <2>. QED
    BY <2>2, <2>6, <2>7, OnlyMember
<1>. QED
  BY <1>3, <1>5, <1>6, <1>9, <1>10, <1>11 DEF FilesInv

LEMMA UnlinkKeeps ==
  ASSUME SocialInv, FilesInv, NEW s \in Slots, DeletePhysicalFile(s)
  PROVE  SocialInv' /\ Touches(FilesPcs) /\ FilesInv'
<1>. DEFINE h == Moved(s, "removeRecord")
            e == req[s].id
            key == req[s].number
<1>0. /\ req[s].pc = "unlinkFile" /\ Goto(s, "removeRecord") /\ disk' = disk \ {key}
      /\ record' = record /\ records' = records /\ refused' = refused /\ keys' = keys
      /\ e \in RecordIds
  BY DEF DeletePhysicalFile, At, FilesInv, FilesHandler
<1>1. SocialInv' /\ Touches(FilesPcs) /\ Resumed(s, h) /\ h.pc = "removeRecord" /\ h.id = e
  <2>1. {req[s].pc, "removeRecord"} \subseteq FilesPcs /\ req[s].pc # "idle"
    BY <1>0 DEF FilesPcs
  <2>. QED
    BY <1>0, <2>1, GotoStep
<1>. HIDE DEF h
<1>2. /\ req'[s] = h /\ (\A t \in Slots \ {s} : req'[t] = req[t]) /\ Goes
      /\ overlapped' = overlapped
      /\ ~overlapped => \A t \in Slots \ {s} : req[t].pc = "idle"
  BY <1>1 DEF Resumed
<1>3. FilesTyped' /\ ToldRight'
  BY <1>0 DEF FilesInv, FilesTyped, Keyed, ToldRight
<1>4. ASSUME NEW t \in Slots PROVE FilesHandler(t)'
  <2>1. CASE t = s
    BY <1>0, <1>1, <1>2, <2>1 DEF FilesHandler, Storing
  <2>2. CASE t # s
    <3>1. keys \in Nat /\ keys' \in Nat /\ keys <= keys'
      BY <1>0, FilesNumbers
    <3>. QED
      BY <1>2, <2>2, <3>1, FilesOthers
  <2>. QED
    BY <2>1, <2>2
<1>5. Shrunk
  BY <1>0, SameShrunk
<1>6. ~Storing(s)' /\ \A k : ~Pending(s, k)' /\ ~Put(s, k)' /\ ~Put(s, k)
  BY <1>0, <1>1, <1>2 DEF Storing, Pending, Put
<1>7. NewKeys' /\ Separate'
  BY <1>0, <1>2, <1>5, <1>6, KeysStay
<1>8. Within'
  <2>1. \A t \in Slots : ~overlapped' => ~(Storing(t)' /\ req'[t].word = "direct")
    BY <1>2, <1>6 DEF Storing
  <2>. QED
    BY <1>2, <1>3, <1>5, <2>1, NoneUploads
<1>9. Kept'
  <2>. SUFFICES ASSUME InOrder'
                PROVE  (\A t \in Slots : FilesAlone(t)') /\ OfSomeone' /\ HasFiles' /\ DirectHas'
                         /\ DirectApart'
    BY DEF Kept
  <2>1. /\ InOrder /\ \A t \in Slots \ {s} : req[t].pc = "idle"
    BY <1>2 DEF InOrder, Goes
  <2>2. \A t \in Slots \ {s} : req'[t].pc = "idle"
    BY <1>2, <2>1
  <2>3. FilesAlone(s) /\ OfSomeone /\ HasFiles /\ DirectHas /\ DirectApart
    BY <2>1 DEF FilesInv, Kept
  <2>4. /\ record[e].here /\ record[e].direct /\ ~record[e].thumb
        /\ key = IF record[e].attached THEN record[e].url ELSE 0
        /\ 0 \notin disk /\ disk \subseteq 1..keys /\ record[e].url \in 1..keys
    BY <1>0, <2>3, FilesNumbers DEF FilesAlone, FilesInv, FilesTyped
  <2>5. /\ \A k : ~ \E t \in Slots : Put(t, k)
        /\ \A m : ~Deleting(m)
    BY <1>0, <1>6, <2>1, OnlyMemberNow
  <2>6. /\ \A t \in Slots \ {s} : FilesAlone(t)'
        /\ \A m : m = e => Deleting(m)'
    BY <1>1, <1>2, <2>2, OnlyMember
  <2>7. record[e].url \notin disk'
    <3>1. CASE record[e].attached
      BY <1>0, <2>4, <3>1
    <3>2. CASE ~record[e].attached
      BY <1>0, <2>4, <3>2 DEF FilesInv, ToldRight
    <3>. QED
      BY <3>1, <3>2
  <2>8. FilesAlone(s)'
    BY <1>0, <1>1, <1>2, <1>6, <2>4, <2>7 DEF FilesAlone
  <2>9. \A k : LostFile(k)' <=> LostFile(k)
    BY <1>0 DEF LostFile
  <2>10. OfSomeone'
    BY <1>0, <2>3, <2>5 DEF OfSomeone, FilesOf
  <2>11. ASSUME NEW m \in RecordIds, record[m].here, FilesOf(m) \subseteq disk
         PROVE  FilesOf(m) \subseteq disk' \/ record[e].url = record[m].url
    <3>1. SUFFICES ASSUME key \in FilesOf(m), record[m].url # record[e].url PROVE FALSE
      BY <1>0, <2>11
    <3>2. key \in disk /\ key = record[e].url
      BY <2>4, <2>11, <3>1
    <3>3. record[m].thumb /\ key = record[m].url + 1
      BY <3>1, <3>2 DEF FilesOf
    <3>4. FirstKey(key) /\ SecondKey(key) /\ key \in 1..keys
      BY <1>0, <2>4, <2>11, <3>2, <3>3 DEF FirstKey, SecondKey
    <3>. QED
      BY <3>4 DEF FilesInv, Separate
  <2>12. HasFiles'
    <3>1. ASSUME NEW m \in RecordIds, HereWithFile(m)'
          PROVE  \/ FilesOf(m)' \subseteq disk'
                 \/ LostFile(record[m].url)'
                 \/ record'[e].url = record'[m].url
      BY <1>0, <2>3, <2>5, <2>9, <2>11, <3>1 DEF HasFiles, HereWithFile, FilesOf
    <3>. QED
      BY <1>0, <2>6, <3>1 DEF HasFiles
  <2>13. DirectHas' /\ DirectApart'
    <3>1. \A m \in RecordIds : record[m].direct /\ HereWithFile(m) =>
            record[m].url \in disk' \/ m = e
      BY <1>0, <2>3, <2>4, <2>5 DEF DirectHas, DirectApart, HereWithFile
    <3>. QED
      BY <1>0, <2>3, <2>6, <3>1 DEF DirectHas, DirectApart, HereWithFile
  <2>. QED
    BY <2>6, <2>8, <2>10, <2>12, <2>13
<1>. QED
  BY <1>1, <1>3, <1>4, <1>7, <1>8, <1>9 DEF FilesInv

LEMMA RemoveRecordKeeps ==
  ASSUME SocialInv, FilesInv, NEW s \in Slots, RemoveRecord(s), NEW e, e = req[s].id
  PROVE  SocialInv' /\ Touches(FilesPcs) /\ FilesInv'
<1>0. /\ req[s].pc = "removeRecord" /\ Return(s)
      /\ record' = [record EXCEPT ![e].here = FALSE]
      /\ records' = records /\ disk' = disk /\ refused' = refused /\ keys' = keys
      /\ e \in RecordIds
  BY DEF RemoveRecord, At, FilesInv, FilesHandler
<1>1. SocialInv' /\ Touches(FilesPcs) /\ Resumed(s, Idle)
  BY <1>0, ReturnStep DEF FilesPcs
<1>2. /\ req'[s].pc = "idle" /\ (\A t \in Slots \ {s} : req'[t] = req[t]) /\ Goes
      /\ overlapped' = overlapped
      /\ ~overlapped => \A t \in Slots \ {s} : req[t].pc = "idle"
  BY <1>1, IdleTyped DEF Resumed
<1>3. /\ record' \in [RecordIds -> Records]
      /\ \A m \in RecordIds \ {e} : record'[m] = record[m]
      /\ ~record'[e].here /\ record'[e].direct = record[e].direct /\ record'[e].url = record[e].url
      /\ Shrunk
  <2>1. record \in [RecordIds -> Records]
    BY DEF FilesInv, FilesTyped
  <2>2. record' \in [RecordIds -> Records]
    BY ZenonT(60), <1>0, <2>1 DEF Records
  <2>3. \A m \in RecordIds \ {e} : record'[m] = record[m]
    BY <1>0, <2>1
  <2>4. record'[e] = [record[e] EXCEPT !.here = FALSE] /\ record[e] \in Records
    BY <1>0, <2>1
  <2>5. /\ ~record'[e].here /\ record'[e].direct = record[e].direct
        /\ record'[e].url = record[e].url /\ record'[e].thumb = record[e].thumb
        /\ record'[e].fileSize = record[e].fileSize /\ record'[e].sId = record[e].sId
        /\ record'[e].attached = record[e].attached /\ record'[e].dltAt = record[e].dltAt
    BY <2>4 DEF Records
  <2>. QED
    BY <2>2, <2>3, <2>5 DEF Shrunk
<1>4. FilesTyped'
  BY SMTT(60), <1>0, <1>3 DEF FilesInv, FilesTyped, Keyed, Shrunk
<1>5. ToldRight'
  BY <1>0, <1>3 DEF FilesInv, ToldRight
<1>6. ASSUME NEW t \in Slots PROVE FilesHandler(t)'
  <2>1. CASE t = s
    BY <1>2, <2>1 DEF FilesHandler, Storing
  <2>2. CASE t # s
    <3>1. keys \in Nat /\ keys' \in Nat /\ keys <= keys'
      BY <1>0, FilesNumbers
    <3>. QED
      BY <1>2, <2>2, <3>1, FilesOthers
  <2>. QED
    BY <2>1, <2>2
<1>7. ~Storing(s)' /\ (\A k : ~Pending(s, k)') /\ (\A k : ~Put(s, k))
  BY <1>0, <1>2 DEF Storing, Pending, Put
<1>8. NewKeys' /\ Separate'
  BY <1>0, <1>2, <1>3, <1>7, KeysStay
<1>9. Within'
  <2>1. \A t \in Slots : ~overlapped' => ~(Storing(t)' /\ req'[t].word = "direct")
    BY <1>2, <1>7 DEF Storing
  <2>. QED
    BY <1>2, <1>3, <1>4, <2>1, NoneUploads
<1>10. Kept'
  <2>. SUFFICES ASSUME InOrder'
                PROVE  (\A t \in Slots : FilesAlone(t)') /\ OfSomeone' /\ HasFiles' /\ DirectHas'
                         /\ DirectApart'
    BY DEF Kept
  <2>1. /\ InOrder /\ \A t \in Slots \ {s} : req[t].pc = "idle"
    BY <1>2 DEF InOrder, Goes
  <2>2. \A t \in Slots : req'[t].pc = "idle"
    BY <1>2, <2>1
  <2>3. FilesAlone(s) /\ OfSomeone /\ HasFiles /\ DirectHas /\ DirectApart
    BY <2>1 DEF FilesInv, Kept
  <2>4. /\ record[e].here /\ record[e].direct /\ ~record[e].thumb /\ record[e].url \notin disk
    BY <1>0, <2>3 DEF FilesAlone, FilesInv, FilesTyped
  <2>5. /\ \A k : ~ \E t \in Slots : Put(t, k)
        /\ \A m : Deleting(m) => m = e
    BY <1>7, <2>1, OnlyMemberNow
  <2>6. \A t \in Slots : FilesAlone(t)'
    BY <2>2 DEF FilesAlone, Storing
  <2>7. LostFile(record[e].url)' /\ \A k : LostFile(k) => LostFile(k)'
    BY <1>0, <1>3, <2>4 DEF LostFile
  <2>8. OfSomeone'
    BY <1>0, <1>3, <2>3, <2>4, <2>5 DEF OfSomeone, FilesOf
  <2>9. HasFiles'
    <3>1. ASSUME NEW m \in RecordIds, HereWithFile(m)'
          PROVE  FilesOf(m)' \subseteq disk' \/ LostFile(record[m].url)'
      <4>1. m # e /\ record'[m] = record[m] /\ HereWithFile(m) /\ FilesOf(m)' = FilesOf(m)
        BY <1>3, <3>1 DEF HereWithFile, FilesOf
      <4>2. FilesOf(m) \subseteq disk \/ LostFile(record[m].url) \/ record[e].url = record[m].url
        BY <2>3, <2>5, <4>1 DEF HasFiles
      <4>. QED
        BY <1>0, <2>7, <4>1, <4>2 DEF LostFile
    <3>. QED
      BY <3>1 DEF HasFiles
  <2>10. DirectHas'
    BY <1>0, <1>3, <2>3, <2>5 DEF DirectHas, HereWithFile
  <2>11. DirectApart'
    BY <1>3, <2>3 DEF DirectApart, Shrunk
  <2>. QED
    BY <2>6, <2>8, <2>9, <2>10, <2>11
<1>. QED
  BY <1>1, <1>4, <1>5, <1>6, <1>8, <1>9, <1>10 DEF FilesInv

\* A message that is told that its file is gone, or that it was deleted: one step
\* of a handler that neither stores nor deletes, or of none.
LEMMA MarkedKeeps ==
  ASSUME FilesInv, Goes, record' \in [RecordIds -> Records], Shrunk,
         \A m \in RecordIds : record'[m].here = record[m].here,
         \A m \in RecordIds : record[m].attached => record'[m].attached \/ record[m].url \notin disk,
         records' = records, disk' = disk, refused' = refused, keys' = keys,
         \/ req' = req /\ \A t \in Slots : ~overlapped' => req[t].pc = "idle"
         \/ \E s \in Slots : /\ req[s].pc = "cleanNext" /\ req'[s].pc \in {"cleanNext", "idle"}
                             /\ req'[s].pc = "cleanNext" => req'[s].seen \subseteq RecordIds
                             /\ \A t \in Slots \ {s} : req'[t] = req[t]
                             /\ \A t \in Slots \ {s} : ~overlapped' => req[t].pc = "idle"
  PROVE  FilesInv'
<1>1. FilesTyped'
  BY DEF FilesInv, FilesTyped, Keyed, Shrunk
<1>2. ToldRight'
  BY DEF FilesInv, ToldRight, Shrunk
<1>3. \A t \in Slots : \/ req'[t] = req[t]
                       \/ /\ req[t].pc = "cleanNext" /\ req'[t].pc \in {"cleanNext", "idle"}
                          /\ req'[t].pc = "cleanNext" => req'[t].seen \subseteq RecordIds
  OBVIOUS
<1>4. \A t \in Slots : ~overlapped' => req[t].pc \in {"idle", "cleanNext"}
                                         /\ req'[t].pc \in {"idle", "cleanNext"}
  OBVIOUS
<1>5. ASSUME NEW t \in Slots PROVE FilesHandler(t)'
  <2>1. CASE req'[t] = req[t]
    <3>1. keys \in Nat /\ keys' \in Nat /\ keys <= keys'
      BY FilesNumbers
    <3>. QED
      BY <2>1, <3>1, FilesOthers
  <2>2. CASE req'[t].pc \in {"cleanNext", "idle"}
               /\ (req'[t].pc = "cleanNext" => req'[t].seen \subseteq RecordIds)
    BY <2>2 DEF FilesHandler, Storing
  <2>. QED
    BY <1>3, <2>1, <2>2
<1>6. \A t \in Slots : /\ Storing(t)' => Storing(t) /\ req'[t] = req[t]
                       /\ \A k : Pending(t, k)' => Pending(t, k)
                       /\ \A k : Put(t, k)' <=> Put(t, k)
  BY <1>3 DEF Storing, Pending, Put
<1>7. NewKeys' /\ Separate'
  <2>1. CASE Slots = {}
    BY <2>1 DEF FilesInv, NewKeys, Separate, FirstKey, SecondKey, Shrunk
  <2>2. CASE \E s \in Slots : \A t \in Slots \ {s} : req'[t] = req[t]
    BY <1>6, <2>2, KeysStay
  <2>. QED
    BY <2>1, <2>2
<1>8. Within'
  <2>1. \A t \in Slots : ~overlapped' => ~(Storing(t)' /\ req'[t].word = "direct")
    BY <1>4 DEF Storing
  <2>. QED
    BY <1>1, <2>1, NoneUploads DEF Goes
<1>9. Kept'
  <2>. SUFFICES ASSUME InOrder'
                PROVE  (\A t \in Slots : FilesAlone(t)') /\ OfSomeone' /\ HasFiles' /\ DirectHas'
                         /\ DirectApart'
    BY DEF Kept
  <2>1. InOrder /\ ~overlapped'
    BY DEF InOrder, Goes
  <2>2. OfSomeone /\ HasFiles /\ DirectHas /\ DirectApart
    BY <2>1 DEF FilesInv, Kept
  <2>3. \A t \in Slots : FilesAlone(t)'
    BY <1>4, <2>1 DEF FilesAlone, Storing
  <2>4. (\A k : ~ \E t \in Slots : Put(t, k)) /\ \A m : ~Deleting(m)
    BY <1>4, <2>1 DEF Put, Deleting
  <2>5. \A k : LostFile(k)' <=> LostFile(k)
    BY DEF LostFile, Shrunk
  <2>6. \A m \in RecordIds : FilesOf(m)' = FilesOf(m) /\ (HereWithFile(m)' => HereWithFile(m))
    BY DEF FilesOf, HereWithFile, Shrunk
  <2>7. OfSomeone'
    BY <2>2, <2>4, <2>6 DEF OfSomeone
  <2>8. HasFiles'
    BY <2>2, <2>4, <2>5, <2>6 DEF HasFiles, Shrunk
  <2>9. DirectHas' /\ DirectApart'
    BY <2>2, <2>4, <2>6 DEF DirectHas, DirectApart, Shrunk
  <2>. QED
    BY <2>3, <2>7, <2>8, <2>9
<1>. QED
  BY <1>1, <1>2, <1>5, <1>7, <1>8, <1>9 DEF FilesInv

LEMMA DeleteMessageKeeps ==
  ASSUME SocialInv, FilesInv, NEW u \in Users, NEW m \in RecordIds, DeleteMessage(u, m)
  PROVE  SocialInv' /\ Touches(FilesPcs) /\ FilesInv'
<1>0. /\ AtOnce("deleteMessage") /\ record' = [record EXCEPT ![m].dltAt = TRUE]
      /\ records' = records /\ disk' = disk /\ refused' = refused /\ keys' = keys
  BY DEF DeleteMessage
<1>1. SocialInv' /\ Touches(FilesPcs) /\ Done
  BY <1>0, DoneStep
<1>2. /\ record' \in [RecordIds -> Records] /\ Shrunk
      /\ \A n \in RecordIds : record'[n].here = record[n].here
                              /\ record'[n].attached = record[n].attached
  BY ZenonT(60), <1>0 DEF FilesInv, FilesTyped, Records, Shrunk
<1>3. req' = req /\ Goes /\ \A t \in Slots : ~overlapped' => req[t].pc = "idle"
  BY <1>1 DEF Done
<1>4. FilesInv'
  BY <1>0, <1>2, <1>3, MarkedKeeps
<1>. QED
  BY <1>1, <1>4

LEMMA CleanNextKeeps ==
  ASSUME SocialInv, FilesInv, NEW s \in Slots, CleanNext(s), NEW m, m = CHOOSE n \in req[s].seen : TRUE
  PROVE  SocialInv' /\ Touches(FilesPcs) /\ FilesInv'
<1>. DEFINE left == req[s].seen \ {m}
            h == [req[s] EXCEPT !.seen = left]
<1>0. /\ req[s].pc = "cleanNext" /\ req[s].seen \subseteq RecordIds
      /\ records' = records /\ disk' = disk /\ refused' = refused /\ keys' = keys
      /\ IF req[s].seen = {} THEN Return(s) /\ record' = record
         ELSE /\ record' = IF record[m].here /\ record[m].url \notin disk
                           THEN [record EXCEPT ![m].attached = FALSE] ELSE record
              /\ Resume(s, h)
  BY DEF CleanNext, CleanEach, At, FilesInv, FilesHandler
<1>1. /\ record \in [RecordIds -> Records] /\ HandlerTyped(req[s])
      /\ {req[s].pc, "idle"} \subseteq FilesPcs \cup {"idle"} /\ req[s].pc # "idle"
      /\ req[s].pc \in FilesPcs
  BY <1>0 DEF FilesInv, FilesTyped, SocialInv, FilesPcs
<1>2. HandlerTyped(h) /\ h.pc = "cleanNext" /\ h.seen = left
  <2>. HIDE DEF left
  <2>. QED
    BY <1>0, <1>1 DEF HandlerTyped
<1>. HIDE DEF h
<1>3. CASE req[s].seen = {}
  <2>1. SocialInv' /\ Touches(FilesPcs) /\ Resumed(s, Idle)
    BY <1>0, <1>1, <1>3, ReturnStep
  <2>2. /\ req'[s].pc = "idle" /\ (\A t \in Slots \ {s} : req'[t] = req[t]) /\ Goes
        /\ \A t \in Slots \ {s} : ~overlapped' => req[t].pc = "idle"
    BY <2>1, IdleTyped DEF Resumed
  <2>3. Shrunk /\ record' = record
    BY <1>0, <1>3, SameShrunk
  <2>4. FilesInv'
    BY <1>0, <1>1, <2>2, <2>3, MarkedKeeps
  <2>. QED
    BY <2>1, <2>4
<1>4. CASE req[s].seen # {}
  <2>1. SocialInv' /\ Touches(FilesPcs) /\ Resumed(s, h)
    <3>1. Resume(s, h) /\ h.pc \in FilesPcs \cup {"idle"}
      BY <1>0, <1>2, <1>4 DEF FilesPcs
    <3>. QED
      BY <1>1, <1>2, <3>1, ResumeStep
  <2>2. /\ req'[s].pc = "cleanNext" /\ req'[s].seen \subseteq RecordIds
        /\ (\A t \in Slots \ {s} : req'[t] = req[t]) /\ Goes
        /\ \A t \in Slots \ {s} : ~overlapped' => req[t].pc = "idle"
    BY <1>0, <1>2, <2>1 DEF Resumed
  <2>3. m \in RecordIds
    BY <1>0, <1>4
  <2>4. /\ record' \in [RecordIds -> Records] /\ Shrunk
        /\ \A n \in RecordIds : record'[n].here = record[n].here
        /\ \A n \in RecordIds : record[n].attached =>
             record'[n].attached \/ record[n].url \notin disk
    <3>1. CASE record' = record
      BY <1>1, <3>1, SameShrunk
    <3>2. CASE record' = [record EXCEPT ![m].attached = FALSE] /\ record[m].url \notin disk
      <4>1. record' \in [RecordIds -> Records]
        <5>1. \A r \in Records : [r EXCEPT !.attached = FALSE] \in Records
          BY DEF Records
        <5>. QED
          BY <1>1, <2>3, <3>2, <5>1
      <4>2. \A n \in RecordIds \ {m} : record'[n] = record[n]
        BY <1>1, <3>2
      <4>3. record'[m] = [record[m] EXCEPT !.attached = FALSE] /\ record[m] \in Records
        BY <1>1, <2>3, <3>2
      <4>4. /\ ~record'[m].attached /\ record'[m].direct = record[m].direct
            /\ record'[m].url = record[m].url /\ record'[m].thumb = record[m].thumb
            /\ record'[m].fileSize = record[m].fileSize /\ record'[m].sId = record[m].sId
            /\ record'[m].here = record[m].here /\ record'[m].dltAt = record[m].dltAt
        BY <4>3 DEF Records
      <4>. QED
        BY <3>2, <4>1, <4>2, <4>4 DEF Shrunk
    <3>. QED
      BY <1>0, <1>4, <3>1, <3>2
  <2>5. FilesInv'
    BY <1>0, <2>2, <2>4, MarkedKeeps
  <2>. QED
    BY <2>1, <2>5
<1>. QED
  BY <1>3, <1>4

LEMMA FilesMoves ==
  ASSUME SocialInv, FilesInv, FilesNext
  PROVE  SocialInv' /\ Touches(FilesPcs) /\ FilesInv'
<1>1. ASSUME NEW s \in Slots, FilesContinue(s)
      PROVE  SocialInv' /\ Touches(FilesPcs) /\ FilesInv'
  <2>1. CASE CleanNext(s)
    BY <2>1, CleanNextKeeps
  <2>2. CASE RemoveRecord(s)
    BY <2>2, RemoveRecordKeeps
  <2>. QED
    BY <1>1, <2>1, <2>2, PutKeeps, InsertRecordKeeps, UnlinkKeeps DEF FilesContinue
<1>2. ASSUME NEW s \in Slots, FilesStart(s)
      PROVE  SocialInv' /\ Touches(FilesPcs) /\ FilesInv'
  BY <1>2, UploadKeeps, ForwardKeeps, FilesBegins DEF FilesStart
<1>. QED
  BY <1>1, <1>2, DeleteMessageKeeps DEF FilesNext, FilesAtOnce

-----------------------------------------------------------------------------
(* Steps of others, restarts and the beginning *)

LEMMA FilesRests ==
  ASSUME SocialInv, SocialInv', FilesInv, Spares(FilesPcs), UNCHANGED filesVars
  PROVE  FilesInv'
<1>1. /\ record' = record /\ records' = records /\ disk' = disk /\ keys' = keys
      /\ refused' = refused
  BY DEF filesVars
<1>2. (~overlapped' => ~overlapped) /\ restarts' = restarts
  BY DEF Spares, Goes
<1>3. \A s \in Slots : \/ req'[s] = req[s]
                       \/ req[s].pc \notin FilesPcs /\ req'[s].pc \notin FilesPcs
  BY DEF Spares
<1>4. FilesTyped' /\ ToldRight'
  BY <1>1 DEF FilesInv, FilesTyped, Keyed, ToldRight
<1>5. \A s \in Slots : FilesHandler(s)'
  BY <1>1, <1>3 DEF FilesInv, FilesHandler, Storing, Keyed, FilesPcs
<1>6. \A s \in Slots : /\ Storing(s)' <=> Storing(s)
                       /\ Storing(s) => req'[s] = req[s]
                       /\ \A k : Pending(s, k)' <=> Pending(s, k)
                       /\ \A k : Put(s, k)' <=> Put(s, k)
  BY <1>3 DEF Storing, Pending, Put, FilesPcs
<1>7. NewKeys'
  BY <1>1, <1>6 DEF FilesInv, NewKeys
<1>8. Separate'
  <2>1. \A k : (FirstKey(k)' <=> FirstKey(k)) /\ (SecondKey(k)' <=> SecondKey(k))
    BY <1>1, <1>6 DEF FirstKey, SecondKey
  <2>. QED
    BY <1>1, <2>1 DEF FilesInv, Separate
<1>9. Within'
  <2>1. SizeOf' = SizeOf /\ \A u : DirectOf(u)' = DirectOf(u) /\ CountedOf(u)' = CountedOf(u)
    BY <1>1 DEF SizeOf, DirectOf, CountedOf, Counts, HereWithFile
  <2>2. ASSUME ~overlapped', NEW u \in Users
        PROVE  SumOf(SizeOf, DirectOf(u))' <= MaxStorage
    BY <1>2, <2>1, <2>2 DEF FilesInv, Within
  <2>3. ASSUME ~overlapped', NEW s \in Slots, Storing(s)', req'[s].word = "direct"
        PROVE  SumOf(SizeOf, CountedOf(req[s].user))' + req'[s].number <= MaxStorage
    <3>1. req'[s] = req[s] /\ Storing(s) /\ ~overlapped
      BY <1>2, <1>6, <2>3
    <3>2. CountedOf(req[s].user)' = CountedOf(req[s].user)
      BY <1>1, <3>1 DEF CountedOf, Counts, HereWithFile
    <3>. QED
      BY <2>1, <2>3, <3>1, <3>2 DEF FilesInv, Within
  <2>. QED
    BY <2>2, <2>3 DEF Within
<1>10. Kept'
  <2>. SUFFICES ASSUME InOrder'
                PROVE  (\A t \in Slots : FilesAlone(t)') /\ OfSomeone' /\ HasFiles' /\ DirectHas'
                         /\ DirectApart'
    BY DEF Kept
  <2>1. InOrder
    BY <1>2 DEF InOrder
  <2>2. /\ \A s \in Slots : FilesAlone(s)
        /\ OfSomeone /\ HasFiles /\ DirectHas /\ DirectApart
    BY <2>1 DEF FilesInv, Kept
  <2>3. \A k : LostFile(k)' <=> LostFile(k)
    BY <1>1 DEF LostFile
  <2>4. ASSUME NEW s \in Slots PROVE FilesAlone(s)'
    <3>1. CASE req'[s] = req[s]
      <4>1. LostFile(req[s].id)' <=> LostFile(req[s].id)
        BY <1>1, <3>1 DEF LostFile
      <4>2. FilesAlone(s)
        BY <2>2
      <4>. QED
        BY <1>1, <1>6, <3>1, <4>1, <4>2 DEF FilesAlone
    <3>2. CASE req'[s].pc \notin FilesPcs
      BY <3>2 DEF FilesAlone, Storing, FilesPcs
    <3>. QED
      BY <1>3, <3>1, <3>2
  <2>5. \A m : Deleting(m)' <=> Deleting(m)
    BY <1>3 DEF Deleting, FilesPcs
  <2>6. OfSomeone'
    BY <1>1, <1>6, <2>2 DEF OfSomeone, FilesOf
  <2>7. HasFiles' /\ DirectHas' /\ DirectApart'
    BY <1>1, <2>2, <2>3, <2>5 DEF HasFiles, DirectHas, DirectApart, FilesOf, HereWithFile
  <2>. QED
    BY <2>4, <2>6, <2>7
<1>. QED
  BY <1>4, <1>5, <1>7, <1>8, <1>9, <1>10 DEF FilesInv

LEMMA FilesRestarts ==
  ASSUME SocialInv, FilesInv, Crash
  PROVE  FilesInv'
<1>1. /\ req' = [s \in Slots |-> Idle] /\ restarts' = restarts + 1 /\ overlapped' = overlapped
      /\ record' = record /\ records' = records /\ disk' = disk /\ keys' = keys
      /\ refused' = refused
  BY DEF Crash, Restart, filesVars
<1>2. \A s \in Slots : req'[s].pc = "idle"
  BY <1>1, IdleTyped
<1>3. ~InOrder'
  BY <1>1, SocialAssumption DEF SocialInv, InOrder
<1>4. FilesTyped' /\ ToldRight'
  BY <1>1 DEF FilesInv, FilesTyped, Keyed, ToldRight
<1>5. \A s \in Slots : /\ ~Storing(s)' /\ FilesHandler(s)' /\ \A k : ~Pending(s, k)'
  BY <1>2 DEF FilesHandler, Storing, Pending
<1>6. NewKeys'
  BY <1>5 DEF NewKeys
<1>7. Separate'
  <2>1. \A k : (FirstKey(k)' => FirstKey(k)) /\ (SecondKey(k)' => SecondKey(k))
    BY <1>1, <1>5 DEF FirstKey, SecondKey
  <2>. QED
    BY <1>1, <2>1 DEF FilesInv, Separate
<1>8. Within'
  BY <1>1, <1>4, <1>5, SameShrunk, NoneUploads
<1>. QED
  BY <1>3, <1>4, <1>5, <1>6, <1>7, <1>8 DEF FilesInv, Kept

LEMMA FilesBeginning ==
  ASSUME SocialInit, FilesInit
  PROVE  FilesInv
<1>1. \A s \in Slots : req[s].pc = "idle"
  BY IdleTyped DEF SocialInit
<1>2. /\ record = [m \in RecordIds |-> NoRecord] /\ records = 0 /\ disk = {} /\ keys = 0
      /\ refused = {}
  BY DEF FilesInit
<1>3. /\ NoRecord \in Records /\ ~NoRecord.here /\ ~NoRecord.direct /\ NoRecord.url = 0
      /\ 0 <= 0 /\ 0 \in 0..MaxRecords /\ 0 \in 0..MaxFiles
  BY FilesAssumption DEF NoRecord, Records
<1>4. FilesTyped /\ ToldRight
  BY <1>2, <1>3 DEF FilesTyped, ToldRight
<1>5. \A s \in Slots : /\ ~Storing(s) /\ FilesHandler(s) /\ FilesAlone(s)
                       /\ \A k : ~Pending(s, k) /\ ~Put(s, k)
  BY <1>1 DEF FilesHandler, FilesAlone, Storing, Pending, Put
<1>6. NewKeys /\ Separate
  BY <1>2, <1>5 DEF NewKeys, Separate
<1>7. Within
  <2>1. ASSUME NEW u \in Users PROVE SumOf(SizeOf, DirectOf(u)) <= MaxStorage
    <3>1. DirectOf(u) = {}
      BY <1>2, <1>3 DEF DirectOf
    <3>2. SumOf(SizeOf, {}) = 0
      BY SumEmpty
    <3>. QED
      BY <3>1, <3>2, FilesAssumption
  <2>. QED
    BY <1>5, <2>1 DEF Within
<1>8. Kept
  BY <1>2, <1>3, <1>5 DEF Kept, OfSomeone, HasFiles, DirectHas, DirectApart, HereWithFile
<1>. QED
  BY <1>4, <1>5, <1>6, <1>7, <1>8 DEF FilesInv

-----------------------------------------------------------------------------
(* Communities among the others *)

\* What a handler is given when it begins.
LEMMA HandlerWith ==
  ASSUME NEW h, HandlerTyped(h)
  PROVE  /\ \A x : /\ HandlerTyped([h EXCEPT !.word = x]) /\ [h EXCEPT !.word = x].pc = h.pc
                   /\ HandlerTyped([h EXCEPT !.seen = x]) /\ [h EXCEPT !.seen = x].pc = h.pc
         /\ \A x \in Users : /\ HandlerTyped([h EXCEPT !.other = x])
                             /\ [h EXCEPT !.other = x].pc = h.pc
         /\ \A x \in Nat : /\ HandlerTyped([h EXCEPT !.id = x]) /\ [h EXCEPT !.id = x].pc = h.pc
                           /\ HandlerTyped([h EXCEPT !.number = x])
                           /\ [h EXCEPT !.number = x].pc = h.pc
         /\ \A x \in BOOLEAN : /\ HandlerTyped([h EXCEPT !.flag = x])
                               /\ [h EXCEPT !.flag = x].pc = h.pc
<1>1. ASSUME NEW x PROVE HandlerTyped([h EXCEPT !.word = x]) /\ [h EXCEPT !.word = x].pc = h.pc
  BY DEF HandlerTyped
<1>2. ASSUME NEW x PROVE HandlerTyped([h EXCEPT !.seen = x]) /\ [h EXCEPT !.seen = x].pc = h.pc
  BY DEF HandlerTyped
<1>3. ASSUME NEW x \in Users
      PROVE  HandlerTyped([h EXCEPT !.other = x]) /\ [h EXCEPT !.other = x].pc = h.pc
  BY DEF HandlerTyped
<1>4. ASSUME NEW x \in Nat
      PROVE  HandlerTyped([h EXCEPT !.id = x]) /\ [h EXCEPT !.id = x].pc = h.pc
  BY DEF HandlerTyped
<1>5. ASSUME NEW x \in Nat
      PROVE  HandlerTyped([h EXCEPT !.number = x]) /\ [h EXCEPT !.number = x].pc = h.pc
  BY DEF HandlerTyped
<1>6. ASSUME NEW x \in BOOLEAN
      PROVE  HandlerTyped([h EXCEPT !.flag = x]) /\ [h EXCEPT !.flag = x].pc = h.pc
  BY DEF HandlerTyped
<1>. QED
  BY <1>1, <1>2, <1>3, <1>4, <1>5, <1>6

LEMMA CommunityBegins ==
  ASSUME SocialInv, NEW s \in Slots, NEW request, Free(s, request),
         NEW h, HandlerTyped(h), Begin(s, h), h.pc \in CommunityPcs
  PROVE  SocialInv' /\ Touches(CommunityPcs)
BY BeginStep

\* Also if somebody was added twice there is a first entry.
LEMMA FirstAmong ==
  ASSUME NEW ms, ms \subseteq Entries, NEW u, EntriesOf(ms, u) # {}
  PROVE  First(ms, u) \in EntriesOf(ms, u)
<1>. DEFINE Upto(e) == 0..e.id
            T == {Upto(e) : e \in EntriesOf(ms, u)}
<1>1. \A e \in EntriesOf(ms, u) : e.id \in Nat
  BY DEF EntriesOf, Entries
<1>2. T # {} /\ T \subseteq SUBSET Nat
  BY <1>1
<1>3. \A x \in T : IsFiniteSet(x)
  BY <1>1, FS_Interval
<1>. HIDE DEF T
<1>4. Lowest(T)
  BY <1>2, <1>3, Minimal
<1>5. PICK m \in EntriesOf(ms, u) : \A y \in T : y \subseteq Upto(m) => y = Upto(m)
  BY <1>4 DEF Lowest, T
<1>6. ASSUME NEW e \in EntriesOf(ms, u) PROVE m.id <= e.id
  <2>1. m.id \in Nat /\ e.id \in Nat /\ Upto(e) \in T
    BY <1>1 DEF T
  <2>2. SUFFICES ASSUME e.id < m.id PROVE FALSE
    BY <2>1
  <2>3. Upto(e) \subseteq Upto(m) /\ m.id \in Upto(m) /\ m.id \notin Upto(e)
    BY <2>1, <2>2
  <2>. QED
    BY <1>5, <2>1, <2>3
<1>. QED
  BY <1>6 DEF First

LEMMA CommunityStarts ==
  ASSUME SocialInv, CommunityInv, NEW s \in Slots, CommunityStart(s)
  PROVE  SocialInv' /\ Touches(CommunityPcs)
<1>. PICK u \in Users :
       \/ JoinCommunity(s, u) \/ UpdateImage(s, u)
       \/ \E g \in Groups : AddGroup(s, u, g)
       \/ \E limit \in Limits, approval \in BOOLEAN : UpdateCommunity(s, u, limit, approval)
       \/ \E v \in Users :
            \/ RemoveMember(s, u, v)
            \/ \E role \in Roles : AddMember(s, u, v, role)
            \/ \E status \in Statuses : UpdateMemberStatus(s, u, v, status)
  BY DEF CommunityStart
<1>1. \A pc \in CommunityPcs, v \in Users : /\ HandlerTyped(Call(pc, v))
                                            /\ Call(pc, v).pc \in CommunityPcs
  <2>. TAKE pc \in CommunityPcs, v \in Users
  <2>1. v \in Users \cup {NoUser}
    OBVIOUS
  <2>. QED
    BY <2>1, CallTyped
<1>2. /\ community.version \in Nat /\ community.joinApprovalRequired \in BOOLEAN
      /\ community.members \subseteq Entries
  BY DEF CommunityInv, CommunityTyped, Documents, Sound
<1>3. CASE JoinCommunity(s, u)
  <2>. DEFINE g == Call("pushMember", u)
              f == [g EXCEPT !.word = "MEMBER"]
              h == [f EXCEPT !.flag = community.joinApprovalRequired]
  <2>1. Free(s, "join") /\ Begin(s, h)
    BY <1>3 DEF JoinCommunity
  <2>2. HandlerTyped(g) /\ g.pc \in CommunityPcs
    BY <1>1 DEF CommunityPcs
  <2>. HIDE DEF g
  <2>3. HandlerTyped(f) /\ f.pc \in CommunityPcs
    BY <2>2, HandlerWith
  <2>. HIDE DEF f
  <2>4. HandlerTyped(h) /\ h.pc \in CommunityPcs
    BY <1>2, <2>3, HandlerWith
  <2>. HIDE DEF h
  <2>. QED
    BY <2>1, <2>4, CommunityBegins
<1>4. CASE UpdateImage(s, u)
  <2>1. Free(s, "cImg") /\ Begin(s, Call("saveImage", u)) /\ "saveImage" \in CommunityPcs
    BY <1>4 DEF UpdateImage, CommunityPcs
  <2>. QED
    BY <1>1, <2>1, CommunityBegins
<1>5. ASSUME NEW g \in Groups, AddGroup(s, u, g)
      PROVE  SocialInv' /\ Touches(CommunityPcs)
  <2>. DEFINE f == Call("saveGroups", u)
              h == [f EXCEPT !.seen = {g}]
  <2>1. Free(s, "group") /\ Begin(s, h)
    BY <1>5 DEF AddGroup, ByAdmin
  <2>2. HandlerTyped(f) /\ f.pc \in CommunityPcs
    BY <1>1 DEF CommunityPcs
  <2>. HIDE DEF f
  <2>3. HandlerTyped(h) /\ h.pc \in CommunityPcs
    BY <2>2, HandlerWith
  <2>. HIDE DEF h
  <2>. QED
    BY <2>1, <2>3, CommunityBegins
<1>6. ASSUME NEW limit \in Limits, NEW approval \in BOOLEAN, UpdateCommunity(s, u, limit, approval)
      PROVE  SocialInv' /\ Touches(CommunityPcs)
  <2>. DEFINE g == Call("saveSettings", u)
              f == [g EXCEPT !.number = limit]
              h == [f EXCEPT !.flag = approval]
  <2>1. Free(s, "settings") /\ Begin(s, h)
    BY <1>6 DEF UpdateCommunity, ByAdmin
  <2>2. HandlerTyped(g) /\ g.pc \in CommunityPcs
    BY <1>1 DEF CommunityPcs
  <2>. HIDE DEF g
  <2>3. HandlerTyped(f) /\ f.pc \in CommunityPcs
    BY <2>2, HandlerWith, CommunityAssumption
  <2>. HIDE DEF f
  <2>4. HandlerTyped(h) /\ h.pc \in CommunityPcs
    BY <2>3, HandlerWith
  <2>. HIDE DEF h
  <2>. QED
    BY <2>1, <2>4, CommunityBegins
<1>7. ASSUME NEW v \in Users, RemoveMember(s, u, v)
      PROVE  SocialInv' /\ Touches(CommunityPcs)
  <2>. DEFINE g == Call("saveMembers", u)
              f == [g EXCEPT !.other = v]
              e == [f EXCEPT !.seen = community.members]
              h == [e EXCEPT !.number = community.version]
  <2>1. Free(s, "removeMember") /\ Begin(s, h)
    BY <1>7 DEF RemoveMember, ByAdmin
  <2>2. HandlerTyped(g) /\ g.pc \in CommunityPcs
    BY <1>1 DEF CommunityPcs
  <2>. HIDE DEF g
  <2>3. HandlerTyped(f) /\ f.pc \in CommunityPcs
    BY <2>2, HandlerWith
  <2>. HIDE DEF f
  <2>4. HandlerTyped(e) /\ e.pc \in CommunityPcs
    BY <2>3, HandlerWith
  <2>. HIDE DEF e
  <2>5. HandlerTyped(h) /\ h.pc \in CommunityPcs
    BY <1>2, <2>4, HandlerWith
  <2>. HIDE DEF h
  <2>. QED
    BY <2>1, <2>5, CommunityBegins
<1>8. ASSUME NEW v \in Users, NEW role \in Roles, AddMember(s, u, v, role)
      PROVE  SocialInv' /\ Touches(CommunityPcs)
  <2>. DEFINE g == Call("pushMember", v)
              h == [g EXCEPT !.word = role]
  <2>1. Free(s, "addMember") /\ Begin(s, h)
    BY <1>8 DEF AddMember, ByAdmin
  <2>2. HandlerTyped(g) /\ g.pc \in CommunityPcs
    BY <1>1 DEF CommunityPcs
  <2>. HIDE DEF g
  <2>3. HandlerTyped(h) /\ h.pc \in CommunityPcs
    BY <2>2, HandlerWith
  <2>. HIDE DEF h
  <2>. QED
    BY <2>1, <2>3, CommunityBegins
<1>9. ASSUME NEW v \in Users, NEW status \in Statuses, UpdateMemberStatus(s, u, v, status)
      PROVE  SocialInv' /\ Touches(CommunityPcs)
  <2>. DEFINE i == First(community.members, v).id
              g == Call("saveStatus", u)
              f == [g EXCEPT !.word = status]
              e == [f EXCEPT !.id = i]
              h == [e EXCEPT !.number = community.version]
  <2>1. Free(s, "status") /\ Begin(s, h) /\ IsMember(v)
    BY <1>9 DEF UpdateMemberStatus, ByAdmin
  <2>2. i \in Nat
    <3>1. First(community.members, v) \in community.members
      BY <1>2, <2>1, FirstAmong DEF IsMember, EntriesOf
    <3>. QED
      BY <1>2, <3>1 DEF Entries
  <2>3. HandlerTyped(g) /\ g.pc \in CommunityPcs
    BY <1>1 DEF CommunityPcs
  <2>. HIDE DEF g
  <2>4. HandlerTyped(f) /\ f.pc \in CommunityPcs
    BY <2>3, HandlerWith
  <2>. HIDE DEF f, i
  <2>5. HandlerTyped(e) /\ e.pc \in CommunityPcs
    BY <2>2, <2>4, HandlerWith
  <2>. HIDE DEF e
  <2>6. HandlerTyped(h) /\ h.pc \in CommunityPcs
    BY <1>2, <2>5, HandlerWith
  <2>. HIDE DEF h
  <2>. QED
    BY <2>1, <2>6, CommunityBegins
<1>. QED
  BY <1>3, <1>4, <1>5, <1>6, <1>7, <1>8, <1>9

LEMMA CommunityMoves ==
  ASSUME SocialInv, CommunityInv, CommunityStep
  PROVE  SocialInv' /\ Touches(CommunityPcs) /\ CommunityInv'
<1>1. ASSUME NEW s \in Slots, CommunityContinue(s)
      PROVE  SocialInv' /\ Touches(CommunityPcs) /\ CommunityInv'
  <2>1. Return(s) /\ req[s].pc \in CommunityPcs /\ req[s].pc # "idle"
    BY <1>1 DEF CommunityContinue, PushMember, SaveStatus, SaveMembers, SaveSettings, SaveImage,
                SaveGroups, ReplaceMembers, Saved, Unsaved, At, CommunityPcs
  <2>. QED
    BY <1>1, <2>1, ReturnStep, ContinueKeeps
<1>2. ASSUME NEW s \in Slots, CommunityStart(s)
      PROVE  SocialInv' /\ Touches(CommunityPcs) /\ CommunityInv'
  BY <1>2, CommunityStarts, StartKeeps, CommunityAssumption
<1>3. ASSUME NEW u \in Users, NEW limit \in Limits \cup {0}, NEW approval \in BOOLEAN,
             CreateCommunity(u, limit, approval)
      PROVE  SocialInv' /\ Touches(CommunityPcs) /\ CommunityInv'
  <2>1. AtOnce("community")
    BY <1>3 DEF CreateCommunity
  <2>. QED
    BY <1>3, <2>1, DoneStep, CreateKeeps, CommunityAssumption
<1>. QED
  BY <1>1, <1>2, <1>3 DEF CommunityStep

LEMMA CommunityRests ==
  ASSUME SocialInv', CommunityInv, Spares(CommunityPcs), UNCHANGED communityVars
  PROVE  CommunityInv'
<1>1. ~overlapped' => ~overlapped
  BY DEF Spares, Goes
<1>2. ASSUME NEW s \in Slots PROVE HandlerRight(s)'
  <2>1. CASE req'[s] = req[s]
    BY <1>1, <2>1, StillRight DEF CommunityInv, HandlersRight
  <2>2. CASE req'[s].pc \notin CommunityPcs
    BY <2>2 DEF HandlerRight, CommunityPcs
  <2>. QED
    BY <2>1, <2>2 DEF Spares
<1>3. Alone' /\ req' = [s \in Slots |-> req'[s]] /\ overlapped' \in BOOLEAN
  BY DEF SocialInv
<1>4. CommunityTyped'
  BY <1>3 DEF CommunityInv, CommunityTyped, DroppedFits, communityVars, history, Sound, Distinct,
              OnePerUser
<1>5. MembersStay'
  BY <1>1 DEF CommunityInv, MembersStay, communityVars, history, Admins
<1>. QED
  BY <1>2, <1>3, <1>4, <1>5 DEF CommunityInv, HandlersRight

-----------------------------------------------------------------------------
(* All of them *)

LEMMA PcsApart ==
  /\ "idle" \notin CommunityPcs \cup OrbitPcs \cup StoriesPcs \cup MarketPcs \cup FilesPcs
  /\ CommunityPcs \cap OrbitPcs = {} /\ CommunityPcs \cap StoriesPcs = {}
  /\ CommunityPcs \cap MarketPcs = {} /\ CommunityPcs \cap FilesPcs = {}
  /\ OrbitPcs \cap StoriesPcs = {} /\ OrbitPcs \cap MarketPcs = {} /\ OrbitPcs \cap FilesPcs = {}
  /\ StoriesPcs \cap MarketPcs = {} /\ StoriesPcs \cap FilesPcs = {}
  /\ MarketPcs \cap FilesPcs = {}
BY DEF CommunityPcs, OrbitPcs, StoriesPcs, MarketPcs, FilesPcs

Inv == SocialInv /\ CommunityInv /\ OrbitInv /\ StoriesInv /\ MarketInv /\ FilesInv

LEMMA SocialBeginning == Init => Inv
<1>. SUFFICES ASSUME Init PROVE Inv
  OBVIOUS
<1>1. SocialInit /\ CommunityInit /\ OrbitInit /\ StoriesInit /\ MarketInit /\ FilesInit
  BY DEF Init
<1>2. SocialInv
  <2>1. /\ req = [s \in Slots |-> Idle] /\ scene \in Scenes /\ begun = 0 /\ restarts = 0
        /\ overlapped = FALSE
    BY <1>1 DEF SocialInit
  <2>2. 0 \in 0..scene.limit /\ 0 \in 0..scene.restarts
    BY <2>1, SocialAssumption
  <2>3. \A s \in Slots : HandlerTyped(req[s]) /\ req[s].pc = "idle"
    BY <2>1, IdleTyped
  <2>. QED
    BY <2>1, <2>2, <2>3 DEF SocialInv, Alone, InProgress
<1>. QED
  BY <1>1, <1>2, InitKeeps, OrbitBeginning, StoriesBeginning, MarketBeginning, FilesBeginning DEF Inv

LEMMA SocialRestarts ==
  ASSUME SocialInv, Crash
  PROVE  SocialInv'
<1>1. /\ req' = [s \in Slots |-> Idle] /\ restarts < scene.restarts /\ restarts' = restarts + 1
      /\ overlapped' = overlapped /\ scene' = scene /\ begun' = begun
  BY DEF Crash, Restart
<1>2. restarts' \in 0..scene.restarts
  BY <1>1, SocialAssumption DEF SocialInv
<1>3. \A s \in Slots : HandlerTyped(req[s])' /\ req'[s].pc = "idle"
  BY <1>1, IdleTyped DEF HandlerTyped
<1>. QED
  BY <1>1, <1>2, <1>3 DEF SocialInv, Alone, InProgress

LEMMA SocialKeeps ==
  ASSUME Inv, Next
  PROVE  Inv'
<1>0. SocialInv /\ CommunityInv /\ OrbitInv /\ StoriesInv /\ MarketInv /\ FilesInv
  BY DEF Inv
<1>1. CASE CommunityStep /\ UNCHANGED <<orbitVars, storiesVars, marketVars, filesVars>>
  <2>1. SocialInv' /\ Touches(CommunityPcs) /\ CommunityInv'
    BY <1>0, <1>1, CommunityMoves
  <2>2. Spares(OrbitPcs) /\ Spares(StoriesPcs) /\ Spares(MarketPcs) /\ Spares(FilesPcs)
    BY <2>1, PcsApart, TouchesSpares
  <2>. QED
    BY <1>0, <1>1, <2>1, <2>2, OrbitRests, StoriesRests, MarketRests, FilesRests DEF Inv
<1>2. CASE OrbitNext /\ UNCHANGED <<communityVars, storiesVars, marketVars, filesVars>>
  <2>1. SocialInv' /\ Touches(OrbitPcs) /\ OrbitInv'
    BY <1>0, <1>2, OrbitMoves
  <2>2. Spares(CommunityPcs) /\ Spares(StoriesPcs) /\ Spares(MarketPcs) /\ Spares(FilesPcs)
    BY <2>1, PcsApart, TouchesSpares
  <2>. QED
    BY <1>0, <1>2, <2>1, <2>2, CommunityRests, StoriesRests, MarketRests, FilesRests DEF Inv
<1>3. CASE StoriesNext /\ UNCHANGED <<communityVars, orbitVars, marketVars, filesVars>>
  <2>1. SocialInv' /\ Touches(StoriesPcs) /\ StoriesInv'
    BY <1>0, <1>3, StoriesMoves
  <2>2. Spares(CommunityPcs) /\ Spares(OrbitPcs) /\ Spares(MarketPcs) /\ Spares(FilesPcs)
    BY <2>1, PcsApart, TouchesSpares
  <2>. QED
    BY <1>0, <1>3, <2>1, <2>2, CommunityRests, OrbitRests, MarketRests, FilesRests DEF Inv
<1>4. CASE MarketNext /\ UNCHANGED <<communityVars, orbitVars, storiesVars, filesVars>>
  <2>1. SocialInv' /\ Touches(MarketPcs) /\ MarketInv'
    BY <1>0, <1>4, MarketMoves
  <2>2. Spares(CommunityPcs) /\ Spares(OrbitPcs) /\ Spares(StoriesPcs) /\ Spares(FilesPcs)
    BY <2>1, PcsApart, TouchesSpares
  <2>. QED
    BY <1>0, <1>4, <2>1, <2>2, CommunityRests, OrbitRests, StoriesRests, FilesRests DEF Inv
<1>5. CASE FilesNext /\ UNCHANGED <<communityVars, orbitVars, storiesVars, marketVars>>
  <2>1. SocialInv' /\ Touches(FilesPcs) /\ FilesInv'
    BY <1>0, <1>5, FilesMoves
  <2>2. Spares(CommunityPcs) /\ Spares(OrbitPcs) /\ Spares(StoriesPcs) /\ Spares(MarketPcs)
    BY <2>1, PcsApart, TouchesSpares
  <2>. QED
    BY <1>0, <1>5, <2>1, <2>2, CommunityRests, OrbitRests, StoriesRests, MarketRests DEF Inv
<1>6. CASE Crash
  <2>1. Restart /\ UNCHANGED communityVars
    BY <1>6 DEF Crash
  <2>. QED
    BY <1>0, <1>6, <2>1, SocialRestarts, RestartKeeps, OrbitRestarts, StoriesRestarts, MarketRestarts,
       FilesRestarts DEF Inv
<1>. QED
  BY <1>1, <1>2, <1>3, <1>4, <1>5, <1>6 DEF Next

LEMMA SocialStutters ==
  ASSUME Inv, UNCHANGED vars
  PROVE  Inv'
<1>1. /\ UNCHANGED social /\ UNCHANGED communityVars /\ UNCHANGED orbitVars
      /\ UNCHANGED storiesVars /\ UNCHANGED marketVars /\ UNCHANGED filesVars
  BY DEF vars
<1>2. SocialInv' /\ Goes /\ req' = req
  BY <1>1, SameStep DEF Inv
<1>3. \A pcs : Spares(pcs)
  BY <1>2 DEF Spares
<1>. QED
  BY <1>1, <1>2, <1>3, CommunityRests, OrbitRests, StoriesRests, MarketRests, FilesRests DEF Inv

LEMMA SocialInvariant == Spec => []Inv
<1>1. Init => Inv
  BY SocialBeginning
<1>2. Inv /\ [Next]_vars => Inv'
  BY SocialKeeps, SocialStutters
<1>. QED
  BY <1>1, <1>2, PTL DEF Spec

\* Every document and every handler has its fields, of their types, and a document
\* names others that there are (the handlers of all five services).
THEOREM SocialTypeOK == Spec => []TypeOK
<1>1. Inv => TypeOK
  <2>. SUFFICES ASSUME Inv PROVE TypeOK
    OBVIOUS
  <2>1. /\ scene \in Scenes /\ begun \in 0..scene.limit /\ restarts \in 0..scene.restarts
        /\ overlapped \in BOOLEAN
        /\ \A s \in Slots : req[s].user \in Users \cup {NoUser} /\ req[s].other \in Users \cup {NoUser}
                            /\ req[s].id \in Nat /\ req[s].number \in Nat /\ req[s].flag \in BOOLEAN
    BY DEF Inv, SocialInv, HandlerTyped
  <2>2. /\ doubled \in BOOLEAN /\ exceeded \in BOOLEAN
        /\ dropped \subseteq 0..(community.seats - 1)
        /\ community.members \subseteq
             [id : 0..(community.seats - 1), user : Users, role : Roles, status : Statuses]
        /\ \A m, n \in community.members : m.id = n.id => m = n
        /\ community.version \in Nat /\ community.maxMembers \in Limits \cup {0}
        /\ community.groups \subseteq Groups
    <3>1. /\ community \in Documents /\ Sound(community.members) /\ DroppedFits
          /\ doubled \in BOOLEAN /\ exceeded \in BOOLEAN
      BY DEF Inv, CommunityInv, CommunityTyped
    <3>2. community.seats \in Nat
      BY <3>1 DEF Documents
    <3>3. \A i \in Nat : i < community.seats => i \in 0..(community.seats - 1)
      BY <3>2
    <3>4. dropped \subseteq 0..(community.seats - 1)
      BY <3>1, <3>3 DEF DroppedFits
    <3>5. \A m \in community.members : m \in Entries /\ m.id \in 0..(community.seats - 1)
      BY <3>1, <3>3 DEF Sound, Entries
    <3>6. community.members \subseteq
            [id : 0..(community.seats - 1), user : Users, role : Roles, status : Statuses]
      BY <3>5 DEF Entries
    <3>. QED
      BY <3>1, <3>4, <3>6 DEF Documents, Sound, Distinct
  <2>3. /\ channel \in [ChannelIds ->
                          [ownerId : Users \cup {NoUser}, edited : BOOLEAN, image : BOOLEAN]]
        /\ member \cup listening \subseteq ChannelIds \X Users
        /\ message \in [BroadcastIds -> [channelId : {0} \cup ChannelIds,
                                         senderId : Users \cup {NoUser}]]
    BY DEF Inv, OrbitInv, OrbitTyped
  <2>4. /\ story \in [StoryIds -> [here : BOOLEAN, userId : Users \cup {NoUser},
                                   views : SUBSET Users, somePeople : SUBSET Users,
                                   expired : BOOLEAN]]
        /\ attachment \in [StoryIds -> [here : BOOLEAN, likes : SUBSET Users, reply : Nat]]
        /\ memory \in [StoryIds -> [Users -> Nat]] /\ told \in [StoryIds -> [Users -> Nat]]
    BY DEF Inv, StoriesInv, StoriesTyped
  <2>5. /\ listing \in [status : ListingStatus, hide : BOOLEAN, isExpired : BOOLEAN,
                        due : BOOLEAN, edited : BOOLEAN]
        /\ engagement \in [Users -> [here : BOOLEAN, isLiked : BOOLEAN, contacted : BOOLEAN]]
        /\ review \in [Users -> Ratings \cup {0}] /\ application \in [Users -> Nat]
        /\ profile.licence \in {"none", "pending", "approved"} /\ reports \in Nat
    BY DEF Inv, MarketInv, MarketTyped
  <2>6. /\ record \in [RecordIds -> [here : BOOLEAN, sId : Users \cup {NoUser}, direct : BOOLEAN,
                                     url : 0..MaxFiles, thumb : BOOLEAN, fileSize : Sizes \cup {0},
                                     attached : BOOLEAN, dltAt : BOOLEAN]]
        /\ disk \cup refused \subseteq 1..keys /\ keys <= MaxFiles
    <3>1. keys <= MaxFiles
      BY FilesNumbers DEF Inv
    <3>. QED
      BY <3>1 DEF Inv, FilesInv, FilesTyped, Records
  <2>. QED
    BY <2>1, <2>2, <2>3, <2>4, <2>5, <2>6 DEF TypeOK
<1>. QED
  BY <1>1, SocialInvariant, PTL

\* The theorem about communities holds among the other services: none of their
\* handlers touches the document, or a handler that is about to save it.
THEOREM SocialMembersStay == Spec => []MembersStay
<1>1. Inv => MembersStay
  BY DEF Inv, CommunityInv
<1>. QED
  BY <1>1, SocialInvariant, PTL

\* However many stories and channels there are and whatever overlaps: the audience
\* of a story is right when it is inserted and stays so, a broadcast is its owner's
\* also in a channel that is deleted meanwhile, and what a handler of a deletion or
\* a creation still has to do is all there is to do (createStory, deleteChannel).
THEOREM SocialPosts == Spec => []PostsAreWhole
<1>1. Inv => PostsAreWhole
  <2>. SUFFICES ASSUME Inv PROVE PostsAreWhole
    OBVIOUS
  <2>1. OrbitInv /\ StoriesInv
    BY DEF Inv
  <2>2. Undisturbed => InOrder /\ restarts = 0 /\ \A s \in Slots : req[s].pc = "idle"
    BY DEF Undisturbed, InOrder, Quiet, InProgress
  <2>3. Undisturbed => /\ \A t : ~Attaching(t)
                       /\ \A c : ~Leaving(c) /\ ~Fading(c)
    BY <2>2 DEF Attaching, Leaving, Fading
  <2>4. Undisturbed => \A t \in StoryIds : story[t].here => attachment[t].here
    BY <2>1, <2>2, <2>3 DEF StoriesInv, AttachmentThere
  <2>5. Undisturbed =>
          /\ \A c \in {m[1] : m \in member} : ChannelHere(c)
          /\ \A m \in BroadcastIds : message[m] # NoBroadcast => ChannelHere(message[m].channelId)
    BY <2>1, <2>2, <2>3 DEF OrbitInv, NothingLeft
  <2>. QED
    BY <2>1, <2>4, <2>5 DEF PostsAreWhole, OrbitInv, ByTheOwner, StoriesInv, AudienceRight
<1>. QED
  BY <1>1, SocialInvariant, PTL

\* For any ratings, users and number of requests: handlers that do not overlap count
\* every opening, rating and application once, and nobody but the seller who publishes
\* or hides parts the mark of an expired listing from its status (JobsService, the
\* services of listings, reviews and profiles).
THEOREM SocialMarket == Spec => []MarketAgrees
<1>1. Inv => MarketAgrees
  <2>. SUFFICES ASSUME Inv, Undisturbed
                PROVE  /\ views = opened
                       /\ profile.average \in {<<0, 0>>, Average}
                       /\ \A u \in Users : application[u] <= 1
                       /\ Posted /\ scene.menu \cap {"publish", "hide"} = {} =>
                            (listing.isExpired <=> listing.status = "expired")
    BY DEF MarketAgrees
  <2>1. MarketTyped /\ CountedRight /\ ExpiredRight
    BY DEF Inv, MarketInv
  <2>2. InOrder /\ ~overlapped /\ \A s \in Slots : req[s].pc = "idle"
    BY DEF Undisturbed, InOrder, Quiet, InProgress
  <2>3. ~Rating /\ \A o : ~Opening(o)
    BY <2>2 DEF Rating, Opening
  <2>4. views = opened
    <3>1. views \in [Opened -> Nat] /\ opened \in [Opened -> Nat]
      BY <2>1 DEF MarketTyped
    <3>2. \A o \in Opened : opened[o] = views[o]
      BY <2>1, <2>2, <2>3 DEF CountedRight
    <3>. QED
      BY <3>1, <3>2
  <2>. QED
    BY <2>1, <2>2, <2>3, <2>4 DEF CountedRight, ExpiredRight
<1>. QED
  BY <1>1, SocialInvariant, PTL

\* For any number and sizes of files: a key that is to be put names no message yet,
\* so who is told that a file is gone is told right, nobody uploads more than the
\* limit, and a deletion takes no file of another message (UserFilesService).
THEOREM SocialFiles == Spec => []FilesAgree
<1>1. Inv => FilesAgree
  <2>. SUFFICES ASSUME Inv PROVE FilesAgree
    OBVIOUS
  <2>1. /\ FilesTyped /\ ToldRight /\ Within /\ Kept
        /\ record \in [RecordIds -> Records]
    BY DEF Inv, FilesInv, FilesTyped
  <2>2. ASSUME ~overlapped, NEW u \in Users
        PROVE  LET Size(m) == record[m].fileSize
               IN MapThenSumSet(Size, {m \in RecordIds : record[m].direct /\ Counts(m, u)})
                    <= MaxStorage
    BY <2>1, <2>2, DirectSum DEF Within
  <2>3. ASSUME Undisturbed
        PROVE  /\ disk \subseteq refused
                            \cup UNION {FilesOf(m) : m \in {n \in RecordIds : record[n].here}}
               /\ \A m \in RecordIds :
                    HereWithFile(m) =>
                      \/ FilesOf(m) \subseteq disk
                      \/ \E n \in RecordIds : /\ ~record[n].here /\ record[n].direct
                                              /\ record[n].url = record[m].url
               /\ \A u \in Users : UserFiles(u) = {m \in RecordIds : record[m].direct /\ Counts(m, u)}
    <3>1. InOrder /\ \A s \in Slots : req[s].pc = "idle"
      BY <2>3 DEF Undisturbed, InOrder, Quiet, InProgress
    <3>2. (\A k : ~ \E t \in Slots : Put(t, k)) /\ (\A m : ~Deleting(m))
      BY <3>1, NobodyNow
    <3>3. OfSomeone /\ HasFiles /\ DirectHas
      BY <2>1, <3>1 DEF Kept
    <3>4. disk \subseteq refused \cup UNION {FilesOf(m) : m \in {n \in RecordIds : record[n].here}}
      BY <3>2, <3>3 DEF OfSomeone
    <3>5. \A m \in RecordIds :
            HereWithFile(m) => \/ FilesOf(m) \subseteq disk
                               \/ \E n \in RecordIds : /\ ~record[n].here /\ record[n].direct
                                                       /\ record[n].url = record[m].url
      BY <3>2, <3>3 DEF HasFiles, LostFile
    <3>6. \A u \in Users : UserFiles(u) = {m \in RecordIds : record[m].direct /\ Counts(m, u)}
      BY <3>2, <3>3 DEF UserFiles, DirectHas, Counts
    <3>. QED
      BY <3>4, <3>5, <3>6
  <2>. QED
    BY <2>1, <2>2, <2>3 DEF FilesAgree, ToldRight
<1>. QED
  BY <1>1, SocialInvariant, PTL
=============================================================================
