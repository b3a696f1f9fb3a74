------------------------------ MODULE ChatProofs ------------------------------
(***************************************************************************)
(* Theorems about the chat, for any number of users, rooms, messages and   *)
(* handlers in progress, and for any scene.  ChatInvariants has the        *)
(* definitions they are about.                                             *)
(***************************************************************************)
EXTENDS ChatInvariants, FiniteSetTheorems, TLAPS

-----------------------------------------------------------------------------
(* Documents and handlers as they are made *)

LEMMA Members0 ==
  /\ NoMember \in MemberDocs /\ NoMember.rT = "none" /\ NoMember.lSM = 0
  /\ NoMember.isD = FALSE /\ NoMember.t = "old" /\ NoMember.img = "old"
BY DEF NoMember, MemberDocs, RoomTypes, Flags, Names

LEMMA MemberType ==
  ASSUME NEW rT \in RoomTypes \cup {"none"}, Len(message) \in Nat
  PROVE  /\ Member(rT) \in MemberDocs /\ Member(rT).rT = rT
         /\ Member(rT).lSM = Len(message) /\ Member(rT).isD = FALSE
         /\ Member(rT).t = "old" /\ Member(rT).img = "old"
<1> DEFINE x == NoMember
<1>1. x \in MemberDocs /\ x.isD = FALSE /\ x.t = "old" /\ x.img = "old"
  BY Members0
<1> HIDE DEF x
<1> DEFINE y == [x EXCEPT !.rT = rT, !.lSM = Len(message)]
<1>2. /\ y \in MemberDocs /\ y.rT = rT /\ y.lSM = Len(message) /\ y.isD = FALSE
      /\ y.t = "old" /\ y.img = "old"
  BY <1>1 DEF MemberDocs
<1> QED BY <1>2 DEF Member, x

LEMMA Settings0 ==
  /\ NoSetting \in SettingDocs /\ NoSetting.rT = "none"
  /\ NoSetting.t = "old" /\ NoSetting.img = "old"
BY DEF NoSetting, SettingDocs, RoomTypes, Names

LEMMA SettingType ==
  ASSUME NEW rT \in RoomTypes, NEW c \in Users, NEW p \in Users \cup {NoUser}
  PROVE  /\ Setting(rT, c, p) \in SettingDocs
         /\ Setting(rT, c, p).rT = rT /\ Setting(rT, c, p).cId = c /\ Setting(rT, c, p).pId = p
         /\ Setting(rT, c, p).t = "old" /\ Setting(rT, c, p).img = "old"
<1> DEFINE x == NoSetting
<1>1. x \in SettingDocs /\ x.t = "old" /\ x.img = "old"
  BY Settings0
<1> HIDE DEF x
<1> DEFINE y == [x EXCEPT !.rT = rT, !.cId = c, !.pId = p]
<1>2. y \in SettingDocs /\ y.rT = rT /\ y.cId = c /\ y.pId = p /\ y.t = "old" /\ y.img = "old"
  BY <1>1 DEF SettingDocs
<1> QED BY <1>2 DEF Setting, x

LEMMA IdleType ==
  /\ Idle \in Handlers /\ Idle.pc = "idle" /\ Idle.next = "idle" /\ Idle.after = "idle"
  /\ Idle.user = NoUser /\ Idle.room = NoRoom /\ Idle.at = NoRoom /\ Idle.peer = NoUser
  /\ Idle.todo = {} /\ Idle.list = {} /\ Idle.lId = NoId /\ Idle.msg = 0
<1>1. "idle" \in PCs
  BY DEF PCs
<1>2. {} \in Todos /\ {} \in Lists
  BY DEF Todos, Lists
<1>3. NoMember \in MemberDocs
  BY Members0
<1>4. Idle \in Handlers
  <2> DEFINE x == NoMember
             e == {}
  <2>1. x \in MemberDocs /\ e \in Todos /\ e \in Lists
    BY <1>2, <1>3
  <2> HIDE DEF x, e
  <2> DEFINE i == [pc |-> "idle", user |-> NoUser, peer |-> NoUser, room |-> NoRoom,
                   at |-> NoRoom, lId |-> NoId, msg |-> 0, todo |-> e, list |-> e, seen |-> x,
                   next |-> "idle", after |-> "idle"]
  <2>2. i \in Handlers
    BY <1>1, <2>1 DEF Handlers, Nexts
  <2> QED BY <2>2 DEF Idle, e, x
<1> QED BY <1>4 DEF Idle

LEMMA IdleOK ==
  ASSUME NEW log
  PROVE  HandlerOK(Idle, log)
<1> DEFINE h == Idle
<1>1. h.pc = "idle"
  BY IdleType
<1> HIDE DEF h
<1>2. HandlerOK(h, log)
  BY <1>1 DEF HandlerOK, Requesting, Broadcasting, RoomPcs, PeerPcs, AtPcs, NewPcs, BanPcs,
     ConnectPcs, GroupPcs, AddPcs, KickPcs, LeavePcs, DeletePcs, RenamePcs, BroadcastPcs, SendPcs,
     EnterPcs
<1> QED BY <1>2 DEF h

LEMMA CallType ==
  ASSUME NEW pc \in PCs, NEW u \in Users \cup {NoUser}, NEW r \in Rooms \cup {NoRoom}
  PROVE  Called(Call(pc, u, r), pc, u, r)
<1> DEFINE i == Idle
<1>1. /\ i \in Handlers /\ i.next = "idle" /\ i.after = "idle" /\ i.at = NoRoom
      /\ i.peer = NoUser /\ i.todo = {} /\ i.list = {} /\ i.lId = NoId /\ i.msg = 0
  BY IdleType
<1> HIDE DEF i
<1>2. LET h == [i EXCEPT !.pc = pc, !.user = u, !.room = r] IN Called(h, pc, u, r)
  BY <1>1 DEF Handlers, Called
<1> QED BY <1>2 DEF Call, i

\* Replacing the record of handler s.
LEMMA PutFields ==
  ASSUME req \in [Slots -> Handlers], NEW s \in Slots, NEW h \in Handlers,
         req' = [req EXCEPT ![s] = h]
  PROVE  /\ req' \in [Slots -> Handlers]
         /\ req'[s] = h /\ \A t \in Slots \ {s} : req'[t] = req[t]
OBVIOUS

-----------------------------------------------------------------------------
(* How a handler goes on *)

LEMMA GoesType ==
  ASSUME NEW h \in Handlers, NEW pc \in PCs
  PROVE  LET n == [h EXCEPT !.pc = pc] IN n \in Handlers /\ n.pc = pc /\ Kept(h, n)
BY DEF Handlers, Kept

LEMMA FlowOK ==
  ASSUME NEW old, NEW log, Len(old) \in Nat, Len(log) \in Nat, Len(old) <= Len(log),
         NEW h, NEW n, HandlerOK(h, old), Kept(h, n), Flow(h, n.pc)
  PROVE  HandlerOK(n, log) /\ h.pc # "idle" /\ n.pc \in PCs
<1> USE DEF Kept, HandlerOK, Requesting, Broadcasting, PCs, RoomPcs, PeerPcs, AtPcs, NewPcs,
        BanPcs, ConnectPcs, GroupPcs, AddPcs, KickPcs, LeavePcs, DeletePcs, RenamePcs,
        BroadcastPcs, SendPcs, EnterPcs
<1>1. CASE RoomsFlow(h, n.pc)
  BY <1>1 DEF RoomsFlow
<1>2. CASE GroupFlow(h, n.pc)
  BY <1>2 DEF GroupFlow
<1>3. CASE LeaveFlow(h, n.pc)
  BY <1>3 DEF LeaveFlow
<1>4. CASE BroadcastFlow(h, n.pc)
  BY <1>4 DEF BroadcastFlow
<1>5. CASE MessageFlow(h, n.pc)
  BY <1>5 DEF MessageFlow
<1> QED BY <1>1, <1>2, <1>3, <1>4, <1>5 DEF Flow

-----------------------------------------------------------------------------
(* What a step does to the messages *)

LEMMA SameVersion ==
  ASSUME NEW m \in MessageDocs
  PROVE  Version(m, m)
BY DEF Version

LEMMA SameMessages ==
  ASSUME Inv1, UNCHANGED message
  PROVE  Grows
<1>1. message \in Seq(MessageDocs)
  BY DEF Inv1, Typed
<1>2. \A i \in 1..Len(message) : message[i] \in MessageDocs
  BY <1>1
<1>3. Added = {}
  BY <1>1 DEF Added
<1> QED BY <1>1, <1>2, <1>3, SameVersion DEF Grows

LEMMA OneMore ==
  ASSUME Inv1, NEW m \in MessageDocs, m.votes = {}, m.lId # NoId => ~Taken(m.lId),
         message' = Append(message, m)
  PROVE  Grows /\ Len(message') = Len(message) + 1
         /\ message'[Len(message) + 1] = m
         /\ \A i \in 1..Len(message) : message'[i] = message[i]
<1>1. message \in Seq(MessageDocs) /\ Len(message) \in Nat
  BY DEF Inv1, Typed
<1>2. \A i \in 1..Len(message) : message[i] \in MessageDocs
  BY <1>1
<1>3. /\ message' \in Seq(MessageDocs) /\ Len(message') = Len(message) + 1
      /\ message'[Len(message) + 1] = m
      /\ \A i \in 1..Len(message) : message'[i] = message[i]
  BY <1>1
<1>4. Added = {Len(message) + 1}
  BY <1>1, <1>3 DEF Added
<1>5. \A i \in 1..Len(message) : Version(message[i], message'[i])
  BY <1>2, <1>3, SameVersion
<1>6. NoId \notin LocalIds
  BY ChatAssumption
<1> QED BY <1>1, <1>3, <1>4, <1>5, <1>6 DEF Grows

LEMMA Rewritten ==
  ASSUME Inv1, message' = [i \in DOMAIN message |-> message'[i]],
         \A i \in DOMAIN message : Version(message[i], message'[i])
  PROVE  Grows /\ Len(message') = Len(message)
<1>1. message \in Seq(MessageDocs) /\ Len(message) \in Nat /\ DOMAIN message = 1..Len(message)
  BY DEF Inv1, Typed
<1> DEFINE f == message'
           n == Len(message)
<1>2. f = [i \in 1..n |-> f[i]] /\ \A i \in 1..n : f[i] \in MessageDocs
  BY <1>1 DEF Version
<1>3. n \in Nat
  BY <1>1
<1> HIDE DEF f, n
<1>4. f \in [1..n -> MessageDocs]
  BY <1>2
<1>5. f \in Seq(MessageDocs) /\ Len(f) = n
  BY <1>3, <1>4
<1>6. Added = {}
  BY <1>5, <1>3 DEF Added, n, f
<1> QED BY <1>1, <1>5, <1>6 DEF Grows, f, n

LEMMA OneChanged ==
  ASSUME Inv1, NEW i \in 1..Len(message), NEW n, Version(message[i], n),
         message' = [message EXCEPT ![i] = n]
  PROVE  /\ Grows /\ Len(message') = Len(message) /\ message'[i] = n
         /\ \A j \in 1..Len(message) \ {i} : message'[j] = message[j]
<1>1. message \in Seq(MessageDocs) /\ Len(message) \in Nat /\ DOMAIN message = 1..Len(message)
  BY DEF Inv1, Typed
<1>2. \A j \in 1..Len(message) : message[j] \in MessageDocs
  BY <1>1
<1>3. /\ message' = [j \in DOMAIN message |-> message'[j]]
      /\ message'[i] = n
      /\ \A j \in 1..Len(message) \ {i} : message'[j] = message[j]
  BY <1>1
<1>4. \A j \in DOMAIN message : Version(message[j], message'[j])
  BY <1>1, <1>2, <1>3, SameVersion
<1> QED BY <1>3, <1>4, Rewritten

LEMMA StillOK ==
  ASSUME Grows, NEW h, HandlerOK(h, message)
  PROVE  HandlerOK(h, message')
<1>1. Len(message) \in Nat /\ Len(message') \in Nat /\ Len(message) <= Len(message')
  BY DEF Grows
<1>2. \A i \in 1..Len(message) : "created" \in message[i].tags => "created" \in message'[i].tags
  BY DEF Grows, Version
<1> QED BY <1>1, <1>2 DEF HandlerOK

LEMMA OthersOK ==
  ASSUME Inv1, NEW s \in Slots, Rest(s), Grows, HandlerOK(req'[s], message')
  PROVE  Handling'
<1>1. ASSUME NEW t \in Slots \ {s}
      PROVE  HandlerOK(req'[t], message')
  <2> DEFINE h == req[t]
  <2>1. HandlerOK(h, message) /\ req'[t] = h
    BY DEF Inv1, Handling, Rest
  <2> HIDE DEF h
  <2>2. HandlerOK(h, message')
    BY <2>1, StillOK
  <2> QED BY <2>1, <2>2
<1> QED BY <1>1 DEF Handling, Rest

-----------------------------------------------------------------------------
(* Messages as they are made and changed *)

LEMMA MessageType ==
  ASSUME NEW r \in Rooms, NEW u \in Users, NEW l \in LocalIds \cup {NoId}, NEW tags \in SUBSET Tags
  PROVE  LET m == Message(r, u, l, tags)
         IN /\ m \in MessageDocs /\ m.rId = r /\ m.sId = u /\ m.lId = l /\ m.tags = tags
            /\ m.votes = {} /\ m.dF = {} /\ m.status = [v \in Users |-> "none"]
<1>1. [v \in Users |-> "none"] \in Reactions /\ [v \in Users |-> "none"] \in [Users -> Statuses]
  BY DEF Reactions, Statuses
<1> QED BY <1>1 DEF Message, MessageDocs

LEMMA InfoType ==
  ASSUME NEW r \in Rooms, NEW u \in Users
  PROVE  LET m == Info(r, u)
         IN /\ m \in MessageDocs /\ m.rId = r /\ m.sId = u /\ m.lId = NoId /\ m.tags = {"info"}
            /\ m.votes = {} /\ m.dF = {} /\ m.status = [v \in Users |-> "none"]
<1>1. {"info"} \in SUBSET Tags
  BY DEF Tags
<1> QED BY <1>1, MessageType DEF Info

LEMMA ForGroupType ==
  ASSUME NEW m \in MessageDocs
  PROVE  LET n == ForGroup(m)
         IN /\ n \in MessageDocs /\ n.rId = m.rId /\ n.sId = m.sId /\ n.lId = m.lId
            /\ n.tags = m.tags \cup {"created"} /\ n.votes = m.votes /\ n.dF = m.dF
            /\ n.status = [v \in Users |-> IF InGroup(m.rId, v) THEN "sent" ELSE "none"]
<1> DEFINE f == [v \in Users |-> IF InGroup(m.rId, v) THEN "sent" ELSE "none"]
<1>1. f \in [Users -> Statuses]
  BY DEF Statuses
<1>2. "created" \in Tags
  BY DEF Tags
<1> HIDE DEF f
<1> DEFINE n == [m EXCEPT !.tags = @ \cup {"created"}, !.status = f]
<1>3. /\ n \in MessageDocs /\ n.rId = m.rId /\ n.sId = m.sId /\ n.lId = m.lId
      /\ n.tags = m.tags \cup {"created"} /\ n.votes = m.votes /\ n.dF = m.dF /\ n.status = f
  BY <1>1, <1>2 DEF MessageDocs
<1> QED BY <1>3 DEF ForGroup, f

LEMMA TagsVersion ==
  ASSUME NEW m \in MessageDocs, NEW tags \in SUBSET Tags,
         m.tags \ {"isPinned"} \subseteq tags, tags \cap {"created"} \subseteq m.tags
  PROVE  LET n == [m EXCEPT !.tags = tags]
         IN Version(m, n) /\ n.tags = tags /\ SameButTags(m, n)
<1> DEFINE n == [m EXCEPT !.tags = tags]
<1>1. SameButTags(m, n) /\ n.tags = tags
  BY DEF MessageDocs, SameButTags
<1> HIDE DEF n
<1>2. Version(m, n)
  BY <1>1 DEF Version, SameButTags
<1> QED BY <1>1, <1>2 DEF n

LEMMA HiddenVersion ==
  ASSUME NEW m \in MessageDocs, NEW u \in Users
  PROVE  LET n == [m EXCEPT !.dF = @ \cup {u}]
         IN /\ Version(m, n) /\ n.dF = m.dF \cup {u} /\ n.tags = m.tags /\ n.status = m.status
<1> DEFINE n == [m EXCEPT !.dF = @ \cup {u}]
<1>1. /\ n \in MessageDocs /\ n.rId = m.rId /\ n.sId = m.sId /\ n.lId = m.lId
      /\ n.votes = m.votes /\ n.dF = m.dF \cup {u} /\ n.tags = m.tags /\ n.status = m.status
  BY DEF MessageDocs
<1> HIDE DEF n
<1>2. Version(m, n)
  BY <1>1 DEF Version
<1> QED BY <1>1, <1>2 DEF n

LEMMA StatusVersion ==
  ASSUME NEW m \in MessageDocs, NEW u \in Users, NEW x \in Statuses
  PROVE  LET n == [m EXCEPT !.status[u] = x]
         IN /\ Version(m, n) /\ n.tags = m.tags /\ n.dF = m.dF
            /\ n.status = [m.status EXCEPT ![u] = x]
<1> DEFINE f == [m.status EXCEPT ![u] = x]
<1>1. f \in [Users -> Statuses]
  BY DEF MessageDocs
<1> HIDE DEF f
<1> DEFINE n == [m EXCEPT !.status = f]
<1>2. /\ n \in MessageDocs /\ n.rId = m.rId /\ n.sId = m.sId /\ n.lId = m.lId
      /\ n.votes = m.votes /\ n.dF = m.dF /\ n.tags = m.tags /\ n.status = f
  BY <1>1 DEF MessageDocs
<1> HIDE DEF n
<1>3. Version(m, n)
  BY <1>2 DEF Version
<1> QED BY <1>2, <1>3 DEF n, f

LEMMA MarkVersions ==
  ASSUME NEW m \in MessageDocs
  PROVE  /\ \A us \in SUBSET Users : /\ SameButMarks(m, [m EXCEPT !.stars = us])
                                     /\ SameButMarks(m, [m EXCEPT !.oneSeenBy = us])
         /\ \A f \in Reactions : SameButMarks(m, [m EXCEPT !.reactions = f])
<1>1. ASSUME NEW us \in SUBSET Users
      PROVE  /\ SameButMarks(m, [m EXCEPT !.stars = us])
             /\ SameButMarks(m, [m EXCEPT !.oneSeenBy = us])
  BY DEF MessageDocs, SameButMarks, Version
<1>2. ASSUME NEW f \in Reactions
      PROVE  SameButMarks(m, [m EXCEPT !.reactions = f])
  BY DEF MessageDocs, SameButMarks, Version
<1> QED BY <1>1, <1>2

LEMMA VoteVersion ==
  ASSUME NEW m \in MessageDocs, NEW u \in Users, NEW o \in Options
  PROVE  SameButMarks(m, [m EXCEPT !.votes = {v \in @ : v[1] # u} \cup {<<u, o>>}])
<1> DEFINE votes == {v \in m.votes : v[1] # u} \cup {<<u, o>>}
           n == [m EXCEPT !.votes = votes]
<1>1. votes \in SUBSET (Users \X Options)
  BY DEF MessageDocs
<1>2. Once(m.votes) => Once(votes)
  BY DEF Once
<1> HIDE DEF votes
<1>3. /\ n \in MessageDocs /\ n.rId = m.rId /\ n.sId = m.sId /\ n.lId = m.lId
      /\ n.votes = votes /\ n.dF = m.dF /\ n.tags = m.tags /\ n.status = m.status
  BY <1>1 DEF MessageDocs
<1> HIDE DEF n
<1>4. SameButMarks(m, n)
  BY <1>2, <1>3 DEF SameButMarks, Version
<1> QED BY <1>4 DEF n, votes

-----------------------------------------------------------------------------
(* Updates of many messages *)

LEMMA MessageDoc ==
  ASSUME Inv1
  PROVE  /\ message \in Seq(MessageDocs) /\ Len(message) \in Nat
         /\ DOMAIN message = 1..Len(message)
         /\ \A i \in 1..Len(message) : message[i] \in MessageDocs
<1>1. message \in Seq(MessageDocs)
  BY DEF Inv1, Typed
<1> QED BY <1>1

LEMMA HideAllGrows ==
  ASSUME Inv1, NEW r, NEW u \in Users, message' = HideAll(r, u)
  PROVE  /\ Grows /\ Len(message') = Len(message)
         /\ \A i \in 1..Len(message) :
              /\ message'[i].tags = message[i].tags /\ message'[i].status = message[i].status
              /\ i \in InRoom(r) => u \in message'[i].dF
<1> DEFINE H(m) == [m EXCEPT !.dF = @ \cup {u}]
<1>1. message' = [i \in DOMAIN message |-> IF i \in InRoom(r) THEN H(message[i]) ELSE message[i]]
  BY DEF HideAll, UpdateMessages
<1>2. \A m \in MessageDocs : /\ Version(m, H(m)) /\ H(m).dF = m.dF \cup {u}
                             /\ H(m).tags = m.tags /\ H(m).status = m.status
  BY HiddenVersion
<1> HIDE DEF H
<1>3. \A i \in DOMAIN message :
        /\ message'[i] = IF i \in InRoom(r) THEN H(message[i]) ELSE message[i]
        /\ message[i] \in MessageDocs
  BY <1>1, MessageDoc
<1>4. \A i \in DOMAIN message : Version(message[i], message'[i])
  BY <1>2, <1>3, SameVersion
<1>5. Grows /\ Len(message') = Len(message)
  BY <1>1, <1>4, Rewritten
<1> QED BY <1>2, <1>3, <1>5, MessageDoc

LEMMA TaggedGrows ==
  ASSUME Inv1, NEW ids, NEW tag \in Tags \ {"created"}, message' = Tagged(ids, tag)
  PROVE  /\ Grows /\ Len(message') = Len(message)
         /\ \A i \in 1..Len(message) :
              /\ message'[i].tags = IF i \in ids THEN message[i].tags \cup {tag}
                                    ELSE message[i].tags
              /\ message'[i].dF = message[i].dF /\ message'[i].status = message[i].status
<1> DEFINE H(m) == [m EXCEPT !.tags = @ \cup {tag}]
<1>1. message' = [i \in DOMAIN message |-> IF i \in ids THEN H(message[i]) ELSE message[i]]
  BY DEF Tagged, UpdateMessages
<1>2. ASSUME NEW m \in MessageDocs
      PROVE  /\ Version(m, H(m)) /\ H(m).tags = m.tags \cup {tag} /\ H(m).dF = m.dF
             /\ H(m).status = m.status
  <2>1. m.tags \cup {tag} \in SUBSET Tags
    BY DEF MessageDocs
  <2>2. LET n == [m EXCEPT !.tags = m.tags \cup {tag}]
        IN Version(m, n) /\ n.tags = m.tags \cup {tag} /\ SameButTags(m, n)
    BY <2>1, TagsVersion
  <2> QED BY <2>2 DEF SameButTags
<1> HIDE DEF H
<1>3. \A i \in DOMAIN message :
        /\ message'[i] = IF i \in ids THEN H(message[i]) ELSE message[i]
        /\ message[i] \in MessageDocs
  BY <1>1, MessageDoc
<1>4. \A i \in DOMAIN message : Version(message[i], message'[i])
  BY <1>2, <1>3, SameVersion
<1>5. Grows /\ Len(message') = Len(message)
  BY <1>1, <1>4, Rewritten
<1> QED BY <1>2, <1>3, <1>5, MessageDoc

LEMMA DeliverGroupGrows ==
  ASSUME Inv1, NEW r, NEW u \in Users, message' = DeliverGroup(r, u)
  PROVE  /\ Grows /\ Len(message') = Len(message)
         /\ \A i \in 1..Len(message) :
              /\ message'[i].tags = message[i].tags /\ message'[i].dF = message[i].dF
              /\ message'[i].status =
                   IF i \in InRoom(r)
                   THEN [message[i].status EXCEPT ![u] = ToDelivered(message[i].status[u])]
                   ELSE message[i].status
<1> DEFINE H(m) == [m EXCEPT !.status[u] = ToDelivered(m.status[u])]
<1>1. message' = [i \in DOMAIN message |-> IF i \in InRoom(r) THEN H(message[i]) ELSE message[i]]
  BY DEF DeliverGroup, UpdateMessages, ToDelivered
<1>2. ASSUME NEW m \in MessageDocs
      PROVE  /\ Version(m, H(m)) /\ H(m).tags = m.tags /\ H(m).dF = m.dF
             /\ H(m).status = [m.status EXCEPT ![u] = ToDelivered(m.status[u])]
  <2>1. ToDelivered(m.status[u]) \in Statuses
    BY DEF MessageDocs, ToDelivered, Statuses
  <2> QED BY <2>1, StatusVersion
<1> HIDE DEF H
<1>3. \A i \in DOMAIN message :
        /\ message'[i] = IF i \in InRoom(r) THEN H(message[i]) ELSE message[i]
        /\ message[i] \in MessageDocs
  BY <1>1, MessageDoc
<1>4. \A i \in DOMAIN message : Version(message[i], message'[i])
  BY <1>2, <1>3, SameVersion
<1>5. Grows /\ Len(message') = Len(message)
  BY <1>1, <1>4, Rewritten
<1> QED BY <1>2, <1>3, <1>5, MessageDoc

LEMMA DeliverSingleGrows ==
  ASSUME Inv1, NEW r, NEW u \in Users, message' = DeliverSingle(r, u)
  PROVE  /\ Grows /\ Len(message') = Len(message)
         /\ \A i \in 1..Len(message) :
              /\ message[i].tags \subseteq message'[i].tags
              /\ message'[i].tags \subseteq message[i].tags \cup {"dAt"}
              /\ message'[i].dF = message[i].dF /\ message'[i].status = message[i].status
<1> DEFINE H(m) == [m EXCEPT !.tags = @ \cup {"dAt"}]
<1>1. message' = [i \in DOMAIN message |->
                    IF i \in InRoom(r)
                    THEN IF message[i].sId # u THEN H(message[i]) ELSE message[i]
                    ELSE message[i]]
  BY DEF DeliverSingle, UpdateMessages
<1>2. ASSUME NEW m \in MessageDocs
      PROVE  /\ Version(m, H(m)) /\ H(m).tags = m.tags \cup {"dAt"} /\ H(m).dF = m.dF
             /\ H(m).status = m.status
  <2>1. m.tags \cup {"dAt"} \in SUBSET Tags
    BY DEF MessageDocs, Tags
  <2>2. LET n == [m EXCEPT !.tags = m.tags \cup {"dAt"}]
        IN Version(m, n) /\ n.tags = m.tags \cup {"dAt"} /\ SameButTags(m, n)
    BY <2>1, TagsVersion
  <2> QED BY <2>2 DEF SameButTags
<1> HIDE DEF H
<1>3. \A i \in DOMAIN message :
        /\ message'[i] = IF i \in InRoom(r)
                         THEN IF message[i].sId # u THEN H(message[i]) ELSE message[i]
                         ELSE message[i]
        /\ message[i] \in MessageDocs
  BY <1>1, MessageDoc
<1>4. \A i \in DOMAIN message : Version(message[i], message'[i])
  BY <1>2, <1>3, SameVersion
<1>5. Grows /\ Len(message') = Len(message)
  BY <1>1, <1>4, Rewritten
<1> QED BY <1>2, <1>3, <1>5, MessageDoc

LEMMA DeliverGrows ==
  ASSUME Inv1, NEW r, NEW u \in Users, message' = Deliver(r, u)
  PROVE  /\ Grows /\ Len(message') = Len(message)
         /\ \A i \in 1..Len(message) :
              /\ message[i].tags \subseteq message'[i].tags
              /\ message'[i].tags \subseteq message[i].tags \cup {"dAt"}
              /\ message'[i].dF = message[i].dF
              /\ \/ message'[i].status = message[i].status
                 \/ message'[i].status =
                      [message[i].status EXCEPT ![u] = ToDelivered(message[i].status[u])]
<1>1. \/ message' = DeliverGroup(r, u) \/ message' = DeliverSingle(r, u) \/ UNCHANGED message
  BY DEF Deliver
<1> QED BY <1>1, DeliverGroupGrows, DeliverSingleGrows, SameMessages

-----------------------------------------------------------------------------
(* What each step does to the messages *)

LEMMA HandlerOf ==
  ASSUME Inv1, NEW s \in Slots
  PROVE  req[s] \in Handlers /\ HandlerOK(req[s], message)
BY DEF Inv1, Handling

LEMMA UserOf ==
  ASSUME Inv1, NEW s \in Slots, req[s].pc # "idle"
  PROVE  req[s].user \in Users
BY HandlerOf DEF HandlerOK

LEMMA RoomOf ==
  ASSUME Inv1, NEW s \in Slots, req[s].pc \in RoomPcs
  PROVE  req[s].room \in Rooms
BY HandlerOf DEF HandlerOK

LEMMA WriterUser ==
  ASSUME Inv1, NEW s \in Slots, req[s].pc \in WriterPcs
  PROVE  /\ req[s].user \in Users
         /\ req[s].pc \notin {"connect_deliver", "react_save"} => req[s].room \in Rooms
<1>1. req[s].pc # "idle"
  BY DEF WriterPcs
<1>2. req[s].pc \notin {"connect_deliver", "react_save"} => req[s].pc \in RoomPcs
  BY DEF WriterPcs, RoomPcs, GroupPcs, DeletePcs, BroadcastPcs, SendPcs, EnterPcs
<1> QED BY <1>1, <1>2, UserOf, RoomOf

LEMMA InfoGrows ==
  ASSUME Inv1, NEW r \in Rooms, NEW u \in Users, message' = Append(message, Info(r, u))
  PROVE  Grows
BY InfoType, OneMore

LEMMA AnnounceGrows ==
  ASSUME Inv1, NEW r \in Rooms, NEW u \in Users, Announce(r, u)
  PROVE  Grows
<1> DEFINE x == Info(r, u)
           m == ForGroup(x)
<1>1. m \in MessageDocs /\ m.lId = NoId /\ m.votes = {}
  <2>1. x \in MessageDocs /\ x.lId = NoId /\ x.votes = {}
    BY InfoType
  <2> HIDE DEF x
  <2> QED BY <2>1, ForGroupType
<1>2. message' = Append(message, m) \/ UNCHANGED message
  BY DEF Announce
<1> HIDE DEF m
<1> QED BY <1>1, <1>2, OneMore, SameMessages

LEMMA RoomsGrow ==
  ASSUME Inv1, NEW s \in Slots, RoomsContinue(s)
  PROVE  Grows
<1> USE DEF At
<1>1. CASE HideRoom(s)
  <2>1. req[s].user \in Users /\ message' = HideAll(req[s].room, req[s].user)
    BY <1>1, WriterUser DEF HideRoom, WriterPcs
  <2> QED BY <2>1, HideAllGrows
<1>2. CASE RoomInfo(s)
  <2>1. /\ req[s].user \in Users /\ req[s].room \in Rooms
        /\ message' = Append(message, Info(req[s].room, req[s].user))
    BY <1>2, WriterUser DEF RoomInfo, WriterPcs
  <2> QED BY <2>1, InfoGrows
<1>3. CASE ConnectDeliver(s)
  <2>1. /\ req[s].user \in Users
        /\ UNCHANGED message \/ \E r : message' = Deliver(r, req[s].user)
    BY <1>3, WriterUser DEF ConnectDeliver, WriterPcs
  <2> QED BY <2>1, DeliverGrows, SameMessages
<1>4. CASE \/ CreateSetting(s) \/ CreateMembers(s) \/ JoinMembers(s) \/ OrderSetting(s)
           \/ OpenShow(s) \/ OpenJoin(s) \/ BanCreate(s) \/ BanDelete(s) \/ BanSockets(s)
           \/ RequestCreate(s) \/ ConnectRead(s) \/ ConnectJoin(s)
  <2>1. UNCHANGED message
    BY <1>4 DEF CreateSetting, CreateMembers, JoinMembers, OrderSetting, OpenShow, OpenJoin,
       BanCreate, BanDelete, BanSockets, RequestCreate, ConnectRead, ConnectJoin
  <2> QED BY <2>1, SameMessages
<1> QED BY <1>1, <1>2, <1>3, <1>4 DEF RoomsContinue

LEMMA GroupsGrow ==
  ASSUME Inv1, NEW s \in Slots, GroupsContinue(s)
  PROVE  Grows
<1> USE DEF At
<1>1. CASE GroupHello(s) \/ BroadcastOwn(s)
  <2>1. /\ req[s].user \in Users /\ req[s].room \in Rooms
        /\ message' = Append(message, Info(req[s].room, req[s].user))
    BY <1>1, WriterUser DEF GroupHello, BroadcastOwn, WriterPcs
  <2> QED BY <2>1, InfoGrows
<1>2. CASE AwaitAnnounce(s)
  <2>1. req[s].user \in Users /\ req[s].room \in Rooms /\ Announce(req[s].room, req[s].user)
    BY <1>2, WriterUser DEF AwaitAnnounce, WriterPcs
  <2> QED BY <2>1, AnnounceGrows
<1>3. CASE BroadcastNote(s)
  <2>1. /\ req[s].user \in Users /\ message' = Append(message, Info(req[s].at, req[s].user))
        /\ req[s].pc = "broadcast_note"
    BY <1>3, WriterUser DEF BroadcastNote, WriterPcs
  <2>2. req[s].at \in Rooms
    BY <2>1, HandlerOf DEF HandlerOK, AtPcs
  <2> QED BY <2>1, <2>2, InfoGrows
<1>4. CASE DeleteMessages(s)
  <2>1. "gone" \in Tags \ {"created"}
    BY DEF Tags
  <2>2. message' = Tagged(InRoom(req[s].room), "gone")
    BY <1>4 DEF DeleteMessages
  <2> QED BY <2>1, <2>2, TaggedGrows
<1>5. CASE \/ CreateGroupMembers(s) \/ CreateGroupRoles(s) \/ CreateGroupSetting(s)
           \/ JoinGroup(s) \/ AddRole(s) \/ AddMember(s) \/ AddJoin(s)
           \/ KickRole(s) \/ KickMember(s) \/ KickLeave(s) \/ RoleSet(s)
           \/ LeaveSocket(s) \/ LeaveSuccessor(s) \/ LeaveRole(s) \/ LeaveMember(s)
  <2>1. UNCHANGED message
    BY <1>5 DEF CreateGroupMembers, CreateGroupRoles, CreateGroupSetting, JoinGroup, AddRole,
       AddMember, AddJoin, KickRole, KickMember, KickLeave, RoleSet, LeaveSocket,
       LeaveSuccessor, LeaveRole, LeaveMember, UnchangedRooms
  <2> QED BY <2>1, SameMessages
<1>6. CASE \/ DeleteSockets(s) \/ DeleteMembers(s) \/ DeleteRoles(s) \/ DeleteSetting(s)
           \/ SettingsSave(s) \/ RenameMembers(s) \/ RenameSetting(s)
           \/ BroadcastMember(s) \/ BroadcastJoin(s) \/ BroadcastNext(s)
           \/ BroadcastCopies(s) \/ BroadcastSetting(s)
  <2>1. UNCHANGED message
    BY <1>6 DEF DeleteSockets, DeleteMembers, DeleteRoles, DeleteSetting, SettingsSave,
       RenameMembers, RenameSetting, BroadcastMember, BroadcastJoin, BroadcastNext,
       BroadcastCopies, BroadcastSetting, UnchangedRooms
  <2> QED BY <2>1, SameMessages
<1> QED BY <1>1, <1>2, <1>3, <1>4, <1>5, <1>6 DEF GroupsContinue

LEMMA SendFields ==
  ASSUME Inv1, NEW s \in Slots, req[s].pc \in SendPcs
  PROVE  LET h == req[s]
         IN /\ h.user \in Users /\ h.room \in Rooms /\ h.lId \in LocalIds
            /\ h.list \in SUBSET Tags /\ "created" \in h.list
<1>1. req[s].pc \in RoomPcs /\ req[s].pc # "idle"
  BY DEF RoomPcs, SendPcs
<1> QED BY <1>1, HandlerOf, RoomOf, UserOf DEF HandlerOK

LEMMA SendCreateGrows ==
  ASSUME Inv1, NEW s \in Slots, SendCreate(s)
  PROVE  Grows /\ (~Taken(req[s].lId) =>
                     /\ Len(message') = Len(message) + 1
                     /\ message'[Len(message) + 1] =
                          Message(req[s].room, req[s].user, req[s].lId, req[s].list)
                     /\ \A i \in 1..Len(message) : message'[i] = message[i])
<1> DEFINE h == req[s]
           m == Message(h.room, h.user, h.lId, h.list)
<1>1. h.pc \in SendPcs
  BY DEF SendCreate, At, SendPcs
<1>2. h.user \in Users /\ h.room \in Rooms /\ h.lId \in LocalIds /\ h.list \in SUBSET Tags
  BY <1>1, SendFields
<1>3. IF Taken(h.lId) THEN UNCHANGED message ELSE message' = Append(message, m)
  BY DEF SendCreate
<1> HIDE DEF h
<1>4. m \in MessageDocs /\ m.lId = h.lId /\ m.votes = {}
  BY <1>2, MessageType
<1> HIDE DEF m
<1>5. CASE Taken(h.lId)
  BY <1>3, <1>5, SameMessages DEF h
<1>6. CASE ~Taken(h.lId)
  BY <1>3, <1>4, <1>6, OneMore DEF h, m
<1> QED BY <1>5, <1>6

LEMMA CopiesFinite ==
  ASSUME NEW todo \in SUBSET CopyDocs
  PROVE  Cardinality(todo) \in Nat
<1>1. IsFiniteSet(Rooms) /\ IsFiniteSet(Users)
  BY ChatAssumption
<1>2. IsFiniteSet(Rooms \X Users)
  BY <1>1, FS_Product
<1>3. IsFiniteSet((Rooms \X Users) \X Rooms)
  BY <1>1, <1>2, FS_Product
<1> DEFINE f == [c \in todo |-> <<<<c[1], c[2]>>, c[3]>>]
<1>4. f \in Injection(todo, (Rooms \X Users) \X Rooms)
  <2>1. \A c \in todo : c \in Rooms \X Users \X Rooms
    BY DEF CopyDocs
  <2>2. f \in [todo -> (Rooms \X Users) \X Rooms]
    BY <2>1
  <2>3. ASSUME NEW c \in todo, NEW d \in todo, f[c] = f[d]
        PROVE  c = d
    <3>1. PICK a \in Rooms, u \in Users, e \in Rooms : c = <<a, u, e>>
      BY <2>1
    <3>2. PICK x \in Rooms, v \in Users, y \in Rooms : d = <<x, v, y>>
      BY <2>1
    <3>3. <<<<a, u>>, e>> = <<<<x, v>>, y>>
      BY <2>3, <3>1, <3>2
    <3>4. a = x /\ u = v /\ e = y
      BY <3>3
    <3> QED BY <3>1, <3>2, <3>4
  <2> HIDE DEF f
  <2> QED BY <2>2, <2>3 DEF Injection, IsInjective
<1> QED BY <1>3, <1>4, FS_Injection, FS_CardinalityType

\* The messages of a broadcast, and the one in its own room.
LEMMA SendCopiesGrows ==
  ASSUME Inv1, NEW s \in Slots, SendCopies(s)
  PROVE  /\ Grows
         /\ \A i \in 1..Len(message) : message'[i] = message[i]
         /\ \A i \in Added : /\ message'[i].status = [v \in Users |-> "none"]
                             /\ "created" \in message'[i].tags => message'[i].rId = req[s].room
<1> DEFINE h == req[s]
           blank == [v \in Users |-> "none"]
<1>1. h.pc \in SendPcs /\ h.pc = "send_copies"
  BY DEF SendCopies, At, SendPcs
<1>2. /\ h.user \in Users /\ h.room \in Rooms /\ h.lId \in LocalIds
      /\ h.todo \in SUBSET CopyDocs
  BY <1>1, SendFields, HandlerOf DEF HandlerOK
<1> DEFINE k == Cardinality(h.todo)
<1>3. k \in Nat
  BY <1>2, CopiesFinite
<1>4. PICK order \in [1..k -> h.todo] :
        message' = LET g == [n \in DOMAIN order |-> Message(order[n][3], h.user, NoId, {})]
                   IN IF Taken(h.lId) THEN message \o g
                      ELSE Append(message \o g, Message(h.room, h.user, h.lId, {"created"}))
  BY DEF SendCopies, Orders
<1> HIDE DEF h, k
<1> DEFINE M(n) == Message(order[n][3], h.user, NoId, {})
           g == [n \in 1..k |-> M(n)]
           last == Message(h.room, h.user, h.lId, {"created"})
<1>5. ASSUME NEW n \in 1..k
      PROVE  /\ M(n) \in MessageDocs /\ M(n).lId = NoId /\ M(n).votes = {} /\ M(n).tags = {}
             /\ M(n).status = blank
  <2> DEFINE r == order[n][3]
             none == {}
             l == NoId
  <2>1. r \in Rooms
    BY <1>2 DEF CopyDocs
  <2>2. none \in SUBSET Tags /\ l \in LocalIds \cup {NoId}
    OBVIOUS
  <2> HIDE DEF r, none, l
  <2>3. LET m == Message(r, h.user, l, none)
        IN m \in MessageDocs /\ m.lId = l /\ m.votes = {}
    BY <1>2, <2>1, <2>2, MessageType
  <2>4. Message(r, h.user, l, none).tags = none /\ Message(r, h.user, l, none).status = blank
    BY DEF Message
  <2> HIDE DEF blank
  <2> QED BY <2>3, <2>4 DEF r, none, l
<1>6. /\ last \in MessageDocs /\ last.lId = h.lId /\ last.votes = {} /\ last.rId = h.room
      /\ last.status = blank
  <2>1. {"created"} \in SUBSET Tags
    BY DEF Tags
  <2> QED BY <1>2, <2>1, MessageType
<1> HIDE DEF blank
<1>7. message' = IF Taken(h.lId) THEN message \o g ELSE Append(message \o g, last)
  BY <1>4
<1> HIDE DEF M, last
<1>8. g \in Seq(MessageDocs) /\ Len(g) = k /\ \A n \in 1..k : g[n] = M(n)
  BY <1>3, <1>5
<1> HIDE DEF g
<1> DEFINE c == message \o g
           n0 == Len(message)
<1>9. message \in Seq(MessageDocs) /\ n0 \in Nat /\ \A i \in 1..n0 : message[i] \in MessageDocs
  BY MessageDoc
<1>10. /\ c \in Seq(MessageDocs) /\ Len(c) = n0 + k
       /\ \A i \in 1..n0 : c[i] = message[i]
       /\ \A i \in (n0 + 1)..(n0 + k) : /\ c[i].lId = NoId /\ c[i].votes = {} /\ c[i].tags = {}
                                         /\ c[i].status = blank
  <2>1. c \in Seq(MessageDocs) /\ Len(c) = n0 + k
    BY <1>8, <1>9
  <2>2. \A i \in 1..n0 : c[i] = message[i]
    BY <1>3, <1>8, <1>9
  <2>3. ASSUME NEW i \in (n0 + 1)..(n0 + k)
        PROVE  /\ c[i].lId = NoId /\ c[i].votes = {} /\ c[i].tags = {}
               /\ c[i].status = blank
    <3>1. i - n0 \in 1..k /\ c[i] = g[i - n0]
      BY <1>3, <1>8, <1>9
    <3> QED BY <1>5, <1>8, <3>1
  <2> QED BY <2>1, <2>2, <2>3
<1> HIDE DEF c
<1>11. NoId \notin LocalIds
  BY ChatAssumption
<1>12. CASE Taken(h.lId)
  <2>1. message' = c
    BY <1>7, <1>12 DEF c
  <2>2. \A i \in 1..n0 : Version(message[i], message'[i])
    BY <1>9, <1>10, <2>1, SameVersion
  <2>3. \A i \in Added : /\ message'[i].lId = NoId /\ message'[i].votes = {}
                         /\ message'[i].tags = {} /\ message'[i].status = blank
    BY <1>10, <2>1 DEF Added
  <2>4. Grows
    BY <1>3, <1>9, <1>10, <1>11, <2>1, <2>2, <2>3 DEF Grows
  <2> QED BY <1>10, <2>1, <2>3, <2>4 DEF n0, blank
<1>13. CASE ~Taken(h.lId)
  <2>1. message' = Append(c, last)
    BY <1>7, <1>13 DEF c
  <2>2. /\ message' \in Seq(MessageDocs) /\ Len(message') = n0 + k + 1
        /\ message'[n0 + k + 1] = last
        /\ \A i \in 1..(n0 + k) : message'[i] = c[i]
    BY <1>3, <1>6, <1>9, <1>10, <2>1
  <2>3. \A i \in 1..n0 : Version(message[i], message'[i])
    BY <1>3, <1>9, <1>10, <2>2, SameVersion
  <2>4. \A i \in Added : /\ message'[i].votes = {}
                         /\ message'[i].lId = IF i = n0 + k + 1 THEN h.lId ELSE NoId
                         /\ message'[i].status = blank
                         /\ message'[i].tags = {} \/ message'[i].rId = h.room
    <3>1. ASSUME NEW i \in (n0 + 1)..(n0 + k)
          PROVE  /\ message'[i].lId = NoId /\ message'[i].votes = {} /\ message'[i].tags = {}
                 /\ message'[i].status = blank /\ i # n0 + k + 1
      <4>1. i \in 1..(n0 + k) /\ i # n0 + k + 1
        BY <1>3, <1>9
      <4> QED BY <1>10, <2>2, <4>1
    <3>2. Added = (n0 + 1)..(n0 + k + 1)
      BY <1>3, <1>9, <2>2 DEF Added
    <3>3. \A i \in Added : i \in (n0 + 1)..(n0 + k) \/ i = n0 + k + 1
      BY <1>3, <1>9, <3>2
    <3> HIDE DEF n0, k
    <3> QED BY <1>6, <2>2, <3>1, <3>3
  <2>5. Grows
    BY <1>3, <1>9, <1>11, <1>13, <2>2, <2>3, <2>4 DEF Grows
  <2>6. \A i \in 1..n0 : message'[i] = message[i]
    BY <1>3, <1>9, <1>10, <2>2
  <2> QED BY <2>4, <2>5, <2>6 DEF n0, h, blank
<1> QED BY <1>12, <1>13 DEF blank, h

LEMMA AddedTags ==
  ASSUME NEW m \in MessageDocs, NEW tag \in Tags \ {"created"}
  PROVE  LET n == [m EXCEPT !.tags = @ \cup {tag}]
         IN Version(m, n) /\ n.tags = m.tags \cup {tag} /\ SameButTags(m, n)
<1>1. m.tags \cup {tag} \in SUBSET Tags
  BY DEF MessageDocs
<1> QED BY <1>1, TagsVersion

LEMMA SendStatusesGrows ==
  ASSUME Inv1, NEW s \in Slots, SendStatuses(s)
  PROVE  /\ Grows /\ Len(message') = Len(message)
         /\ req[s].msg \in 1..Len(message)
         /\ message'[req[s].msg] = ForGroup(message[req[s].msg])
         /\ message'[req[s].msg].tags = message[req[s].msg].tags
         /\ \A j \in 1..Len(message) \ {req[s].msg} : message'[j] = message[j]
<1> DEFINE i == req[s].msg
           n == ForGroup(message[i])
<1>1. i \in 1..Len(message) /\ "created" \in message[i].tags
  BY HandlerOf DEF HandlerOK, SendStatuses, At
<1>2. message' = [message EXCEPT ![i] = n]
  BY DEF SendStatuses
<1> HIDE DEF i
<1>3. message[i] \in MessageDocs
  BY <1>1, MessageDoc
<1>4. /\ n \in MessageDocs /\ n.rId = message[i].rId /\ n.sId = message[i].sId
      /\ n.lId = message[i].lId /\ n.tags = message[i].tags \cup {"created"}
      /\ n.votes = message[i].votes /\ n.dF = message[i].dF
  BY <1>3, ForGroupType
<1> HIDE DEF n
<1>5. Version(message[i], n) /\ n.tags = message[i].tags
  BY <1>1, <1>4 DEF Version
<1>6. /\ Grows /\ Len(message') = Len(message) /\ message'[i] = n
      /\ \A j \in 1..Len(message) \ {i} : message'[j] = message[j]
  BY <1>1, <1>2, <1>5, OneChanged
<1> QED BY <1>1, <1>5, <1>6 DEF i, n

LEMMA ReactSaveGrows ==
  ASSUME Inv1, NEW s \in Slots, ReactSave(s)
  PROVE  /\ Grows /\ Len(message') = Len(message)
         /\ \A j \in 1..Len(message) : /\ message'[j].tags = message[j].tags
                                       /\ message'[j].dF = message[j].dF
                                       /\ message'[j].status = message[j].status
<1> DEFINE i == req[s].msg
           m == message[i]
           f == req[s].list
           n == [m EXCEPT !.reactions = f]
<1>1. i \in 1..Len(message) /\ f \in Reactions
  BY HandlerOf DEF HandlerOK, ReactSave, At
<1>2. message' = [message EXCEPT ![i] = n]
  BY DEF ReactSave
<1> HIDE DEF i, f
<1>3. m \in MessageDocs
  BY <1>1, MessageDoc
<1>4. SameButMarks(m, n)
  BY <1>1, <1>3, MarkVersions
<1> HIDE DEF n
<1>5. /\ Grows /\ Len(message') = Len(message) /\ message'[i] = n
      /\ \A j \in 1..Len(message) \ {i} : message'[j] = message[j]
  BY <1>1, <1>2, <1>4, OneChanged DEF SameButMarks
<1> QED BY <1>1, <1>4, <1>5 DEF SameButMarks

LEMMA EnterSeenGrows ==
  ASSUME Inv1, NEW s \in Slots, EnterSeen(s)
  PROVE  LET h == req[s]
         IN /\ Grows /\ Len(message') = Len(message)
            /\ \A i \in 1..Len(message) :
                 /\ message[i].tags \subseteq message'[i].tags
                 /\ message'[i].tags \subseteq message[i].tags \cup {"sAt"}
                 /\ message'[i].dF = message[i].dF
                 /\ h.seen.rT # "g" /\ i \in InRoom(h.room) /\ message[i].sId # h.user
                      => "sAt" \in message'[i].tags
                 /\ message'[i].status =
                      IF h.seen.rT = "g" /\ i \in InRoom(h.room)
                      THEN [message[i].status EXCEPT ![h.user] = ToSeen(message[i].status[h.user])]
                      ELSE message[i].status
<1> DEFINE h == req[s]
           u == h.user
           r == h.room
           S(m) == [m EXCEPT !.tags = @ \cup {"sAt"}]
           G(m) == [m EXCEPT !.status[u] = ToSeen(m.status[u])]
<1>1. u \in Users
  <2>1. h.pc = "enter_seen"
    BY DEF EnterSeen, At
  <2> QED BY <2>1, UserOf
<1>2. message' = IF h.seen.rT = "g"
                 THEN [i \in DOMAIN message |-> IF i \in InRoom(r) THEN G(message[i]) ELSE message[i]]
                 ELSE [i \in DOMAIN message |->
                         IF i \in InRoom(r)
                         THEN IF message[i].sId # u THEN S(message[i]) ELSE message[i]
                         ELSE message[i]]
  BY DEF EnterSeen, UpdateMessages, ToSeen
<1> HIDE DEF h
<1>3. ASSUME NEW m \in MessageDocs
      PROVE  /\ Version(m, G(m)) /\ G(m).tags = m.tags /\ G(m).dF = m.dF
             /\ G(m).status = [m.status EXCEPT ![u] = ToSeen(m.status[u])]
  <2>1. ToSeen(m.status[u]) \in Statuses
    BY <1>1 DEF MessageDocs, ToSeen, Statuses
  <2> QED BY <1>1, <2>1, StatusVersion
<1>4. ASSUME NEW m \in MessageDocs
      PROVE  Version(m, S(m)) /\ S(m).tags = m.tags \cup {"sAt"} /\ SameButTags(m, S(m))
  <2>1. "sAt" \in Tags \ {"created"}
    BY DEF Tags
  <2> QED BY <2>1, AddedTags
<1> HIDE DEF S, G
<1>5. CASE h.seen.rT = "g"
  <2>1. \A i \in DOMAIN message :
          /\ message'[i] = IF i \in InRoom(r) THEN G(message[i]) ELSE message[i]
          /\ message[i] \in MessageDocs
    BY <1>2, <1>5, MessageDoc
  <2>2. \A i \in DOMAIN message : Version(message[i], message'[i])
    BY <1>3, <2>1, SameVersion
  <2>3. Grows /\ Len(message') = Len(message)
    BY <1>2, <1>5, <2>2, Rewritten
  <2> QED BY <1>3, <1>5, <2>1, <2>3, MessageDoc DEF h
<1>6. CASE h.seen.rT # "g"
  <2>1. \A i \in DOMAIN message :
          /\ message'[i] = IF i \in InRoom(r)
                           THEN IF message[i].sId # u THEN S(message[i]) ELSE message[i]
                           ELSE message[i]
          /\ message[i] \in MessageDocs
    BY <1>2, <1>6, MessageDoc
  <2>2. \A i \in DOMAIN message : Version(message[i], message'[i])
    BY <1>4, <2>1, SameVersion
  <2>3. Grows /\ Len(message') = Len(message)
    BY <1>2, <1>6, <2>2, Rewritten
  <2> QED BY <1>4, <1>6, <2>1, <2>3, MessageDoc DEF h, SameButTags
<1> QED BY <1>5, <1>6

LEMMA MessagesGrow ==
  ASSUME Inv1, NEW s \in Slots, MessagesContinue(s)
  PROVE  Grows
<1>1. CASE EnterDeliver(s)
  <2>1. req[s].pc \in WriterPcs
    BY <1>1 DEF EnterDeliver, At, WriterPcs
  <2>2. message' = DeliverGroup(req[s].room, req[s].user)
    BY <1>1 DEF EnterDeliver
  <2> QED BY <2>1, <2>2, WriterUser, DeliverGroupGrows
<1>2. CASE \/ SendUndelete(s) \/ SendCheck(s) \/ DeletedLook(s)
           \/ DeletedRoom(s) \/ EnterRead(s)
  <2>1. UNCHANGED message
    BY <1>2 DEF SendUndelete, SendCheck, DeletedLook, DeletedRoom, EnterRead, UnchangedRooms
  <2> QED BY <2>1, SameMessages
<1> QED BY <1>1, <1>2, SendCreateGrows, SendStatusesGrows, SendCopiesGrows, ReactSaveGrows,
           EnterSeenGrows DEF MessagesContinue

-----------------------------------------------------------------------------
(* Requests that change a message at once *)

LEMMA MarkGrows ==
  ASSUME Inv1, NEW request, NEW i \in DOMAIN message, NEW n, Mark(request, i, n),
         Marks(message[i], n)
  PROVE  /\ Grows /\ Len(message') = Len(message)
         /\ \A j \in 1..Len(message) : message'[j] = message[j] \/ Marks(message[j], message'[j])
<1>1. message' = [message EXCEPT ![i] = n] /\ Version(message[i], n)
  BY DEF Mark, Marks
<1>2. i \in 1..Len(message)
  BY MessageDoc
<1> QED BY <1>1, <1>2, OneChanged

LEMMA MessageMarks ==
  ASSUME Inv1, NEW u \in Users, NEW i \in DOMAIN message, MessageMark(u, i)
  PROVE  \E request \in {"deleteMessage", "marks", "vote"} : \E n :
            Mark(request, i, n) /\ Marks(message[i], n)
<1> DEFINE m == message[i]
<1>1. m \in MessageDocs
  BY MessageDoc
<1>2. CASE DeleteFromAll(u, i)
  <2>1. "dltAt" \in Tags \ {"created"}
    BY DEF Tags
  <2> DEFINE n == [m EXCEPT !.tags = @ \cup {"dltAt"}]
  <2>2. Mark("deleteMessage", i, n)
    BY <1>2 DEF DeleteFromAll
  <2>3. Version(m, n) /\ n.tags = m.tags \cup {"dltAt"} /\ SameButTags(m, n)
    BY <1>1, <2>1, AddedTags
  <2>4. Marks(m, n)
    BY <2>3 DEF Marks, SameButTags
  <2> QED BY <2>2, <2>4
<1>3. CASE StarRoomMessage(u, i)
  <2> DEFINE us == m.stars \cup {u}
             n == [m EXCEPT !.stars = us]
  <2>1. us \in SUBSET Users
    BY <1>1 DEF MessageDocs
  <2>2. Mark("marks", i, n)
    BY <1>3 DEF StarRoomMessage
  <2> HIDE DEF us
  <2>3. SameButMarks(m, n)
    BY <1>1, <2>1, MarkVersions
  <2> HIDE DEF n
  <2>4. Marks(m, n)
    BY <2>3 DEF Marks, SameButMarks
  <2> QED BY <2>2, <2>4
<1>4. CASE UnStarRoomMessage(u, i)
  <2> DEFINE us == m.stars \ {u}
             n == [m EXCEPT !.stars = us]
  <2>1. us \in SUBSET Users
    BY <1>1 DEF MessageDocs
  <2>2. Mark("marks", i, n)
    BY <1>4 DEF UnStarRoomMessage
  <2> HIDE DEF us
  <2>3. SameButMarks(m, n)
    BY <1>1, <2>1, MarkVersions
  <2> HIDE DEF n
  <2>4. Marks(m, n)
    BY <2>3 DEF Marks, SameButMarks
  <2> QED BY <2>2, <2>4
<1>5. CASE OneSeeThisMessage(u, i)
  <2> DEFINE us == m.oneSeenBy \cup {u}
             n == [m EXCEPT !.oneSeenBy = us]
  <2>1. us \in SUBSET Users
    BY <1>1 DEF MessageDocs
  <2>2. Mark("marks", i, n)
    BY <1>5 DEF OneSeeThisMessage
  <2> HIDE DEF us
  <2>3. SameButMarks(m, n)
    BY <1>1, <2>1, MarkVersions
  <2> HIDE DEF n
  <2>4. Marks(m, n)
    BY <2>3 DEF Marks, SameButMarks
  <2> QED BY <2>2, <2>4
<1>6. CASE EditMessage(u, i)
  <2>1. "isEdited" \in Tags \ {"created"}
    BY DEF Tags
  <2> DEFINE n == [m EXCEPT !.tags = @ \cup {"isEdited"}]
  <2>2. Mark("marks", i, n)
    BY <1>6 DEF EditMessage
  <2>3. Version(m, n) /\ n.tags = m.tags \cup {"isEdited"} /\ SameButTags(m, n)
    BY <1>1, <2>1, AddedTags
  <2>4. Marks(m, n)
    BY <2>3 DEF Marks, SameButTags
  <2> QED BY <2>2, <2>4
<1>7. CASE \E pin \in BOOLEAN : PinUnpinMessage(u, i, pin)
  <2>1. PICK pin \in BOOLEAN : PinUnpinMessage(u, i, pin)
    BY <1>7
  <2> DEFINE tags == IF pin THEN m.tags \cup {"isPinned"} ELSE m.tags \ {"isPinned"}
             n == [m EXCEPT !.tags = tags]
  <2>2. Mark("marks", i, n)
    BY <2>1 DEF PinUnpinMessage
  <2>3. tags \in SUBSET Tags
    BY <1>1 DEF MessageDocs, Tags
  <2>4. m.tags \ {"isPinned"} \subseteq tags /\ tags \subseteq m.tags \cup {"isPinned"}
    OBVIOUS
  <2> HIDE DEF tags
  <2>5. Version(m, n) /\ n.tags = tags /\ SameButTags(m, n)
    BY <1>1, <2>3, <2>4, TagsVersion
  <2> HIDE DEF n
  <2>6. Marks(m, n)
    BY <2>4, <2>5 DEF Marks, SameButTags
  <2> QED BY <2>2, <2>6
<1>8. CASE \E o \in Options : VoteOnPoll(u, i, o)
  <2>1. PICK o \in Options : VoteOnPoll(u, i, o)
    BY <1>8
  <2> DEFINE n == [m EXCEPT !.votes = {v \in @ : v[1] # u} \cup {<<u, o>>}]
  <2>2. Mark("vote", i, n)
    BY <2>1 DEF VoteOnPoll
  <2>3. SameButMarks(m, n)
    BY <1>1, VoteVersion
  <2> HIDE DEF n
  <2>4. Marks(m, n)
    BY <2>3 DEF Marks, SameButMarks
  <2> QED BY <2>2, <2>4
<1> QED BY <1>2, <1>3, <1>4, <1>5, <1>6, <1>7, <1>8 DEF MessageMark

LEMMA DeleteFromMeGrows ==
  ASSUME Inv1, NEW s, NEW u \in Users, NEW r, NEW i \in DOMAIN message, DeleteFromMe(s, u, r, i)
  PROVE  /\ Grows /\ Len(message') = Len(message)
         /\ \A j \in 1..Len(message) : /\ message'[j].tags = message[j].tags
                                       /\ message'[j].status = message[j].status
<1> DEFINE m == message[i]
           n == [m EXCEPT !.dF = @ \cup {u}]
<1>1. i \in 1..Len(message) /\ m \in MessageDocs
  BY MessageDoc
<1>2. message' = [message EXCEPT ![i] = n]
  BY DEF DeleteFromMe
<1>3. Version(m, n) /\ n.tags = m.tags /\ n.status = m.status
  BY <1>1, HiddenVersion
<1> HIDE DEF n
<1> QED BY <1>1, <1>2, <1>3, OneChanged

LEMMA ExpireGrows ==
  ASSUME Inv1, NEW i, Expire(i)
  PROVE  /\ Grows /\ Len(message') = Len(message)
         /\ \A j \in 1..Len(message) :
              /\ message'[j].tags = IF j = i THEN message[j].tags \cup {"gone"}
                                    ELSE message[j].tags
              /\ message'[j].dF = message[j].dF /\ message'[j].status = message[j].status
<1>1. "gone" \in Tags \ {"created"}
  BY DEF Tags
<1> DEFINE ids == {i}
<1>2. message' = Tagged(ids, "gone")
  BY DEF Expire
<1>3. \A j : j \in ids <=> j = i
  OBVIOUS
<1> HIDE DEF ids
<1>4. /\ Grows /\ Len(message') = Len(message)
      /\ \A j \in 1..Len(message) :
           /\ message'[j].tags = IF j \in ids THEN message[j].tags \cup {"gone"}
                                 ELSE message[j].tags
           /\ message'[j].dF = message[j].dF /\ message'[j].status = message[j].status
  BY <1>1, <1>2, TaggedGrows
<1> QED BY <1>3, <1>4

LEMMA FlagSteps ==
  ASSUME NEW u \in Users, NEW r \in Rooms,
         \/ MuteRoom(u, r) \/ UnMuteRoom(u, r) \/ ArchiveRoom(u, r)
         \/ UnArchiveRoom(u, r) \/ ChangeNickName(u, r) \/ UpdateTranslate(u, r)
         \/ StopTranslate(u, r)
  PROVE  /\ \E flag \in Flags, on \in BOOLEAN : SetFlag(u, r, flag, on)
         /\ UNCHANGED message
<1>1. \E flag \in Flags, on \in BOOLEAN : SetFlag(u, r, flag, on)
  <2>1. {"isM", "isA", "tTo", "nTitle"} = Flags /\ TRUE \in BOOLEAN /\ FALSE \in BOOLEAN
    BY DEF Flags
  <2>2. CASE MuteRoom(u, r) \/ UnMuteRoom(u, r)
    BY <2>1, <2>2, Zenon DEF MuteRoom, UnMuteRoom
  <2>3. CASE ArchiveRoom(u, r) \/ UnArchiveRoom(u, r)
    BY <2>1, <2>3, Zenon DEF ArchiveRoom, UnArchiveRoom
  <2>4. CASE UpdateTranslate(u, r) \/ StopTranslate(u, r)
    BY <2>1, <2>4, Zenon DEF UpdateTranslate, StopTranslate
  <2>5. CASE ChangeNickName(u, r)
    BY <2>1, <2>5, Zenon DEF ChangeNickName
  <2> QED BY <2>2, <2>3, <2>4, <2>5
<1>2. UNCHANGED message
  BY <1>1 DEF SetFlag
<1> QED BY <1>1, <1>2

\* Of the routes of rooms two change messages, of the others none.
LEMMA ChannelMessages ==
  ASSUME ChannelController
  PROVE  \/ UNCHANGED message
         \/ \E u \in Users, r \in Rooms : message' = HideAll(r, u) \/ message' = Deliver(r, u)
<1>1. CASE \/ \E u \in Users, r \in Rooms : ClearRoomMessages(u, r) \/ DeliverRoomMessages(u, r)
  BY <1>1 DEF ClearRoomMessages, DeliverRoomMessages
<1>2. CASE \E u, v \in Users, s \in Slots : PeerBegin(s, u, v) \/ OrderBegin(s, u, v)
  BY <1>2 DEF PeerBegin, OrderBegin
<1>3. CASE \E u \in Users, s \in Slots, r \in Rooms :
             \/ DeleteRoom(s, u, r) \/ GetRoomById(s, u, r) \/ UpdateTimer(s, u, r)
             \/ RoomOneSeenOn(s, u, r) \/ RoomOneSeenOff(s, u, r)
  BY <1>3 DEF DeleteRoom, GetRoomById, UpdateTimer, RoomOneSeenOn, RoomOneSeenOff, SetOneSeen
<1>4. CASE \E u \in Users, r \in Rooms :
             \/ MuteRoom(u, r) \/ UnMuteRoom(u, r) \/ ArchiveRoom(u, r)
             \/ UnArchiveRoom(u, r) \/ ChangeNickName(u, r) \/ UpdateTranslate(u, r)
             \/ StopTranslate(u, r)
  BY <1>4, FlagSteps
<1> QED BY <1>1, <1>2, <1>3, <1>4 DEF ChannelController

LEMMA ControllersMessages ==
  ASSUME \/ GroupChannelController \/ BroadcastChannelController
         \/ UserBanController \/ ChatRequestRoutes \/ SocketIoGateway
  PROVE  UNCHANGED message
<1>1. CASE GroupChannelController
  <2>1. PICK s \in Slots, u \in Users :
          \/ \E us \in SUBSET Users : GroupBegin(s, u, us)
          \/ \E r \in Rooms :
               \/ LeaveBegin(s, u, r) \/ DeleteGroup(s, u, r) \/ SettingsBegin(s, u, r)
               \/ UpdateTitle(s, u, r) \/ UpdateImage(s, u, r)
               \/ \E v \in Users : AddBegin(s, u, v, r) \/ KickBegin(s, u, v, r)
                                   \/ RoleBegin(s, u, v, r)
    BY <1>1 DEF GroupChannelController
  <2>2. UnchangedRooms(s)
    <3>1. \A us : GroupBegin(s, u, us) => UnchangedRooms(s)
      BY DEF GroupBegin
    <3>2. \A r : LeaveBegin(s, u, r) \/ DeleteGroup(s, u, r) \/ SettingsBegin(s, u, r)
                => UnchangedRooms(s)
      BY DEF LeaveBegin, DeleteGroup, SettingsBegin
    <3>3. \A r : UpdateTitle(s, u, r) \/ UpdateImage(s, u, r) => UnchangedRooms(s)
      BY DEF UpdateTitle, UpdateImage, Rename
    <3>4. \A r, v : AddBegin(s, u, v, r) \/ KickBegin(s, u, v, r) \/ RoleBegin(s, u, v, r)
                => UnchangedRooms(s)
      BY DEF AddBegin, KickBegin, RoleBegin
    <3> QED BY <2>1, <3>1, <3>2, <3>3, <3>4
  <2> QED BY <2>2 DEF UnchangedRooms
<1>2. CASE BroadcastChannelController
  BY <1>2 DEF BroadcastChannelController, BroadcastBegin, AddToBroadcast, RenameBroadcast,
     KickFromBroadcast, UnchangedRooms
<1>3. CASE UserBanController \/ ChatRequestRoutes \/ SocketIoGateway
  BY <1>3 DEF UserBanController, ChatRequestRoutes, SocketIoGateway, Ban, Unban, RequestBegin,
     UpdateRequest, Disconnect, ConnectBegin, EnterBegin, UnchangedRooms
<1> QED BY <1>1, <1>2, <1>3

LEMMA ChannelGrows ==
  ASSUME Inv1, ChannelController
  PROVE  Grows
BY ChannelMessages, HideAllGrows, DeliverGrows, SameMessages

LEMMA ControllersGrow ==
  ASSUME Inv1, \/ GroupChannelController \/ BroadcastChannelController
               \/ UserBanController \/ ChatRequestRoutes \/ SocketIoGateway
  PROVE  Grows
BY ControllersMessages, SameMessages

LEMMA MessageControllerGrows ==
  ASSUME Inv1, MessageChannelController
  PROVE  Grows
<1>1. CASE \/ \E u \in Users, r \in Rooms, l \in LocalIds, s \in Slots : SendBegin(s, u, r, l)
           \/ \E u \in Users, i \in DOMAIN message, s \in Slots, e \in Emojis :
                ReactBegin(s, u, i, e)
  <2>1. UNCHANGED message
    BY <1>1 DEF SendBegin, ReactBegin, UnchangedRooms
  <2> QED BY <2>1, SameMessages
<1>2. CASE \E u \in Users, i \in DOMAIN message, s \in Slots, r \in Rooms : DeleteFromMe(s, u, r, i)
  BY <1>2, DeleteFromMeGrows
<1>3. CASE \E u \in Users, i \in DOMAIN message : MessageMark(u, i)
  BY <1>3, MessageMarks, MarkGrows
<1> QED BY <1>1, <1>2, <1>3 DEF MessageChannelController, MessageMark

LEMMA AnnouncedGrows ==
  ASSUME Inv1, NEW n, Announced(n)
  PROVE  /\ later[n][1] \in Users /\ later[n][2] \in Rooms
         /\ Announce(later[n][2], later[n][1]) /\ Grows
<1>1. n \in DOMAIN later /\ Announce(later[n][2], later[n][1])
  BY DEF Announced
<1>2. later \in Seq(Users \X Rooms)
  BY DEF Inv1, Typed
<1>3. later[n] \in Users \X Rooms
  BY <1>1, <1>2
<1> DEFINE r == later[n][2]
           u == later[n][1]
<1>4. u \in Users /\ r \in Rooms
  BY <1>3
<1> HIDE DEF r, u
<1>5. Announce(r, u)
  BY <1>1 DEF r, u
<1>6. Grows
  BY <1>4, <1>5, AnnounceGrows
<1> QED BY <1>4, <1>5, <1>6 DEF r, u

LEMMA StepGrows ==
  ASSUME Inv1, [Next]_vars
  PROVE  Grows
<1>1. CASE \E s \in Slots : Continue(s)
  BY <1>1, RoomsGrow, GroupsGrow, MessagesGrow DEF Continue
<1>2. CASE Restart \/ UNCHANGED vars
  <2>1. UNCHANGED message
    BY <1>2 DEF Restart, vars
  <2> QED BY <2>1, SameMessages
<1>3. CASE \E n \in 1..2 : Announced(n)
  BY <1>3, AnnouncedGrows
<1>4. CASE \E i \in DOMAIN message : Expire(i)
  BY <1>4, ExpireGrows
<1> QED BY <1>1, <1>2, <1>3, <1>4, ChannelGrows, ControllersGrow, MessageControllerGrows DEF Next

-----------------------------------------------------------------------------
(* What each step does to the handlers *)

LEMMA Resumes ==
  ASSUME Inv1, Grows, NEW s \in Slots, NEW n \in Handlers, Resume(s, n), HandlerOK(n, message')
  PROVE  Becomes(s, n)
<1>1. req \in [Slots -> Handlers] /\ req' = [req EXCEPT ![s] = n]
  BY DEF Inv1, Handling, Resume
<1>2. Rest(s) /\ req'[s] = n
  BY <1>1, PutFields DEF Rest
<1>3. Handling'
  BY <1>2, OthersOK
<1> QED BY <1>2, <1>3 DEF Becomes, Resume, process

LEMMA Ends ==
  ASSUME Inv1, Grows, NEW s \in Slots, Return(s)
  PROVE  Becomes(s, Idle)
BY IdleType, IdleOK, Resumes DEF Return

LEMMA GoesOn ==
  ASSUME Inv1, Grows, NEW s \in Slots, NEW next, Goto(s, next), Flow(req[s], next)
  PROVE  Becomes(s, req'[s]) /\ req'[s].pc = next /\ Kept(req[s], req'[s])
<1> DEFINE h == req[s]
           n == [h EXCEPT !.pc = next]
<1>1. h \in Handlers /\ HandlerOK(h, message)
  BY HandlerOf
<1>2. Resume(s, n) /\ Flow(h, next)
  BY DEF Goto
<1>3. Len(message) \in Nat /\ Len(message') \in Nat /\ Len(message) <= Len(message')
  BY DEF Grows
<1> HIDE DEF h
<1>4. next \in PCs
  <2> DEFINE f == [h EXCEPT !.pc = next]
  <2>1. f.pc = next /\ Kept(h, f)
    BY <1>1 DEF Handlers, Kept
  <2> HIDE DEF f
  <2> QED BY <1>1, <1>2, <1>3, <2>1, FlowOK
<1>5. n \in Handlers /\ n.pc = next /\ Kept(h, n)
  BY <1>1, <1>4, GoesType
<1> HIDE DEF n
<1>6. HandlerOK(n, message')
  BY <1>1, <1>2, <1>3, <1>5, FlowOK
<1>7. Becomes(s, n)
  BY <1>2, <1>5, <1>6, Resumes
<1> QED BY <1>5, <1>7 DEF Becomes, h

LEMMA MovesOn ==
  ASSUME Inv1, Grows, NEW s \in Slots,
         Return(s) \/ \E next : Goto(s, next) /\ Flow(req[s], next)
  PROVE  Moves(s)
BY Ends, GoesOn DEF Moves

LEMMA RoomsMove ==
  ASSUME Inv1, Grows, NEW s \in Slots,
         \/ CreateSetting(s) \/ CreateMembers(s) \/ JoinMembers(s) \/ OrderSetting(s)
         \/ HideRoom(s) \/ OpenShow(s) \/ OpenJoin(s) \/ RoomInfo(s) \/ BanCreate(s)
         \/ BanSockets(s) \/ RequestCreate(s) \/ ConnectJoin(s)
  PROVE  Moves(s)
<1> USE DEF At, Flow, RoomsFlow
<1>1. CASE HideRoom(s) \/ OpenJoin(s) \/ RoomInfo(s) \/ BanSockets(s) \/ RequestCreate(s)
  <2>1. Return(s)
    BY <1>1 DEF HideRoom, OpenJoin, RoomInfo, BanSockets, RequestCreate
  <2> QED BY <2>1, MovesOn
<1>2. CASE CreateSetting(s)
  <2>1. Return(s) \/ Goto(s, "room_members")
    BY <1>2 DEF CreateSetting
  <2>2. Flow(req[s], "room_members")
    BY <1>2 DEF CreateSetting
  <2> QED BY <2>1, <2>2, MovesOn
<1>3. CASE CreateMembers(s)
  <2>1. Goto(s, "room_join") /\ Flow(req[s], "room_join")
    BY <1>3 DEF CreateMembers
  <2> QED BY <2>1, MovesOn
<1>4. CASE JoinMembers(s)
  <2>1. Return(s) \/ (Goto(s, req[s].next) /\ Flow(req[s], req[s].next))
    BY <1>4 DEF JoinMembers
  <2> QED BY <2>1, MovesOn
<1>5. CASE OrderSetting(s)
  <2>1. Goto(s, "room_members") /\ Flow(req[s], "room_members")
    BY <1>5 DEF OrderSetting
  <2> QED BY <2>1, MovesOn
<1>6. CASE OpenShow(s)
  <2>1. Goto(s, "open_join") /\ Flow(req[s], "open_join")
    BY <1>6 DEF OpenShow
  <2> QED BY <2>1, MovesOn
<1>7. CASE BanCreate(s)
  <2>1. Return(s) \/ (Goto(s, "ban_sockets") /\ Flow(req[s], "ban_sockets"))
    BY <1>7 DEF BanCreate
  <2> QED BY <2>1, MovesOn
<1>8. CASE ConnectJoin(s)
  <2>1. Goto(s, "connect_deliver") /\ Flow(req[s], "connect_deliver")
    BY <1>8 DEF ConnectJoin
  <2> QED BY <2>1, MovesOn
<1> QED BY <1>1, <1>2, <1>3, <1>4, <1>5, <1>6, <1>7, <1>8

LEMMA GroupsMove ==
  ASSUME Inv1, Grows, NEW s \in Slots,
         \/ CreateGroupMembers(s) \/ CreateGroupRoles(s) \/ CreateGroupSetting(s) \/ JoinGroup(s)
         \/ GroupHello(s) \/ AddRole(s) \/ AddMember(s) \/ AddJoin(s)
         \/ KickRole(s) \/ KickMember(s) \/ KickLeave(s) \/ AwaitAnnounce(s) \/ RoleSet(s)
  PROVE  Moves(s)
<1> USE DEF At, Flow, GroupFlow
<1>1. CASE GroupHello(s) \/ AddJoin(s)
  <2>1. Return(s)
    BY <1>1 DEF GroupHello, AddJoin
  <2> QED BY <2>1, MovesOn
<1>2. CASE \/ CreateGroupMembers(s) \/ CreateGroupRoles(s) \/ CreateGroupSetting(s) \/ JoinGroup(s)
  <2>1. \E next : Goto(s, next) /\ Flow(req[s], next)
    BY <1>2 DEF CreateGroupMembers, CreateGroupRoles, CreateGroupSetting, JoinGroup
  <2> QED BY <2>1, MovesOn
<1>3. CASE AddRole(s) \/ AddMember(s)
  <2>1. Return(s) \/ \E next : Goto(s, next) /\ Flow(req[s], next)
    BY <1>3 DEF AddRole, AddMember
  <2> QED BY <2>1, MovesOn
<1>4. CASE \/ KickRole(s) \/ KickMember(s) \/ KickLeave(s)
  <2>1. \E next : Goto(s, next) /\ Flow(req[s], next)
    BY <1>4 DEF KickRole, KickMember, KickLeave
  <2> QED BY <2>1, MovesOn
<1>5. CASE AwaitAnnounce(s)
  <2>1. Return(s) \/ (Goto(s, req[s].next) /\ Flow(req[s], req[s].next))
    BY <1>5 DEF AwaitAnnounce, Proceed
  <2> QED BY <2>1, MovesOn
<1>6. CASE RoleSet(s)
  <2>1. \/ Return(s)
        \/ Goto(s, "announce") /\ Flow(req[s], "announce")
        \/ Goto(s, req[s].next) /\ Flow(req[s], req[s].next)
    BY <1>6 DEF RoleSet, Proceed
  <2> QED BY <2>1, MovesOn
<1> QED BY <1>1, <1>2, <1>3, <1>4, <1>5, <1>6

LEMMA LeavesMove ==
  ASSUME Inv1, Grows, NEW s \in Slots,
         \/ LeaveSocket(s) \/ LeaveRole(s) \/ LeaveMember(s)
         \/ DeleteSockets(s) \/ DeleteMembers(s) \/ DeleteRoles(s) \/ DeleteSetting(s)
         \/ DeleteMessages(s) \/ SettingsSave(s) \/ RenameMembers(s) \/ RenameSetting(s)
  PROVE  Moves(s)
<1> USE DEF At, Flow, LeaveFlow
<1>1. CASE LeaveMember(s) \/ DeleteMessages(s) \/ SettingsSave(s) \/ RenameSetting(s)
  <2>1. Return(s)
    BY <1>1 DEF LeaveMember, DeleteMessages, SettingsSave, RenameSetting
  <2> QED BY <2>1, MovesOn
<1>2. CASE LeaveSocket(s)
  <2>1. Goto(s, req[s].next) /\ Flow(req[s], req[s].next)
    BY <1>2 DEF LeaveSocket
  <2> QED BY <2>1, MovesOn
<1>3. CASE LeaveRole(s) \/ DeleteSockets(s) \/ DeleteMembers(s) \/ DeleteRoles(s)
  <2>1. \E next : Goto(s, next) /\ Flow(req[s], next)
    BY <1>3 DEF LeaveRole, DeleteSockets, DeleteMembers, DeleteRoles
  <2> QED BY <2>1, MovesOn
<1>4. CASE DeleteSetting(s) \/ RenameMembers(s)
  <2>1. Return(s) \/ \E next : Goto(s, next) /\ Flow(req[s], next)
    BY <1>4 DEF DeleteSetting, RenameMembers
  <2> QED BY <2>1, MovesOn
<1> QED BY <1>1, <1>2, <1>3, <1>4

LEMMA BroadcastsMove ==
  ASSUME Inv1, Grows, NEW s \in Slots,
         \/ BroadcastMember(s) \/ BroadcastJoin(s) \/ BroadcastOwn(s) \/ BroadcastCopies(s)
         \/ BroadcastSetting(s)
  PROVE  Moves(s)
<1>1. Return(s) \/ \E next : Goto(s, next) /\ Flow(req[s], next)
  BY DEF At, Flow, BroadcastFlow, BroadcastMember, BroadcastJoin, BroadcastOwn, BroadcastCopies,
     BroadcastSetting
<1> QED BY <1>1, MovesOn

LEMMA MessagesMove ==
  ASSUME Inv1, Grows, NEW s \in Slots,
         \/ SendUndelete(s) \/ SendStatuses(s) \/ SendCopies(s) \/ DeletedLook(s)
         \/ DeletedRoom(s) \/ ReactSave(s) \/ EnterRead(s) \/ EnterDeliver(s) \/ EnterSeen(s)
  PROVE  Moves(s)
<1> USE DEF At, Flow, MessageFlow
<1>1. CASE SendStatuses(s) \/ SendCopies(s) \/ DeletedRoom(s) \/ ReactSave(s) \/ EnterSeen(s)
  <2>1. Return(s)
    BY <1>1 DEF SendStatuses, SendCopies, DeletedRoom, ReactSave, EnterSeen
  <2> QED BY <2>1, MovesOn
<1>2. CASE SendUndelete(s) \/ DeletedLook(s) \/ EnterDeliver(s)
  <2>1. Return(s) \/ \E next : Goto(s, next) /\ Flow(req[s], next)
    BY <1>2 DEF SendUndelete, DeletedLook, EnterDeliver
  <2> QED BY <2>1, MovesOn
<1>3. CASE EnterRead(s)
  <2>1. Return(s) \/ Goto(s, "enter_deliver") \/ Goto(s, "enter_seen")
    BY <1>3 DEF EnterRead
  <2>2. Flow(req[s], "enter_deliver") /\ Flow(req[s], "enter_seen")
    BY <1>3 DEF EnterRead
  <2> QED BY <2>1, <2>2, MovesOn
<1> QED BY <1>1, <1>2, <1>3

\* What the handlers are that go on with something else than they had.
LEMMA BanDeleteMoves ==
  ASSUME Inv1, Grows, NEW s \in Slots, BanDelete(s)
  PROVE  LET h == req[s]
             n == req'[s]
         IN /\ Becomes(s, n) /\ n.pc = "ban_sockets" /\ n.next = "join"
            /\ n.user = h.user /\ n.peer = h.peer
<1> DEFINE h == req[s]
           n == [h EXCEPT !.pc = "ban_sockets", !.next = "join"]
<1>1. h \in Handlers /\ HandlerOK(h, message) /\ h.pc = "ban_delete"
  BY HandlerOf DEF BanDelete, At
<1>2. Resume(s, n)
  BY DEF BanDelete
<1> HIDE DEF h
<1>3. h.user \in Users /\ h.peer \in Users
  BY <1>1 DEF HandlerOK, PeerPcs, BanPcs
<1>4. /\ n \in Handlers /\ n.pc = "ban_sockets" /\ n.next = "join" /\ n.user = h.user
      /\ n.peer = h.peer
  BY ZenonT(60), <1>1 DEF Handlers, Nexts, PCs, PeerPcs, BanPcs
<1> HIDE DEF n
<1>5. HandlerOK(n, message')
  BY <1>3, <1>4 DEF HandlerOK, Requesting, Broadcasting, RoomPcs, PeerPcs, AtPcs, NewPcs, BanPcs,
     ConnectPcs, GroupPcs, AddPcs, KickPcs, LeavePcs, DeletePcs, RenamePcs, BroadcastPcs, SendPcs,
     EnterPcs
<1>6. Becomes(s, n)
  BY <1>2, <1>4, <1>5, Resumes
<1> QED BY <1>4, <1>6 DEF Becomes, h

LEMMA ConnectReadMoves ==
  ASSUME Inv1, Grows, NEW s \in Slots, ConnectRead(s)
  PROVE  LET h == req[s]
             n == req'[s]
         IN /\ Becomes(s, n) /\ n.pc = "connect_join" /\ n.user = h.user
            /\ n.todo = RoomsOf(h.user)
<1> DEFINE h == req[s]
           todo == RoomsOf(h.user)
           n == [h EXCEPT !.pc = "connect_join", !.todo = todo]
<1>1. h \in Handlers /\ HandlerOK(h, message) /\ h.pc = "connect_read"
  BY HandlerOf DEF ConnectRead, At
<1>2. Resume(s, n)
  BY DEF ConnectRead
<1>3. todo \in SUBSET Rooms /\ todo \in Todos
  BY DEF RoomsOf, Todos
<1> HIDE DEF h, todo
<1>4. h.user \in Users
  BY <1>1 DEF HandlerOK
<1>5. n \in Handlers /\ n.pc = "connect_join" /\ n.user = h.user /\ n.todo = todo
  BY ZenonT(60), <1>1, <1>3 DEF Handlers, PCs, ConnectPcs
<1> HIDE DEF n
<1>6. HandlerOK(n, message')
  BY <1>3, <1>4, <1>5 DEF HandlerOK, Requesting, Broadcasting, RoomPcs, PeerPcs, AtPcs, NewPcs,
     BanPcs, ConnectPcs, GroupPcs, AddPcs, KickPcs, LeavePcs, DeletePcs, RenamePcs, BroadcastPcs,
     SendPcs, EnterPcs
<1>7. Becomes(s, n)
  BY <1>2, <1>5, <1>6, Resumes
<1> QED BY <1>5, <1>7 DEF Becomes, h, todo

LEMMA ConnectDeliverMoves ==
  ASSUME Inv1, Grows, NEW s \in Slots, ConnectDeliver(s)
  PROVE  LET h == req[s]
             n == req'[s]
         IN \/ Becomes(s, Idle)
            \/ /\ Becomes(s, n) /\ n.pc = "connect_deliver" /\ n.user = h.user
               /\ n.todo \subseteq h.todo
<1> DEFINE h == req[s]
<1>1. h \in Handlers /\ HandlerOK(h, message) /\ h.pc = "connect_deliver"
  BY HandlerOf DEF ConnectDeliver, At
<1>2. Return(s) \/ \E r : Resume(s, [h EXCEPT !.todo = @ \ {r}])
  BY DEF ConnectDeliver
<1>3. ASSUME NEW r, Resume(s, [h EXCEPT !.todo = @ \ {r}])
      PROVE  LET n == req'[s]
             IN /\ Becomes(s, n) /\ n.pc = "connect_deliver" /\ n.user = h.user
                /\ n.todo \subseteq h.todo
  <2> DEFINE todo == h.todo \ {r}
             n == [h EXCEPT !.todo = todo]
  <2>1. Resume(s, n)
    BY <1>3
  <2> HIDE DEF h
  <2>2. h.user \in Users /\ h.todo \subseteq Rooms
    BY <1>1 DEF HandlerOK, ConnectPcs
  <2>3. todo \in Todos /\ todo \subseteq Rooms /\ todo \subseteq h.todo
    BY <2>2 DEF Todos
  <2> HIDE DEF todo
  <2>4. n \in Handlers /\ n.pc = "connect_deliver" /\ n.user = h.user /\ n.todo = todo
    BY <1>1, <2>3 DEF Handlers
  <2> HIDE DEF n
  <2>5. HandlerOK(n, message')
    BY <2>2, <2>3, <2>4 DEF HandlerOK, Requesting, Broadcasting, RoomPcs, PeerPcs, AtPcs, NewPcs,
       BanPcs, ConnectPcs, GroupPcs, AddPcs, KickPcs, LeavePcs, DeletePcs, RenamePcs,
       BroadcastPcs, SendPcs, EnterPcs
  <2>6. Becomes(s, n)
    BY <2>1, <2>4, <2>5, Resumes
  <2> QED BY <2>3, <2>4, <2>6 DEF Becomes
<1> QED BY <1>2, <1>3, Ends

LEMMA LeaveSuccessorMoves ==
  ASSUME Inv1, Grows, NEW s \in Slots, LeaveSuccessor(s)
  PROVE  LET h == req[s]
             n == req'[s]
         IN \/ Becomes(s, Idle)
            \/ /\ Becomes(s, n) /\ n.pc = "role_set" /\ n.user = h.user /\ n.room = h.room
               /\ n.peer \in GroupMembers(h.room) \ {h.user} /\ n.lId = "superAdmin"
               /\ n.next = "leave_role"
<1> DEFINE h == req[s]
<1>1. h \in Handlers /\ HandlerOK(h, message) /\ h.pc = "leave_successor"
  BY HandlerOf DEF LeaveSuccessor, At
<1>2. \/ Return(s)
      \/ \E v \in GroupMembers(h.room) \ {h.user} :
           Resume(s, [h EXCEPT !.pc = "role_set", !.peer = v, !.lId = "superAdmin",
                     !.next = "leave_role", !.list = Telling(h.room, v, "superAdmin")])
  BY DEF LeaveSuccessor
<1>3. ASSUME NEW v \in GroupMembers(h.room) \ {h.user},
             Resume(s, [h EXCEPT !.pc = "role_set", !.peer = v, !.lId = "superAdmin",
                       !.next = "leave_role", !.list = Telling(h.room, v, "superAdmin")])
      PROVE  LET n == req'[s]
             IN /\ Becomes(s, n) /\ n.pc = "role_set" /\ n.user = h.user /\ n.room = h.room
                /\ n.peer \in GroupMembers(h.room) \ {h.user} /\ n.lId = "superAdmin"
                /\ n.next = "leave_role"
  <2> DEFINE told == Telling(h.room, v, "superAdmin")
             n == [h EXCEPT !.pc = "role_set", !.peer = v, !.lId = "superAdmin",
                            !.next = "leave_role", !.list = told]
  <2>1. Resume(s, n)
    BY <1>3
  <2>2. v \in Users /\ told \in Lists
    BY DEF GroupMembers, Telling, Lists
  <2> HIDE DEF h, told
  <2>3. h.user \in Users /\ h.room \in Rooms
    BY <1>1 DEF HandlerOK, RoomPcs, LeavePcs
  <2>4. /\ n \in Handlers /\ n.pc = "role_set" /\ n.user = h.user /\ n.room = h.room
        /\ n.peer = v /\ n.lId = "superAdmin" /\ n.next = "leave_role"
    BY ZenonT(60), <1>1, <2>2 DEF Handlers, Nexts, PCs, PeerPcs, Roles
  <2> HIDE DEF n
  <2>5. HandlerOK(n, message')
    BY <2>2, <2>3, <2>4 DEF HandlerOK, Requesting, Broadcasting, RoomPcs, PeerPcs, AtPcs, NewPcs,
       BanPcs, ConnectPcs, GroupPcs, AddPcs, KickPcs, LeavePcs, DeletePcs, RenamePcs,
       BroadcastPcs, SendPcs, EnterPcs, Roles
  <2>6. Becomes(s, n)
    BY <2>1, <2>4, <2>5, Resumes
  <2> QED BY <2>4, <2>6 DEF Becomes
<1> QED BY <1>2, <1>3, Ends

LEMMA ChosenRooms ==
  /\ Fresh # {} => NewRoom \in Fresh /\ NewRoom \in Rooms
  /\ \A u, v : SingleRooms(u, v) # {} => SingleRoom(u, v) \in SingleRooms(u, v)
                                         /\ SingleRoom(u, v) \in Rooms
<1>1. Fresh # {} => NewRoom \in Fresh
  BY DEF NewRoom
<1>2. \A u, v : SingleRooms(u, v) # {} => SingleRoom(u, v) \in SingleRooms(u, v)
  BY DEF SingleRoom
<1> QED BY <1>1, <1>2 DEF Fresh, SingleRooms

LEMMA BroadcastNextMoves ==
  ASSUME Inv1, Grows, NEW s \in Slots, BroadcastNext(s)
  PROVE  LET h == req[s]
             n == req'[s]
         IN \/ /\ Becomes(s, n) /\ n.pc = h.after /\ Kept(h, n) /\ h.todo = {}
            \/ /\ Becomes(s, n) /\ KeptBroadcast(h, n) /\ n.list = h.list
               /\ n.todo \subseteq h.todo
               /\ \/ n.pc = "broadcast_next"
                  \/ /\ n.pc = "broadcast_note" /\ n.peer \in h.todo
                     /\ n.at \in SingleRooms(h.user, n.peer)
                  \/ /\ n.pc = "room_setting" /\ n.next = "broadcast_note"
                     /\ n.peer \in h.todo /\ n.at \in Fresh
                     /\ SingleRooms(h.user, n.peer) = {}
<1> DEFINE h == req[s]
           v == CHOOSE v \in h.todo : TRUE
           todo == h.todo \ {v}
           rest == [h EXCEPT !.todo = todo]
<1>1. h \in Handlers /\ HandlerOK(h, message) /\ h.pc = "broadcast_next"
  BY HandlerOf DEF BroadcastNext, At
<1>2. /\ h.user \in Users /\ h.room \in Rooms /\ h.todo \subseteq Users
      /\ h.list \subseteq Users \X Rooms /\ h.after \in {"broadcast_own", "broadcast_copies"}
  BY <1>1 DEF HandlerOK, Broadcasting, BroadcastPcs
<1>3. IF h.todo = {} THEN Goto(s, h.after)
      ELSE \/ Resume(s, rest)
           \/ /\ SingleRooms(h.user, v) # {}
              /\ Resume(s, [rest EXCEPT !.pc = "broadcast_note", !.peer = v,
                                        !.at = SingleRoom(h.user, v)])
           \/ /\ SingleRooms(h.user, v) = {} /\ Fresh # {}
              /\ Resume(s, [rest EXCEPT !.pc = "room_setting", !.peer = v, !.at = NewRoom,
                                        !.next = "broadcast_note"])
  BY DEF BroadcastNext, CreatePeerRoom
<1>4. CASE h.todo = {}
  <2>1. Goto(s, h.after) /\ Flow(h, h.after)
    BY <1>1, <1>3, <1>4 DEF Flow, BroadcastFlow
  <2>2. Becomes(s, req'[s]) /\ req'[s].pc = h.after /\ Kept(h, req'[s])
    BY <2>1, GoesOn
  <2> QED BY <1>4, <2>2
<1>5. CASE h.todo # {}
  <2>1. v \in h.todo /\ v \in Users
    BY <1>2, <1>5
  <2>2. todo \in Todos /\ todo \subseteq Users /\ todo \subseteq h.todo
    BY <1>2 DEF Todos
  <2>3. CASE Resume(s, rest)
    <3> HIDE DEF h, v, todo
    <3>1. /\ rest \in Handlers /\ rest.pc = "broadcast_next" /\ rest.todo = todo
          /\ KeptBroadcast(h, rest) /\ rest.list = h.list
      BY <1>1, <2>2 DEF Handlers, KeptBroadcast
    <3> HIDE DEF rest
    <3>2. HandlerOK(rest, message')
      BY <1>2, <2>2, <3>1 DEF KeptBroadcast, HandlerOK, Requesting, Broadcasting, RoomPcs,
         PeerPcs, AtPcs, NewPcs, BanPcs, ConnectPcs, GroupPcs, AddPcs, KickPcs, LeavePcs,
         DeletePcs, RenamePcs, BroadcastPcs, SendPcs, EnterPcs
    <3>3. Becomes(s, rest)
      BY <2>3, <3>1, <3>2, Resumes
    <3> QED BY <2>2, <3>1, <3>3 DEF Becomes, h
  <2>4. CASE /\ SingleRooms(h.user, v) # {}
             /\ Resume(s, [rest EXCEPT !.pc = "broadcast_note", !.peer = v,
                                       !.at = SingleRoom(h.user, v)])
    <3> DEFINE r == SingleRoom(h.user, v)
    <3>1. r \in SingleRooms(h.user, v) /\ r \in Rooms
      BY <2>4, ChosenRooms
    <3> DEFINE n == [h EXCEPT !.todo = todo, !.pc = "broadcast_note", !.peer = v, !.at = r]
    <3>2. Resume(s, n)
      <4> HIDE DEF h, v, r, todo
      <4>1. [[h EXCEPT !.todo = todo] EXCEPT !.pc = "broadcast_note", !.peer = v, !.at = r] = n
        BY <1>1 DEF Handlers
      <4> QED BY <2>4, <4>1 DEF r, h, v, todo
    <3> HIDE DEF h, v, todo, r
    <3>3. /\ n \in Handlers /\ n.pc = "broadcast_note" /\ n.todo = todo /\ n.peer = v
          /\ n.at = r /\ KeptBroadcast(h, n) /\ n.list = h.list
      BY ZenonT(60), <1>1, <2>1, <2>2, <3>1 DEF Handlers, KeptBroadcast, PCs, PeerPcs, AtPcs
    <3> HIDE DEF n
    <3>4. HandlerOK(n, message')
      BY <1>2, <2>1, <2>2, <3>1, <3>3 DEF KeptBroadcast, HandlerOK, Requesting, Broadcasting,
         RoomPcs, PeerPcs, AtPcs, NewPcs, BanPcs, ConnectPcs, GroupPcs, AddPcs, KickPcs, LeavePcs,
         DeletePcs, RenamePcs, BroadcastPcs, SendPcs, EnterPcs
    <3>5. Becomes(s, n)
      BY <3>2, <3>3, <3>4, Resumes
    <3> QED BY <2>1, <2>2, <3>1, <3>3, <3>5 DEF Becomes, h
  <2>5. CASE /\ SingleRooms(h.user, v) = {} /\ Fresh # {}
             /\ Resume(s, [rest EXCEPT !.pc = "room_setting", !.peer = v, !.at = NewRoom,
                                       !.next = "broadcast_note"])
    <3> DEFINE r == NewRoom
    <3>1. r \in Fresh /\ r \in Rooms
      BY <2>5, ChosenRooms
    <3> DEFINE n == [h EXCEPT !.todo = todo, !.pc = "room_setting", !.peer = v, !.at = r,
                              !.next = "broadcast_note"]
    <3>2. Resume(s, n)
      <4> HIDE DEF h, v, r, todo
      <4>1. [[h EXCEPT !.todo = todo] EXCEPT !.pc = "room_setting", !.peer = v, !.at = r,
                                             !.next = "broadcast_note"] = n
        BY <1>1 DEF Handlers
      <4> QED BY <2>5, <4>1 DEF r, h, v, todo
    <3> HIDE DEF h, v, todo, r
    <3>3. /\ n \in Handlers /\ n.pc = "room_setting" /\ n.todo = todo /\ n.peer = v
          /\ n.at = r /\ n.next = "broadcast_note" /\ KeptBroadcast(h, n) /\ n.list = h.list
      BY ZenonT(60), <1>1, <2>1, <2>2, <3>1 DEF Handlers, KeptBroadcast, PCs, PeerPcs, AtPcs, NewPcs, Nexts
    <3> HIDE DEF n
    <3>4. HandlerOK(n, message')
      BY <1>2, <2>1, <2>2, <3>1, <3>3 DEF KeptBroadcast, HandlerOK, Requesting, Broadcasting,
         RoomPcs, PeerPcs, AtPcs, NewPcs, BanPcs, ConnectPcs, GroupPcs, AddPcs, KickPcs, LeavePcs,
         DeletePcs, RenamePcs, BroadcastPcs, SendPcs, EnterPcs
    <3>5. Becomes(s, n)
      BY <3>2, <3>3, <3>4, Resumes
    <3> QED BY <2>1, <2>2, <2>5, <3>1, <3>3, <3>5 DEF Becomes, h
  <2> QED BY <1>3, <1>5, <2>3, <2>4, <2>5
<1> QED BY <1>4, <1>5

LEMMA BroadcastNoteMoves ==
  ASSUME Inv1, Grows, NEW s \in Slots, BroadcastNote(s)
  PROVE  LET h == req[s]
             n == req'[s]
         IN /\ Becomes(s, n) /\ n.pc = "broadcast_next" /\ KeptBroadcast(h, n)
            /\ n.todo = h.todo /\ n.list = h.list \cup {<<h.peer, h.at>>}
<1> DEFINE h == req[s]
           list == h.list \cup {<<h.peer, h.at>>}
           n == [h EXCEPT !.pc = "broadcast_next", !.list = list]
<1>1. h \in Handlers /\ HandlerOK(h, message) /\ h.pc = "broadcast_note"
  BY HandlerOf DEF BroadcastNote, At
<1>2. Resume(s, n)
  BY DEF BroadcastNote
<1>3. /\ h.user \in Users /\ h.room \in Rooms /\ h.todo \subseteq Users
      /\ h.list \subseteq Users \X Rooms /\ h.after \in {"broadcast_own", "broadcast_copies"}
      /\ h.peer \in Users /\ h.at \in Rooms
  BY <1>1 DEF HandlerOK, Broadcasting, BroadcastPcs, PeerPcs, AtPcs
<1>4. list \subseteq Users \X Rooms /\ list \in Lists
  BY <1>3 DEF Lists
<1> HIDE DEF h, list
<1>5. /\ n \in Handlers /\ n.pc = "broadcast_next" /\ KeptBroadcast(h, n) /\ n.todo = h.todo
      /\ n.list = list
  BY ZenonT(60), <1>1, <1>4 DEF Handlers, KeptBroadcast, PCs, RoomPcs, BroadcastPcs
<1> HIDE DEF n
<1>6. HandlerOK(n, message')
  BY <1>3, <1>4, <1>5 DEF KeptBroadcast, HandlerOK, Requesting, Broadcasting, RoomPcs, PeerPcs,
     AtPcs, NewPcs, BanPcs, ConnectPcs, GroupPcs, AddPcs, KickPcs, LeavePcs, DeletePcs, RenamePcs,
     BroadcastPcs, SendPcs, EnterPcs
<1>7. Becomes(s, n)
  BY <1>2, <1>5, <1>6, Resumes
<1> QED BY <1>5, <1>7 DEF Becomes, h, list

LEMMA SendCheckMoves ==
  ASSUME Inv1, Grows, NEW s \in Slots, SendCheck(s)
  PROVE  LET h == req[s]
             n == req'[s]
         IN \/ Becomes(s, Idle)
            \/ /\ Becomes(s, n) /\ Kept(h, n) /\ n.pc = "send_create" /\ h.seen.rT # "b"
               /\ h.seen.rT = "g" => MaySend(h.room, h.user)
            \/ /\ Becomes(s, n) /\ KeptSend(h, n) /\ n.pc = "send_copies" /\ h.seen.rT = "b"
               /\ n.todo = {c \in copies : c[1] = h.room}
<1> DEFINE h == req[s]
           todo == {c \in copies : c[1] = h.room}
           n == [h EXCEPT !.pc = "send_copies", !.todo = todo]
<1>1. h \in Handlers /\ HandlerOK(h, message) /\ h.pc = "send_check"
  BY HandlerOf DEF SendCheck, At
<1>2. h.pc \in SendPcs /\ h.seen.rT \in RoomTypes
  BY <1>1 DEF HandlerOK, SendPcs
<1>3. \/ Return(s)
      \/ /\ Goto(s, "send_create") /\ h.seen.rT # "b"
         /\ h.seen.rT = "g" => MaySend(h.room, h.user)
      \/ Resume(s, n) /\ h.seen.rT = "b"
  <2>1. \/ h.seen.rT \in {"s", "o"} /\ (Return(s) \/ Goto(s, "send_create"))
        \/ /\ h.seen.rT = "g"
           /\ Return(s) \/ (MaySend(h.room, h.user) /\ Goto(s, "send_create"))
        \/ h.seen.rT = "b" /\ Resume(s, n)
    BY <1>2 DEF SendCheck, RoomTypes
  <2> QED BY <2>1
<1>4. CASE Return(s)
  BY <1>4, Ends
<1>5. CASE /\ Goto(s, "send_create") /\ h.seen.rT # "b"
           /\ h.seen.rT = "g" => MaySend(h.room, h.user)
  <2>1. Flow(h, "send_create")
    BY <1>1 DEF Flow, MessageFlow
  <2>2. Becomes(s, req'[s]) /\ req'[s].pc = "send_create" /\ Kept(h, req'[s])
    BY <1>5, <2>1, GoesOn
  <2> QED BY <1>5, <2>2
<1>6. CASE Resume(s, n) /\ h.seen.rT = "b"
  <2>1. todo \subseteq CopyDocs /\ todo \in Todos
    BY DEF Inv1, Typed, Todos
  <2>2. /\ h.user \in Users /\ h.room \in Rooms /\ h.lId \in LocalIds /\ h.list \in SUBSET Tags
        /\ "created" \in h.list
    BY <1>2, SendFields
  <2> HIDE DEF h, todo
  <2>3. n \in Handlers /\ n.pc = "send_copies" /\ n.todo = todo /\ KeptSend(h, n)
    BY ZenonT(60), <1>1, <2>1 DEF Handlers, KeptSend, PCs, RoomPcs, SendPcs
  <2> HIDE DEF n
  <2>4. HandlerOK(n, message')
    BY <1>2, <2>1, <2>2, <2>3 DEF KeptSend, HandlerOK, Requesting, Broadcasting, RoomPcs, PeerPcs,
       AtPcs, NewPcs, BanPcs, ConnectPcs, GroupPcs, AddPcs, KickPcs, LeavePcs, DeletePcs,
       RenamePcs, BroadcastPcs, SendPcs, EnterPcs
  <2>5. Becomes(s, n)
    BY <1>6, <2>3, <2>4, Resumes
  <2> QED BY <1>6, <2>3, <2>5 DEF Becomes, h, todo
<1> QED BY <1>3, <1>4, <1>5, <1>6

LEMMA SendCreateMoves ==
  ASSUME Inv1, NEW s \in Slots, SendCreate(s)
  PROVE  LET h == req[s]
             n == req'[s]
         IN \/ Becomes(s, Idle) /\ (Taken(h.lId) \/ h.seen.rT # "g")
            \/ /\ Becomes(s, n) /\ KeptSend(h, n) /\ n.pc = "send_statuses"
               /\ n.msg = Len(message) + 1 /\ h.seen.rT = "g" /\ ~Taken(h.lId)
<1> DEFINE h == req[s]
           k == Len(message) + 1
           n == [h EXCEPT !.pc = "send_statuses", !.msg = k]
<1>1. h \in Handlers /\ HandlerOK(h, message) /\ h.pc = "send_create" /\ h.pc \in SendPcs
  BY HandlerOf DEF SendCreate, At, SendPcs
<1>2. Grows
  BY SendCreateGrows
<1>3. \/ Return(s) /\ (Taken(h.lId) \/ h.seen.rT # "g")
      \/ ~Taken(h.lId) /\ h.seen.rT = "g" /\ Resume(s, n)
  BY DEF SendCreate
<1>4. CASE ~Taken(h.lId) /\ h.seen.rT = "g" /\ Resume(s, n)
  <2>1. /\ h.user \in Users /\ h.room \in Rooms /\ h.lId \in LocalIds /\ h.list \in SUBSET Tags
        /\ "created" \in h.list
    BY <1>1, SendFields
  <2>2. /\ Len(message') = k /\ message'[k].tags = h.list
    <3>1. Len(message') = k /\ message'[k] = Message(h.room, h.user, h.lId, h.list)
      BY <1>4, SendCreateGrows
    <3> QED BY <2>1, <3>1, MessageType
  <2>3. k \in Nat /\ k \in 1..Len(message')
    BY <2>2, MessageDoc
  <2> HIDE DEF h, k
  <2>4. n \in Handlers /\ n.pc = "send_statuses" /\ n.msg = k /\ KeptSend(h, n)
    BY ZenonT(60), <1>1, <2>3 DEF Handlers, KeptSend, PCs, RoomPcs, SendPcs
  <2> HIDE DEF n
  <2>5. HandlerOK(n, message')
    BY <1>4, <2>1, <2>2, <2>3, <2>4 DEF KeptSend, HandlerOK, Requesting, Broadcasting, RoomPcs,
       PeerPcs, AtPcs, NewPcs, BanPcs, ConnectPcs, GroupPcs, AddPcs, KickPcs, LeavePcs, DeletePcs,
       RenamePcs, BroadcastPcs, SendPcs, EnterPcs, RoomTypes
  <2>6. Becomes(s, n)
    BY <1>2, <1>4, <2>4, <2>5, Resumes
  <2> QED BY <1>4, <2>4, <2>6 DEF Becomes, h, k
<1> QED BY <1>2, <1>3, <1>4, Ends

LEMMA ContinueBecomes ==
  ASSUME Inv1, NEW s \in Slots, Continue(s)
  PROVE  Becomes(s, req'[s]) /\ req[s].pc # "idle"
<1>1. Grows
  BY RoomsGrow, GroupsGrow, MessagesGrow DEF Continue
<1>2. \A n : Becomes(s, n) => n = req'[s]
  BY DEF Becomes
<1>3. Moves(s) => Becomes(s, req'[s])
  BY <1>2 DEF Moves
<1>4. CASE RoomsContinue(s)
  <2>1. Becomes(s, req'[s])
    BY <1>1, <1>2, <1>3, <1>4, RoomsMove, BanDeleteMoves, ConnectReadMoves, ConnectDeliverMoves
       DEF RoomsContinue
  <2>2. req[s].pc # "idle"
    BY <1>4 DEF RoomsContinue, At, CreateSetting, CreateMembers, JoinMembers, OrderSetting,
       HideRoom, OpenShow, OpenJoin, RoomInfo, BanCreate, BanDelete, BanSockets, RequestCreate,
       ConnectRead, ConnectJoin, ConnectDeliver
  <2> QED BY <2>1, <2>2
<1>5. CASE GroupsContinue(s)
  <2>1. Becomes(s, req'[s])
    BY <1>1, <1>2, <1>3, <1>5, GroupsMove, LeavesMove, BroadcastsMove, LeaveSuccessorMoves,
       BroadcastNextMoves, BroadcastNoteMoves DEF GroupsContinue
  <2>2. req[s].pc # "idle"
    <3>1. CASE \/ CreateGroupMembers(s) \/ CreateGroupRoles(s) \/ CreateGroupSetting(s)
               \/ JoinGroup(s) \/ GroupHello(s) \/ AddRole(s) \/ AddMember(s) \/ AddJoin(s)
               \/ KickRole(s) \/ KickMember(s) \/ KickLeave(s) \/ AwaitAnnounce(s) \/ RoleSet(s)
      BY <3>1 DEF At, CreateGroupMembers, CreateGroupRoles, CreateGroupSetting, JoinGroup,
         GroupHello, AddRole, AddMember, AddJoin, KickRole, KickMember, KickLeave, AwaitAnnounce,
         RoleSet
    <3>2. CASE \/ LeaveSocket(s) \/ LeaveSuccessor(s) \/ LeaveRole(s) \/ LeaveMember(s)
               \/ DeleteSockets(s) \/ DeleteMembers(s) \/ DeleteRoles(s) \/ DeleteSetting(s)
               \/ DeleteMessages(s) \/ SettingsSave(s) \/ RenameMembers(s) \/ RenameSetting(s)
      BY <3>2 DEF At, LeaveSocket, LeaveSuccessor, LeaveRole, LeaveMember, DeleteSockets,
         DeleteMembers, DeleteRoles, DeleteSetting, DeleteMessages, SettingsSave, RenameMembers,
         RenameSetting
    <3>3. CASE \/ BroadcastMember(s) \/ BroadcastJoin(s) \/ BroadcastNext(s) \/ BroadcastNote(s)
               \/ BroadcastOwn(s) \/ BroadcastCopies(s) \/ BroadcastSetting(s)
      BY <3>3 DEF At, BroadcastMember, BroadcastJoin, BroadcastNext, BroadcastNote, BroadcastOwn,
         BroadcastCopies, BroadcastSetting
    <3> QED BY <1>5, <3>1, <3>2, <3>3 DEF GroupsContinue
  <2> QED BY <2>1, <2>2
<1>6. CASE MessagesContinue(s)
  <2>1. Becomes(s, req'[s])
    BY <1>1, <1>2, <1>3, <1>6, MessagesMove, SendCheckMoves, SendCreateMoves
       DEF MessagesContinue
  <2>2. req[s].pc # "idle"
    BY <1>6 DEF MessagesContinue, At, SendUndelete, SendCheck, SendCreate, SendStatuses,
       SendCopies, DeletedLook, DeletedRoom, ReactSave, EnterRead, EnterDeliver, EnterSeen
  <2> QED BY <2>1, <2>2
<1> QED BY <1>4, <1>5, <1>6 DEF Continue

-----------------------------------------------------------------------------
(* The handlers that begin *)

LEMMA FreeSlot ==
  ASSUME NEW s, InProgress # Slots, s = CHOOSE t \in Slots \ InProgress : TRUE
  PROVE  s \in Slots /\ req[s].pc = "idle"
<1>1. InProgress \subseteq Slots
  BY DEF InProgress
<1>2. s \in Slots \ InProgress
  BY <1>1
<1> QED BY <1>2 DEF InProgress

LEMMA BeginsWith ==
  ASSUME Inv1, Grows, NEW s, NEW request, Free(s, request), NEW n \in Handlers, Begin(s, n),
         HandlerOK(n, message')
  PROVE  Begins(s, n) /\ s \in Slots
<1>1. s \in Slots /\ req[s].pc = "idle" /\ begun < scene.limit
  BY FreeSlot DEF Free
<1>2. req \in [Slots -> Handlers] /\ req' = [req EXCEPT ![s] = n]
  BY DEF Inv1, Handling, Begin
<1>3. Rest(s) /\ req'[s] = n
  BY <1>1, <1>2, PutFields DEF Rest
<1>4. Handling'
  BY <1>1, <1>3, OthersOK
<1>5. begun' = begun + 1 /\ overlapped' = (overlapped \/ ~Quiet) /\ restarts' = restarts
  BY DEF Begin, Counted
<1> QED BY <1>1, <1>3, <1>4, <1>5 DEF Begins

LEMMA CallBegins ==
  ASSUME Inv1, Grows, NEW s, NEW request, Free(s, request), NEW u \in Users, NEW r \in Rooms,
         NEW pc \in {"room_hide", "open_show", "room_info", "settings_save", "deleted_look"},
         Begin(s, Call(pc, u, r))
  PROVE  /\ Begins(s, req'[s]) /\ s \in Slots /\ Called(req'[s], pc, u, r)
<1> DEFINE n == Call(pc, u, r)
<1>1. pc \in PCs
  BY DEF PCs, RoomPcs
<1>2. Called(n, pc, u, r)
  BY <1>1, CallType
<1> HIDE DEF n
<1>3. HandlerOK(n, message')
  BY <1>2 DEF Called, HandlerOK, Requesting, Broadcasting, RoomPcs, PeerPcs, AtPcs, NewPcs, BanPcs,
     ConnectPcs, GroupPcs, AddPcs, KickPcs, LeavePcs, DeletePcs, RenamePcs, BroadcastPcs, SendPcs,
     EnterPcs
<1>4. n \in Handlers /\ Begin(s, n)
  BY <1>2 DEF Called, n
<1>5. Begins(s, n) /\ s \in Slots
  BY <1>3, <1>4, BeginsWith
<1> QED BY <1>2, <1>5 DEF Begins

LEMMA NewRoomBegins ==
  ASSUME Inv1, Grows, NEW s \in Slots, NEW u \in Users, NEW v \in Users,
         PeerBegin(s, u, v) \/ OrderBegin(s, u, v)
  PROVE  LET n == req'[s]
         IN /\ Begins(s, n) /\ n.user = u /\ n.peer = v /\ u # v /\ n.at \in Fresh
            /\ n.next = "idle" /\ n.room = NoRoom
            /\ \/ n.pc = "room_setting" /\ SingleRooms(u, v) = {}
               \/ n.pc = "order_setting"
<1>1. PICK pc \in {"room_setting", "order_setting"} :
        /\ \E request : Free(s, request)
        /\ u # v /\ Fresh # {}
        /\ pc = "room_setting" => SingleRooms(u, v) = {}
        /\ Begin(s, [Call(pc, u, NoRoom) EXCEPT !.peer = v, !.at = NewRoom])
  BY DEF PeerBegin, OrderBegin
<1> DEFINE c == Call(pc, u, NoRoom)
           r == NewRoom
           n == [c EXCEPT !.peer = v, !.at = r]
<1>2. pc \in PCs
  BY DEF PCs, PeerPcs, AtPcs, NewPcs
<1>3. Called(c, pc, u, NoRoom)
  BY <1>2, CallType
<1>4. r \in Fresh /\ r \in Rooms
  BY <1>1, ChosenRooms
<1>5. Begin(s, n)
  BY <1>1
<1> HIDE DEF c, r
<1>6. /\ n \in Handlers /\ n.pc = pc /\ n.user = u /\ n.peer = v /\ n.at = r /\ n.next = "idle"
      /\ n.room = NoRoom
  BY <1>3, <1>4 DEF Called, Handlers
<1> HIDE DEF n
<1>7. HandlerOK(n, message')
  BY <1>4, <1>6 DEF HandlerOK, Requesting, Broadcasting, RoomPcs, PeerPcs, AtPcs, NewPcs, BanPcs,
     ConnectPcs, GroupPcs, AddPcs, KickPcs, LeavePcs, DeletePcs, RenamePcs, BroadcastPcs, SendPcs,
     EnterPcs
<1>8. Begins(s, n)
  BY <1>1, <1>5, <1>6, <1>7, BeginsWith
<1> QED BY <1>1, <1>4, <1>6, <1>8 DEF Begins

LEMMA BanBegins ==
  ASSUME Inv1, Grows, NEW s \in Slots, NEW u \in Users, NEW v \in Users, Ban(s, u, v) \/ Unban(s, u, v)
  PROVE  LET n == req'[s]
         IN /\ Begins(s, n) /\ n.user = u /\ n.peer = v /\ n.next = "idle"
            /\ n.pc \in {"ban_create", "ban_delete"}
<1>1. PICK pc \in {"ban_create", "ban_delete"} :
        Free(s, "block") /\ Begin(s, [Call(pc, u, NoRoom) EXCEPT !.peer = v])
  BY DEF Ban, Unban
<1> DEFINE c == Call(pc, u, NoRoom)
           n == [c EXCEPT !.peer = v]
<1>2. pc \in PCs
  BY DEF PCs, PeerPcs, BanPcs
<1>3. Called(c, pc, u, NoRoom)
  BY <1>2, CallType
<1>4. Begin(s, n)
  BY <1>1
<1> HIDE DEF c
<1>5. n \in Handlers /\ n.pc = pc /\ n.user = u /\ n.peer = v /\ n.next = "idle"
  BY <1>3 DEF Called, Handlers
<1> HIDE DEF n
<1>6. HandlerOK(n, message')
  BY <1>5 DEF HandlerOK, Requesting, Broadcasting, RoomPcs, PeerPcs, AtPcs, NewPcs, BanPcs,
     ConnectPcs, GroupPcs, AddPcs, KickPcs, LeavePcs, DeletePcs, RenamePcs, BroadcastPcs, SendPcs,
     EnterPcs
<1>7. Begins(s, n)
  BY <1>1, <1>4, <1>5, <1>6, BeginsWith
<1> QED BY <1>5, <1>7 DEF Begins

LEMMA RequestBegins ==
  ASSUME Inv1, Grows, NEW s \in Slots, NEW u \in Users, NEW v \in Users, RequestBegin(s, u, v)
  PROVE  LET n == req'[s]
         IN /\ Begins(s, n) /\ n.user = u /\ n.peer = v /\ u # v
            /\ \/ n.pc = "request_create" /\ n.at \in SingleRooms(u, v)
               \/ /\ n.pc = "room_setting" /\ n.next = "request_create" /\ n.at \in Fresh
                  /\ SingleRooms(u, v) = {} /\ n.room = NoRoom
<1>1. PICK old \in SUBSET requests :
        /\ Free(s, "request") /\ u # v
        /\ LET h == [Call("request_create", u, NoRoom) EXCEPT !.peer = v, !.todo = old]
           IN \/ /\ SingleRooms(u, v) # {}
                 /\ Begin(s, [h EXCEPT !.at = SingleRoom(u, v)])
              \/ /\ SingleRooms(u, v) = {} /\ Fresh # {}
                 /\ Begin(s, [h EXCEPT !.pc = "room_setting", !.at = NewRoom,
                                       !.next = "request_create"])
  BY DEF RequestBegin, OldRequests
<1> DEFINE c == Call("request_create", u, NoRoom)
           h == [c EXCEPT !.peer = v, !.todo = old]
<1>2. "request_create" \in PCs /\ "room_setting" \in PCs
  BY DEF PCs, PeerPcs, AtPcs, NewPcs
<1>3. Called(c, "request_create", u, NoRoom)
  BY <1>2, CallType
<1>4. old \subseteq RequestDocs /\ old \in Todos
  BY DEF Inv1, Typed, Todos
<1> HIDE DEF c
<1>5. /\ h \in Handlers /\ h.pc = "request_create" /\ h.user = u /\ h.peer = v /\ h.todo = old
      /\ h.room = NoRoom
  BY <1>3, <1>4 DEF Called, Handlers
<1> HIDE DEF h
<1>6. CASE SingleRooms(u, v) # {} /\ Begin(s, [h EXCEPT !.at = SingleRoom(u, v)])
  <2> DEFINE r == SingleRoom(u, v)
             n == [h EXCEPT !.at = r]
  <2>1. r \in SingleRooms(u, v) /\ r \in Rooms /\ Begin(s, n)
    BY <1>6, ChosenRooms
  <2> HIDE DEF r
  <2>2. /\ n \in Handlers /\ n.pc = "request_create" /\ n.user = u /\ n.peer = v
        /\ n.todo = old /\ n.at = r
    BY <1>5, <2>1 DEF Handlers
  <2> HIDE DEF n
  <2>3. HandlerOK(n, message')
    BY <1>4, <2>1, <2>2 DEF HandlerOK, Requesting, Broadcasting, RoomPcs, PeerPcs, AtPcs, NewPcs,
       BanPcs, ConnectPcs, GroupPcs, AddPcs, KickPcs, LeavePcs, DeletePcs, RenamePcs,
       BroadcastPcs, SendPcs, EnterPcs
  <2>4. Begins(s, n)
    BY <1>1, <2>1, <2>2, <2>3, BeginsWith
  <2> QED BY <1>1, <2>1, <2>2, <2>4 DEF Begins
<1>7. CASE /\ SingleRooms(u, v) = {} /\ Fresh # {}
           /\ Begin(s, [h EXCEPT !.pc = "room_setting", !.at = NewRoom, !.next = "request_create"])
  <2> DEFINE r == NewRoom
             n == [h EXCEPT !.pc = "room_setting", !.at = r, !.next = "request_create"]
  <2>1. r \in Fresh /\ r \in Rooms /\ Begin(s, n)
    BY <1>7, ChosenRooms
  <2> HIDE DEF r
  <2>2. /\ n \in Handlers /\ n.pc = "room_setting" /\ n.user = u /\ n.peer = v
        /\ n.todo = old /\ n.at = r /\ n.next = "request_create" /\ n.room = NoRoom
    BY <1>2, <1>5, <2>1 DEF Handlers, Nexts
  <2> HIDE DEF n
  <2>3. HandlerOK(n, message')
    BY <1>4, <2>1, <2>2 DEF HandlerOK, Requesting, Broadcasting, RoomPcs, PeerPcs, AtPcs, NewPcs,
       BanPcs, ConnectPcs, GroupPcs, AddPcs, KickPcs, LeavePcs, DeletePcs, RenamePcs,
       BroadcastPcs, SendPcs, EnterPcs
  <2>4. Begins(s, n)
    BY <1>1, <2>1, <2>2, <2>3, BeginsWith
  <2> QED BY <1>1, <1>7, <2>1, <2>2, <2>4 DEF Begins
<1> QED BY <1>1, <1>6, <1>7 DEF h, c

LEMMA ConnectBegins ==
  ASSUME Inv1, Grows, NEW s \in Slots, NEW u \in Users, ConnectBegin(s, u)
  PROVE  LET n == req'[s] IN Begins(s, n) /\ n.pc = "connect_read" /\ n.user = u
<1> DEFINE c == Call("connect_read", u, NoRoom)
           todo == {}
           n == [c EXCEPT !.todo = todo]
<1>1. Free(s, "connect") /\ Begin(s, n)
  BY DEF ConnectBegin
<1>2. "connect_read" \in PCs /\ todo \in Todos
  BY DEF PCs, ConnectPcs, Todos
<1>3. Called(c, "connect_read", u, NoRoom)
  BY <1>2, CallType
<1> HIDE DEF c
<1>4. n \in Handlers /\ n.pc = "connect_read" /\ n.user = u /\ n.todo = {}
  BY <1>2, <1>3 DEF Called, Handlers
<1> HIDE DEF n
<1>5. HandlerOK(n, message')
  BY <1>4 DEF HandlerOK, Requesting, Broadcasting, RoomPcs, PeerPcs, AtPcs, NewPcs, BanPcs,
     ConnectPcs, GroupPcs, AddPcs, KickPcs, LeavePcs, DeletePcs, RenamePcs, BroadcastPcs, SendPcs,
     EnterPcs
<1>6. Begins(s, n)
  BY <1>1, <1>4, <1>5, BeginsWith
<1> QED BY <1>4, <1>6 DEF Begins

LEMMA GroupBegins ==
  ASSUME Inv1, Grows, NEW s \in Slots, NEW u \in Users, NEW us \in SUBSET Users,
         GroupBegin(s, u, us)
  PROVE  LET n == req'[s]
         IN /\ Begins(s, n) /\ n.pc = "group_members" /\ n.user = u /\ n.room \in Fresh
            /\ n.todo = us /\ u \notin us
            /\ n.list = {v \in us : ~Banned(u, v)} \cup {u}
<1> DEFINE r == NewRoom
           c == Call("group_members", u, r)
           list == {v \in us : ~Banned(u, v)} \cup {u}
           n == [c EXCEPT !.todo = us, !.list = list]
<1>1. Free(s, "group") /\ u \notin us /\ Fresh # {} /\ Begin(s, n)
  BY DEF GroupBegin
<1>2. r \in Fresh /\ r \in Rooms
  BY <1>1, ChosenRooms
<1> HIDE DEF r
<1>3. "group_members" \in PCs /\ us \in Todos /\ list \subseteq Users /\ list \in Lists
  BY DEF PCs, RoomPcs, GroupPcs, Todos, Lists
<1>4. Called(c, "group_members", u, r)
  BY <1>2, <1>3, CallType
<1> HIDE DEF c, list
<1>5. /\ n \in Handlers /\ n.pc = "group_members" /\ n.user = u /\ n.room = r /\ n.todo = us
      /\ n.list = list
  BY <1>3, <1>4 DEF Called, Handlers
<1> HIDE DEF n
<1>6. HandlerOK(n, message')
  BY <1>2, <1>3, <1>5 DEF HandlerOK, Requesting, Broadcasting, RoomPcs, PeerPcs, AtPcs, NewPcs, BanPcs,
     ConnectPcs, GroupPcs, AddPcs, KickPcs, LeavePcs, DeletePcs, RenamePcs, BroadcastPcs, SendPcs,
     EnterPcs
<1>7. Begins(s, n)
  BY <1>1, <1>5, <1>6, BeginsWith
<1> QED BY <1>1, <1>2, <1>5, <1>7 DEF Begins, list

LEMMA AddBegins ==
  ASSUME Inv1, Grows, NEW s \in Slots, NEW u \in Users, NEW v \in Users, NEW r \in Rooms,
         AddBegin(s, u, v, r)
  PROVE  LET n == req'[s]
         IN /\ Begins(s, n) /\ n.pc = "add_role" /\ n.user = u /\ n.peer = v /\ n.room = r
            /\ n.seen = member[r][u] /\ u # v /\ IsGroupAdmin(r, u) /\ ~InGroup(r, v)
<1> DEFINE c == Call("add_role", u, r)
           x == member[r][u]
           n == [c EXCEPT !.peer = v, !.seen = x]
<1>1. /\ Free(s, "add") /\ Begin(s, n) /\ u # v /\ IsGroupAdmin(r, u) /\ ~InGroup(r, v)
  BY DEF AddBegin
<1>2. "add_role" \in PCs /\ x \in MemberDocs
  BY DEF PCs, PeerPcs, AddPcs, Inv1, Typed
<1>3. Called(c, "add_role", u, r)
  BY <1>2, CallType
<1> HIDE DEF c, x
<1>4. /\ n \in Handlers /\ n.pc = "add_role" /\ n.user = u /\ n.room = r /\ n.peer = v
      /\ n.seen = x
  BY <1>2, <1>3 DEF Called, Handlers
<1> HIDE DEF n
<1>5. HandlerOK(n, message')
  BY <1>4 DEF HandlerOK, Requesting, Broadcasting, RoomPcs, PeerPcs, AtPcs, NewPcs, BanPcs,
     ConnectPcs, GroupPcs, AddPcs, KickPcs, LeavePcs, DeletePcs, RenamePcs, BroadcastPcs, SendPcs,
     EnterPcs
<1>6. Begins(s, n)
  BY <1>1, <1>4, <1>5, BeginsWith
<1> QED BY <1>1, <1>4, <1>6 DEF Begins, x

LEMMA KickBegins ==
  ASSUME Inv1, Grows, NEW s \in Slots, NEW u \in Users, NEW v \in Users, NEW r \in Rooms,
         KickBegin(s, u, v, r)
  PROVE  LET n == req'[s]
         IN /\ Begins(s, n) /\ n.pc = "kick_role" /\ n.user = u /\ n.peer = v /\ n.room = r
            /\ u # v /\ IsGroupAdmin(r, u) /\ InGroup(r, v)
<1> DEFINE c == Call("kick_role", u, r)
           n == [c EXCEPT !.peer = v]
<1>1. Free(s, "kick") /\ Begin(s, n) /\ u # v /\ IsGroupAdmin(r, u) /\ InGroup(r, v)
  BY DEF KickBegin
<1>2. "kick_role" \in PCs
  BY DEF PCs, PeerPcs, KickPcs
<1>3. Called(c, "kick_role", u, r)
  BY <1>2, CallType
<1> HIDE DEF c
<1>4. /\ n \in Handlers /\ n.pc = "kick_role" /\ n.user = u /\ n.room = r /\ n.peer = v
      /\ n.next = "idle"
  BY <1>2, <1>3 DEF Called, Handlers
<1> HIDE DEF n
<1>5. HandlerOK(n, message')
  BY <1>4 DEF HandlerOK, Requesting, Broadcasting, RoomPcs, PeerPcs, AtPcs, NewPcs, BanPcs,
     ConnectPcs, GroupPcs, AddPcs, KickPcs, LeavePcs, DeletePcs, RenamePcs, BroadcastPcs, SendPcs,
     EnterPcs
<1>6. Begins(s, n)
  BY <1>1, <1>4, <1>5, BeginsWith
<1> QED BY <1>1, <1>4, <1>6 DEF Begins

LEMMA RoleBegins ==
  ASSUME Inv1, Grows, NEW s \in Slots, NEW u \in Users, NEW v \in Users, NEW r \in Rooms,
         RoleBegin(s, u, v, r)
  PROVE  LET n == req'[s]
         IN /\ Begins(s, n) /\ n.pc = "role_set" /\ n.user = u /\ n.peer = v /\ n.room = r
            /\ n.next = "idle" /\ u # v /\ IsGroupAdmin(r, u) /\ InGroup(r, v)
<1> DEFINE c == Call("role_set", u, r)
<1>1. /\ Free(s, "role") /\ u # v /\ IsGroupAdmin(r, u) /\ InGroup(r, v)
      /\ \E g \in Roles : Begin(s, [c EXCEPT !.peer = v, !.lId = g, !.list = Telling(r, v, g)])
  BY DEF RoleBegin
<1>2. PICK g \in Roles : Begin(s, [c EXCEPT !.peer = v, !.lId = g, !.list = Telling(r, v, g)])
  BY <1>1
<1> DEFINE told == Telling(r, v, g)
           n == [c EXCEPT !.peer = v, !.lId = g, !.list = told]
<1>3. "role_set" \in PCs /\ told \in Lists
  BY DEF PCs, PeerPcs, Telling, Lists
<1>4. Called(c, "role_set", u, r)
  BY <1>3, CallType
<1> HIDE DEF c, told
<1>5. /\ n \in Handlers /\ n.pc = "role_set" /\ n.user = u /\ n.room = r /\ n.peer = v
      /\ n.next = "idle" /\ n.lId = g
  BY <1>3, <1>4 DEF Called, Handlers
<1>6. Begin(s, n)
  BY <1>2 DEF told
<1> HIDE DEF n
<1>7. HandlerOK(n, message')
  BY <1>5 DEF HandlerOK, Requesting, Broadcasting, RoomPcs, PeerPcs, AtPcs, NewPcs, BanPcs,
     ConnectPcs, GroupPcs, AddPcs, KickPcs, LeavePcs, DeletePcs, RenamePcs, BroadcastPcs, SendPcs,
     EnterPcs
<1>8. Begins(s, n)
  BY <1>1, <1>5, <1>6, <1>7, BeginsWith
<1> QED BY <1>1, <1>5, <1>8 DEF Begins

LEMMA LeaveBegins ==
  ASSUME Inv1, Grows, NEW s \in Slots, NEW u \in Users, NEW r \in Rooms, LeaveBegin(s, u, r)
  PROVE  LET n == req'[s]
         IN /\ Begins(s, n) /\ n.pc = "leave_socket" /\ n.user = u /\ n.room = r
            /\ n.after = "leave" /\ IsMember(r, u)
            /\ n.next = IF Documents(r) = 1 THEN "delete_members"
                        ELSE IF ~InGroup(r, u) THEN "idle"
                        ELSE IF Head(role[r][u]) = "superAdmin" THEN "leave_successor"
                        ELSE "leave_role"
<1> DEFINE c == Call("leave_socket", u, r)
           next == IF Documents(r) = 1 THEN "delete_members"
                   ELSE IF ~InGroup(r, u) THEN "idle"
                   ELSE IF Head(role[r][u]) = "superAdmin" THEN "leave_successor"
                   ELSE "leave_role"
           n == [c EXCEPT !.next = next, !.after = "leave"]
<1>1. Free(s, "leave") /\ IsMember(r, u) /\ Begin(s, n)
  BY DEF LeaveBegin
<1>2. /\ "leave_socket" \in PCs
      /\ next \in {"idle", "leave_role", "leave_successor", "delete_members"}
  BY DEF PCs, RoomPcs, LeavePcs
<1>3. Called(c, "leave_socket", u, r)
  BY <1>2, CallType
<1> HIDE DEF c, next
<1>4. /\ n \in Handlers /\ n.pc = "leave_socket" /\ n.user = u /\ n.room = r /\ n.next = next
      /\ n.after = "leave"
  BY <1>2, <1>3 DEF Called, Handlers, Nexts
<1> HIDE DEF n
<1>5. HandlerOK(n, message')
  BY <1>2, <1>4 DEF HandlerOK, Requesting, Broadcasting, RoomPcs, PeerPcs, AtPcs, NewPcs, BanPcs,
     ConnectPcs, GroupPcs, AddPcs, KickPcs, LeavePcs, DeletePcs, RenamePcs, BroadcastPcs, SendPcs,
     EnterPcs
<1>6. Begins(s, n)
  BY <1>1, <1>4, <1>5, BeginsWith
<1> QED BY <1>1, <1>4, <1>6 DEF Begins, next

LEMMA DeleteGroupBegins ==
  ASSUME Inv1, Grows, NEW s \in Slots, NEW u \in Users, NEW r \in Rooms, DeleteGroup(s, u, r)
  PROVE  LET n == req'[s]
         IN /\ Begins(s, n) /\ n.pc = "announce" /\ n.user = u /\ n.room = r
            /\ n.next = "delete_sockets" /\ n.after = "idle"
            /\ member[r][u].rT = "g" /\ setting[r].rT = "g" /\ InGroup(r, u)
<1> DEFINE c == Call("announce", u, r)
           n == [c EXCEPT !.next = "delete_sockets"]
<1>1. /\ Free(s, "deleteGroup") /\ Begin(s, n)
      /\ member[r][u].rT = "g" /\ setting[r].rT = "g" /\ InGroup(r, u)
  BY DEF DeleteGroup
<1>2. "announce" \in PCs
  BY DEF PCs, RoomPcs
<1>3. Called(c, "announce", u, r)
  BY <1>2, CallType
<1> HIDE DEF c
<1>4. /\ n \in Handlers /\ n.pc = "announce" /\ n.user = u /\ n.room = r
      /\ n.next = "delete_sockets" /\ n.after = "idle"
  BY <1>2, <1>3 DEF Called, Handlers, Nexts
<1> HIDE DEF n
<1>5. HandlerOK(n, message')
  BY <1>4 DEF HandlerOK, Requesting, Broadcasting, RoomPcs, PeerPcs, AtPcs, NewPcs, BanPcs,
     ConnectPcs, GroupPcs, AddPcs, KickPcs, LeavePcs, DeletePcs, RenamePcs, BroadcastPcs, SendPcs,
     EnterPcs
<1>6. Begins(s, n)
  BY <1>1, <1>4, <1>5, BeginsWith
<1> QED BY <1>1, <1>4, <1>6 DEF Begins

LEMMA RenameBegins ==
  ASSUME Inv1, Grows, NEW s \in Slots, NEW u \in Users, NEW r \in Rooms,
         UpdateTitle(s, u, r) \/ UpdateImage(s, u, r)
  PROVE  LET n == req'[s]
         IN /\ Begins(s, n) /\ n.pc = "rename_members" /\ n.user = u /\ n.room = r
            /\ n.next \in {"t", "img"} /\ n.lId \in Names /\ member[r][u].rT = "g"
<1> DEFINE c == Call("rename_members", u, r)
<1>1. PICK field \in {"t", "img"}, name \in Names :
        /\ Free(s, "rename") /\ member[r][u].rT = "g"
        /\ Begin(s, [c EXCEPT !.next = field, !.lId = name])
  BY DEF UpdateTitle, UpdateImage, Rename
<1> DEFINE n == [c EXCEPT !.next = field, !.lId = name]
<1>2. "rename_members" \in PCs
  BY DEF PCs, RoomPcs, RenamePcs
<1>3. Called(c, "rename_members", u, r)
  BY <1>2, CallType
<1> HIDE DEF c
<1>4. /\ n \in Handlers /\ n.pc = "rename_members" /\ n.user = u /\ n.room = r
      /\ n.next = field /\ n.lId = name
  BY <1>2, <1>3 DEF Called, Handlers, Nexts
<1>5. Begin(s, n)
  BY <1>1
<1> HIDE DEF n
<1>6. HandlerOK(n, message')
  BY <1>4 DEF HandlerOK, Requesting, Broadcasting, RoomPcs, PeerPcs, AtPcs, NewPcs, BanPcs,
     ConnectPcs, GroupPcs, AddPcs, KickPcs, LeavePcs, DeletePcs, RenamePcs, BroadcastPcs, SendPcs,
     EnterPcs
<1>7. Begins(s, n)
  BY <1>1, <1>4, <1>5, <1>6, BeginsWith
<1> QED BY <1>1, <1>4, <1>7 DEF Begins

LEMMA BroadcastBegins ==
  ASSUME Inv1, Grows, NEW s \in Slots, NEW u \in Users, NEW us \in SUBSET Users,
         BroadcastBegin(s, u, us)
  PROVE  LET n == req'[s]
         IN /\ Begins(s, n) /\ n.pc = "broadcast_member" /\ n.user = u /\ n.room \in Fresh
            /\ n.todo = us /\ u \notin us /\ n.list = {} /\ n.after = "broadcast_own"
<1> DEFINE r == NewRoom
           c == Call("broadcast_member", u, r)
           n == [c EXCEPT !.todo = us, !.after = "broadcast_own"]
<1>1. Free(s, "broadcast") /\ u \notin us /\ Fresh # {} /\ Begin(s, n)
  BY DEF BroadcastBegin
<1>2. r \in Fresh /\ r \in Rooms
  BY <1>1, ChosenRooms
<1> HIDE DEF r
<1>3. "broadcast_member" \in PCs /\ us \in Todos
  BY DEF PCs, RoomPcs, BroadcastPcs, Todos
<1>4. Called(c, "broadcast_member", u, r)
  BY <1>2, <1>3, CallType
<1> HIDE DEF c
<1>5. /\ n \in Handlers /\ n.pc = "broadcast_member" /\ n.user = u /\ n.room = r /\ n.todo = us
      /\ n.list = {} /\ n.after = "broadcast_own"
  BY <1>3, <1>4 DEF Called, Handlers, Nexts
<1> HIDE DEF n
<1>6. HandlerOK(n, message')
  BY <1>2, <1>5 DEF HandlerOK, Requesting, Broadcasting, RoomPcs, PeerPcs, AtPcs, NewPcs, BanPcs,
     ConnectPcs, GroupPcs, AddPcs, KickPcs, LeavePcs, DeletePcs, RenamePcs, BroadcastPcs, SendPcs,
     EnterPcs
<1>7. Begins(s, n)
  BY <1>1, <1>5, <1>6, BeginsWith
<1> QED BY <1>1, <1>2, <1>5, <1>7 DEF Begins

LEMMA AddToBroadcastBegins ==
  ASSUME Inv1, Grows, NEW s \in Slots, NEW u \in Users, NEW r \in Rooms, NEW us \in SUBSET Users,
         AddToBroadcast(s, u, r, us)
  PROVE  LET n == req'[s]
         IN /\ Begins(s, n) /\ n.pc = "broadcast_next" /\ n.user = u /\ n.room = r
            /\ n.todo = us /\ u \notin us /\ n.list = {} /\ n.after = "broadcast_copies"
            /\ member[r][u].rT = "b"
<1> DEFINE c == Call("broadcast_next", u, r)
           n == [c EXCEPT !.todo = us, !.after = "broadcast_copies"]
<1>1. Free(s, "addToBroadcast") /\ u \notin us /\ Begin(s, n) /\ member[r][u].rT = "b"
  BY DEF AddToBroadcast
<1>2. "broadcast_next" \in PCs /\ us \in Todos
  BY DEF PCs, RoomPcs, BroadcastPcs, Todos
<1>3. Called(c, "broadcast_next", u, r)
  BY <1>2, CallType
<1> HIDE DEF c
<1>4. /\ n \in Handlers /\ n.pc = "broadcast_next" /\ n.user = u /\ n.room = r /\ n.todo = us
      /\ n.list = {} /\ n.after = "broadcast_copies"
  BY <1>2, <1>3 DEF Called, Handlers, Nexts
<1> HIDE DEF n
<1>5. HandlerOK(n, message')
  BY <1>4 DEF HandlerOK, Requesting, Broadcasting, RoomPcs, PeerPcs, AtPcs, NewPcs, BanPcs,
     ConnectPcs, GroupPcs, AddPcs, KickPcs, LeavePcs, DeletePcs, RenamePcs, BroadcastPcs, SendPcs,
     EnterPcs
<1>6. Begins(s, n)
  BY <1>1, <1>4, <1>5, BeginsWith
<1> QED BY <1>1, <1>4, <1>6 DEF Begins

LEMMA SendBegins ==
  ASSUME Inv1, Grows, NEW s \in Slots, NEW u \in Users, NEW r \in Rooms, NEW l \in LocalIds,
         SendBegin(s, u, r, l)
  PROVE  LET n == req'[s]
         IN /\ Begins(s, n) /\ n.pc = "send_undelete" /\ n.user = u /\ n.room = r /\ n.lId = l
            /\ n.seen = member[r][u] /\ IsMember(r, u)
            /\ n.list \subseteq {"created", "isOneSeen", "poll", "disappearAt"}
<1> DEFINE c == Call("send_undelete", u, r)
           x == member[r][u]
<1>1. /\ Free(s, "send") /\ IsMember(r, u)
      /\ \E list \in SUBSET {"created", "isOneSeen", "poll", "disappearAt"} :
           "created" \in list /\ Begin(s, [c EXCEPT !.lId = l, !.seen = x, !.list = list])
  BY DEF SendBegin
<1>2. PICK list \in SUBSET {"created", "isOneSeen", "poll", "disappearAt"} :
        "created" \in list /\ Begin(s, [c EXCEPT !.lId = l, !.seen = x, !.list = list])
  BY <1>1
<1> DEFINE n == [c EXCEPT !.lId = l, !.seen = x, !.list = list]
<1>3. /\ "send_undelete" \in PCs /\ x \in MemberDocs /\ x.rT \in RoomTypes
      /\ list \subseteq Tags /\ list \in Lists
  <2>1. x \in MemberDocs /\ x.rT # "none"
    BY <1>1 DEF Inv1, Typed, IsMember
  <2>2. x.rT \in RoomTypes
    BY <2>1 DEF MemberDocs
  <2>3. list \subseteq Tags
    BY DEF Tags
  <2> QED BY <2>1, <2>2, <2>3 DEF PCs, RoomPcs, SendPcs, Lists
<1>4. Called(c, "send_undelete", u, r)
  BY <1>3, CallType
<1>5. Begin(s, n)
  BY <1>2
<1> HIDE DEF c, x
<1>6. /\ n \in Handlers /\ n.pc = "send_undelete" /\ n.user = u /\ n.room = r /\ n.lId = l
      /\ n.seen = x /\ n.list = list
  BY <1>3, <1>4 DEF Called, Handlers
<1> HIDE DEF n
<1>7. HandlerOK(n, message')
  BY <1>2, <1>3, <1>6 DEF HandlerOK, Requesting, Broadcasting, RoomPcs, PeerPcs, AtPcs, NewPcs, BanPcs,
     ConnectPcs, GroupPcs, AddPcs, KickPcs, LeavePcs, DeletePcs, RenamePcs, BroadcastPcs, SendPcs,
     EnterPcs
<1>8. Begins(s, n)
  BY <1>1, <1>5, <1>6, <1>7, BeginsWith
<1> QED BY <1>1, <1>6, <1>8 DEF Begins, x

LEMMA ReactBegins ==
  ASSUME Inv1, Grows, NEW s \in Slots, NEW u \in Users, NEW i \in DOMAIN message, NEW e \in Emojis,
         ReactBegin(s, u, i, e)
  PROVE  LET n == req'[s] IN Begins(s, n) /\ n.pc = "react_save" /\ n.user = u /\ n.msg = i
<1> DEFINE r == message[i].rId
           c == Call("react_save", u, r)
           old == message[i].reactions
           list == [old EXCEPT ![u] = IF old[u] = e THEN "none" ELSE e]
           n == [c EXCEPT !.msg = i, !.list = list]
<1>1. Free(s, "react") /\ Begin(s, n)
  BY DEF ReactBegin
<1>2. i \in 1..Len(message) /\ i \in 1..Len(message') /\ i \in Nat /\ r \in Rooms /\ old \in Reactions
  <2>1. message[i] \in MessageDocs /\ i \in 1..Len(message) /\ i \in Nat
    BY MessageDoc
  <2> QED BY <2>1 DEF MessageDocs, Grows
<1> HIDE DEF old
<1>3. "react_save" \in PCs /\ list \in Reactions /\ list \in Lists
  <2> DEFINE b == IF old[u] = e THEN "none" ELSE e
  <2>1. b \in Emojis \cup {"none"}
    OBVIOUS
  <2> HIDE DEF b
  <2>2. [old EXCEPT ![u] = b] \in Reactions
    BY <1>2, <2>1 DEF Reactions
  <2>3. list \in Reactions
    BY <2>2 DEF b
  <2>4. Reactions \subseteq Lists
    BY DEF Lists
  <2>5. "react_save" \in PCs
    BY DEF PCs
  <2> HIDE DEF list
  <2> QED BY <2>3, <2>4, <2>5
<1> HIDE DEF r, list
<1>4. Called(c, "react_save", u, r)
  BY <1>2, <1>3, CallType
<1> HIDE DEF c
<1>5. n \in Handlers /\ n.pc = "react_save" /\ n.user = u /\ n.msg = i /\ n.list = list
  BY <1>2, <1>3, <1>4 DEF Called, Handlers
<1> HIDE DEF n
<1>6. HandlerOK(n, message')
  BY <1>2, <1>3, <1>5 DEF HandlerOK, Requesting, Broadcasting, RoomPcs, PeerPcs, AtPcs, NewPcs, BanPcs,
     ConnectPcs, GroupPcs, AddPcs, KickPcs, LeavePcs, DeletePcs, RenamePcs, BroadcastPcs, SendPcs,
     EnterPcs
<1>7. Begins(s, n)
  BY <1>1, <1>5, <1>6, BeginsWith
<1> QED BY <1>5, <1>7 DEF Begins

LEMMA EnterBegins ==
  ASSUME Inv1, Grows, NEW s \in Slots, NEW u \in Users, NEW r \in Rooms, EnterBegin(s, u, r)
  PROVE  LET n == req'[s]
         IN /\ Begins(s, n) /\ n.pc = "enter_read" /\ n.user = u /\ n.room = r
            /\ n.seen = member[r][u] /\ IsMember(r, u)
<1> DEFINE c == Call("enter_read", u, r)
           x == member[r][u]
           n == [c EXCEPT !.seen = x]
<1>1. Free(s, "enter") /\ Begin(s, n) /\ IsMember(r, u)
  BY DEF EnterBegin
<1>2. "enter_read" \in PCs /\ x \in MemberDocs
  BY DEF PCs, RoomPcs, EnterPcs, Inv1, Typed
<1>3. Called(c, "enter_read", u, r)
  BY <1>2, CallType
<1> HIDE DEF c, x
<1>4. n \in Handlers /\ n.pc = "enter_read" /\ n.user = u /\ n.room = r /\ n.seen = x
  BY <1>2, <1>3 DEF Called, Handlers
<1> HIDE DEF n
<1>5. HandlerOK(n, message')
  BY <1>4 DEF HandlerOK, Requesting, Broadcasting, RoomPcs, PeerPcs, AtPcs, NewPcs, BanPcs,
     ConnectPcs, GroupPcs, AddPcs, KickPcs, LeavePcs, DeletePcs, RenamePcs, BroadcastPcs, SendPcs,
     EnterPcs
<1>6. Begins(s, n)
  BY <1>1, <1>4, <1>5, BeginsWith
<1> QED BY <1>1, <1>4, <1>6 DEF Begins, x

-----------------------------------------------------------------------------
(* What each step leaves alone *)

LEMMA RoomsFrame ==
  ASSUME NEW s, RoomsContinue(s)
  PROVE  /\ UNCHANGED <<scene, role, copies, apart, online, later>>
         /\ CreateSetting(s) \/ OrderSetting(s) \/ UNCHANGED setting
         /\ CreateMembers(s) \/ OpenShow(s) \/ UNCHANGED member
         /\ BanCreate(s) \/ BanDelete(s) \/ UNCHANGED bans
         /\ RequestCreate(s) \/ UNCHANGED requests
         /\ \/ JoinMembers(s) \/ OpenJoin(s) \/ BanSockets(s) \/ ConnectJoin(s)
            \/ UNCHANGED joined
<1>1. \/ CreateSetting(s) \/ OrderSetting(s)
     => UNCHANGED <<scene, member, role, copies, message, bans, requests, apart, online,
     joined, later>>
  BY DEF CreateSetting, OrderSetting, rooms, people, sockets, UnchangedRooms
<1>2. \/ CreateMembers(s) \/ OpenShow(s)
     => UNCHANGED <<scene, setting, role, copies, message, bans, requests, apart, online,
     joined, later>>
  BY DEF CreateMembers, OpenShow, rooms, people, sockets, UnchangedRooms
<1>3. \/ JoinMembers(s) \/ OpenJoin(s) \/ BanSockets(s) \/ ConnectJoin(s)
     => UNCHANGED <<scene, setting, member, role, copies, message, bans, requests, apart,
     online, later>>
  BY DEF JoinMembers, OpenJoin, BanSockets, ConnectJoin, rooms, people, sockets, UnchangedRooms
<1>4. \/ HideRoom(s) \/ RoomInfo(s) \/ ConnectDeliver(s)
     => UNCHANGED <<scene, setting, member, role, copies, bans, requests, apart, online,
     joined, later>>
  BY DEF HideRoom, RoomInfo, ConnectDeliver, rooms, people, sockets, UnchangedRooms
<1>5. \/ BanCreate(s) \/ BanDelete(s)
     => UNCHANGED <<scene, setting, member, role, copies, message, requests, apart, online,
     joined, later>>
  BY DEF BanCreate, BanDelete, rooms, people, sockets, UnchangedRooms
<1>6. RequestCreate(s) => UNCHANGED <<scene, setting, member, role, copies, message, bans,
     apart, online, joined, later>>
  BY DEF RequestCreate, rooms, people, sockets, UnchangedRooms
<1>7. ConnectRead(s) => UNCHANGED <<scene, setting, member, role, copies, message, bans,
     requests, apart, online, joined, later>>
  BY DEF ConnectRead, rooms, people, sockets, UnchangedRooms
<1> QED BY <1>1, <1>2, <1>3, <1>4, <1>5, <1>6, <1>7 DEF RoomsContinue

LEMMA GroupsFrame ==
  ASSUME NEW s, GroupsContinue(s)
  PROVE  /\ UNCHANGED <<scene, bans, requests, online>>
         /\ \/ CreateGroupSetting(s) \/ DeleteSetting(s) \/ SettingsSave(s)
            \/ RenameSetting(s) \/ BroadcastSetting(s) \/ UNCHANGED setting
         /\ \/ CreateGroupMembers(s) \/ AddMember(s) \/ KickMember(s) \/ AwaitAnnounce(s)
            \/ LeaveMember(s) \/ DeleteMembers(s) \/ RenameMembers(s) \/ BroadcastMember(s)
            \/ UNCHANGED member
         /\ \/ CreateGroupRoles(s) \/ AddRole(s) \/ KickRole(s) \/ RoleSet(s)
            \/ LeaveRole(s) \/ DeleteRoles(s) \/ UNCHANGED role
         /\ BroadcastCopies(s) \/ UNCHANGED copies
         /\ \/ JoinGroup(s) \/ LeaveSocket(s) \/ LeaveMember(s) \/ DeleteSockets(s)
            \/ UNCHANGED apart
         /\ \/ JoinGroup(s) \/ AddJoin(s) \/ KickLeave(s) \/ LeaveSocket(s)
            \/ BroadcastJoin(s) \/ UNCHANGED joined
         /\ \/ AddJoin(s) \/ AwaitAnnounce(s) \/ RoleSet(s) \/ LeaveSocket(s)
            \/ RenameMembers(s) \/ UNCHANGED later
<1>1. \/ CreateGroupMembers(s) \/ AddMember(s) \/ KickMember(s) \/ DeleteMembers(s)
      \/ BroadcastMember(s)
     => UNCHANGED <<scene, setting, role, copies, message, bans, requests, apart, online,
     joined, later>>
  BY DEF CreateGroupMembers, AddMember, KickMember, DeleteMembers, BroadcastMember, rooms, people,
     sockets, UnchangedRooms
<1>2. \/ CreateGroupRoles(s) \/ AddRole(s) \/ KickRole(s) \/ LeaveRole(s) \/ DeleteRoles(s)
     => UNCHANGED <<scene, setting, member, copies, message, bans, requests, apart, online,
     joined, later>>
  BY DEF CreateGroupRoles, AddRole, KickRole, LeaveRole, DeleteRoles, rooms, people, sockets,
     UnchangedRooms
<1>3. \/ CreateGroupSetting(s) \/ DeleteSetting(s) \/ SettingsSave(s) \/ RenameSetting(s)
      \/ BroadcastSetting(s)
     => UNCHANGED <<scene, member, role, copies, message, bans, requests, apart, online,
     joined, later>>
  BY DEF CreateGroupSetting, DeleteSetting, SettingsSave, RenameSetting, BroadcastSetting, rooms,
     people, sockets, UnchangedRooms
<1>4. JoinGroup(s) => UNCHANGED <<scene, setting, member, role, copies, message, bans, requests,
     online, later>>
  BY DEF JoinGroup, rooms, people, sockets, UnchangedRooms
<1>5. \/ GroupHello(s) \/ DeleteMessages(s) \/ BroadcastNote(s) \/ BroadcastOwn(s)
     => UNCHANGED <<scene, setting, member, role, copies, bans, requests, apart, online,
     joined, later>>
  BY DEF GroupHello, DeleteMessages, BroadcastNote, BroadcastOwn, rooms, people, sockets,
     UnchangedRooms
<1>6. AddJoin(s) => UNCHANGED <<scene, setting, member, role, copies, message, bans, requests,
     apart, online>>
  BY DEF AddJoin, rooms, people, sockets, UnchangedRooms
<1>12. LeaveSocket(s) => UNCHANGED <<scene, setting, member, role, copies, message, bans,
     requests, online>>
  BY DEF LeaveSocket, rooms, people, sockets, UnchangedRooms
<1>13. LeaveMember(s) => UNCHANGED <<scene, setting, role, copies, message, bans, requests,
     online, joined, later>>
  BY DEF LeaveMember, rooms, people, sockets, UnchangedRooms
<1>14. DeleteSockets(s) => UNCHANGED <<scene, setting, member, role, copies, message, bans,
     requests, online, joined, later>>
  BY DEF DeleteSockets, rooms, people, sockets, UnchangedRooms
<1>15. RoleSet(s) => UNCHANGED <<scene, setting, member, copies, message, bans, requests, apart,
     online, joined>>
  BY DEF RoleSet, rooms, people, sockets, UnchangedRooms
<1>7. \/ KickLeave(s) \/ BroadcastJoin(s)
     => UNCHANGED <<scene, setting, member, role, copies, message, bans, requests, apart,
     online, later>>
  BY DEF KickLeave, BroadcastJoin, rooms, people, sockets, UnchangedRooms
<1>8. AwaitAnnounce(s) => UNCHANGED <<scene, setting, role, copies, bans, requests, apart,
     online, joined>>
  BY DEF AwaitAnnounce, rooms, people, sockets, UnchangedRooms
<1>9. \/ LeaveSuccessor(s) \/ BroadcastNext(s)
     => UNCHANGED <<scene, setting, member, role, copies, message, bans, requests, apart,
     online, joined, later>>
  BY DEF LeaveSuccessor, BroadcastNext, rooms, people, sockets, UnchangedRooms
<1>10. RenameMembers(s) => UNCHANGED <<scene, setting, role, copies, message, bans, requests,
     apart, online, joined>>
  BY DEF RenameMembers, rooms, people, sockets, UnchangedRooms
<1>11. BroadcastCopies(s) => UNCHANGED <<scene, setting, member, role, message, bans, requests,
     apart, online, joined, later>>
  BY DEF BroadcastCopies, rooms, people, sockets, UnchangedRooms
<1> QED BY <1>1, <1>2, <1>3, <1>4, <1>5, <1>6, <1>7, <1>8, <1>9, <1>10, <1>11, <1>12, <1>13,
           <1>14, <1>15 DEF GroupsContinue

LEMMA MessagesFrame ==
  ASSUME NEW s, MessagesContinue(s)
  PROVE  /\ UNCHANGED <<scene, setting, role, copies, bans, requests, apart, online, joined,
                        later>>
         /\ SendUndelete(s) \/ DeletedRoom(s) \/ EnterRead(s) \/ UNCHANGED member
<1>1. \/ SendUndelete(s) \/ DeletedRoom(s) \/ EnterRead(s)
     => UNCHANGED <<scene, setting, role, copies, message, bans, requests, apart, online,
     joined, later>>
  BY DEF SendUndelete, DeletedRoom, EnterRead, rooms, people, sockets, UnchangedRooms
<1>2. \/ SendCheck(s) \/ DeletedLook(s)
     => UNCHANGED <<scene, setting, member, role, copies, message, bans, requests, apart,
     online, joined, later>>
  BY DEF SendCheck, DeletedLook, rooms, people, sockets, UnchangedRooms
<1>3. \/ SendCreate(s) \/ SendStatuses(s) \/ SendCopies(s) \/ ReactSave(s)
      \/ EnterDeliver(s) \/ EnterSeen(s)
     => UNCHANGED <<scene, setting, member, role, copies, bans, requests, apart, online,
     joined, later>>
  BY DEF SendCreate, SendStatuses, SendCopies, ReactSave, EnterDeliver, EnterSeen,
     rooms, people, sockets, UnchangedRooms
<1> QED BY <1>1, <1>2, <1>3 DEF MessagesContinue

LEMMA AtOnceAnswers ==
  ASSUME NEW request, AtOnce(request)
  PROVE  Answered
BY DEF AtOnce, Counted, Answered

LEMMA ChannelStarts ==
  ASSUME Inv1, Grows, ChannelController
  PROVE  RequestTaken
<1>1. CASE \E u, v \in Users, s \in Slots : PeerBegin(s, u, v) \/ OrderBegin(s, u, v)
  BY <1>1, NewRoomBegins DEF RequestTaken, StartPcs
<1>2. CASE \E u \in Users, s \in Slots, r \in Rooms :
             \/ DeleteRoom(s, u, r) \/ GetRoomById(s, u, r) \/ UpdateTimer(s, u, r)
             \/ RoomOneSeenOn(s, u, r) \/ RoomOneSeenOff(s, u, r)
  <2>1. PICK u \in Users, s \in Slots, r \in Rooms :
             \/ DeleteRoom(s, u, r) \/ GetRoomById(s, u, r) \/ UpdateTimer(s, u, r)
             \/ RoomOneSeenOn(s, u, r) \/ RoomOneSeenOff(s, u, r)
    BY <1>2
  <2>2. /\ DeleteRoom(s, u, r) => Free(s, "deleteRoom") /\ Begin(s, Call("room_hide", u, r))
        /\ GetRoomById(s, u, r) => Free(s, "open") /\ Begin(s, Call("open_show", u, r))
        /\ UpdateTimer(s, u, r) => Free(s, "timer") /\ Begin(s, Call("room_info", u, r))
        /\ RoomOneSeenOn(s, u, r) \/ RoomOneSeenOff(s, u, r)
             => Free(s, "oneSeenRoom") /\ Begin(s, Call("room_info", u, r))
    BY DEF DeleteRoom, GetRoomById, UpdateTimer, RoomOneSeenOn, RoomOneSeenOff, SetOneSeen
  <2> DEFINE Shown == Begins(s, req'[s]) /\ req'[s].pc \in {"room_hide", "open_show", "room_info"}
  <2>3. /\ \A q : Free(s, q) /\ Begin(s, Call("room_hide", u, r)) => Shown
        /\ \A q : Free(s, q) /\ Begin(s, Call("open_show", u, r)) => Shown
        /\ \A q : Free(s, q) /\ Begin(s, Call("room_info", u, r)) => Shown
    BY CallBegins DEF Called
  <2> HIDE DEF Shown
  <2>4. /\ DeleteRoom(s, u, r) => Shown
        /\ GetRoomById(s, u, r) => Shown
        /\ UpdateTimer(s, u, r) => Shown
        /\ RoomOneSeenOn(s, u, r) \/ RoomOneSeenOff(s, u, r) => Shown
    BY <2>2, <2>3, Zenon
  <2> QED BY <2>1, <2>4 DEF RequestTaken, StartPcs, Shown
<1>3. CASE \E u \in Users, r \in Rooms : ClearRoomMessages(u, r) \/ DeliverRoomMessages(u, r)
  BY <1>3, AtOnceAnswers DEF ClearRoomMessages, DeliverRoomMessages, RequestTaken
<1>4. CASE \E u \in Users, r \in Rooms :
             \/ MuteRoom(u, r) \/ UnMuteRoom(u, r) \/ ArchiveRoom(u, r)
             \/ UnArchiveRoom(u, r) \/ ChangeNickName(u, r) \/ UpdateTranslate(u, r)
             \/ StopTranslate(u, r)
  <2>1. \E u \in Users, r \in Rooms, flag \in Flags, on \in BOOLEAN : SetFlag(u, r, flag, on)
    BY <1>4, FlagSteps
  <2>2. AtOnce("flags")
    BY <2>1 DEF SetFlag
  <2> QED BY <2>2, AtOnceAnswers DEF RequestTaken
<1> QED BY <1>1, <1>2, <1>3, <1>4 DEF ChannelController

LEMMA GroupStarts ==
  ASSUME Inv1, Grows, GroupChannelController
  PROVE  RequestTaken
<1>1. PICK s \in Slots, u \in Users :
        \/ \E us \in SUBSET Users : GroupBegin(s, u, us)
        \/ \E r \in Rooms :
             \/ LeaveBegin(s, u, r) \/ DeleteGroup(s, u, r) \/ SettingsBegin(s, u, r)
             \/ UpdateTitle(s, u, r) \/ UpdateImage(s, u, r)
             \/ \E v \in Users : AddBegin(s, u, v, r) \/ KickBegin(s, u, v, r)
                                 \/ RoleBegin(s, u, v, r)
  BY DEF GroupChannelController
<1> DEFINE Other == /\ Begins(s, req'[s])
                    /\ req'[s].pc \in StartPcs \ {"add_role", "room_setting", "order_setting",
                                                  "enter_read"}
<1>2. \A r \in Rooms : SettingsBegin(s, u, r) => Other
  BY CallBegins DEF SettingsBegin, Called, StartPcs
<1>3. \A us \in SUBSET Users : GroupBegin(s, u, us) => Other
  BY GroupBegins DEF StartPcs
<1>4. \A r \in Rooms : LeaveBegin(s, u, r) \/ DeleteGroup(s, u, r) => Other
  BY LeaveBegins, DeleteGroupBegins DEF StartPcs
<1>5. \A r \in Rooms : UpdateTitle(s, u, r) \/ UpdateImage(s, u, r) => Other
  BY RenameBegins DEF StartPcs
<1>6. \A r \in Rooms, v \in Users : KickBegin(s, u, v, r) \/ RoleBegin(s, u, v, r) => Other
  BY KickBegins, RoleBegins DEF StartPcs
<1>7. \A r \in Rooms, v \in Users : AddBegin(s, u, v, r) =>
        Begins(s, req'[s]) /\ req'[s].pc = "add_role"
  BY AddBegins
<1> HIDE DEF Other
<1>8. Other \/ (/\ Begins(s, req'[s]) /\ req'[s].pc = "add_role"
                /\ \E v \in Users, r \in Rooms : AddBegin(s, u, v, r))
  BY <1>1, <1>2, <1>3, <1>4, <1>5, <1>6, <1>7
<1> QED BY <1>8 DEF RequestTaken, Other, StartPcs

LEMMA BroadcastStarts ==
  ASSUME Inv1, Grows, BroadcastChannelController
  PROVE  RequestTaken
<1>1. CASE \E u \in Users, s \in Slots, us \in SUBSET Users :
             BroadcastBegin(s, u, us) \/ \E r \in Rooms : AddToBroadcast(s, u, r, us)
  BY <1>1, BroadcastBegins, AddToBroadcastBegins DEF RequestTaken, StartPcs
<1>2. CASE \E u \in Users, r \in Rooms :
             RenameBroadcast(u, r) \/ \E v \in Users : KickFromBroadcast(u, v, r)
  <2>1. AtOnce("rename") \/ AtOnce("kickFromBroadcast")
    BY <1>2 DEF RenameBroadcast, KickFromBroadcast
  <2> QED BY <2>1, AtOnceAnswers DEF RequestTaken
<1> QED BY <1>1, <1>2 DEF BroadcastChannelController

LEMMA MessageStarts ==
  ASSUME Inv1, Grows, MessageChannelController
  PROVE  RequestTaken
<1>1. CASE \E u \in Users, r \in Rooms, l \in LocalIds, s \in Slots : SendBegin(s, u, r, l)
  BY <1>1, SendBegins DEF RequestTaken, StartPcs
<1>2. CASE \E u \in Users, i \in DOMAIN message, s \in Slots, e \in Emojis : ReactBegin(s, u, i, e)
  BY <1>2, ReactBegins DEF RequestTaken, StartPcs
<1>3. CASE \E u \in Users, i \in DOMAIN message, s \in Slots, r \in Rooms : DeleteFromMe(s, u, r, i)
  BY <1>3, CallBegins DEF DeleteFromMe, RequestTaken, StartPcs, Called
<1>4. CASE \E u \in Users, i \in DOMAIN message : MessageMark(u, i)
  <2>1. \E request : AtOnce(request)
    BY <1>4 DEF MessageMark, Mark, DeleteFromAll, StarRoomMessage, UnStarRoomMessage,
       OneSeeThisMessage, EditMessage, PinUnpinMessage, VoteOnPoll
  <2> QED BY <2>1, AtOnceAnswers DEF RequestTaken
<1> QED BY <1>1, <1>2, <1>3, <1>4 DEF MessageChannelController, MessageMark

LEMMA OthersStart ==
  ASSUME Inv1, Grows, UserBanController \/ ChatRequestRoutes \/ SocketIoGateway
  PROVE  RequestTaken
<1>1. CASE UserBanController
  BY <1>1, BanBegins DEF UserBanController, RequestTaken, StartPcs
<1>2. CASE ChatRequestRoutes
  BY <1>2, RequestBegins, AtOnceAnswers DEF ChatRequestRoutes, UpdateRequest, RequestTaken, StartPcs
<1>3. CASE SocketIoGateway
  BY <1>3, ConnectBegins, EnterBegins, AtOnceAnswers DEF SocketIoGateway, Disconnect, RequestTaken,
     StartPcs
<1> QED BY <1>1, <1>2, <1>3

LEMMA ControllersStart ==
  ASSUME Inv1, Grows, Controllers
  PROVE  RequestTaken
BY ChannelStarts, GroupStarts, BroadcastStarts, MessageStarts, OthersStart DEF Controllers

LEMMA ChannelFrame ==
  ASSUME ChannelController
  PROVE  RequestsFrame
<1>1. CASE \E u, v \in Users, s \in Slots : PeerBegin(s, u, v) \/ OrderBegin(s, u, v)
  <2>1. AllStays
    BY <1>1 DEF PeerBegin, OrderBegin, rooms, people, sockets, AllStays
  <2> QED BY <2>1 DEF RequestsFrame, AllStays
<1>2. CASE \E u \in Users, s \in Slots, r \in Rooms : GetRoomById(s, u, r)
  <2>1. AllStays
    BY <1>2 DEF GetRoomById, rooms, people, sockets, AllStays
  <2> QED BY <2>1 DEF RequestsFrame, AllStays
<1>3. CASE \E u \in Users, r \in Rooms : ClearRoomMessages(u, r) \/ DeliverRoomMessages(u, r)
  <2>1. AllStays
    BY <1>3 DEF ClearRoomMessages, DeliverRoomMessages, rooms, people, sockets, AllStays
  <2> QED BY <2>1 DEF RequestsFrame, AllStays
<1>4. CASE \E u \in Users, s \in Slots, r \in Rooms :
             \/ DeleteRoom(s, u, r) \/ UpdateTimer(s, u, r)
             \/ RoomOneSeenOn(s, u, r) \/ RoomOneSeenOff(s, u, r)
  <2>1. UNCHANGED <<scene, setting, role, copies, bans, requests, apart, online, joined, later>>
    BY <1>4 DEF DeleteRoom, UpdateTimer, RoomOneSeenOn, RoomOneSeenOff, SetOneSeen, people, sockets
  <2>2. \E u \in Users, r \in Rooms : MemberRequest(u, r)
    BY <1>4 DEF MemberRequest
  <2> QED BY <2>1, <2>2 DEF RequestsFrame
<1>5. CASE \E u \in Users, r \in Rooms :
             \/ MuteRoom(u, r) \/ UnMuteRoom(u, r) \/ ArchiveRoom(u, r)
             \/ UnArchiveRoom(u, r) \/ ChangeNickName(u, r) \/ UpdateTranslate(u, r)
             \/ StopTranslate(u, r)
  <2>1. PICK u \in Users, r \in Rooms, flag \in Flags, on \in BOOLEAN : SetFlag(u, r, flag, on)
    BY <1>5, FlagSteps
  <2>2. UNCHANGED <<scene, setting, role, copies, bans, requests, apart, online, joined, later>>
    BY <2>1 DEF SetFlag, people, sockets
  <2>3. MemberRequest(u, r)
    BY <2>1 DEF MemberRequest
  <2> QED BY <2>2, <2>3 DEF RequestsFrame
<1> QED BY <1>1, <1>2, <1>3, <1>4, <1>5 DEF ChannelController

LEMMA BroadcastFrame ==
  ASSUME BroadcastChannelController
  PROVE  RequestsFrame
<1>1. CASE \E u \in Users, s \in Slots, us \in SUBSET Users :
             BroadcastBegin(s, u, us) \/ \E r \in Rooms : AddToBroadcast(s, u, r, us)
  <2>1. AllStays
    BY <1>1 DEF BroadcastBegin, AddToBroadcast, UnchangedRooms, rooms, people, sockets, AllStays
  <2> QED BY <2>1 DEF RequestsFrame, AllStays
<1>2. CASE \E u, v \in Users, r \in Rooms : KickFromBroadcast(u, v, r)
  BY <1>2 DEF KickFromBroadcast, people, sockets, RequestsFrame
<1>3. CASE \E u \in Users, r \in Rooms : RenameBroadcast(u, r)
  <2>1. UNCHANGED <<scene, setting, role, copies, bans, requests, apart, online, joined, later>>
    BY <1>3 DEF RenameBroadcast, people, sockets
  <2>2. \E u \in Users, r \in Rooms : MemberRequest(u, r)
    BY <1>3 DEF MemberRequest
  <2> QED BY <2>1, <2>2 DEF RequestsFrame
<1> QED BY <1>1, <1>2, <1>3 DEF BroadcastChannelController

LEMMA ControllersFrame ==
  ASSUME Controllers
  PROVE  RequestsFrame
<1>1. CASE GroupChannelController
  <2>1. PICK s \in Slots, u \in Users :
          \/ \E us \in SUBSET Users : GroupBegin(s, u, us)
          \/ \E r \in Rooms :
               \/ LeaveBegin(s, u, r) \/ DeleteGroup(s, u, r) \/ SettingsBegin(s, u, r)
               \/ UpdateTitle(s, u, r) \/ UpdateImage(s, u, r)
               \/ \E v \in Users : AddBegin(s, u, v, r) \/ KickBegin(s, u, v, r)
                                   \/ RoleBegin(s, u, v, r)
    BY <1>1 DEF GroupChannelController
  <2>2. UnchangedRooms(s)
    <3>1. \A us : GroupBegin(s, u, us) => UnchangedRooms(s)
      BY DEF GroupBegin
    <3>2. \A r : LeaveBegin(s, u, r) \/ DeleteGroup(s, u, r) \/ SettingsBegin(s, u, r)
                => UnchangedRooms(s)
      BY DEF LeaveBegin, DeleteGroup, SettingsBegin
    <3>3. \A r : UpdateTitle(s, u, r) \/ UpdateImage(s, u, r) => UnchangedRooms(s)
      BY DEF UpdateTitle, UpdateImage, Rename
    <3>4. \A r, v : AddBegin(s, u, v, r) \/ KickBegin(s, u, v, r) \/ RoleBegin(s, u, v, r)
                => UnchangedRooms(s)
      BY DEF AddBegin, KickBegin, RoleBegin
    <3> QED BY <2>1, <3>1, <3>2, <3>3, <3>4
  <2>3. AllStays
    BY <2>2 DEF UnchangedRooms, rooms, people, sockets, AllStays
  <2> QED BY <2>3 DEF RequestsFrame, AllStays
<1>2. CASE MessageChannelController
  <2>1. AllStays
    <3>1. CASE \E u \in Users, r \in Rooms, l \in LocalIds, s \in Slots : SendBegin(s, u, r, l)
      BY <3>1 DEF SendBegin, UnchangedRooms, rooms, people, sockets, AllStays
    <3>2. CASE \E u \in Users, i \in DOMAIN message, s \in Slots, e \in Emojis :
                 ReactBegin(s, u, i, e)
      BY <3>2 DEF ReactBegin, UnchangedRooms, rooms, people, sockets, AllStays
    <3>3. CASE \E u \in Users, i \in DOMAIN message, s \in Slots, r \in Rooms :
                 DeleteFromMe(s, u, r, i)
      BY <3>3 DEF DeleteFromMe, rooms, people, sockets, AllStays
    <3>4. CASE \E u \in Users, i \in DOMAIN message : MessageMark(u, i)
      <4>1. \E request, i, m : Mark(request, i, m)
        BY <3>4 DEF MessageMark, DeleteFromAll, StarRoomMessage, UnStarRoomMessage,
           OneSeeThisMessage, EditMessage, PinUnpinMessage, VoteOnPoll
      <4> QED BY <4>1 DEF Mark, rooms, people, sockets, AllStays
    <3> QED BY <1>2, <3>1, <3>2, <3>3, <3>4 DEF MessageChannelController, MessageMark
  <2> QED BY <2>1 DEF RequestsFrame, AllStays
<1>3. CASE UserBanController
  <2>1. AllStays
    BY <1>3 DEF UserBanController, Ban, Unban, rooms, people, sockets, AllStays
  <2> QED BY <2>1 DEF RequestsFrame, AllStays
<1>4. CASE ChatRequestRoutes
  <2>1. CASE \E u, v \in Users, s \in Slots : RequestBegin(s, u, v)
    <3>1. AllStays
      BY <2>1 DEF RequestBegin, rooms, people, sockets, AllStays
    <3> QED BY <3>1 DEF RequestsFrame, AllStays
  <2>2. CASE \E u \in Users, q \in requests : UpdateRequest(u, q)
    <3>1. UNCHANGED <<scene, setting, member, role, copies, bans, apart, online, joined, later>>
      BY <2>2 DEF UpdateRequest, rooms, sockets
    <3> QED BY <2>2, <3>1 DEF RequestsFrame
  <2> QED BY <1>4, <2>1, <2>2 DEF ChatRequestRoutes
<1>5. CASE SocketIoGateway
  <2>1. CASE \E u \in Users, s \in Slots, r \in Rooms : EnterBegin(s, u, r)
    <3>1. AllStays
      BY <2>1 DEF EnterBegin, UnchangedRooms, rooms, people, sockets, AllStays
    <3> QED BY <3>1 DEF RequestsFrame, AllStays
  <2>2. CASE SocketRequest
    <3>1. /\ UNCHANGED <<scene, setting, member, role, copies, bans, requests, later>>
          /\ apart' \subseteq apart
      <4>1. CASE \E u \in Users : Disconnect(u)
        BY <4>1 DEF Disconnect, rooms
      <4>2. CASE \E u \in Users, s \in Slots : ConnectBegin(s, u)
        BY <4>2 DEF ConnectBegin, rooms, people
      <4> QED BY <2>2, <4>1, <4>2 DEF SocketRequest
    <3> QED BY <2>2, <3>1 DEF RequestsFrame
  <2> QED BY <1>5, <2>1, <2>2 DEF SocketIoGateway, SocketRequest
<1> QED BY <1>1, <1>2, <1>3, <1>4, <1>5, ChannelFrame, BroadcastFrame DEF Controllers

-----------------------------------------------------------------------------
(* The documents a step writes *)

LEMMA PutSetting ==
  ASSUME Inv1, NEW r \in Rooms, NEW d \in SettingDocs
  PROVE  [setting EXCEPT ![r] = d] \in [Rooms -> SettingDocs]
BY DEF Inv1, Typed

LEMMA SettingsTyped ==
  ASSUME Inv1, NEW s \in Slots, Continue(s)
  PROVE  setting' \in [Rooms -> SettingDocs]
<1> DEFINE h == req[s]
<1>1. setting \in [Rooms -> SettingDocs] /\ h \in Handlers /\ HandlerOK(h, message)
  BY HandlerOf DEF Inv1, Typed
<1>2. CASE CreateSetting(s) \/ OrderSetting(s)
  <2>1. h.at \in Rooms /\ h.user \in Users /\ h.peer \in Users
    BY <1>1, <1>2 DEF CreateSetting, OrderSetting, At, HandlerOK, AtPcs, PeerPcs, NewPcs
  <2>2. \E rT \in {"s", "o"} : \/ UNCHANGED setting
                               \/ setting' = [setting EXCEPT ![h.at] = Setting(rT, h.user, h.peer)]
    BY <1>2 DEF CreateSetting, OrderSetting
  <2> HIDE DEF h
  <2> QED BY <1>1, <2>1, <2>2, SettingType, PutSetting DEF RoomTypes
<1>3. CASE CreateGroupSetting(s) \/ BroadcastSetting(s)
  <2>1. h.room \in Rooms /\ h.user \in Users
    BY <1>1, <1>3 DEF CreateGroupSetting, BroadcastSetting, At, HandlerOK, RoomPcs, GroupPcs,
       BroadcastPcs
  <2>2. \E rT \in {"g", "b"} : setting' = [setting EXCEPT ![h.room] = Setting(rT, h.user, NoUser)]
    BY <1>3 DEF CreateGroupSetting, BroadcastSetting
  <2> HIDE DEF h
  <2> QED BY <2>1, <2>2, SettingType, PutSetting DEF RoomTypes
<1>4. CASE DeleteSetting(s)
  <2>1. h.room \in Rooms
    BY <1>1, <1>4 DEF DeleteSetting, At, HandlerOK, RoomPcs, DeletePcs
  <2>2. setting' = [setting EXCEPT ![h.room] = NoSetting]
    BY <1>4 DEF DeleteSetting
  <2> HIDE DEF h
  <2> QED BY <2>1, <2>2, Settings0, PutSetting
<1>5. CASE SettingsSave(s)
  <2> DEFINE r == h.room
  <2>1. r \in Rooms
    BY <1>1, <1>5 DEF SettingsSave, At, HandlerOK, RoomPcs
  <2>2. PICK only \in BOOLEAN, muted \in SUBSET Users :
          setting' = IF setting[r].rT # "g" THEN setting
                     ELSE [setting EXCEPT ![r].adminsOnly = only, ![r].muted = muted]
    BY <1>5 DEF SettingsSave
  <2> DEFINE x == setting[r]
             y == [x EXCEPT !.adminsOnly = only, !.muted = muted]
  <2> HIDE DEF r
  <2>3. y \in SettingDocs
    BY <1>1, <2>1 DEF SettingDocs
  <2>4. setting' = setting \/ setting' = [setting EXCEPT ![r] = y]
    BY <1>1, <2>1, <2>2
  <2> QED BY <1>1, <2>1, <2>3, <2>4
<1>6. CASE RenameSetting(s)
  <2> DEFINE r == h.room
             x == setting[r]
             y == Renamed(x, h)
  <2>1. r \in Rooms /\ h.lId \in Names
    BY <1>1, <1>6 DEF RenameSetting, At, HandlerOK, RoomPcs, RenamePcs
  <2>2. setting' = setting \/ setting' = [setting EXCEPT ![r] = Renamed(@, h)]
    BY <1>6 DEF RenameSetting
  <2> HIDE DEF h, r
  <2>3. y \in SettingDocs
    BY <1>1, <2>1 DEF SettingDocs, Renamed
  <2>4. setting' = setting \/ setting' = [setting EXCEPT ![r] = y]
    BY <1>1, <2>1, <2>2
  <2> QED BY <1>1, <2>1, <2>3, <2>4
<1> QED BY <1>1, <1>2, <1>3, <1>4, <1>5, <1>6, RoomsFrame, GroupsFrame, MessagesFrame DEF Continue

LEMMA PutRoles ==
  ASSUME Inv1, NEW r \in Rooms, NEW u \in Users, NEW d \in Seq(Roles)
  PROVE  [role EXCEPT ![r][u] = d] \in [Rooms -> [Users -> Seq(Roles)]]
BY DEF Inv1, Typed

\* The user whose roles a step of a handler writes, and what it writes.
LEMMA RoleWrites ==
  ASSUME Inv1, NEW s \in Slots
  PROVE  LET h == req[s]
             r == h.room
         IN /\ AddRole(s) => /\ h.peer \in Users /\ r \in Rooms
                             /\ role' = [role EXCEPT ![r][h.peer] = Append(role[r][h.peer], "member")]
            /\ KickRole(s) => /\ h.peer \in Users /\ r \in Rooms
                              /\ role' = [role EXCEPT ![r][h.peer] =
                                            IF role[r][h.peer] = <<>> THEN role[r][h.peer]
                                            ELSE Tail(role[r][h.peer])]
            /\ LeaveRole(s) => /\ h.user \in Users /\ r \in Rooms
                               /\ role' = [role EXCEPT ![r][h.user] =
                                             IF role[r][h.user] = <<>> THEN role[r][h.user]
                                             ELSE Tail(role[r][h.user])]
            /\ RoleSet(s) => /\ h.peer \in Users /\ r \in Rooms /\ h.lId \in Roles
                             /\ \/ UNCHANGED role
                                \/ /\ role[r][h.peer] # <<>>
                                   /\ role' = [role EXCEPT ![r][h.peer] =
                                                 <<h.lId>> \o Tail(role[r][h.peer])]
<1> DEFINE h == req[s]
           r == h.room
<1>1. role \in [Rooms -> [Users -> Seq(Roles)]] /\ HandlerOK(h, message)
  BY HandlerOf DEF Inv1, Typed
<1>2. AddRole(s) \/ KickRole(s) => h.peer \in Users /\ r \in Rooms
  BY <1>1 DEF AddRole, KickRole, At, HandlerOK, RoomPcs, PeerPcs, AddPcs, KickPcs
<1>3. RoleSet(s) => h.peer \in Users /\ r \in Rooms /\ h.lId \in Roles
  BY <1>1 DEF RoleSet, At, HandlerOK, RoomPcs, PeerPcs
<1>4. LeaveRole(s) => h.user \in Users /\ r \in Rooms
  BY <1>1 DEF LeaveRole, At, HandlerOK, RoomPcs, LeavePcs
<1>5. AddRole(s) => role' = [role EXCEPT ![r][h.peer] = Append(role[r][h.peer], "member")]
  BY <1>1, <1>2 DEF AddRole
<1>6. KickRole(s) => role' = [role EXCEPT ![r][h.peer] = IF role[r][h.peer] = <<>>
                                THEN role[r][h.peer] ELSE Tail(role[r][h.peer])]
  BY <1>1, <1>2 DEF KickRole, DropRole
<1>7. LeaveRole(s) => role' = [role EXCEPT ![r][h.user] = IF role[r][h.user] = <<>>
                                THEN role[r][h.user] ELSE Tail(role[r][h.user])]
  BY <1>1, <1>4 DEF LeaveRole, DropRole
<1>8. RoleSet(s) =>
        \/ UNCHANGED role
        \/ role[r][h.peer] # <<>>
           /\ role' = [role EXCEPT ![r][h.peer] = <<h.lId>> \o Tail(role[r][h.peer])]
  BY <1>1, <1>3 DEF RoleSet, InGroup
<1> QED BY <1>2, <1>3, <1>4, <1>5, <1>6, <1>7, <1>8

\* One of the roles is set, taken or added.
LEMMA RolesTyped ==
  ASSUME Inv1, NEW s \in Slots, Continue(s)
  PROVE  role' \in [Rooms -> [Users -> Seq(Roles)]]
<1> DEFINE h == req[s]
           r == h.room
<1>1. role \in [Rooms -> [Users -> Seq(Roles)]] /\ HandlerOK(h, message)
  BY HandlerOf DEF Inv1, Typed
<1>2. CASE CreateGroupRoles(s)
  <2>1. r \in Rooms
    BY <1>1, <1>2 DEF CreateGroupRoles, At, HandlerOK, RoomPcs, GroupPcs
  <2>2. <<"superAdmin">> \in Seq(Roles) /\ <<"member">> \in Seq(Roles)
    BY DEF Roles
  <2>3. role' = [role EXCEPT ![r] = [v \in Users |->
                  IF v = h.user THEN <<"superAdmin">>
                  ELSE IF v \in h.list THEN <<"member">> ELSE @[v]]]
    BY <1>2 DEF CreateGroupRoles
  <2> HIDE DEF h, r
  <2> QED BY <1>1, <2>1, <2>2, <2>3
<1>3. CASE AddRole(s) \/ KickRole(s) \/ RoleSet(s) \/ LeaveRole(s)
  <2>1. \E u \in Users :
          /\ r \in Rooms
          /\ LET x == role[r][u]
             IN \/ role' = [role EXCEPT ![r][u] = Append(x, "member")]
                \/ role' = [role EXCEPT ![r][u] = IF x = <<>> THEN x ELSE Tail(x)]
                \/ x # <<>> /\ h.lId \in Roles /\ role' = [role EXCEPT ![r][u] = <<h.lId>> \o Tail(x)]
                \/ UNCHANGED role
    BY <1>3, RoleWrites
  <2>2. PICK u \in Users :
          /\ r \in Rooms
          /\ LET x == role[r][u]
             IN \/ role' = [role EXCEPT ![r][u] = Append(x, "member")]
                \/ role' = [role EXCEPT ![r][u] = IF x = <<>> THEN x ELSE Tail(x)]
                \/ x # <<>> /\ h.lId \in Roles /\ role' = [role EXCEPT ![r][u] = <<h.lId>> \o Tail(x)]
                \/ UNCHANGED role
    BY <2>1
  <2> DEFINE x == role[r][u]
  <2> HIDE DEF r
  <2>3. x \in Seq(Roles)
    BY <1>1, <2>2
  <2>4. \/ \E d \in Seq(Roles) : role' = [role EXCEPT ![r][u] = d]
        \/ UNCHANGED role
    <3>1. "member" \in Roles
      BY DEF Roles
    <3> DEFINE a == Append(x, "member")
               b == IF x = <<>> THEN x ELSE Tail(x)
               c == <<h.lId>> \o Tail(x)
    <3>2. a \in Seq(Roles) /\ b \in Seq(Roles)
      BY <2>3, <3>1
    <3>3. x # <<>> /\ h.lId \in Roles => c \in Seq(Roles)
      BY <2>3
    <3>4. \/ role' = [role EXCEPT ![r][u] = a] \/ role' = [role EXCEPT ![r][u] = b]
          \/ x # <<>> /\ h.lId \in Roles /\ role' = [role EXCEPT ![r][u] = c]
          \/ UNCHANGED role
      BY <2>2
    <3> HIDE DEF a, b, c
    <3> QED BY <3>2, <3>3, <3>4
  <2>5. \A d \in Seq(Roles) : [role EXCEPT ![r][u] = d] \in [Rooms -> [Users -> Seq(Roles)]]
    BY <2>2, PutRoles
  <2> QED BY <1>1, <2>4, <2>5
<1>4. CASE DeleteRoles(s)
  <2>1. r \in Rooms
    BY <1>1, <1>4 DEF DeleteRoles, At, HandlerOK, RoomPcs, DeletePcs
  <2>2. role' = [role EXCEPT ![r] = [u \in Users |-> <<>>]]
    BY <1>4 DEF DeleteRoles
  <2> HIDE DEF r
  <2> QED BY <1>1, <2>1, <2>2
<1> QED BY <1>1, <1>2, <1>3, <1>4, RoomsFrame, GroupsFrame, MessagesFrame DEF Continue

LEMMA CopiesTyped ==
  ASSUME Inv1, NEW s \in Slots, Continue(s)
  PROVE  copies' \subseteq CopyDocs
<1> DEFINE h == req[s]
<1>1. copies \subseteq CopyDocs /\ HandlerOK(h, message)
  BY HandlerOf DEF Inv1, Typed
<1>2. CASE BroadcastCopies(s)
  <2>1. h.room \in Rooms /\ h.list \subseteq Users \X Rooms
    BY <1>1, <1>2 DEF BroadcastCopies, At, HandlerOK, Broadcasting, BroadcastPcs
  <2>2. copies' = copies \cup {<<h.room, c[1], c[2]>> : c \in h.list}
    BY <1>2 DEF BroadcastCopies
  <2> HIDE DEF h
  <2> QED BY <1>1, <2>1, <2>2 DEF CopyDocs
<1> QED BY <1>1, <1>2, RoomsFrame, GroupsFrame, MessagesFrame DEF Continue

LEMMA PeopleTyped ==
  ASSUME Inv1, NEW s \in Slots, Continue(s)
  PROVE  /\ bans' \subseteq Users \X Users /\ requests' \subseteq RequestDocs
         /\ apart' \subseteq Rooms \X Users
<1> DEFINE h == req[s]
<1>1. /\ bans \subseteq Users \X Users /\ requests \subseteq RequestDocs
      /\ apart \subseteq Rooms \X Users /\ HandlerOK(h, message)
  BY HandlerOf DEF Inv1, Typed
<1>2. CASE BanCreate(s) \/ BanDelete(s)
  <2>1. h.user \in Users /\ h.peer \in Users
    BY <1>1, <1>2 DEF BanCreate, BanDelete, At, HandlerOK, PeerPcs, BanPcs
  <2>2. bans' \subseteq bans \cup {<<h.user, h.peer>>} /\ UNCHANGED <<requests, apart>>
    BY <1>2 DEF BanCreate, BanDelete
  <2> HIDE DEF h
  <2> QED BY <1>1, <2>1, <2>2
<1>3. CASE RequestCreate(s)
  <2>1. h.user \in Users /\ h.peer \in Users /\ h.at \in Rooms /\ h.todo \subseteq RequestDocs
    BY <1>1, <1>3 DEF RequestCreate, At, HandlerOK, Requesting, AtPcs, PeerPcs
  <2>2. UNCHANGED <<bans, apart>>
    BY <1>3 DEF RequestCreate
  <2> DEFINE again == {[q EXCEPT !.status = "Pending"] : q \in h.todo}
             new == [from |-> h.user, to |-> h.peer, room |-> h.at, status |-> "Pending"]
  <2>3. requests' \subseteq requests \cup again \cup {new}
    BY <1>3 DEF RequestCreate
  <2> HIDE DEF h
  <2>4. again \subseteq RequestDocs /\ new \in RequestDocs
    BY <2>1 DEF RequestDocs
  <2> HIDE DEF again, new
  <2> QED BY <1>1, <2>2, <2>3, <2>4
<1>4. CASE JoinGroup(s)
  <2>1. h.room \in Rooms /\ h.todo \subseteq Users
    BY <1>1, <1>4 DEF JoinGroup, At, HandlerOK, RoomPcs, GroupPcs
  <2>2. apart' = apart \cup {<<h.room, v>> : v \in h.todo \ h.list} /\ UNCHANGED <<bans, requests>>
    BY <1>4 DEF JoinGroup
  <2> HIDE DEF h
  <2> QED BY <1>1, <2>1, <2>2
<1>5. CASE LeaveSocket(s)
  <2>1. h.room \in Rooms /\ h.user \in Users
    BY <1>1, <1>5 DEF LeaveSocket, At, HandlerOK, RoomPcs, LeavePcs
  <2>2. apart' = apart \cup {<<h.room, h.user>>} /\ UNCHANGED <<bans, requests>>
    BY <1>5 DEF LeaveSocket
  <2> HIDE DEF h
  <2> QED BY <1>1, <2>1, <2>2
<1>6. CASE LeaveMember(s)
  <2>1. apart' \subseteq apart /\ UNCHANGED <<bans, requests>>
    BY <1>6 DEF LeaveMember
  <2> QED BY <1>1, <2>1
<1>7. CASE DeleteSockets(s)
  <2>1. h.room \in Rooms
    BY <1>1, <1>7 DEF DeleteSockets, At, HandlerOK, RoomPcs, DeletePcs
  <2>2. apart' = apart \cup {<<h.room, v>> : v \in GroupMembers(h.room)} /\ UNCHANGED <<bans, requests>>
    BY <1>7 DEF DeleteSockets
  <2>3. GroupMembers(h.room) \subseteq Users
    BY DEF GroupMembers
  <2> HIDE DEF h
  <2> QED BY <1>1, <2>1, <2>2, <2>3
<1> QED BY <1>1, <1>2, <1>3, <1>4, <1>5, <1>6, <1>7, RoomsFrame, GroupsFrame, MessagesFrame
     DEF Continue

LEMMA SocketsJoin ==
  ASSUME Inv1, NEW us, NEW r \in Rooms, JoinRoom(us, r) \/ LeaveRoom(us, r)
  PROVE  joined' \in [Users -> SUBSET Rooms]
<1>1. joined \in [Users -> SUBSET Rooms]
  BY DEF Inv1, Typed
<1>2. JoinRoom(us, r) => joined' \in [Users -> SUBSET Rooms]
  BY <1>1 DEF JoinRoom
<1>3. LeaveRoom(us, r) => joined' \in [Users -> SUBSET Rooms]
  BY <1>1 DEF LeaveRoom
<1> QED BY <1>2, <1>3

LEMMA JoinedTyped ==
  ASSUME Inv1, NEW s \in Slots, Continue(s)
  PROVE  joined' \in [Users -> SUBSET Rooms]
<1> DEFINE h == req[s]
<1>1. joined \in [Users -> SUBSET Rooms] /\ HandlerOK(h, message)
  BY HandlerOf DEF Inv1, Typed
<1>2. CASE JoinMembers(s)
  <2>1. h.at \in Rooms
    BY <1>1, <1>2 DEF JoinMembers, At, HandlerOK, AtPcs, NewPcs
  <2>2. \E us : JoinRoom(us, h.at)
    BY <1>2 DEF JoinMembers
  <2> HIDE DEF h
  <2> QED BY <2>1, <2>2, SocketsJoin
<1>3. CASE \/ OpenJoin(s) \/ JoinGroup(s) \/ AddJoin(s) \/ KickLeave(s) \/ LeaveSocket(s)
           \/ BroadcastJoin(s)
  <2>1. h.room \in Rooms
    BY <1>1, <1>3 DEF OpenJoin, JoinGroup, AddJoin, KickLeave, LeaveSocket, BroadcastJoin, At,
       HandlerOK, RoomPcs, GroupPcs, AddPcs, KickPcs, LeavePcs, BroadcastPcs
  <2>2. \E us : JoinRoom(us, h.room) \/ LeaveRoom(us, h.room)
    BY <1>3 DEF OpenJoin, JoinGroup, AddJoin, KickLeave, LeaveSocket, BroadcastJoin
  <2> HIDE DEF h
  <2> QED BY <2>1, <2>2, SocketsJoin
<1>4. CASE BanSockets(s)
  <2> DEFINE r == SingleRoom(h.user, h.peer)
  <2>1. \/ UNCHANGED joined
        \/ SingleRooms(h.user, h.peer) # {} /\ \E us : JoinRoom(us, r) \/ LeaveRoom(us, r)
    BY <1>4 DEF BanSockets
  <2>2. SingleRooms(h.user, h.peer) # {} => r \in Rooms
    BY ChosenRooms
  <2> HIDE DEF r
  <2> QED BY <1>1, <2>1, <2>2, SocketsJoin
<1>5. CASE ConnectJoin(s)
  <2>1. h.user \in Users /\ h.todo \subseteq Rooms
    BY <1>1, <1>5 DEF ConnectJoin, At, HandlerOK, ConnectPcs
  <2>2. joined' = [joined EXCEPT ![h.user] = IF h.user \in online THEN @ \cup h.todo ELSE {}]
    BY <1>5 DEF ConnectJoin
  <2> HIDE DEF h
  <2> QED BY <1>1, <2>1, <2>2
<1> QED BY <1>1, <1>2, <1>3, <1>4, <1>5, RoomsFrame, GroupsFrame, MessagesFrame DEF Continue

LEMMA LaterTyped ==
  ASSUME Inv1, NEW s \in Slots, Continue(s)
  PROVE  later' \in Seq(Users \X Rooms)
<1> DEFINE h == req[s]
<1>1. later \in Seq(Users \X Rooms) /\ HandlerOK(h, message)
  BY HandlerOf DEF Inv1, Typed
<1>2. CASE \/ AddJoin(s) \/ AwaitAnnounce(s) \/ RoleSet(s) \/ LeaveSocket(s)
           \/ RenameMembers(s)
  <2>1. h.room \in Rooms /\ h.user \in Users
    BY <1>1, <1>2 DEF AddJoin, AwaitAnnounce, RoleSet, LeaveSocket, RenameMembers, At, HandlerOK,
       RoomPcs, AddPcs, LeavePcs, RenamePcs
  <2>2. later' = later \/ later' = Append(later, <<h.user, h.room>>)
    BY <1>2 DEF AddJoin, AwaitAnnounce, RoleSet, Proceed, LeaveSocket, RenameMembers
  <2> DEFINE call == <<h.user, h.room>>
  <2> HIDE DEF h
  <2>3. call \in Users \X Rooms
    BY <2>1
  <2>4. later' = later \/ later' = Append(later, call)
    BY <2>2
  <2> HIDE DEF call
  <2> QED BY <1>1, <2>3, <2>4
<1> QED BY <1>1, <1>2, RoomsFrame, GroupsFrame, MessagesFrame DEF Continue

-----------------------------------------------------------------------------
(* The documents of members *)

LEMMA MembersStay ==
  ASSUME Inv1
  PROVE  MembersOK(member)
BY DEF Inv1, Typed, LastSeen, MembersOK

\* The documents of a room are written.
LEMMA PutMembers ==
  ASSUME Inv1, NEW r \in Rooms, NEW f \in [Users -> MemberDocs],
         \A u \in Users : f[u].lSM <= Len(message)
  PROVE  MembersOK([member EXCEPT ![r] = f])
BY MembersStay DEF MembersOK

LEMMA PutMember ==
  ASSUME Inv1, NEW r \in Rooms, NEW u \in Users, NEW d \in MemberDocs, d.lSM <= Len(message)
  PROVE  MembersOK([member EXCEPT ![r][u] = d])
BY MembersStay DEF MembersOK

\* Fields that do not count messages.
LEMMA SeenSame ==
  ASSUME NEW d \in MemberDocs
  PROVE  /\ \A b \in BOOLEAN :
              /\ [d EXCEPT !.isD = b] \in MemberDocs /\ [d EXCEPT !.isD = b].lSM = d.lSM
              /\ [d EXCEPT !.isOneSeen = b] \in MemberDocs /\ [d EXCEPT !.isOneSeen = b].lSM = d.lSM
              /\ [d EXCEPT !.timer = b] \in MemberDocs /\ [d EXCEPT !.timer = b].lSM = d.lSM
         /\ \A f \in SUBSET Flags :
              [d EXCEPT !.flags = f] \in MemberDocs /\ [d EXCEPT !.flags = f].lSM = d.lSM
         /\ \A t \in Names :
              /\ [d EXCEPT !.t = t] \in MemberDocs /\ [d EXCEPT !.t = t].lSM = d.lSM
              /\ [d EXCEPT !.img = t] \in MemberDocs /\ [d EXCEPT !.img = t].lSM = d.lSM
BY DEF MemberDocs

LEMMA MemberDoc ==
  ASSUME Inv1, NEW r \in Rooms, NEW u \in Users
  PROVE  member[r][u] \in MemberDocs /\ member[r][u].lSM <= Len(message)
BY MembersStay DEF MembersOK

LEMMA UnDeletedOK ==
  ASSUME Inv1, NEW r \in Rooms
  PROVE  MembersOK(UnDeleted(r))
<1> DEFINE f == [u \in Users |-> IF IsMember(r, u) THEN [member[r][u] EXCEPT !.isD = FALSE]
                                 ELSE member[r][u]]
<1>1. UnDeleted(r) = [member EXCEPT ![r] = f]
  BY DEF UnDeleted, UpdateMembers, Inv1, Typed
<1>2. f \in [Users -> MemberDocs] /\ \A u \in Users : f[u].lSM <= Len(message)
  BY MemberDoc, SeenSame
<1> HIDE DEF f
<1> QED BY <1>1, <1>2, PutMembers

LEMMA TimedOK ==
  ASSUME Inv1, NEW r \in Rooms, NEW on \in BOOLEAN
  PROVE  LET Timed(m) == [m EXCEPT !.timer = on] IN MembersOK(UpdateMembers(r, Timed))
<1> DEFINE f == [u \in Users |-> IF IsMember(r, u) THEN [member[r][u] EXCEPT !.timer = on]
                                 ELSE member[r][u]]
           Timed(m) == [m EXCEPT !.timer = on]
<1>1. UpdateMembers(r, Timed) = [member EXCEPT ![r] = f]
  BY DEF UpdateMembers, Inv1, Typed
<1>2. f \in [Users -> MemberDocs] /\ \A u \in Users : f[u].lSM <= Len(message)
  BY ZenonT(60), MemberDoc, SeenSame
<1> HIDE DEF f
<1> QED BY <1>1, <1>2, PutMembers

LEMMA RenamedOK ==
  ASSUME Inv1, NEW r \in Rooms, NEW h, h.lId \in Names
  PROVE  MembersOK(RenamedRoom(r, h))
<1> DEFINE f == [u \in Users |-> IF IsMember(r, u) THEN Renamed(member[r][u], h) ELSE member[r][u]]
<1>1. RenamedRoom(r, h) = [member EXCEPT ![r] = f]
  BY DEF RenamedRoom
<1>2. \A u \in Users : Renamed(member[r][u], h) \in MemberDocs
                       /\ Renamed(member[r][u], h).lSM = member[r][u].lSM
  BY MemberDoc, SeenSame DEF Renamed
<1>3. f \in [Users -> MemberDocs] /\ \A u \in Users : f[u].lSM <= Len(message)
  BY <1>2, MemberDoc
<1> HIDE DEF f
<1> QED BY <1>1, <1>3, PutMembers

LEMMA AnnouncedMembers ==
  ASSUME Inv1, NEW r \in Rooms, NEW u, Announce(r, u)
  PROVE  MembersOK(member')
BY MembersStay, UnDeletedOK DEF Announce

LEMMA RoomMembersTyped ==
  ASSUME Inv1, NEW s \in Slots, CreateMembers(s) \/ OpenShow(s)
  PROVE  MembersOK(member')
<1> DEFINE h == req[s]
<1>1. HandlerOK(h, message)
  BY HandlerOf
<1>2. CASE CreateMembers(s)
  <2> DEFINE r == h.at
             d == [Member(setting[r].rT) EXCEPT !.isD = TRUE]
             f == [u \in Users |-> IF u \in {h.user, h.peer} THEN d ELSE member[r][u]]
  <2>1. r \in Rooms
    BY <1>1, <1>2 DEF CreateMembers, At, HandlerOK, AtPcs, NewPcs
  <2>2. member' = [member EXCEPT ![r] = f]
    BY <1>2, <2>1 DEF CreateMembers, Inv1, Typed
  <2> HIDE DEF r
  <2>3. d \in MemberDocs /\ d.lSM <= Len(message)
    <3>1. setting[r].rT \in RoomTypes \cup {"none"}
      BY <2>1 DEF Inv1, Typed, SettingDocs
    <3> DEFINE b == Member(setting[r].rT)
    <3>2. Len(message) \in Nat
      BY MessageDoc
    <3>3. b \in MemberDocs /\ b.lSM = Len(message)
      BY <3>1, <3>2, MemberType
    <3> HIDE DEF b
    <3>4. [b EXCEPT !.isD = TRUE] \in MemberDocs /\ [b EXCEPT !.isD = TRUE].lSM = b.lSM
      BY <3>3, SeenSame
    <3> QED BY <3>2, <3>3, <3>4 DEF b
  <2> HIDE DEF d
  <2>4. f \in [Users -> MemberDocs] /\ \A u \in Users : f[u].lSM <= Len(message)
    BY <2>1, <2>3, MemberDoc
  <2> HIDE DEF f
  <2> QED BY <2>1, <2>2, <2>4, PutMembers
<1>3. CASE OpenShow(s)
  <2>1. h.room \in Rooms
    BY <1>1, <1>3 DEF OpenShow, At, HandlerOK, RoomPcs
  <2> QED BY <1>3, <2>1, UnDeletedOK DEF OpenShow
<1> QED BY <1>2, <1>3

LEMMA GroupMembersTyped ==
  ASSUME Inv1, NEW s \in Slots,
         \/ CreateGroupMembers(s) \/ AddMember(s) \/ KickMember(s) \/ AwaitAnnounce(s)
         \/ LeaveMember(s) \/ DeleteMembers(s) \/ RenameMembers(s) \/ BroadcastMember(s)
  PROVE  MembersOK(member')
<1> DEFINE h == req[s]
           r == h.room
<1>1. h \in Handlers /\ HandlerOK(h, message)
  BY HandlerOf
<1>2. r \in Rooms /\ h.user \in Users
  BY <1>1 DEF CreateGroupMembers, AddMember, KickMember, AwaitAnnounce, LeaveMember, DeleteMembers,
     RenameMembers, BroadcastMember, At, HandlerOK, RoomPcs, GroupPcs, AddPcs, KickPcs, LeavePcs,
     DeletePcs, RenamePcs, BroadcastPcs
<1>3. NoMember \in MemberDocs /\ NoMember.lSM <= Len(message)
  BY Members0, MessageDoc
<1>4. \A rT \in RoomTypes : Member(rT) \in MemberDocs /\ Member(rT).lSM <= Len(message)
  <2>1. Len(message) \in Nat
    BY MessageDoc
  <2>2. \A rT \in RoomTypes : Member(rT) \in MemberDocs /\ Member(rT).lSM = Len(message)
    BY <2>1, MemberType
  <2> QED BY <2>1, <2>2
<1>5. CASE CreateGroupMembers(s)
  <2> DEFINE d == Member("g")
             f == [v \in Users |-> IF v \in h.list THEN d ELSE member[r][v]]
  <2>1. member' = [member EXCEPT ![r] = f]
    BY <1>2, <1>5 DEF CreateGroupMembers, Inv1, Typed
  <2>2. d \in MemberDocs /\ d.lSM <= Len(message)
    BY <1>4 DEF RoomTypes
  <2> HIDE DEF d, r
  <2>3. f \in [Users -> MemberDocs] /\ \A u \in Users : f[u].lSM <= Len(message)
    BY <1>2, <2>2, MemberDoc
  <2> HIDE DEF f
  <2> QED BY <1>2, <2>1, <2>3, PutMembers
<1>6. CASE AddMember(s)
  <2> DEFINE b == Member("g")
             x == h.seen
             d == [b EXCEPT !.t = x.t, !.img = x.img]
  <2>1. h.peer \in Users
    BY <1>1, <1>6 DEF AddMember, At, HandlerOK, PeerPcs, AddPcs
  <2>2. UNCHANGED member \/ member' = [member EXCEPT ![r][h.peer] = d]
    BY <1>6 DEF AddMember, SetMember
  <2>3. b \in MemberDocs /\ b.lSM <= Len(message) /\ x \in MemberDocs
    BY <1>1, <1>4 DEF RoomTypes, Handlers
  <2> HIDE DEF b, x
  <2>4. d \in MemberDocs /\ d.lSM = b.lSM
    BY <2>3 DEF MemberDocs
  <2> HIDE DEF d, r, h
  <2> QED BY <1>2, <2>1, <2>2, <2>3, <2>4, PutMember, MembersStay
<1>7. CASE KickMember(s) \/ LeaveMember(s)
  <2>1. PICK v \in Users : member' = [member EXCEPT ![r][v] = NoMember]
    <3>1. KickMember(s) => h.peer \in Users /\ member' = [member EXCEPT ![r][h.peer] = NoMember]
      BY <1>1 DEF KickMember, SetMember, At, HandlerOK, PeerPcs, KickPcs
    <3>2. LeaveMember(s) => member' = [member EXCEPT ![r][h.user] = NoMember]
      BY DEF LeaveMember, SetMember
    <3> QED BY <1>2, <1>7, <3>1, <3>2
  <2> HIDE DEF r
  <2> QED BY <1>2, <1>3, <2>1, PutMember
<1>8. CASE AwaitAnnounce(s)
  BY <1>2, <1>8, AnnouncedMembers DEF AwaitAnnounce
<1>9. CASE DeleteMembers(s)
  <2> DEFINE f == [u \in Users |-> NoMember]
  <2>1. member' = [member EXCEPT ![r] = f]
    BY <1>9 DEF DeleteMembers
  <2>2. f \in [Users -> MemberDocs] /\ \A u \in Users : f[u].lSM <= Len(message)
    BY <1>3
  <2> HIDE DEF f, r
  <2> QED BY <1>2, <2>1, <2>2, PutMembers
<1>10. CASE RenameMembers(s)
  <2>1. h.lId \in Names
    BY <1>1, <1>10 DEF RenameMembers, At, HandlerOK, RenamePcs
  <2>2. member' = RenamedRoom(r, h)
    BY <1>2, <1>10 DEF RenameMembers, UpdateMembers, RenamedRoom, Inv1, Typed
  <2> HIDE DEF h, r
  <2> QED BY <1>2, <2>1, <2>2, RenamedOK
<1>11. CASE BroadcastMember(s)
  <2> DEFINE d == Member("b")
  <2>1. member' = [member EXCEPT ![r][h.user] = d]
    BY <1>11 DEF BroadcastMember, SetMember
  <2>2. d \in MemberDocs /\ d.lSM <= Len(message)
    BY <1>4 DEF RoomTypes
  <2> HIDE DEF d, r, h
  <2> QED BY <1>2, <2>1, <2>2, PutMember
<1> QED BY <1>5, <1>6, <1>7, <1>8, <1>9, <1>10, <1>11

LEMMA MessageMembersTyped ==
  ASSUME Inv1, NEW s \in Slots, SendUndelete(s) \/ DeletedRoom(s) \/ EnterRead(s)
  PROVE  MembersOK(member')
<1> DEFINE h == req[s]
           r == h.room
           u == h.user
           d == member[r][u]
<1>1. r \in Rooms /\ u \in Users
  BY HandlerOf DEF SendUndelete, DeletedRoom, EnterRead, At, HandlerOK, RoomPcs, SendPcs, EnterPcs
<1>2. d \in MemberDocs /\ d.lSM <= Len(message) /\ Len(message) \in Nat
  BY <1>1, MemberDoc, MessageDoc
<1>3. CASE SendUndelete(s)
  BY <1>1, <1>3, UnDeletedOK DEF SendUndelete
<1>4. CASE DeletedRoom(s)
  <2>1. member' = member \/ member' = [member EXCEPT ![r][u] = [d EXCEPT !.isD = TRUE]]
    BY <1>1, <1>4 DEF DeletedRoom, Inv1, Typed
  <2> DEFINE e == [d EXCEPT !.isD = TRUE]
  <2>2. e \in MemberDocs /\ e.lSM = d.lSM
    BY <1>2, SeenSame
  <2>3. member' = member \/ member' = [member EXCEPT ![r][u] = e]
    BY <2>1
  <2> HIDE DEF r, u, d, e
  <2> QED BY <1>1, <1>2, <2>2, <2>3, PutMember, MembersStay
<1>5. CASE EnterRead(s)
  <2> DEFINE e == [d EXCEPT !.lSM = Len(message)]
  <2>1. member' = member \/ member' = [member EXCEPT ![r][u] = e]
    BY <1>1, <1>5 DEF EnterRead, Inv1, Typed
  <2> HIDE DEF r, u, d
  <2>2. e \in MemberDocs /\ e.lSM <= Len(message)
    BY <1>2 DEF MemberDocs
  <2> HIDE DEF e
  <2> QED BY <1>1, <2>1, <2>2, PutMember, MembersStay
<1> QED BY <1>3, <1>4, <1>5

LEMMA MembersTyped ==
  ASSUME Inv1, NEW s \in Slots, Continue(s)
  PROVE  MembersOK(member')
<1>1. CASE UNCHANGED member
  BY <1>1, MembersStay
<1> QED BY <1>1, RoomMembersTyped, GroupMembersTyped, MessageMembersTyped, RoomsFrame, GroupsFrame,
           MessagesFrame DEF Continue

LEMMA MemberRequestTyped ==
  ASSUME Inv1, NEW u \in Users, NEW r \in Rooms, MemberRequest(u, r)
  PROVE  MembersOK(member')
<1> DEFINE d == member[r][u]
<1>1. d \in MemberDocs /\ d.lSM <= Len(message)
  BY MemberDoc
<1>2. CASE \E s \in Slots : DeleteRoom(s, u, r) \/ RoomOneSeenOn(s, u, r) \/ RoomOneSeenOff(s, u, r)
  <2>1. \/ member' = [member EXCEPT ![r][u] = [d EXCEPT !.isD = TRUE]]
        \/ \E on \in BOOLEAN : member' = [member EXCEPT ![r][u] = [d EXCEPT !.isOneSeen = on]]
    BY <1>2 DEF DeleteRoom, RoomOneSeenOn, RoomOneSeenOff, SetOneSeen, Inv1, Typed
  <2>2. /\ [d EXCEPT !.isD = TRUE] \in MemberDocs /\ [d EXCEPT !.isD = TRUE].lSM = d.lSM
        /\ \A on \in BOOLEAN : /\ [d EXCEPT !.isOneSeen = on] \in MemberDocs
                                /\ [d EXCEPT !.isOneSeen = on].lSM = d.lSM
    BY <1>1, SeenSame
  <2> HIDE DEF d
  <2>3. CASE member' = [member EXCEPT ![r][u] = [d EXCEPT !.isD = TRUE]]
    BY <1>1, <2>2, <2>3, PutMember
  <2>4. CASE \E on \in BOOLEAN : member' = [member EXCEPT ![r][u] = [d EXCEPT !.isOneSeen = on]]
    <3>1. PICK on \in BOOLEAN : member' = [member EXCEPT ![r][u] = [d EXCEPT !.isOneSeen = on]]
      BY <2>4
    <3> DEFINE e == [d EXCEPT !.isOneSeen = on]
    <3>2. e \in MemberDocs /\ e.lSM = d.lSM
      BY <2>2
    <3>3. member' = [member EXCEPT ![r][u] = e]
      BY <3>1
    <3> HIDE DEF e
    <3> QED BY <1>1, <3>2, <3>3, PutMember
  <2> QED BY <2>1, <2>3, <2>4
<1>3. CASE \E s \in Slots : UpdateTimer(s, u, r)
  BY <1>3, TimedOK DEF UpdateTimer
<1>4. CASE \E flag \in Flags, on \in BOOLEAN : SetFlag(u, r, flag, on)
  <2>1. PICK f \in SUBSET Flags : member' = [member EXCEPT ![r][u] = [d EXCEPT !.flags = f]]
    <3>1. PICK flag \in Flags, on \in BOOLEAN : SetFlag(u, r, flag, on)
      BY <1>4
    <3> DEFINE f == IF on THEN d.flags \cup {flag} ELSE d.flags \ {flag}
    <3>2. member' = [member EXCEPT ![r][u] = [d EXCEPT !.flags = f]]
      BY <3>1 DEF SetFlag, Inv1, Typed
    <3>3. f \in SUBSET Flags
      BY <1>1 DEF MemberDocs
    <3> HIDE DEF f
    <3> QED BY <3>2, <3>3
  <2> HIDE DEF d
  <2> QED BY <1>1, <2>1, SeenSame, PutMember
<1>5. CASE RenameBroadcast(u, r)
  <2>1. PICK h \in [next : {"t", "img"}, lId : Names \ {"old"}] :
          member' = RenamedRoom(r, h)
    BY <1>5 DEF RenameBroadcast, UpdateMembers, RenamedRoom, Inv1, Typed
  <2>2. h.lId \in Names
    OBVIOUS
  <2> QED BY <2>1, <2>2, RenamedOK
<1> QED BY <1>2, <1>3, <1>4, <1>5 DEF MemberRequest

-----------------------------------------------------------------------------
(* Every step keeps the types *)

LEMMA LastSeenStays ==
  ASSUME Inv1, Grows, MembersOK(member')
  PROVE  member' \in [Rooms -> [Users -> MemberDocs]] /\ LastSeen'
<1>1. Len(message) \in Nat /\ Len(message') \in Nat /\ Len(message) <= Len(message')
  BY DEF Grows
<1>2. \A r \in Rooms, u \in Users : member'[r][u].lSM \in Nat
  BY DEF MembersOK, MemberDocs
<1> QED BY <1>1, <1>2 DEF MembersOK, LastSeen

LEMMA HandlingStays ==
  ASSUME Inv1, Grows, UNCHANGED req
  PROVE  Handling'
<1>1. ASSUME NEW s \in Slots
      PROVE  HandlerOK(req'[s], message')
  <2> DEFINE h == req[s]
  <2>1. HandlerOK(h, message) /\ req'[s] = h
    BY DEF Inv1, Handling
  <2> HIDE DEF h
  <2> QED BY <2>1, StillOK
<1> QED BY <1>1 DEF Inv1, Handling

LEMMA WithoutType ==
  ASSUME Inv1, NEW n \in DOMAIN later
  PROVE  Without(later, n) \in Seq(Users \X Rooms)
<1>1. later \in Seq(Users \X Rooms)
  BY DEF Inv1, Typed
<1>2. Len(later) \in Nat /\ n \in 1..Len(later) /\ Len(later) - 1 \in Nat
  BY <1>1
<1>3. \A m \in 1..(Len(later) - 1) :
        (IF m < n THEN later[m] ELSE later[m + 1]) \in Users \X Rooms
  BY <1>1, <1>2
<1>4. [m \in 1..(Len(later) - 1) |-> IF m < n THEN later[m] ELSE later[m + 1]]
        \in [1..(Len(later) - 1) -> Users \X Rooms]
  BY <1>3
<1>5. [1..(Len(later) - 1) -> Users \X Rooms] \subseteq Seq(Users \X Rooms)
  BY <1>2
<1> QED BY <1>4, <1>5 DEF Without

LEMMA ContinueTyped ==
  ASSUME Inv1, NEW s \in Slots, Continue(s)
  PROVE  Inv1'
<1>1. Grows
  BY RoomsGrow, GroupsGrow, MessagesGrow DEF Continue
<1>2. UNCHANGED <<scene, online>>
  BY RoomsFrame, GroupsFrame, MessagesFrame DEF Continue
<1>3. Handling' /\ UNCHANGED <<begun, overlapped, restarts>>
  BY ContinueBecomes DEF Becomes
<1>4. member' \in [Rooms -> [Users -> MemberDocs]] /\ LastSeen'
  BY <1>1, MembersTyped, LastSeenStays
<1>5. Typed'
  BY <1>1, <1>2, <1>3, <1>4, SettingsTyped, RolesTyped, CopiesTyped, PeopleTyped, JoinedTyped,
     LaterTyped DEF Inv1, Typed, Grows
<1> QED BY <1>3, <1>4, <1>5 DEF Inv1

LEMMA RequestsTyped ==
  ASSUME Inv1, Grows, Controllers
  PROVE  Inv1'
<1>1. RequestsFrame
  BY ControllersFrame
<1>2. RequestTaken
  BY ControllersStart
<1>3. Handling'
  BY <1>2, HandlingStays DEF RequestTaken, Begins, Answered
<1>4. member' \in [Rooms -> [Users -> MemberDocs]] /\ LastSeen'
  BY <1>1, MemberRequestTyped, MembersStay, LastSeenStays DEF RequestsFrame
<1>5. begun' \in 0..scene'.limit /\ overlapped' \in BOOLEAN /\ restarts' \in 0..scene'.restarts
  <2>1. begun < scene.limit /\ begun' = begun + 1 /\ restarts' = restarts
        /\ overlapped' = (overlapped \/ ~Quiet)
    BY <1>2 DEF RequestTaken, Begins, Answered
  <2>2. overlapped' \in BOOLEAN
    BY <2>1, Zenon
  <2>3. scene.limit \in Nat /\ begun \in 0..scene.limit /\ restarts \in 0..scene.restarts
        /\ scene' = scene
    BY <1>1, ChatAssumption DEF Inv1, Typed, RequestsFrame
  <2> QED BY <2>1, <2>2, <2>3
<1>6. requests' \subseteq RequestDocs
  <2>1. CASE \E u \in Users, q \in requests : UpdateRequest(u, q)
    <3>1. PICK q \in requests, status \in {"Canceled", "Accepted", "Refused"} :
            requests' = (requests \ {q}) \cup {[q EXCEPT !.status = status]}
      BY <2>1 DEF UpdateRequest
    <3>2. [q EXCEPT !.status = status] \in RequestDocs
      BY DEF Inv1, Typed, RequestDocs
    <3> QED BY <3>1, <3>2 DEF Inv1, Typed
  <2> QED BY <1>1, <2>1 DEF RequestsFrame, Inv1, Typed
<1>7. online' \subseteq Users /\ joined' \in [Users -> SUBSET Rooms]
  <2>1. SocketRequest => /\ online' \subseteq Users
                         /\ joined' = joined \/ \E u \in Users : joined' = [joined EXCEPT ![u] = {}]
    BY DEF SocketRequest, Disconnect, ConnectBegin, Inv1, Typed
  <2> QED BY <1>1, <2>1 DEF RequestsFrame, Inv1, Typed
<1>8. apart' \subseteq Rooms \X Users
  <2>1. SocketRequest => apart' \subseteq apart
    BY DEF SocketRequest, Disconnect, ConnectBegin, people
  <2> QED BY <1>1, <2>1 DEF RequestsFrame, Inv1, Typed
<1>9. Typed'
  BY <1>1, <1>4, <1>5, <1>6, <1>7, <1>8 DEF Typed, Inv1, RequestsFrame, Grows
<1> QED BY <1>3, <1>4, <1>9 DEF Inv1

LEMMA OtherStepsTyped ==
  ASSUME Inv1, Grows, \/ \E n \in 1..2 : Announced(n)
                      \/ \E i \in DOMAIN message : Expire(i)
                      \/ Restart \/ UNCHANGED vars
  PROVE  Inv1'
<1>2. member' = member => member' \in [Rooms -> [Users -> MemberDocs]] /\ LastSeen'
  BY MembersStay, LastSeenStays
<1>4. CASE \E n \in 1..2 : Announced(n)
  <2>1. PICK n : Announced(n)
    BY <1>4
  <2>2. MembersOK(member')
    BY <2>1, AnnouncedGrows, AnnouncedMembers
  <2>3. later' \in Seq(Users \X Rooms)
    BY <2>1, WithoutType DEF Announced
  <2>4. UNCHANGED <<scene, setting, role, copies, bans, requests, apart, online, joined, req, begun, overlapped, restarts>>
    BY <2>1 DEF Announced, people, sockets, process
  <2> QED BY <2>2, <2>3, <2>4, LastSeenStays, HandlingStays DEF Inv1, Typed, Grows
<1>5. CASE \E i \in DOMAIN message : Expire(i)
  <2>1. UNCHANGED <<scene, setting, member, role, copies, bans, requests, apart, online, joined,
                    req, later, begun, overlapped, restarts>>
    BY <1>5 DEF Expire, rooms, people, sockets, process
  <2> QED BY <1>2, <2>1, HandlingStays DEF Inv1, Typed, Grows
<1>6. CASE Restart
  <2>1. UNCHANGED <<scene, setting, member, role, copies, message, bans, requests, apart,
                    begun, overlapped>>
    BY <1>6 DEF Restart, rooms, people
  <2>2. restarts' \in 0..scene'.restarts
    <3>1. scene.restarts \in Nat /\ restarts \in 0..scene.restarts
      BY ChatAssumption DEF Inv1, Typed
    <3> QED BY <1>6, <2>1, <3>1 DEF Restart
  <2>3. online' \subseteq Users /\ joined' \in [Users -> SUBSET Rooms]
        /\ later' \in Seq(Users \X Rooms)
    BY <1>6 DEF Restart
  <2>4. Handling'
    <3> DEFINE i == Idle
    <3>1. i \in Handlers /\ HandlerOK(i, message')
      BY IdleType, IdleOK
    <3>2. req' = [s \in Slots |-> i]
      BY <1>6 DEF Restart
    <3> HIDE DEF i
    <3> QED BY <3>1, <3>2 DEF Handling
  <2> QED BY <1>2, <2>1, <2>2, <2>3, <2>4 DEF Inv1, Typed, Grows
<1>7. CASE UNCHANGED vars
  <2>1. UNCHANGED <<scene, setting, member, role, copies, message, bans, requests, apart, online,
                    joined, req, later, begun, overlapped, restarts>>
    BY <1>7 DEF vars, rooms, people, sockets, process
  <2> QED BY <1>2, <2>1, HandlingStays DEF Inv1, Typed, Grows
<1> QED BY <1>4, <1>5, <1>6, <1>7

LEMMA StepTyped ==
  ASSUME Inv1, [Next]_vars
  PROVE  Inv1'
<1>1. Grows
  BY StepGrows
<1> QED BY <1>1, ContinueTyped, RequestsTyped, OtherStepsTyped DEF Next, Controllers

-----------------------------------------------------------------------------
(* Where a behaviour starts *)

LEMMA FirstRooms == r1 \in Rooms /\ r2 \in Rooms /\ r1 # r2
<1>1. PICK r \in Rooms, q \in Rooms : r # q
  BY ChatAssumption
<1>2. r1 \in Rooms
  BY <1>1 DEF r1
<1>3. \E x \in Rooms \ {r1} : TRUE
  BY <1>1
<1>4. r2 \in Rooms \ {r1}
  BY <1>3 DEF r2
<1> QED BY <1>2, <1>4

LEMMA InitSettings ==
  ASSUME Init
  PROVE  setting \in [Rooms -> SettingDocs]
<1>1. /\ NoSetting \in SettingDocs /\ Setting("s", Creator, Peer) \in SettingDocs
      /\ Setting("g", Creator, NoUser) \in SettingDocs
      /\ Setting("b", Creator, NoUser) \in SettingDocs
  BY Settings0, SettingType, ChatAssumption DEF RoomTypes
<1> DEFINE single == SingleOf(scene.setup)
           group == Started(scene.setup, "group")
           broadcast == Started(scene.setup, "broadcast")
<1>2. setting = [r \in Rooms |-> IF r \in single THEN Setting("s", Creator, Peer)
                                 ELSE IF r \in group THEN Setting("g", Creator, NoUser)
                                 ELSE IF r \in broadcast THEN Setting("b", Creator, NoUser)
                                 ELSE NoSetting]
  BY DEF Init
<1> HIDE DEF single, group, broadcast
<1> QED BY <1>1, <1>2

LEMMA InitMembers ==
  ASSUME Init
  PROVE  /\ member \in [Rooms -> [Users -> MemberDocs]]
         /\ \A r \in Rooms, u \in Users : member[r][u].lSM = 0 /\ ~member[r][u].isD
<1> DEFINE a == NoMember
           b == [a EXCEPT !.rT = "s"]
           c == [a EXCEPT !.rT = "g"]
           d == [a EXCEPT !.rT = "b"]
<1>1. a \in MemberDocs /\ a.lSM = 0 /\ ~a.isD
  BY Members0
<1> DEFINE single == SingleOf(scene.setup)
           group == Started(scene.setup, "group")
           broadcast == Started(scene.setup, "broadcast")
<1>2. member = [r \in Rooms |-> [u \in Users |->
         IF r \in single /\ u \in {Creator, Peer} THEN b
         ELSE IF r \in group /\ u \in {Creator, Peer} THEN c
         ELSE IF r \in broadcast /\ u = Creator THEN d ELSE a]]
  BY DEF Init
<1> HIDE DEF a, single, group, broadcast
<1>3. /\ b \in MemberDocs /\ c \in MemberDocs /\ d \in MemberDocs
      /\ b.lSM = 0 /\ c.lSM = 0 /\ d.lSM = 0 /\ ~b.isD /\ ~c.isD /\ ~d.isD
  BY <1>1 DEF MemberDocs, RoomTypes
<1> HIDE DEF b, c, d
<1> QED BY <1>1, <1>2, <1>3

\* The first message of a scene, if there is one.
LEMMA InitMessages ==
  ASSUME Init
  PROVE  /\ message \in Seq(MessageDocs)
         /\ \A i \in 1..Len(message) :
              /\ message[i].lId = NoId /\ message[i].votes = {}
              /\ \A u \in Users : message[i].status[u] # "seenOnly"
<1> DEFINE single == SingleOf(scene.setup)
           group == Started(scene.setup, "group")
           first == First(single, group)
<1>1. message = IF single \cup group = {} THEN <<>> ELSE <<first>>
  BY DEF Init
<1>2. single \cup group \subseteq Rooms
  BY FirstRooms DEF SingleOf, Started
<1> HIDE DEF single, group
<1>3. CASE single \cup group # {}
  <2> DEFINE r == CHOOSE q \in single \cup group : TRUE
             tags == {"created"} \cup (IF "vote" \in scene.menu THEN {"poll"} ELSE {})
             sent == [v \in Users |->
                       IF v \in IF group = {} THEN {} ELSE {Creator, Peer} THEN "sent" ELSE "none"]
             m == Message(r, Creator, NoId, tags)
             n == [m EXCEPT !.status = sent]
  <2>1. r \in Rooms
    BY <1>2, <1>3
  <2>2. tags \in SUBSET Tags
    BY DEF Tags
  <2>3. sent \in [Users -> Statuses] /\ \A u \in Users : sent[u] # "seenOnly"
    BY DEF Statuses
  <2>4. first = n
    BY DEF First
  <2> HIDE DEF r, tags, sent, first
  <2>5. m \in MessageDocs /\ m.lId = NoId /\ m.votes = {} /\ m.tags = tags
    BY <2>1, <2>2, MessageType, ChatAssumption
  <2> HIDE DEF m
  <2>6. n \in MessageDocs /\ n.lId = NoId /\ n.votes = {} /\ n.tags = tags /\ n.status = sent
    BY <2>3, <2>5 DEF MessageDocs
  <2> HIDE DEF n
  <2>7. message = <<n>>
    BY <1>1, <1>3, <2>4
  <2> QED BY <2>2, <2>3, <2>6, <2>7
<1>4. CASE single \cup group = {}
  BY <1>1, <1>4
<1> QED BY <1>3, <1>4

LEMMA InitTyped ==
  ASSUME Init
  PROVE  Inv1
<1>1. scene \in Scenes
  BY DEF Init
<1>2. scene.limit \in Nat /\ scene.restarts \in Nat
  BY <1>1, ChatAssumption
<1>3. role \in [Rooms -> [Users -> Seq(Roles)]]
  <2>1. <<"superAdmin">> \in Seq(Roles) /\ <<"member">> \in Seq(Roles) /\ <<>> \in Seq(Roles)
    BY DEF Roles
  <2> DEFINE group == Started(scene.setup, "group")
  <2>2. role = [r \in Rooms |-> [u \in Users |->
          IF r \in group /\ u = Creator THEN <<"superAdmin">>
          ELSE IF r \in group /\ u = Peer THEN <<"member">> ELSE <<>>]]
    BY DEF Init
  <2> HIDE DEF group
  <2> QED BY <2>1, <2>2
<1>4. copies \subseteq CopyDocs
  <2>1. copies \subseteq {<<r1, Peer, r2>>}
    BY DEF Init, Started
  <2> QED BY <2>1, FirstRooms, ChatAssumption DEF CopyDocs
<1>5. online \subseteq Users /\ joined \in [Users -> SUBSET Rooms]
  <2>1. online \subseteq Users
    BY DEF Init
  <2>2. joined = [u \in Users |-> IF u \in online THEN RoomsOf(u) ELSE {}]
    BY DEF Init
  <2>3. \A u \in Users : RoomsOf(u) \subseteq Rooms
    BY DEF RoomsOf
  <2> QED BY <2>1, <2>2, <2>3
<1>6. message \in Seq(MessageDocs) /\ Len(message) \in Nat
  BY InitMessages
<1>7. LastSeen
  BY <1>6, InitMembers DEF LastSeen
<1>8. /\ bans = {} /\ requests = {} /\ apart = {} /\ later = <<>>
      /\ begun = 0 /\ overlapped = FALSE /\ restarts = 0
  BY DEF Init
<1>9. Typed
  <2>1. /\ bans \subseteq Users \X Users /\ requests \subseteq RequestDocs
        /\ apart \subseteq Rooms \X Users /\ later \in Seq(Users \X Rooms)
    BY <1>8
  <2>2. begun \in 0..scene.limit /\ restarts \in 0..scene.restarts
    BY <1>2, <1>8
  <2>3. overlapped \in BOOLEAN
    BY <1>8
  <2> QED BY <1>1, <1>3, <1>4, <1>5, <1>6, <2>1, <2>2, <2>3, InitSettings, InitMembers DEF Typed
<1>10. Handling
  <2> DEFINE i == Idle
  <2>1. i \in Handlers /\ HandlerOK(i, message)
    BY IdleType, IdleOK
  <2>2. req = [s \in Slots |-> i]
    BY DEF Init
  <2> HIDE DEF i
  <2> QED BY <2>1, <2>2 DEF Handling
<1> QED BY <1>7, <1>9, <1>10 DEF Inv1

THEOREM ChatTyped == Spec => []Inv1
<1>1. Init => Inv1
  BY InitTyped
<1>2. Inv1 /\ [Next]_vars => Inv1'
  BY StepTyped
<1> QED BY <1>1, <1>2, PTL DEF Spec

-----------------------------------------------------------------------------
(* Where a handler goes, once more *)

LEMMA MovesPcs ==
  ASSUME Inv1, NEW s \in Slots, Moves(s)
  PROVE  req'[s].pc # "add_role"
<1> DEFINE h == req[s]
<1>1. HandlerOK(h, message)
  BY HandlerOf
<1>2. CASE Becomes(s, Idle)
  BY <1>2, IdleType DEF Becomes
<1>3. CASE \E next : req'[s].pc = next /\ Flow(h, next)
  <2>1. PICK next : req'[s].pc = next /\ Flow(h, next)
    BY <1>3
  <2> HIDE DEF h
  <2>2. next # "add_role"
    BY <1>1, <2>1 DEF Flow, RoomsFlow, GroupFlow, LeaveFlow, BroadcastFlow, MessageFlow, HandlerOK,
       Broadcasting, NewPcs, BroadcastPcs
  <2> QED BY <2>1, <2>2 DEF h
<1> QED BY <1>2, <1>3 DEF Moves

LEMMA ContinuePcs ==
  ASSUME Inv1, NEW s \in Slots, Continue(s)
  PROVE  req'[s].pc # "add_role"
<1>1. Grows
  BY RoomsGrow, GroupsGrow, MessagesGrow DEF Continue
<1> DEFINE Elsewhere == req'[s].pc # "add_role"
<1>2. Becomes(s, Idle) => Elsewhere
  BY IdleType DEF Becomes
<1>3. Moves(s) => Elsewhere
  BY MovesPcs
<1>4. CASE RoomsContinue(s)
  <2>1. BanDelete(s) \/ ConnectRead(s) => Elsewhere
    BY <1>1, BanDeleteMoves, ConnectReadMoves
  <2>2. ConnectDeliver(s) => Elsewhere
    BY <1>1, <1>2, ConnectDeliverMoves
  <2> HIDE DEF Elsewhere
  <2>3. Elsewhere
    BY <1>1, <1>3, <1>4, <2>1, <2>2, RoomsMove DEF RoomsContinue
  <2> QED BY <2>3 DEF Elsewhere
<1>5. CASE GroupsContinue(s)
  <2>1. LeaveSuccessor(s) \/ BroadcastNote(s) => Elsewhere
    BY <1>1, <1>2, LeaveSuccessorMoves, BroadcastNoteMoves
  <2>2. BroadcastNext(s) => Elsewhere
    <3>1. HAVE BroadcastNext(s)
    <3>2. req[s].pc = "broadcast_next" /\ HandlerOK(req[s], message)
      BY <3>1, HandlerOf DEF BroadcastNext, At
    <3>3. req[s].after \in {"broadcast_own", "broadcast_copies"}
      BY <3>2 DEF HandlerOK, Broadcasting, BroadcastPcs
    <3>4. \/ req'[s].pc = req[s].after
          \/ req'[s].pc \in {"broadcast_next", "broadcast_note", "room_setting"}
      BY <1>1, <3>1, BroadcastNextMoves
    <3> QED BY <3>3, <3>4
  <2> HIDE DEF Elsewhere
  <2>3. Elsewhere
    BY <1>1, <1>3, <1>5, <2>1, <2>2, GroupsMove, LeavesMove, BroadcastsMove DEF GroupsContinue
  <2> QED BY <2>3 DEF Elsewhere
<1>6. CASE MessagesContinue(s)
  <2>1. SendCheck(s) \/ SendCreate(s) => Elsewhere
    BY <1>1, <1>2, SendCheckMoves, SendCreateMoves
  <2> HIDE DEF Elsewhere
  <2>2. Elsewhere
    BY <1>1, <1>3, <1>6, <2>1, MessagesMove DEF MessagesContinue
  <2> QED BY <2>2 DEF Elsewhere
<1> QED BY <1>4, <1>5, <1>6 DEF Continue

-----------------------------------------------------------------------------
(* TypeOK: a user has as many roles in a group as handlers have added *)

LEMMA AddingSize ==
  ASSUME NEW r, NEW u
  PROVE  /\ IsFiniteSet(Adding(r, u)) /\ Cardinality(Adding(r, u)) \in Nat
         /\ Cardinality(Slots) \in Nat /\ Cardinality(Slots) >= 1
         /\ Cardinality(Adding(r, u)) <= Cardinality(Slots)
         /\ \A s \in Slots : s \notin Adding(r, u) => Cardinality(Adding(r, u)) + 1 <= Cardinality(Slots)
<1> DEFINE A == Adding(r, u)
<1>1. IsFiniteSet(Slots) /\ Slots # {} /\ Cardinality(Slots) \in Nat
  BY ChatAssumption, FS_CardinalityType
<1>2. Cardinality(Slots) # 0
  BY <1>1, FS_EmptySet
<1>3. A \in SUBSET Slots
  BY DEF Adding
<1> HIDE DEF A
<1>4. IsFiniteSet(A) /\ Cardinality(A) \in Nat /\ Cardinality(A) <= Cardinality(Slots)
  BY <1>1, <1>3, FS_Subset, FS_CardinalityType
<1>5. ASSUME NEW s \in Slots, s \notin A
      PROVE  Cardinality(A) + 1 <= Cardinality(Slots)
  <2>1. Cardinality(A) # Cardinality(Slots)
    BY <1>1, <1>3, <1>5, FS_Subset
  <2> QED BY <1>1, <1>4, <2>1
<1> QED BY <1>1, <1>2, <1>4, <1>5 DEF A

\* As long as nobody begins to add a role, there is no more of them.
LEMMA AddingLess ==
  ASSUME NEW r, NEW u, Adding(r, u)' \subseteq Adding(r, u)
  PROVE  Cardinality(Adding(r, u)') \in Nat /\ Cardinality(Adding(r, u)') <= Cardinality(Adding(r, u))
<1> DEFINE A == Adding(r, u)
           B == Adding(r, u)'
<1>1. IsFiniteSet(A) /\ B \in SUBSET A
  BY AddingSize
<1> HIDE DEF A, B
<1>2. IsFiniteSet(B) /\ Cardinality(B) <= Cardinality(A)
  BY <1>1, FS_Subset
<1>3. Cardinality(B) \in Nat
  BY <1>2, FS_CardinalityType
<1> QED BY <1>2, <1>3 DEF A, B

LEMMA RolesLen ==
  ASSUME Inv1
  PROVE  \A r \in Rooms, u \in Users : role[r][u] \in Seq(Roles) /\ Len(role[r][u]) \in Nat
BY DEF Inv1, Typed

\* No step but one that adds a role makes anybody's roles more.
LEMMA RolesShrink ==
  ASSUME Inv1, NEW s \in Slots, Continue(s), ~AddRole(s), ~CreateGroupRoles(s),
         NEW r \in Rooms, NEW u \in Users
  PROVE  Len(role'[r][u]) <= Len(role[r][u])
<1> DEFINE h == req[s]
<1>1. role \in [Rooms -> [Users -> Seq(Roles)]]
  BY DEF Inv1, Typed
<1>2. CASE UNCHANGED role
  BY <1>2, RolesLen
<1>3. CASE KickRole(s) \/ LeaveRole(s) \/ RoleSet(s)
  <2> DEFINE q == h.room
  <2>1. PICK v \in Users :
          /\ q \in Rooms
          /\ LET x == role[q][v]
             IN \/ role' = [role EXCEPT ![q][v] = IF x = <<>> THEN x ELSE Tail(x)]
                \/ x # <<>> /\ h.lId \in Roles
                   /\ role' = [role EXCEPT ![q][v] = <<h.lId>> \o Tail(x)]
                \/ UNCHANGED role
    BY <1>3, RoleWrites
  <2> HIDE DEF q
  <2> DEFINE x == role[q][v]
             b == IF x = <<>> THEN x ELSE Tail(x)
             c == <<h.lId>> \o Tail(x)
  <2> HIDE DEF h
  <2>2. x \in Seq(Roles)
    BY <1>1, <2>1
  <2>3. Len(b) <= Len(x) /\ (x # <<>> /\ h.lId \in Roles => Len(c) <= Len(x))
    <3> HIDE DEF x
    <3>1. x # <<>> => Tail(x) \in Seq(Roles) /\ Len(Tail(x)) = Len(x) - 1 /\ Len(x) \in Nat
      BY <2>2
    <3>2. Len(b) <= Len(x)
      BY <2>2, <3>1
    <3>3. ASSUME x # <<>>, h.lId \in Roles
          PROVE  Len(c) <= Len(x)
      <4>1. <<h.lId>> \in Seq(Roles) /\ Len(<<h.lId>>) = 1
        BY <3>3
      <4> QED BY <3>1, <3>3, <4>1
    <3> QED BY <3>2, <3>3
  <2>4. \/ role' = [role EXCEPT ![q][v] = b]
        \/ x # <<>> /\ h.lId \in Roles /\ role' = [role EXCEPT ![q][v] = c]
        \/ UNCHANGED role
    BY <2>1
  <2> HIDE DEF b, c
  <2>5. Len(role'[q][v]) <= Len(x) /\ (<<r, u>> # <<q, v>> => role'[r][u] = role[r][u])
    BY <1>1, <2>1, <2>3, <2>4, RolesLen
  <2> QED BY <2>1, <2>5, RolesLen
<1>4. CASE DeleteRoles(s)
  <2>1. role' = [role EXCEPT ![h.room] = [v \in Users |-> <<>>]]
    BY <1>4 DEF DeleteRoles
  <2>2. role'[r][u] = <<>> \/ role'[r][u] = role[r][u]
    BY <1>1, <2>1
  <2> QED BY <2>2, RolesLen
<1> QED BY <1>2, <1>3, <1>4, RoomsFrame, GroupsFrame, MessagesFrame DEF Continue

LEMMA ContinueBounded ==
  ASSUME Inv1, RolesBounded, NEW s \in Slots, Continue(s)
  PROVE  RolesBounded'
<1> SUFFICES ASSUME NEW r \in Rooms, NEW u \in Users
             PROVE  (Len(role[r][u]) + Cardinality(Adding(r, u)) <= Cardinality(Slots))'
  BY DEF RolesBounded
<1> DEFINE h == req[s]
           n == Cardinality(Adding(r, u))
           m == Cardinality(Adding(r, u)')
           k == Cardinality(Slots)
<1>1. Rest(s) /\ req'[s].pc # "add_role"
  BY ContinueBecomes, ContinuePcs DEF Becomes
<1>2. Adding(r, u)' \subseteq Adding(r, u) \ {s}
  BY <1>1 DEF Adding, Rest
<1>3. /\ n \in Nat /\ m \in Nat /\ k \in Nat /\ m <= n /\ k >= 1 /\ m <= k
      /\ Len(role[r][u]) \in Nat /\ Len(role[r][u]) + n <= k
  BY <1>2, AddingSize, AddingLess, RolesLen DEF RolesBounded
<1>4. role \in [Rooms -> [Users -> Seq(Roles)]] /\ HandlerOK(h, message)
  BY HandlerOf DEF Inv1, Typed
<1>5. CASE CreateGroupRoles(s)
  <2>1. s \notin Adding(r, u)
    BY <1>5 DEF CreateGroupRoles, At, Adding
  <2>2. n + 1 <= k
    BY <2>1, AddingSize
  <2>3. Len(role'[r][u]) = 1 \/ role'[r][u] = role[r][u]
    <3>1. role' = [role EXCEPT ![h.room] = [v \in Users |->
                    IF v = h.user THEN <<"superAdmin">>
                    ELSE IF v \in h.list THEN <<"member">> ELSE @[v]]]
      BY <1>5 DEF CreateGroupRoles
    <3> HIDE DEF h
    <3>2. role'[r][u] \in {<<"superAdmin">>, <<"member">>, role[r][u]}
      BY <1>4, <3>1
    <3> QED BY <3>2
  <2> HIDE DEF n, m, k, h
  <2>4. CASE Len(role'[r][u]) = 1
    BY <1>3, <2>2, <2>4 DEF n, m, k
  <2>5. CASE role'[r][u] = role[r][u]
    BY <1>3, <2>5 DEF n, m, k
  <2> QED BY <2>3, <2>4, <2>5
<1>6. CASE AddRole(s)
  <2>1. h.peer \in Users /\ h.room \in Rooms
        /\ role' = [role EXCEPT ![h.room][h.peer] = Append(role[h.room][h.peer], "member")]
    BY <1>6, RoleWrites
  <2>2. CASE r = h.room /\ u = h.peer
    <3>1. s \in Adding(r, u)
      BY <1>6, <2>2 DEF AddRole, At, Adding
    <3>2. m + 1 <= n
      <4> DEFINE A == Adding(r, u)
                 B == Adding(r, u)'
      <4>1. IsFiniteSet(A) /\ Cardinality(A) \in Nat /\ s \in A /\ B \in SUBSET (A \ {s})
        BY <1>2, <3>1, AddingSize
      <4> HIDE DEF A, B
      <4>2. IsFiniteSet(A \ {s}) /\ Cardinality(A \ {s}) = Cardinality(A) - 1
        BY <4>1, FS_RemoveElement
      <4>3. Cardinality(B) <= Cardinality(A \ {s})
        BY <4>1, <4>2, FS_Subset
      <4>4. IsFiniteSet(B) /\ Cardinality(B) \in Nat
        BY <4>1, <4>2, FS_Subset, FS_CardinalityType
      <4>5. Cardinality(B) + 1 <= Cardinality(A)
        BY <4>1, <4>2, <4>3, <4>4
      <4> QED BY <4>5 DEF A, B
    <3>3. role'[r][u] = Append(role[r][u], "member")
      BY <1>4, <2>1, <2>2
    <3>4. Len(role'[r][u]) = Len(role[r][u]) + 1
      BY <3>3, RolesLen
    <3> HIDE DEF n, m, k
    <3> QED BY <1>3, <3>2, <3>4 DEF n, m, k
  <2>3. CASE ~(r = h.room /\ u = h.peer)
    <3>1. role'[r][u] = role[r][u]
      BY <1>4, <2>1, <2>3
    <3> HIDE DEF n, m, k
    <3> QED BY <1>3, <3>1 DEF n, m, k
  <2> QED BY <2>2, <2>3
<1>7. CASE ~CreateGroupRoles(s) /\ ~AddRole(s)
  <2>1. Len(role'[r][u]) <= Len(role[r][u])
    BY <1>7, RolesShrink
  <2>2. Len(role'[r][u]) \in Nat
    BY RolesTyped
  <2> HIDE DEF n, m, k
  <2> QED BY <1>3, <2>1, <2>2 DEF n, m, k
<1> QED BY <1>5, <1>6, <1>7

\* Nobody's roles change and nobody begins to add one.
LEMMA StaysBounded ==
  ASSUME Inv1, RolesBounded, UNCHANGED role, \A s \in Slots : req'[s] = req[s] \/ req'[s].pc # "add_role"
  PROVE  RolesBounded'
<1> SUFFICES ASSUME NEW r \in Rooms, NEW u \in Users
             PROVE  (Len(role[r][u]) + Cardinality(Adding(r, u)) <= Cardinality(Slots))'
  BY DEF RolesBounded
<1> DEFINE n == Cardinality(Adding(r, u))
           m == Cardinality(Adding(r, u)')
           k == Cardinality(Slots)
<1>1. Adding(r, u)' \subseteq Adding(r, u)
  BY DEF Adding
<1>2. /\ n \in Nat /\ m \in Nat /\ k \in Nat /\ m <= n
      /\ Len(role[r][u]) \in Nat /\ Len(role[r][u]) + n <= k
  BY <1>1, AddingSize, AddingLess, RolesLen DEF RolesBounded
<1> HIDE DEF n, m, k
<1> QED BY <1>2 DEF n, m, k

\* Who begins to add a role has seen that there is none.
LEMMA RequestsBounded ==
  ASSUME Inv1, Grows, RolesBounded, Controllers
  PROVE  RolesBounded'
<1>1. UNCHANGED role
  BY ControllersFrame DEF RequestsFrame
<1>2. RequestTaken
  BY ControllersStart
<1>3. CASE Answered
  BY <1>1, <1>3, StaysBounded DEF Answered
<1>4. ASSUME NEW s \in Slots, Begins(s, req'[s]), req'[s].pc # "add_role"
      PROVE  RolesBounded'
  BY <1>1, <1>4, StaysBounded DEF Begins, Rest
<1>5. ASSUME NEW s \in Slots, NEW v \in Users, NEW w \in Users, NEW q \in Rooms, AddBegin(s, v, w, q)
      PROVE  RolesBounded'
  <2> SUFFICES ASSUME NEW r \in Rooms, NEW u \in Users
               PROVE  (Len(role[r][u]) + Cardinality(Adding(r, u)) <= Cardinality(Slots))'
    BY DEF RolesBounded
  <2>1. Rest(s) /\ req'[s].peer = w /\ req'[s].room = q /\ ~InGroup(q, w)
    BY <1>5, AddBegins DEF Begins
  <2>2. CASE r = q /\ u = w
    <3>1. role'[r][u] = <<>>
      BY <1>1, <2>1, <2>2 DEF InGroup
    <3> DEFINE B == Adding(r, u)'
    <3>2. B \in SUBSET Slots
      BY DEF Adding
    <3>3. Cardinality(B) <= Cardinality(Slots) /\ Cardinality(B) \in Nat
      BY <3>2, ChatAssumption, FS_Subset, FS_CardinalityType
    <3>4. Len(role'[r][u]) + Cardinality(B) <= Cardinality(Slots)
      BY <3>1, <3>3, AddingSize
    <3> QED BY <3>4
  <2>3. CASE ~(r = q /\ u = w)
    <3> DEFINE n == Cardinality(Adding(r, u))
               m == Cardinality(Adding(r, u)')
               k == Cardinality(Slots)
    <3>1. Adding(r, u)' \subseteq Adding(r, u)
      BY <2>1, <2>3 DEF Adding, Rest
    <3>2. /\ n \in Nat /\ m \in Nat /\ k \in Nat /\ m <= n
          /\ Len(role[r][u]) \in Nat /\ Len(role[r][u]) + n <= k
      BY <3>1, AddingSize, AddingLess, RolesLen DEF RolesBounded
    <3> HIDE DEF n, m, k
    <3> QED BY <1>1, <3>2 DEF n, m, k
  <2> QED BY <2>2, <2>3
<1> QED BY <1>2, <1>3, <1>4, <1>5 DEF RequestTaken

LEMMA StepBounded ==
  ASSUME Inv1, RolesBounded, [Next]_vars
  PROVE  RolesBounded'
<1>1. Grows
  BY StepGrows
<1>2. CASE \E s \in Slots : Continue(s)
  BY <1>2, ContinueBounded
<1>3. CASE Controllers
  BY <1>1, <1>3, RequestsBounded
<1>5. CASE \/ \E n \in 1..2 : Announced(n)
           \/ \E i \in DOMAIN message : Expire(i)
           \/ UNCHANGED vars
  <2>1. UNCHANGED <<role, req>>
    BY <1>5 DEF Announced, Expire, vars, rooms
  <2> QED BY <2>1, StaysBounded
<1>6. CASE Restart
  <2>1. UNCHANGED role /\ req' = [s \in Slots |-> Idle]
    BY <1>6 DEF Restart, rooms
  <2>2. \A s \in Slots : req'[s].pc # "add_role"
    BY <2>1, IdleType
  <2> QED BY <2>1, <2>2, StaysBounded
<1> QED BY <1>2, <1>3, <1>5, <1>6 DEF Next, Controllers

LEMMA InitBounded ==
  ASSUME Init
  PROVE  RolesBounded
<1> SUFFICES ASSUME NEW r \in Rooms, NEW u \in Users
             PROVE  Len(role[r][u]) + Cardinality(Adding(r, u)) <= Cardinality(Slots)
  BY DEF RolesBounded
<1>1. Adding(r, u) = {}
  <2>1. req = [s \in Slots |-> Idle]
    BY DEF Init
  <2>2. \A s \in Slots : req[s].pc # "add_role"
    BY <2>1, IdleType
  <2> QED BY <2>2 DEF Adding
<1>2. Cardinality(Adding(r, u)) = 0
  BY <1>1, FS_EmptySet
<1> DEFINE group == Started(scene.setup, "group")
<1>3. role = [q \in Rooms |-> [v \in Users |->
        IF q \in group /\ v = Creator THEN <<"superAdmin">>
        ELSE IF q \in group /\ v = Peer THEN <<"member">> ELSE <<>>]]
  BY DEF Init
<1> HIDE DEF group
<1>4. role[r][u] \in {<<"superAdmin">>, <<"member">>, <<>>}
  BY <1>3
<1>5. Len(role[r][u]) \in {0, 1}
  BY <1>4
<1> DEFINE k == Cardinality(Slots)
           l == Len(role[r][u])
<1>6. k \in Nat /\ k >= 1
  BY AddingSize
<1>7. l \in {0, 1}
  BY <1>5
<1> HIDE DEF k, l
<1>8. l + 0 <= k
  BY <1>6, <1>7
<1> QED BY <1>2, <1>8 DEF k, l

LEMMA TypesHold ==
  ASSUME Inv1, RolesBounded
  PROVE  TypeOK
<1>1. scene \in Scenes /\ setting \in [Rooms -> SettingDocs] /\ copies \subseteq Rooms \X Users \X Rooms
  BY DEF Inv1, Typed, CopyDocs
<1>2. ASSUME NEW r \in Rooms, NEW u \in Users
      PROVE  /\ member[r][u] \in [rT : RoomTypes \cup {"none"}, isD : BOOLEAN,
                                  lSM : 0..Len(message), isOneSeen : BOOLEAN, timer : BOOLEAN,
                                  flags : SUBSET Flags, t : Names, img : Names]
             /\ role[r][u] \in Seq(Roles) /\ Len(role[r][u]) <= Cardinality(Slots)
  <2>1. member[r][u] \in MemberDocs /\ member[r][u].lSM <= Len(message) /\ Len(message) \in Nat
    BY MemberDoc, MessageDoc
  <2>2. member[r][u].lSM \in 0..Len(message)
    BY <2>1 DEF MemberDocs
  <2>3. member[r][u] \in [rT : RoomTypes \cup {"none"}, isD : BOOLEAN,
                          lSM : 0..Len(message), isOneSeen : BOOLEAN, timer : BOOLEAN,
                          flags : SUBSET Flags, t : Names, img : Names]
    BY <2>1, <2>2 DEF MemberDocs
  <2>4. Len(role[r][u]) <= Cardinality(Slots)
    <3>1. Len(role[r][u]) + Cardinality(Adding(r, u)) <= Cardinality(Slots)
      BY DEF RolesBounded
    <3> QED BY <3>1, RolesLen, AddingSize
  <2> QED BY <2>3, <2>4, RolesLen
<1>3. ASSUME NEW i \in DOMAIN message
      PROVE  LET m == message[i]
             IN /\ m.rId \in Rooms /\ m.sId \in Users /\ m.lId \in LocalIds \cup {NoId}
                /\ m.tags \subseteq Tags /\ m.status \in [Users -> Statuses]
                /\ m.dF \cup m.stars \cup m.oneSeenBy \subseteq Users
                /\ m.votes \subseteq Users \X Options
                /\ m.reactions \in [Users -> Emojis \cup {"none"}]
  <2> DEFINE m == message[i]
  <2>1. m \in MessageDocs
    BY MessageDoc
  <2> HIDE DEF m
  <2>2. /\ m.rId \in Rooms /\ m.sId \in Users /\ m.lId \in LocalIds \cup {NoId}
        /\ m.tags \subseteq Tags /\ m.status \in [Users -> Statuses]
        /\ m.dF \cup m.stars \cup m.oneSeenBy \subseteq Users
        /\ m.votes \subseteq Users \X Options
        /\ m.reactions \in [Users -> Emojis \cup {"none"}]
    BY <2>1 DEF MessageDocs, Reactions
  <2> QED BY <2>2 DEF m
<1>4. bans \subseteq Users \X Users /\ requests \subseteq RequestDocs /\ apart \subseteq Rooms \X Users
  BY DEF Inv1, Typed
<1>5. \A q \in requests : /\ {q.from, q.to} \subseteq Users /\ q.room \in Rooms
                          /\ q.status \in {"Pending", "Accepted", "Refused", "Canceled"}
  BY <1>4 DEF RequestDocs
<1>6. online \subseteq Users /\ joined \in [Users -> SUBSET Rooms]
  BY DEF Inv1, Typed
<1>7. \A s \in Slots : req[s].user \in Users \cup {NoUser} /\ req[s].room \in Rooms \cup {NoRoom}
  BY HandlerOf DEF Handlers
<1>8. later \in Seq(Users \X Rooms)
  BY DEF Inv1, Typed
<1>9. begun \in 0..scene.limit /\ overlapped \in BOOLEAN /\ restarts \in 0..scene.restarts
  BY DEF Inv1, Typed
<1> QED BY <1>1, <1>2, <1>3, <1>4, <1>5, <1>6, <1>7, <1>8, <1>9, Zenon DEF TypeOK, SettingDocs

\* The type of every variable of the chat; no user gets more documents in a group
\* than requests can be in progress.
THEOREM ChatTypeOK == Spec => []TypeOK
<1>1. Init => Inv1 /\ RolesBounded
  BY InitTyped, InitBounded
<1>2. Inv1 /\ RolesBounded /\ [Next]_vars => (Inv1 /\ RolesBounded)'
  BY StepTyped, StepBounded
<1>3. Inv1 /\ RolesBounded => TypeOK
  BY TypesHold
<1> QED BY <1>1, <1>2, <1>3, PTL DEF Spec

-----------------------------------------------------------------------------
(* NothingTwice: localIds and votes *)

LEMMA StepOneEach ==
  ASSUME Inv1, OneEach, Grows
  PROVE  OneEach'
<1>1. ASSUME NEW i \in 1..Len(message'), NEW j \in 1..Len(message'), Alive(i)', Alive(j)',
             message'[i].lId = message'[j].lId, message'[i].lId \in LocalIds
      PROVE  i = j
  <2> DEFINE old == 1..Len(message)
  <2>1. /\ i \in old \/ i \in Added
        /\ j \in old \/ j \in Added
    BY DEF Grows, Added
  <2>2. \A k \in old : /\ message'[k].lId = message[k].lId
                       /\ Alive(k)' => Alive(k)
    BY DEF Grows, Version, Alive
  <2>3. CASE i \in old /\ j \in old
    BY <1>1, <2>2, <2>3 DEF OneEach
  <2>4. CASE i \in Added /\ j \in Added
    BY <1>1, <2>4, ChatAssumption DEF Grows
  <2>5. ASSUME NEW k \in old, NEW l \in Added, Alive(k)', message'[k].lId = message'[l].lId,
               message'[l].lId \in LocalIds
        PROVE  FALSE
    <3>1. ~Taken(message'[l].lId)
      BY <2>5 DEF Grows
    <3>2. Alive(k) /\ message[k].lId = message'[l].lId /\ k \in DOMAIN message
      BY <2>2, <2>5, MessageDoc
    <3> QED BY <3>1, <3>2 DEF Taken
  <2> QED BY <1>1, <2>1, <2>3, <2>4, <2>5
<1>2. ASSUME NEW i \in 1..Len(message')
      PROVE  Once(message'[i].votes)
  <2>1. CASE i \in 1..Len(message)
    BY <2>1 DEF OneEach, Grows, Version
  <2>2. CASE i \in Added
    <3>1. message'[i].votes = {}
      BY <2>2 DEF Grows
    <3> QED BY <3>1 DEF Once
  <2> QED BY <2>1, <2>2 DEF Grows, Added
<1> QED BY <1>1, <1>2 DEF OneEach

-----------------------------------------------------------------------------
(* One request after the other *)

\* Without overlap and without a restart, a request begins when nothing is left
\* of the one before.
LEMMA AloneSteps ==
  ASSUME Inv1, [Next]_vars, Alone'
  PROVE  /\ Alone
         /\ \/ \E s \in Slots : Continue(s)
            \/ Quiet /\ Controllers
            \/ \E n \in 1..2 : Announced(n)
            \/ \E i \in DOMAIN message : Expire(i)
            \/ UNCHANGED vars
<1>1. overlapped \in BOOLEAN /\ restarts \in Nat
  BY ChatAssumption DEF Inv1, Typed
<1>2. Grows
  BY StepGrows
<1>3. ASSUME NEW s \in Slots, Continue(s)
      PROVE  Alone
  BY <1>3, ContinueBecomes DEF Becomes, Alone
<1>4. ASSUME overlapped' = (overlapped \/ ~Quiet), restarts' = restarts
      PROVE  Alone /\ Quiet
  BY <1>1, <1>4 DEF Alone
<1>5. ASSUME Controllers
      PROVE  Alone /\ Quiet
  <2>1. RequestTaken
    BY <1>2, <1>5, ControllersStart
  <2> QED BY <1>4, <2>1 DEF RequestTaken, Begins, Answered
<1>7. ASSUME \/ \E n \in 1..2 : Announced(n)
             \/ \E i \in DOMAIN message : Expire(i)
             \/ UNCHANGED vars
      PROVE  Alone
  <2>1. UNCHANGED <<overlapped, restarts>>
    <3>1. CASE \E n \in 1..2 : Announced(n)
      BY <3>1 DEF Announced, process
    <3>2. CASE (\E i \in DOMAIN message : Expire(i)) \/ UNCHANGED vars
      BY <3>2 DEF Expire, vars, process
    <3> QED BY <1>7, <3>1, <3>2
  <2> QED BY <2>1 DEF Alone
<1>8. ~Restart
  BY <1>1 DEF Restart, Alone
<1> QED BY <1>3, <1>5, <1>7, <1>8 DEF Next, Controllers

LEMMA QuietIdle ==
  ASSUME Quiet
  PROVE  later = <<>> /\ \A s \in Slots : req[s].pc = "idle"
BY DEF Quiet, InProgress

\* The handler in progress is the only one.
LEMMA OthersIdle ==
  ASSUME Serial, Alone, NEW s \in Slots, req[s].pc # "idle"
  PROVE  \A t \in Slots \ {s} : req[t].pc = "idle"
BY DEF Serial, InProgress

LEMMA StillSerial ==
  ASSUME NEW s \in Slots, \A t \in Slots \ {s} : req'[t].pc = "idle",
         later' # <<>> => req'[s].pc \in LaterPcs
  PROVE  Serial'
BY DEF Serial, InProgress, LaterPcs

LEMMA StepSerial ==
  ASSUME Inv1, Serial, [Next]_vars
  PROVE  Serial'
<1> SUFFICES ASSUME Alone'
             PROVE  Serial'
  BY DEF Serial
<1>1. Grows
  BY StepGrows
<1>2. Alone
  BY AloneSteps
<1>3. ASSUME NEW s \in Slots, Continue(s)
      PROVE  Serial'
  <2>1. Rest(s) /\ req[s].pc # "idle" /\ HandlerOK(req[s], message)
    BY <1>3, ContinueBecomes, HandlerOf DEF Becomes
  <2>2. \A t \in Slots \ {s} : req'[t].pc = "idle"
    BY <1>2, <2>1, OthersIdle DEF Rest
  <2>3. later' # <<>> => req'[s].pc \in LaterPcs
    <3>1. CASE AddJoin(s)
      BY <1>1, <3>1, Ends, IdleType DEF AddJoin, Becomes, LaterPcs
    <3>2. CASE AwaitAnnounce(s) \/ RoleSet(s)
      <4>1. later = <<>>
        BY <1>2, <3>2 DEF Serial, AwaitAnnounce, RoleSet, At, LaterPcs
      <4>2. Return(s) => req'[s].pc = "idle"
        BY <1>1, Ends, IdleType DEF Becomes
      <4>3. \A next : Goto(s, next) => req'[s].pc = next
        BY HandlerOf DEF Goto, Resume, Inv1, Handling, Handlers
      <4> HIDE DEF Serial
      <4> QED BY <3>2, <4>1, <4>2, <4>3 DEF AwaitAnnounce, RoleSet, Proceed, LaterPcs
    <3>3. CASE LeaveSocket(s)
      <4>1. later = <<>>
        BY <1>2, <3>3 DEF Serial, LeaveSocket, At, LaterPcs
      <4>2. \A next : Goto(s, next) => req'[s].pc = next
        BY HandlerOf DEF Goto, Resume, Inv1, Handling, Handlers
      <4> QED BY <3>3, <4>1, <4>2 DEF LeaveSocket, LaterPcs
    <3>4. CASE RenameMembers(s)
      <4>1. \A next : Goto(s, next) => req'[s].pc = next
        BY HandlerOf DEF Goto, Resume, Inv1, Handling, Handlers
      <4> QED BY <3>4, <4>1 DEF RenameMembers, LaterPcs
    <3>5. CASE UNCHANGED later
      <4> SUFFICES ASSUME later # <<>>
                   PROVE  req'[s].pc \in LaterPcs
        BY <3>5
      <4>1. req[s].pc \in {"leave_role", "leave_member", "rename_setting"}
        BY <1>2, <2>1 DEF Serial, LaterPcs
      <4>2. LeaveRole(s) \/ LeaveMember(s) \/ RenameSetting(s)
        <5>1. ~RoomsContinue(s)
          BY <4>1 DEF RoomsContinue, At, CreateSetting, CreateMembers, JoinMembers, OrderSetting,
             HideRoom, OpenShow, OpenJoin, RoomInfo, BanCreate, BanDelete, BanSockets,
             RequestCreate, ConnectRead, ConnectJoin, ConnectDeliver
        <5>2. ~MessagesContinue(s)
          BY <4>1 DEF MessagesContinue, At, SendUndelete, SendCheck, SendCreate, SendStatuses,
             SendCopies, DeletedLook, DeletedRoom, ReactSave, EnterRead, EnterDeliver, EnterSeen
        <5>3. GroupsContinue(s)
          BY <1>3, <5>1, <5>2 DEF Continue
        <5> QED BY <4>1, <5>3 DEF GroupsContinue, At, CreateGroupMembers, CreateGroupRoles,
               CreateGroupSetting, JoinGroup, GroupHello, AddRole, AddMember, AddJoin, KickRole,
               KickMember, KickLeave, AwaitAnnounce, RoleSet, LeaveSocket, LeaveSuccessor,
               DeleteSockets, DeleteMembers, DeleteRoles, DeleteSetting, DeleteMessages,
               SettingsSave, RenameMembers, BroadcastMember, BroadcastJoin, BroadcastNext,
               BroadcastNote, BroadcastOwn, BroadcastCopies, BroadcastSetting
      <4>3. LeaveMember(s) \/ RenameSetting(s) => req'[s].pc = "idle"
        BY <1>1, Ends, IdleType DEF LeaveMember, RenameSetting, Becomes
      <4>4. LeaveRole(s) => req'[s].pc = "leave_member"
        BY HandlerOf DEF LeaveRole, Goto, Resume, Inv1, Handling, Handlers
      <4> QED BY <4>2, <4>3, <4>4 DEF LaterPcs
    <3> QED BY <1>3, <3>1, <3>2, <3>3, <3>4, <3>5, RoomsFrame, GroupsFrame, MessagesFrame
            DEF Continue
  <2> QED BY <2>2, <2>3, StillSerial
<1>4. ASSUME Quiet, Controllers
      PROVE  Serial'
  <2>1. later' = <<>>
    BY <1>4, QuietIdle, ControllersFrame DEF RequestsFrame
  <2>2. RequestTaken
    BY <1>1, <1>4, ControllersStart
  <2>3. CASE \E s \in Slots : Begins(s, req'[s])
    <3>1. PICK s \in Slots : Rest(s)
      BY <2>3 DEF Begins
    <3>2. \A t \in Slots \ {s} : req'[t].pc = "idle"
      BY <1>4, <3>1, QuietIdle DEF Rest
    <3> QED BY <2>1, <3>2, StillSerial
  <2>4. CASE Answered
    BY <1>4, <2>1, <2>4, QuietIdle DEF Answered, Serial, InProgress
  <2> QED BY <2>2, <2>3, <2>4 DEF RequestTaken
<1>6. ASSUME \/ \E n \in 1..2 : Announced(n)
             \/ \E i \in DOMAIN message : Expire(i)
             \/ UNCHANGED vars
      PROVE  Serial'
  <2>1. UNCHANGED req /\ (later' # <<>> => later # <<>>)
    <3>1. CASE \E n \in 1..2 : Announced(n)
      BY <3>1 DEF Announced, process
    <3>2. CASE (\E i \in DOMAIN message : Expire(i)) \/ UNCHANGED vars
      BY <3>2 DEF Expire, vars, process
    <3> QED BY <1>6, <3>1, <3>2
  <2> QED BY <1>2, <2>1 DEF Serial, InProgress
<1> QED BY <1>3, <1>4, <1>6, AloneSteps

-----------------------------------------------------------------------------
(* NothingTwice *)

LEMMA TwiceNever ==
  ASSUME Inv1, OneEach
  PROVE  NothingTwice
<1>1. ASSUME NEW l \in LocalIds
      PROVE  Cardinality({i \in DOMAIN message : Alive(i) /\ message[i].lId = l}) <= 1
  <2> DEFINE S == {i \in DOMAIN message : Alive(i) /\ message[i].lId = l}
  <2>1. \A i, j \in S : i = j
    BY <1>1, MessageDoc DEF OneEach
  <2> HIDE DEF S
  <2>2. S = {} \/ \E i : S = {i}
    BY <2>1
  <2>3. Cardinality(S) = 0 \/ Cardinality(S) = 1
    BY <2>2, FS_EmptySet, FS_Singleton
  <2>4. Cardinality(S) <= 1
    BY <2>3
  <2> QED BY <2>4 DEF S
<1>2. \A i \in DOMAIN message : \A v, w \in message[i].votes : v[1] = w[1] => v = w
  BY MessageDoc DEF OneEach, Once
<1> QED BY <1>1, <1>2 DEF NothingTwice

LEMMA InitSerial ==
  ASSUME Init
  PROVE  Serial /\ OneEach
<1>1. req = [s \in Slots |-> Idle] /\ later = <<>>
  BY DEF Init
<1>2. \A s \in Slots : req[s].pc = "idle"
  BY <1>1, IdleType
<1>3. \A i \in 1..Len(message) : message[i].lId = NoId /\ message[i].votes = {}
  BY InitMessages
<1>4. Serial
  BY <1>1, <1>2 DEF Serial, InProgress
<1>5. OneEach
  BY <1>3, ChatAssumption DEF OneEach, Once
<1> QED BY <1>4, <1>5

\* A message a client sends once more is stored once and nobody's vote counts
\* twice, whatever overlaps or is cut off.
THEOREM ChatNothingTwice == Spec => []NothingTwice
<1> DEFINE I == Inv1 /\ OneEach
<1>1. Init => I
  BY InitTyped, InitSerial
<1>2. I /\ [Next]_vars => I'
  BY StepTyped, StepGrows, StepOneEach
<1>3. I => NothingTwice
  BY TwiceNever
<1> QED BY <1>1, <1>2, <1>3, PTL DEF Spec

-----------------------------------------------------------------------------
(* What a step does to the documents of members *)

LEMMA DocsStay ==
  ASSUME UNCHANGED member
  PROVE  DocSteps
BY DEF DocSteps, DocStep

\* One document, or those of one room.
LEMMA PutDoc ==
  ASSUME Inv1, NEW r \in Rooms, NEW u \in Users, NEW d, member' = [member EXCEPT ![r][u] = d]
  PROVE  /\ member'[r][u] = d
         /\ \A q \in Rooms, v \in Users : q # r \/ v # u => member'[q][v] = member[q][v]
BY DEF Inv1, Typed

LEMMA PutDocs ==
  ASSUME Inv1, NEW r \in Rooms, NEW f, member' = [member EXCEPT ![r] = f]
  PROVE  /\ \A v \in Users : member'[r][v] = f[v]
         /\ \A q \in Rooms \ {r} : member'[q] = member[q]
BY DEF Inv1, Typed

LEMMA PutDocSteps ==
  ASSUME Inv1, NEW r \in Rooms, NEW u \in Users, NEW d, DocStep(member[r][u], d),
         member' = [member EXCEPT ![r][u] = d]
  PROVE  DocSteps
<1>1. \A q \in Rooms, v \in Users : DocStep(member[q][v], member[q][v])
  BY DEF DocStep
<1> QED BY <1>1, PutDoc DEF DocSteps

LEMMA PutDocsSteps ==
  ASSUME Inv1, NEW r \in Rooms, NEW f, \A v \in Users : DocStep(member[r][v], f[v]),
         member' = [member EXCEPT ![r] = f]
  PROVE  DocSteps
<1>1. \A q \in Rooms, v \in Users : DocStep(member[q][v], member[q][v])
  BY DEF DocStep
<1> QED BY <1>1, PutDocs DEF DocSteps

\* All members of a room see it again.
LEMMA ShownDocs ==
  ASSUME Inv1, NEW r \in Rooms, member' = UnDeleted(r)
  PROVE  /\ DocSteps
         /\ \A u \in Users : IsMember(r, u) => ~member'[r][u].isD
         /\ \A q \in Rooms, u \in Users :
              LET m == member[q][u]
                  n == member'[q][u]
              IN n.rT = m.rT /\ n.lSM = m.lSM /\ n.t = m.t /\ n.img = m.img
<1> DEFINE f == [u \in Users |-> IF IsMember(r, u) THEN [member[r][u] EXCEPT !.isD = FALSE]
                                 ELSE member[r][u]]
<1>1. member' = [member EXCEPT ![r] = f]
  BY DEF UnDeleted, UpdateMembers, Inv1, Typed
<1>2. ASSUME NEW u \in Users
      PROVE  /\ f[u].rT = member[r][u].rT /\ f[u].lSM = member[r][u].lSM
             /\ f[u].t = member[r][u].t /\ f[u].img = member[r][u].img
             /\ f[u].isD => member[r][u].isD
             /\ IsMember(r, u) => ~f[u].isD
  <2> DEFINE d == member[r][u]
             e == [d EXCEPT !.isD = FALSE]
  <2>1. f[u] = IF IsMember(r, u) THEN e ELSE d
    OBVIOUS
  <2>2. d \in MemberDocs
    BY MemberDoc
  <2> HIDE DEF d, f
  <2>3. e.rT = d.rT /\ e.lSM = d.lSM /\ e.t = d.t /\ e.img = d.img /\ ~e.isD
    BY <2>2 DEF MemberDocs
  <2> HIDE DEF e
  <2> QED BY <2>1, <2>3 DEF d
<1> HIDE DEF f
<1>3. /\ \A v \in Users : member'[r][v] = f[v]
      /\ \A q \in Rooms \ {r} : member'[q] = member[q]
  BY <1>1, PutDocs
<1>4. DocSteps
  BY <1>2, <1>3 DEF DocSteps, DocStep
<1> QED BY <1>2, <1>3, <1>4

\* Title or image of all members of a room.
LEMMA RenamedDocs ==
  ASSUME Inv1, NEW r \in Rooms, NEW h, member' = RenamedRoom(r, h)
  PROVE  /\ DocSteps
         /\ \A q \in Rooms, u \in Users : member'[q][u].rT = member[q][u].rT
         /\ \A u \in Users : IsMember(r, u) =>
              /\ member'[r][u].t = (IF h.next = "t" THEN h.lId ELSE member[r][u].t)
              /\ member'[r][u].img = (IF h.next = "t" THEN member[r][u].img ELSE h.lId)
         /\ \A q \in Rooms \ {r} : member'[q] = member[q]
<1> DEFINE f == [u \in Users |-> IF IsMember(r, u) THEN Renamed(member[r][u], h)
                                 ELSE member[r][u]]
<1>1. member' = [member EXCEPT ![r] = f]
  BY DEF RenamedRoom
<1>2. ASSUME NEW u \in Users
      PROVE  /\ f[u].rT = member[r][u].rT /\ f[u].lSM = member[r][u].lSM
             /\ f[u].isD = member[r][u].isD
             /\ IsMember(r, u) =>
                  /\ f[u].t = (IF h.next = "t" THEN h.lId ELSE member[r][u].t)
                  /\ f[u].img = (IF h.next = "t" THEN member[r][u].img ELSE h.lId)
  <2> DEFINE d == member[r][u]
             e == Renamed(d, h)
  <2>1. f[u] = IF IsMember(r, u) THEN e ELSE d
    OBVIOUS
  <2>2. d \in MemberDocs
    BY MemberDoc
  <2> HIDE DEF d, f
  <2>3. /\ e.rT = d.rT /\ e.lSM = d.lSM /\ e.isD = d.isD
        /\ e.t = (IF h.next = "t" THEN h.lId ELSE d.t)
        /\ e.img = (IF h.next = "t" THEN d.img ELSE h.lId)
    BY <2>2 DEF MemberDocs, Renamed
  <2> HIDE DEF e
  <2> QED BY <2>1, <2>3 DEF d
<1> HIDE DEF f
<1>3. /\ \A v \in Users : member'[r][v] = f[v]
      /\ \A q \in Rooms \ {r} : member'[q] = member[q]
  BY <1>1, PutDocs
<1>4. DocSteps
  BY <1>2, <1>3 DEF DocSteps, DocStep
<1> QED BY <1>2, <1>3, <1>4

LEMMA NewDocs ==
  ASSUME Inv1
  PROVE  /\ ~NoMember.isD /\ NoMember.rT = "none"
         /\ \A rT \in RoomTypes : ~Member(rT).isD /\ Member(rT).rT = rT
                                  /\ Member(rT).t = "old" /\ Member(rT).img = "old"
<1>1. Len(message) \in Nat
  BY MessageDoc
<1> QED BY <1>1, Members0, MemberType

\* Fields of a document that nobody asks for here.
LEMMA OtherFields ==
  ASSUME NEW d \in MemberDocs
  PROVE  /\ \A b : DocStep(d, [d EXCEPT !.isOneSeen = b])
         /\ \A b : DocStep(d, [d EXCEPT !.flags = b])
         /\ \A b : DocStep(d, [d EXCEPT !.timer = b])
BY DEF MemberDocs, DocStep

LEMMA ContinueDocs ==
  ASSUME Inv1, NEW s \in Slots, Continue(s),
         ~CreateMembers(s), ~EnterRead(s), ~DeletedRoom(s)
  PROVE  DocSteps
<1> DEFINE h == req[s]
           r == h.room
<1>1. h \in Handlers /\ HandlerOK(h, message)
  BY HandlerOf
<1>2. DocStep(NoMember, NoMember) /\ DocStep(Member("g"), Member("g"))
      /\ \A m : DocStep(m, NoMember) /\ DocStep(m, Member("g")) /\ DocStep(m, Member("b"))
  BY NewDocs DEF DocStep, RoomTypes
<1>3. CASE UNCHANGED member
  BY <1>3, DocsStay
<1>4. CASE OpenShow(s) \/ SendUndelete(s)
  <2>1. r \in Rooms /\ member' = UnDeleted(r)
    BY <1>1, <1>4 DEF OpenShow, SendUndelete, At, HandlerOK, RoomPcs, SendPcs
  <2> QED BY <2>1, ShownDocs
<1>5. CASE CreateGroupMembers(s)
  <2>1. r \in Rooms
    BY <1>1, <1>5 DEF CreateGroupMembers, At, HandlerOK, RoomPcs, GroupPcs
  <2> DEFINE f == [v \in Users |-> IF v \in h.list THEN Member("g") ELSE member[r][v]]
  <2>2. member' = [member EXCEPT ![r] = f]
    BY <1>5, <2>1 DEF CreateGroupMembers, Inv1, Typed
  <2>3. \A v \in Users : DocStep(member[r][v], f[v])
    BY <1>2 DEF DocStep
  <2> HIDE DEF f, r
  <2> QED BY <2>1, <2>2, <2>3, PutDocsSteps
<1>6. CASE AddMember(s)
  <2> DEFINE b == Member("g")
             x == h.seen
             d == [b EXCEPT !.t = x.t, !.img = x.img]
  <2>1. r \in Rooms /\ h.peer \in Users
    BY <1>1, <1>6 DEF AddMember, At, HandlerOK, RoomPcs, PeerPcs, AddPcs
  <2>2. UNCHANGED member \/ member' = [member EXCEPT ![r][h.peer] = d]
    BY <1>6 DEF AddMember, SetMember
  <2>3. b.rT = "g" /\ ~b.isD /\ b \in MemberDocs
    <3>1. Len(message) \in Nat
      BY MessageDoc
    <3> QED BY <3>1, NewDocs, MemberType DEF RoomTypes
  <2> HIDE DEF b, x
  <2>4. d.rT = "g" /\ ~d.isD
    BY <2>3 DEF MemberDocs
  <2>5. \A m : DocStep(m, d)
    BY <2>4 DEF DocStep
  <2> HIDE DEF d, r, h
  <2> QED BY <2>1, <2>2, <2>5, PutDocSteps, DocsStay
<1>7. CASE KickMember(s)
  <2>1. r \in Rooms /\ h.peer \in Users /\ member' = [member EXCEPT ![r][h.peer] = NoMember]
    BY <1>1, <1>7 DEF KickMember, SetMember, At, HandlerOK, PeerPcs, RoomPcs, KickPcs
  <2> HIDE DEF r, h
  <2> QED BY <1>2, <2>1, PutDocSteps
<1>8. CASE LeaveMember(s)
  <2>1. r \in Rooms /\ h.user \in Users /\ member' = [member EXCEPT ![r][h.user] = NoMember]
    BY <1>1, <1>8 DEF LeaveMember, SetMember, At, HandlerOK, RoomPcs, LeavePcs
  <2> HIDE DEF r, h
  <2> QED BY <1>2, <2>1, PutDocSteps
<1>9. CASE AwaitAnnounce(s)
  <2>1. r \in Rooms /\ (member' = UnDeleted(r) \/ UNCHANGED member)
    BY <1>1, <1>9 DEF AwaitAnnounce, Announce, At, HandlerOK, RoomPcs
  <2> QED BY <2>1, ShownDocs, DocsStay
<1>10. CASE DeleteMembers(s)
  <2> DEFINE f == [u \in Users |-> NoMember]
  <2>1. r \in Rooms /\ member' = [member EXCEPT ![r] = f]
    BY <1>1, <1>10 DEF DeleteMembers, At, HandlerOK, RoomPcs, DeletePcs
  <2>2. \A v \in Users : DocStep(member[r][v], f[v])
    BY <1>2
  <2> HIDE DEF f, r
  <2> QED BY <2>1, <2>2, PutDocsSteps
<1>11. CASE RenameMembers(s)
  <2>1. r \in Rooms
    BY <1>1, <1>11 DEF RenameMembers, At, HandlerOK, RoomPcs, RenamePcs
  <2>2. member' = RenamedRoom(r, h)
    BY <1>11, <2>1 DEF RenameMembers, UpdateMembers, RenamedRoom, Inv1, Typed
  <2> HIDE DEF h, r
  <2> QED BY <2>1, <2>2, RenamedDocs
<1>12. CASE BroadcastMember(s)
  <2>1. r \in Rooms /\ h.user \in Users /\ member' = [member EXCEPT ![r][h.user] = Member("b")]
    BY <1>1, <1>12 DEF BroadcastMember, SetMember, At, HandlerOK, RoomPcs, BroadcastPcs
  <2> HIDE DEF r, h
  <2> QED BY <1>2, <2>1, PutDocSteps
<1> QED BY <1>3, <1>4, <1>5, <1>6, <1>7, <1>8, <1>9, <1>10, <1>11, <1>12, RoomsFrame, GroupsFrame,
           MessagesFrame DEF Continue

\* The requests: all but the deletion of a room.
LEMMA RequestDocSteps ==
  ASSUME Inv1, NEW u \in Users, NEW r \in Rooms, MemberRequest(u, r),
         \A s \in Slots : ~DeleteRoom(s, u, r)
  PROVE  DocSteps
<1> DEFINE d == member[r][u]
<1>1. d \in MemberDocs
  BY MemberDoc
<1>2. CASE \E s \in Slots : RoomOneSeenOn(s, u, r) \/ RoomOneSeenOff(s, u, r)
  <2>1. \E on \in BOOLEAN : member' = [member EXCEPT ![r][u] = [d EXCEPT !.isOneSeen = on]]
    BY <1>2 DEF RoomOneSeenOn, RoomOneSeenOff, SetOneSeen, Inv1, Typed
  <2>2. \A on \in BOOLEAN : DocStep(d, [d EXCEPT !.isOneSeen = on])
    BY <1>1, OtherFields
  <2> QED BY <2>1, <2>2, PutDocSteps
<1>3. CASE \E s \in Slots : UpdateTimer(s, u, r)
  <2>1. PICK on \in BOOLEAN :
          LET Timed(m) == [m EXCEPT !.timer = on] IN member' = UpdateMembers(r, Timed)
    BY <1>3 DEF UpdateTimer
  <2> DEFINE f == [v \in Users |-> IF IsMember(r, v) THEN [member[r][v] EXCEPT !.timer = on]
                                   ELSE member[r][v]]
  <2>2. member' = [member EXCEPT ![r] = f]
    BY <2>1 DEF UpdateMembers, Inv1, Typed
  <2>3. ASSUME NEW v \in Users
        PROVE  DocStep(member[r][v], f[v])
    <3>1. member[r][v] \in MemberDocs
      BY MemberDoc
    <3>2. DocStep(member[r][v], [member[r][v] EXCEPT !.timer = on])
      BY <3>1, OtherFields
    <3> QED BY <3>2 DEF DocStep
  <2> HIDE DEF f
  <2> QED BY <2>2, <2>3, PutDocsSteps
<1>4. CASE \E flag \in Flags, on \in BOOLEAN : SetFlag(u, r, flag, on)
  <2>1. \E f : member' = [member EXCEPT ![r][u] = [d EXCEPT !.flags = f]]
    BY <1>4 DEF SetFlag, Inv1, Typed
  <2>2. \A f : DocStep(d, [d EXCEPT !.flags = f])
    BY <1>1, OtherFields
  <2> QED BY <2>1, <2>2, PutDocSteps
<1>5. CASE RenameBroadcast(u, r)
  <2>1. \E h : member' = RenamedRoom(r, h)
    BY <1>5 DEF RenameBroadcast, UpdateMembers, RenamedRoom, Inv1, Typed
  <2> QED BY <2>1, RenamedDocs
<1> QED BY <1>2, <1>3, <1>4, <1>5 DEF MemberRequest

-----------------------------------------------------------------------------
(* What a step writes: statuses, and messages that are sent *)

LEMMA NoneWritten ==
  ASSUME Inv1, Len(message') = Len(message),
         \A i \in 1..Len(message), u \in Users :
           message'[i].status[u] = "seenOnly" => message[i].status[u] = "seenOnly"
  PROVE  Written
<1>1. Len(message) \in Nat
  BY MessageDoc
<1>2. Added = {}
  BY <1>1 DEF Added
<1> QED BY <1>2 DEF Written

LEMMA OneWritten ==
  ASSUME Inv1, Len(message') = Len(message) + 1,
         \A i \in 1..Len(message) : message'[i] = message[i],
         \A u \in Users : message'[Len(message) + 1].status[u] # "seenOnly",
         "created" \in message'[Len(message) + 1].tags => ShownTo(message'[Len(message) + 1].rId)
  PROVE  Written
<1>1. Len(message) \in Nat
  BY MessageDoc
<1>2. Added = {Len(message) + 1}
  BY <1>1 DEF Added
<1> QED BY <1>2 DEF Written

LEMMA InfoWritten ==
  ASSUME Inv1, NEW r \in Rooms, NEW u \in Users, message' = Append(message, Info(r, u))
  PROVE  Written
<1> DEFINE m == Info(r, u)
<1>1. /\ m \in MessageDocs /\ m.lId = NoId /\ m.votes = {} /\ m.tags = {"info"}
      /\ m.status = [v \in Users |-> "none"]
  BY InfoType
<1> HIDE DEF m
<1>2. /\ Len(message') = Len(message) + 1 /\ message'[Len(message) + 1] = m
      /\ \A i \in 1..Len(message) : message'[i] = message[i]
  BY <1>1, OneMore DEF m
<1> QED BY <1>1, <1>2, OneWritten

LEMMA AnnounceWritten ==
  ASSUME Inv1, NEW r \in Rooms, NEW u \in Users, Announce(r, u)
  PROVE  Written
<1> DEFINE x == Info(r, u)
           m == ForGroup(x)
<1>1. /\ m \in MessageDocs /\ m.lId = NoId /\ m.votes = {} /\ m.rId = r
      /\ \A v \in Users : m.status[v] # "seenOnly"
  <2>1. x \in MessageDocs /\ x.lId = NoId /\ x.votes = {} /\ x.rId = r
    BY InfoType
  <2> HIDE DEF x
  <2> QED BY ZenonT(60), <2>1, ForGroupType
<1> HIDE DEF m
<1>2. CASE UNCHANGED message
  BY <1>2, NoneWritten
<1>3. CASE message' = Append(message, m) /\ member' = UnDeleted(r)
  <2>1. /\ Len(message') = Len(message) + 1 /\ message'[Len(message) + 1] = m
        /\ \A i \in 1..Len(message) : message'[i] = message[i]
    BY <1>1, <1>3, OneMore
  <2>2. ShownTo(r)
    BY <1>3, ShownDocs DEF ShownTo, IsMember
  <2> QED BY <1>1, <2>1, <2>2, OneWritten
<1> QED BY <1>2, <1>3 DEF Announce, m

LEMMA DeliverWritten ==
  ASSUME Inv1, NEW r, NEW u \in Users, message' = Deliver(r, u) \/ message' = DeliverGroup(r, u)
  PROVE  Written
<1>1. /\ Len(message') = Len(message)
      /\ \A i \in 1..Len(message) :
           \/ message'[i].status = message[i].status
           \/ message'[i].status = [message[i].status EXCEPT ![u] = ToDelivered(message[i].status[u])]
  BY DeliverGrows, DeliverGroupGrows
<1>2. ASSUME NEW i \in 1..Len(message), NEW v \in Users, message'[i].status[v] = "seenOnly"
      PROVE  message[i].status[v] = "seenOnly"
  <2>1. message[i].status \in [Users -> Statuses]
    BY MessageDoc DEF MessageDocs
  <2>2. ToDelivered(message[i].status[u]) # "seenOnly"
    BY DEF ToDelivered
  <2> QED BY <1>1, <1>2, <2>1, <2>2
<1> QED BY <1>1, <1>2, NoneWritten

LEMMA ContinueWrites ==
  ASSUME Inv1, NEW s \in Slots, Continue(s), ~EnterSeen(s)
  PROVE  Written
<1> USE DEF At
<1>1. CASE UNCHANGED message
  BY <1>1, NoneWritten
<1>2. CASE HideRoom(s)
  <2>1. req[s].user \in Users /\ message' = HideAll(req[s].room, req[s].user)
    BY <1>2, WriterUser DEF HideRoom, WriterPcs
  <2> QED BY <2>1, HideAllGrows, NoneWritten
<1>3. CASE RoomInfo(s) \/ GroupHello(s) \/ BroadcastOwn(s)
  <2>1. /\ req[s].user \in Users /\ req[s].room \in Rooms
        /\ message' = Append(message, Info(req[s].room, req[s].user))
    BY <1>3, WriterUser DEF RoomInfo, GroupHello, BroadcastOwn, WriterPcs
  <2> QED BY <2>1, InfoWritten
<1>4. CASE BroadcastNote(s)
  <2>1. /\ req[s].user \in Users /\ message' = Append(message, Info(req[s].at, req[s].user))
        /\ req[s].pc = "broadcast_note"
    BY <1>4, WriterUser DEF BroadcastNote, WriterPcs
  <2>2. req[s].at \in Rooms
    BY <2>1, HandlerOf DEF HandlerOK, AtPcs
  <2> QED BY <2>1, <2>2, InfoWritten
<1>5. CASE AwaitAnnounce(s)
  <2>1. req[s].user \in Users /\ req[s].room \in Rooms /\ Announce(req[s].room, req[s].user)
    BY <1>5, WriterUser DEF AwaitAnnounce, WriterPcs
  <2> QED BY <2>1, AnnounceWritten
<1>6. CASE DeleteMessages(s)
  <2>1. "gone" \in Tags \ {"created"}
    BY DEF Tags
  <2>2. message' = Tagged(InRoom(req[s].room), "gone")
    BY <1>6 DEF DeleteMessages
  <2> QED BY <2>1, <2>2, TaggedGrows, NoneWritten
<1>7. CASE ConnectDeliver(s) \/ EnterDeliver(s)
  <2>1. req[s].user \in Users
    BY <1>7, WriterUser DEF ConnectDeliver, EnterDeliver, WriterPcs
  <2>2. \/ UNCHANGED message
        \/ \E r : message' = Deliver(r, req[s].user) \/ message' = DeliverGroup(r, req[s].user)
    BY <1>7 DEF ConnectDeliver, EnterDeliver
  <2> QED BY <1>1, <2>1, <2>2, DeliverWritten
<1>8. CASE SendStatuses(s)
  <2> DEFINE i == req[s].msg
             m == message[i]
  <2>1. /\ Len(message') = Len(message) /\ i \in 1..Len(message) /\ message'[i] = ForGroup(m)
        /\ \A j \in 1..Len(message) \ {i} : message'[j] = message[j]
    BY <1>8, SendStatusesGrows
  <2>2. m \in MessageDocs
    BY <2>1, MessageDoc
  <2> HIDE DEF m
  <2>3. \A v \in Users : ForGroup(m).status[v] # "seenOnly"
    BY <2>2, ForGroupType
  <2> HIDE DEF i
  <2>4. \A j \in 1..Len(message), v \in Users :
          message'[j].status[v] = "seenOnly" => message[j].status[v] = "seenOnly"
    BY <2>1, <2>3
  <2> QED BY <2>1, <2>4, NoneWritten
<1>9. CASE ReactSave(s)
  BY <1>9, ReactSaveGrows, NoneWritten
<1>10. CASE SendCreate(s)
  <2>1. CASE Taken(req[s].lId)
    BY <1>1, <1>10, <2>1 DEF SendCreate
  <2>2. CASE ~Taken(req[s].lId)
    <3> DEFINE h == req[s]
               m == Message(h.room, h.user, h.lId, h.list)
    <3>1. /\ Len(message') = Len(message) + 1 /\ message'[Len(message) + 1] = m
          /\ \A i \in 1..Len(message) : message'[i] = message[i]
      BY <1>10, <2>2, SendCreateGrows
    <3>2. m.rId = h.room /\ m.status = [v \in Users |-> "none"]
      BY DEF Message
    <3>3. ShownTo(h.room)
      BY <1>10 DEF SendCreate, ShownTo, rooms
    <3> HIDE DEF m
    <3> QED BY <3>1, <3>2, <3>3, OneWritten
  <2> QED BY <2>1, <2>2
<1>11. CASE SendCopies(s)
  <2>1. /\ \A i \in 1..Len(message) : message'[i] = message[i]
        /\ \A i \in Added : /\ message'[i].status = [v \in Users |-> "none"]
                            /\ "created" \in message'[i].tags => message'[i].rId = req[s].room
    BY <1>11, SendCopiesGrows
  <2>2. ShownTo(req[s].room)
    BY <1>11 DEF SendCopies, ShownTo, rooms
  <2> QED BY <2>1, <2>2 DEF Written
<1>12. \/ UNCHANGED message
       \/ HideRoom(s) \/ RoomInfo(s) \/ GroupHello(s) \/ BroadcastOwn(s) \/ BroadcastNote(s)
       \/ AwaitAnnounce(s) \/ DeleteMessages(s) \/ ConnectDeliver(s) \/ EnterDeliver(s)
       \/ SendStatuses(s) \/ ReactSave(s) \/ SendCreate(s) \/ SendCopies(s)
  <2>1. CASE RoomsContinue(s)
    BY <2>1 DEF RoomsContinue, CreateSetting, CreateMembers, JoinMembers, OrderSetting, OpenShow,
       OpenJoin, BanCreate, BanDelete, BanSockets, RequestCreate, ConnectRead, ConnectJoin
  <2>2. CASE GroupsContinue(s)
    <3>1. CASE \/ CreateGroupMembers(s) \/ CreateGroupRoles(s) \/ CreateGroupSetting(s)
               \/ JoinGroup(s) \/ AddRole(s) \/ AddMember(s) \/ AddJoin(s)
               \/ KickRole(s) \/ KickMember(s) \/ KickLeave(s) \/ RoleSet(s)
               \/ LeaveSocket(s) \/ LeaveSuccessor(s) \/ LeaveRole(s) \/ LeaveMember(s)
      BY <3>1 DEF CreateGroupMembers, CreateGroupRoles, CreateGroupSetting, JoinGroup, AddRole,
         AddMember, AddJoin, KickRole, KickMember, KickLeave, RoleSet, LeaveSocket,
         LeaveSuccessor, LeaveRole, LeaveMember, UnchangedRooms
    <3>2. CASE \/ DeleteSockets(s) \/ DeleteMembers(s) \/ DeleteRoles(s) \/ DeleteSetting(s)
               \/ SettingsSave(s) \/ RenameMembers(s) \/ RenameSetting(s)
               \/ BroadcastMember(s) \/ BroadcastJoin(s) \/ BroadcastNext(s)
               \/ BroadcastCopies(s) \/ BroadcastSetting(s)
      BY <3>2 DEF DeleteSockets, DeleteMembers, DeleteRoles, DeleteSetting, SettingsSave,
         RenameMembers, RenameSetting, BroadcastMember, BroadcastJoin, BroadcastNext,
         BroadcastCopies, BroadcastSetting, UnchangedRooms
    <3> QED BY <2>2, <3>1, <3>2 DEF GroupsContinue
  <2>3. CASE MessagesContinue(s)
    BY <2>3 DEF MessagesContinue, SendUndelete, SendCheck, DeletedLook, DeletedRoom, EnterRead,
       UnchangedRooms
  <2> QED BY <2>1, <2>2, <2>3 DEF Continue
<1> QED BY <1>1, <1>2, <1>3, <1>4, <1>5, <1>6, <1>7, <1>8, <1>9, <1>10, <1>11, <1>12
-----------------------------------------------------------------------------
(* Where each step is made *)

LEMMA ContinueAt ==
  ASSUME NEW s, Continue(s)
  PROVE  RoomsAt(s) \/ GroupsAt(s) \/ MessagesAt(s)
<1>1. ASSUME RoomsContinue(s)
      PROVE  RoomsAt(s)
  <2>1. /\ CreateSetting(s) => req[s].pc = "room_setting"
        /\ CreateMembers(s) => req[s].pc = "room_members"
        /\ JoinMembers(s) => req[s].pc = "room_join"
        /\ OrderSetting(s) => req[s].pc = "order_setting"
        /\ HideRoom(s) => req[s].pc = "room_hide"
        /\ OpenShow(s) => req[s].pc = "open_show"
        /\ OpenJoin(s) => req[s].pc = "open_join"
        /\ RoomInfo(s) => req[s].pc = "room_info"
    BY Zenon DEF At, CreateSetting, CreateMembers, JoinMembers, OrderSetting, HideRoom,
       OpenShow, OpenJoin, RoomInfo
  <2>2. /\ BanCreate(s) => req[s].pc = "ban_create"
        /\ BanDelete(s) => req[s].pc = "ban_delete"
        /\ BanSockets(s) => req[s].pc = "ban_sockets"
        /\ RequestCreate(s) => req[s].pc = "request_create"
        /\ ConnectRead(s) => req[s].pc = "connect_read"
        /\ ConnectJoin(s) => req[s].pc = "connect_join"
        /\ ConnectDeliver(s) => req[s].pc = "connect_deliver"
    BY Zenon DEF At, BanCreate, BanDelete, BanSockets, RequestCreate, ConnectRead, ConnectJoin,
       ConnectDeliver
  <2> QED BY <1>1, <2>1, <2>2 DEF RoomsContinue, RoomsAt
<1>2. ASSUME GroupsContinue(s)
      PROVE  GroupsAt(s)
  <2>1. /\ CreateGroupMembers(s) => req[s].pc = "group_members"
        /\ CreateGroupRoles(s) => req[s].pc = "group_roles"
        /\ CreateGroupSetting(s) => req[s].pc = "group_setting"
        /\ JoinGroup(s) => req[s].pc = "group_join"
        /\ GroupHello(s) => req[s].pc = "group_hello"
        /\ AddRole(s) => req[s].pc = "add_role"
        /\ AddMember(s) => req[s].pc = "add_member"
        /\ AddJoin(s) => req[s].pc = "add_join"
    BY Zenon DEF At, CreateGroupMembers, CreateGroupRoles, CreateGroupSetting, JoinGroup,
       GroupHello, AddRole, AddMember, AddJoin
  <2>2. /\ KickRole(s) => req[s].pc = "kick_role"
        /\ KickMember(s) => req[s].pc = "kick_member"
        /\ KickLeave(s) => req[s].pc = "kick_leave"
        /\ AwaitAnnounce(s) => req[s].pc = "announce"
        /\ RoleSet(s) => req[s].pc = "role_set"
        /\ LeaveSocket(s) => req[s].pc = "leave_socket"
        /\ LeaveSuccessor(s) => req[s].pc = "leave_successor"
        /\ LeaveRole(s) => req[s].pc = "leave_role"
    BY Zenon DEF At, KickRole, KickMember, KickLeave, AwaitAnnounce, RoleSet, LeaveSocket,
       LeaveSuccessor, LeaveRole
  <2>3. /\ LeaveMember(s) => req[s].pc = "leave_member"
        /\ DeleteSockets(s) => req[s].pc = "delete_sockets"
        /\ DeleteMembers(s) => req[s].pc = "delete_members"
        /\ DeleteRoles(s) => req[s].pc = "delete_roles"
        /\ DeleteSetting(s) => req[s].pc = "delete_setting"
        /\ DeleteMessages(s) => req[s].pc = "delete_messages"
        /\ SettingsSave(s) => req[s].pc = "settings_save"
        /\ RenameMembers(s) => req[s].pc = "rename_members"
    BY Zenon DEF At, LeaveMember, DeleteSockets, DeleteMembers, DeleteRoles, DeleteSetting,
       DeleteMessages, SettingsSave, RenameMembers
  <2>4. /\ RenameSetting(s) => req[s].pc = "rename_setting"
        /\ BroadcastMember(s) => req[s].pc = "broadcast_member"
        /\ BroadcastJoin(s) => req[s].pc = "broadcast_join"
        /\ BroadcastNext(s) => req[s].pc = "broadcast_next"
        /\ BroadcastNote(s) => req[s].pc = "broadcast_note"
        /\ BroadcastOwn(s) => req[s].pc = "broadcast_own"
        /\ BroadcastCopies(s) => req[s].pc = "broadcast_copies"
        /\ BroadcastSetting(s) => req[s].pc = "broadcast_setting"
    BY Zenon DEF At, RenameSetting, BroadcastMember, BroadcastJoin, BroadcastNext,
       BroadcastNote, BroadcastOwn, BroadcastCopies, BroadcastSetting
  <2> QED BY <1>2, <2>1, <2>2, <2>3, <2>4 DEF GroupsContinue, GroupsAt
<1>3. ASSUME MessagesContinue(s)
      PROVE  MessagesAt(s)
  <2>1. /\ SendUndelete(s) => req[s].pc = "send_undelete"
        /\ SendCheck(s) => req[s].pc = "send_check"
        /\ SendCreate(s) => req[s].pc = "send_create"
        /\ SendStatuses(s) => req[s].pc = "send_statuses"
        /\ SendCopies(s) => req[s].pc = "send_copies"
        /\ DeletedLook(s) => req[s].pc = "deleted_look"
    BY Zenon DEF At, SendUndelete, SendCheck, SendCreate, SendStatuses, SendCopies, DeletedLook
  <2>2. /\ DeletedRoom(s) => req[s].pc = "deleted_room"
        /\ ReactSave(s) => req[s].pc = "react_save"
        /\ EnterRead(s) => req[s].pc = "enter_read"
        /\ EnterDeliver(s) => req[s].pc = "enter_deliver"
        /\ EnterSeen(s) => req[s].pc = "enter_seen"
    BY Zenon DEF At, DeletedRoom, ReactSave, EnterRead, EnterDeliver, EnterSeen
  <2> QED BY <1>3, <2>1, <2>2 DEF MessagesContinue, MessagesAt
<1> QED BY <1>1, <1>2, <1>3 DEF Continue

-----------------------------------------------------------------------------
(* ReadIsSeen and ShownAgain: what a handler has still to do *)

\* From where a handler comes to these places.
LEMMA MovesSight ==
  ASSUME Inv1, NEW s \in Slots, Moves(s), req'[s].pc \in SightPcs
  PROVE  /\ req[s].pc \in {"room_setting", "order_setting", "send_undelete", "send_check",
                           "deleted_look", "enter_read", "enter_deliver"}
         /\ Becomes(s, req'[s]) /\ Kept(req[s], req'[s]) /\ Flow(req[s], req'[s].pc)
<1> DEFINE h == req[s]
<1>1. HandlerOK(h, message)
  BY HandlerOf
<1>2. ~Becomes(s, Idle)
  BY IdleType DEF Becomes, SightPcs
<1>3. PICK next : /\ Becomes(s, req'[s]) /\ Kept(h, req'[s])
                  /\ req'[s].pc = next /\ Flow(h, next)
  BY <1>2 DEF Moves
<1>4. next \in SightPcs
  BY <1>3
<1> HIDE DEF h
<1>5. h.pc \in {"room_setting", "order_setting", "send_undelete", "send_check",
                "deleted_look", "enter_read", "enter_deliver"}
  BY <1>1, <1>3, <1>4 DEF Flow, RoomsFlow, GroupFlow, LeaveFlow, BroadcastFlow, MessageFlow,
     HandlerOK, Broadcasting, NewPcs, BroadcastPcs, SightPcs
<1> QED BY <1>3, <1>5 DEF h

LEMMA ContinueSight ==
  ASSUME Inv1, NEW s \in Slots, Continue(s), req'[s].pc \in SightPcs
  PROVE  \/ CreateSetting(s) \/ OrderSetting(s) \/ BroadcastNext(s) \/ SendUndelete(s)
         \/ SendCheck(s) \/ DeletedLook(s) \/ EnterRead(s) \/ EnterDeliver(s)
<1>1. Grows
  BY RoomsGrow, GroupsGrow, MessagesGrow DEF Continue
<1> DEFINE From == {"room_setting", "order_setting", "send_undelete", "send_check",
                    "deleted_look", "enter_read", "enter_deliver"}
<1>2. Moves(s) => req[s].pc \in From
  BY MovesSight
<1>3. ~Becomes(s, Idle)
  BY IdleType DEF Becomes, SightPcs
<1>4. ASSUME RoomsContinue(s)
      PROVE  req[s].pc \in From
  <2>1. ~BanDelete(s) /\ ~ConnectRead(s) /\ ~ConnectDeliver(s)
    BY <1>1, <1>3, BanDeleteMoves, ConnectReadMoves, ConnectDeliverMoves DEF SightPcs
  <2> QED BY <1>1, <1>2, <1>4, <2>1, RoomsMove DEF RoomsContinue
<1>5. ASSUME GroupsContinue(s), ~BroadcastNext(s)
      PROVE  req[s].pc \in From
  <2>1. ~LeaveSuccessor(s) /\ ~BroadcastNote(s)
    BY <1>1, <1>3, LeaveSuccessorMoves, BroadcastNoteMoves DEF SightPcs
  <2> QED BY <1>1, <1>2, <1>5, <2>1, GroupsMove, LeavesMove, BroadcastsMove DEF GroupsContinue
<1>6. ASSUME MessagesContinue(s), ~SendCheck(s)
      PROVE  req[s].pc \in From
  <2>1. ~SendCreate(s)
    BY <1>1, <1>3, SendCreateMoves DEF SightPcs
  <2> QED BY <1>1, <1>2, <1>6, <2>1, MessagesMove DEF MessagesContinue
<1>7. BroadcastNext(s) \/ SendCheck(s) \/ req[s].pc \in From
  BY <1>4, <1>5, <1>6 DEF Continue
<1> QED BY <1>7, ContinueAt DEF RoomsAt, GroupsAt, MessagesAt

\* A message that was there is as before.
LEMMA OldInSight ==
  ASSUME Inv1, Grows, InSight3, NEW i \in 1..Len(message), NEW u \in Users,
         ReadKept(i, u), HideKept(i, u),
         message'[i].status[u] = "seenOnly" => message[i].status[u] = "seenOnly"
  PROVE  LET m == message'[i]
             d == member'[m.rId][u]
         IN /\ Alive(i)' /\ m.sId # u /\ d.rT \in {"s", "o"} /\ i <= d.lSM
                 => "sAt" \in m.tags \/ Seeing(req', m.rId, u)
            /\ m.status[u] # "seenOnly"
            /\ Alive(i)' /\ "created" \in m.tags /\ u \notin m.dF /\ d.rT # "none" /\ d.isD
                 => Hiding(req', m.rId, u)
<1> DEFINE m == message[i]
           n == message'[i]
           r == m.rId
           d == member[r][u]
           e == member'[r][u]
           S == Seeing(req, r, u)
           S1 == Seeing(req', r, u)
           H == Hiding(req, r, u)
           H1 == Hiding(req', r, u)
<1>1. /\ n.rId = r /\ n.sId = m.sId /\ (Alive(i)' => Alive(i))
      /\ "sAt" \in m.tags => "sAt" \in n.tags
      /\ "created" \in n.tags => "created" \in m.tags
      /\ u \notin n.dF => u \notin m.dF
  BY DEF Grows, Version, Alive
<1>2. Alive(i) /\ m.sId # u /\ d.rT \in {"s", "o"} /\ i <= d.lSM => "sAt" \in m.tags \/ S
  BY DEF InSight3, SeenWhenRead
<1>3. Alive(i) /\ "created" \in m.tags /\ u \notin m.dF /\ d.rT # "none" /\ d.isD => H
  BY DEF InSight3, HiddenWhenDeleted
<1>4. m.status[u] # "seenOnly"
  BY DEF InSight3, NotSeenOnly
<1>5. Alive(i)' /\ m.sId # u /\ e.rT \in {"s", "o"} =>
        /\ (e.rT = d.rT /\ e.lSM = d.lSM) \/ S1
        /\ S => S1 \/ "sAt" \in n.tags
  BY DEF ReadKept
<1>6. Alive(i)' /\ u \notin n.dF /\ e.rT # "none" /\ e.isD =>
        /\ (d.rT # "none" /\ d.isD) \/ H1
        /\ H => H1
  BY DEF HideKept
<1> HIDE DEF S, S1, H, H1
<1>7. Alive(i)' /\ m.sId # u /\ e.rT \in {"s", "o"} /\ i <= e.lSM => "sAt" \in n.tags \/ S1
  BY <1>1, <1>2, <1>5
<1>8. n.status[u] # "seenOnly"
  BY <1>4
<1>9. Alive(i)' /\ "created" \in n.tags /\ u \notin n.dF /\ e.rT # "none" /\ e.isD => H1
  BY <1>1, <1>3, <1>6
<1> QED BY <1>1, <1>7, <1>8, <1>9 DEF S1, H1

\* Steps that add no message.
LEMMA StillInSight ==
  ASSUME Inv1, Grows, InSight3, Len(message') = Len(message),
         \A i \in 1..Len(message), u \in Users :
           /\ ReadKept(i, u) /\ HideKept(i, u)
           /\ message'[i].status[u] = "seenOnly" => message[i].status[u] = "seenOnly"
  PROVE  InSight3'
BY OldInSight DEF InSight3, SeenWhenRead, NotSeenOnly, HiddenWhenDeleted

\* Steps after which each document of a member is as DocStep says.
LEMMA ShownInSight ==
  ASSUME Inv1, Grows, InSight3, DocSteps, Written, \A s \in Slots : AtWork(s),
         \A r \in Rooms, u \in Users : /\ Seeing(req, r, u) => Seeing(req', r, u)
                                       /\ Hiding(req, r, u) => Hiding(req', r, u)
  PROVE  InSight3'
<1>1. ASSUME NEW r \in Rooms, NEW u \in Users
      PROVE  /\ member'[r][u].rT \in {"s", "o"} =>
                  member'[r][u].rT = member[r][u].rT /\ member'[r][u].lSM = member[r][u].lSM
             /\ member'[r][u].rT # "none" /\ member'[r][u].isD =>
                  member[r][u].rT # "none" /\ member[r][u].isD
  BY DEF DocSteps, DocStep
<1>2. ASSUME NEW i \in 1..Len(message), NEW u \in Users
      PROVE  ReadKept(i, u) /\ HideKept(i, u)
  <2>1. message[i].rId \in Rooms
    BY MessageDoc DEF MessageDocs
  <2> QED BY <1>1, <2>1 DEF ReadKept, HideKept
<1>3. ASSUME NEW i \in Added, NEW u \in Users
      PROVE  LET m == message'[i]
                 d == member'[m.rId][u]
             IN /\ ~(d.rT \in {"s", "o"} /\ i <= d.lSM)
                /\ m.status[u] # "seenOnly"
                /\ "created" \in m.tags /\ d.rT # "none" => ~d.isD
  <2> DEFINE r == message'[i].rId
             d == member'[r][u]
  <2>1. r \in Rooms
    <3>1. i \in 1..Len(message') /\ message' \in Seq(MessageDocs)
      BY DEF Grows, Added
    <3>2. message'[i] \in MessageDocs
      BY <3>1
    <3> QED BY <3>2 DEF MessageDocs
  <2>2. i > Len(message) /\ i \in Nat /\ Len(message) \in Nat
    BY DEF Grows, Added
  <2>3. member[r][u].lSM <= Len(message) /\ member[r][u].lSM \in Nat
    BY <2>1, MemberDoc DEF Inv1, LastSeen, MemberDocs
  <2>4. ~(d.rT \in {"s", "o"} /\ i <= d.lSM)
    BY <1>1, <2>1, <2>2, <2>3
  <2>5. "created" \in message'[i].tags => ShownTo(r)
    BY DEF Written
  <2>6. ShownTo(r) /\ d.rT # "none" => ~d.isD
    BY DEF ShownTo, AtWork, IsMember
  <2> QED BY <2>4, <2>5, <2>6 DEF Written
<1>4. \A i \in 1..Len(message') : i \in 1..Len(message) \/ i \in Added
  BY DEF Grows, Added
<1>5. SeenWhenRead'
  BY <1>2, <1>3, <1>4, OldInSight DEF SeenWhenRead, Written
<1>6. NotSeenOnly'
  BY <1>2, <1>3, <1>4, OldInSight DEF NotSeenOnly, Written
<1>7. HiddenWhenDeleted'
  BY <1>2, <1>3, <1>4, OldInSight DEF HiddenWhenDeleted, Written
<1> QED BY <1>5, <1>6, <1>7 DEF InSight3
-----------------------------------------------------------------------------
(* InSight is kept by each step *)

\* Seeing and Hiding while handler s, the only one, is elsewhere.
LEMMA NobodySees ==
  ASSUME NEW q, \A s \in Slots : q[s].pc \notin {"enter_seen", "room_hide"}
  PROVE  \A r, u : ~Seeing(q, r, u) /\ ~Hiding(q, r, u)
BY DEF Seeing, Hiding

LEMMA InitInSight ==
  ASSUME Init
  PROVE  InSight
<1>1. \A s \in Slots : req[s].pc = "idle"
  BY IdleType DEF Init
<1>2. \A s \in Slots : AtWork(s)
  BY <1>1 DEF AtWork
<1>3. ASSUME NEW i \in 1..Len(message), NEW u \in Users
      PROVE  /\ message[i].rId \in Rooms /\ member[message[i].rId][u].lSM = 0
             /\ ~member[message[i].rId][u].isD /\ message[i].status[u] # "seenOnly"
             /\ i \in Nat /\ i > 0
  <2>1. message[i].rId \in Rooms /\ i \in Nat /\ i > 0
    <3>1. message \in Seq(MessageDocs)
      BY InitMessages
    <3>2. message[i] \in MessageDocs
      BY <3>1
    <3> QED BY <3>2 DEF MessageDocs
  <2> QED BY <2>1, InitMembers, InitMessages
<1>4. InSight3
  BY <1>3 DEF InSight3, SeenWhenRead, NotSeenOnly, HiddenWhenDeleted
<1> QED BY <1>2, <1>4 DEF InSight, InSight3

\* What a handler that goes on relies on.
LEMMA ContinueAtWork ==
  ASSUME Inv1, NEW s \in Slots, Continue(s), AtWork(s), req'[s].pc \in SightPcs
  PROVE  AtWork(s)'
<1> DEFINE h == req[s]
           n == req'[s]
<1>1. Grows
  BY RoomsGrow, GroupsGrow, MessagesGrow DEF Continue
<1>2. Moves(s) => Becomes(s, n) /\ Kept(h, n) /\ Flow(h, n.pc)
  BY MovesSight
<1>3. ~Becomes(s, Idle)
  BY IdleType DEF Becomes, SightPcs
<1>4. CASE CreateSetting(s) \/ OrderSetting(s)
  <2>1. Kept(h, n) /\ Flow(h, n.pc) /\ UNCHANGED message /\ h.pc \in {"room_setting", "order_setting"}
    BY <1>1, <1>2, <1>4, RoomsMove DEF CreateSetting, OrderSetting, At
  <2>2. n.pc = "room_members" /\ \A i \in 1..Len(message) : message[i].rId # n.at
    BY <2>1 DEF Flow, RoomsFlow, GroupFlow, LeaveFlow, BroadcastFlow, MessageFlow, AtWork, Kept
  <2> QED BY <2>1, <2>2 DEF AtWork
<1>5. CASE BroadcastNext(s)
  <2>1. n.pc = "room_setting" /\ n.at \in Fresh
    <3>1. h.pc = "broadcast_next" /\ HandlerOK(h, message)
      BY <1>5, HandlerOf DEF BroadcastNext, At
    <3>2. h.after \in {"broadcast_own", "broadcast_copies"}
      BY <3>1 DEF HandlerOK, Broadcasting, BroadcastPcs
    <3> QED BY <1>1, <1>5, <3>2, BroadcastNextMoves DEF SightPcs
  <2>2. UNCHANGED message
    BY <1>5 DEF BroadcastNext, UnchangedRooms
  <2>3. \A i \in 1..Len(message) : message[i].rId # n.at
    BY <2>1, MessageDoc DEF Fresh
  <2> QED BY <2>1, <2>2, <2>3 DEF AtWork
<1>6. CASE SendUndelete(s)
  <2>1. Kept(h, n) /\ Flow(h, n.pc) /\ h.pc = "send_undelete"
    BY <1>1, <1>2, <1>6, MessagesMove DEF SendUndelete, At
  <2>2. n.pc = "send_check" /\ n.room = h.room
    BY <2>1 DEF Flow, RoomsFlow, GroupFlow, LeaveFlow, BroadcastFlow, MessageFlow, Kept
  <2>3. h.room \in Rooms /\ member' = UnDeleted(h.room)
    BY <1>6, <2>1, HandlerOf DEF SendUndelete, HandlerOK, RoomPcs, SendPcs
  <2>4. \A u \in Users : member'[h.room][u].rT # "none" => ~member'[h.room][u].isD
    BY <2>3, ShownDocs DEF IsMember
  <2> QED BY <2>2, <2>4 DEF AtWork, IsMember
<1>7. CASE SendCheck(s)
  <2>1. /\ UNCHANGED <<member, message>> /\ h.pc = "send_check"
        /\ n.pc \in {"send_create", "send_copies"} /\ n.room = h.room
    BY <1>1, <1>3, <1>7, SendCheckMoves DEF SendCheck, At, UnchangedRooms, rooms, Kept, KeptSend
  <2>2. \A u \in Users : member[h.room][u].rT # "none" => ~member[h.room][u].isD
    BY <2>1 DEF AtWork, IsMember
  <2> QED BY <2>1, <2>2 DEF AtWork, IsMember
<1>8. CASE DeletedLook(s)
  <2>1. Kept(h, n) /\ Flow(h, n.pc) /\ h.pc = "deleted_look" /\ UNCHANGED <<member, message>>
    BY <1>1, <1>2, <1>8, MessagesMove DEF DeletedLook, At, UnchangedRooms, rooms
  <2>2. n.pc = "deleted_room" /\ n.room = h.room /\ n.user = h.user
    BY <2>1 DEF Flow, RoomsFlow, GroupFlow, LeaveFlow, BroadcastFlow, MessageFlow, Kept
  <2>3. Visible(h.room, h.user) = {}
    <3>1. ~Return(s)
      BY <1>1, <1>3, Ends
    <3> QED BY <1>8, <3>1 DEF DeletedLook
  <2>4. {i \in DOMAIN message' : /\ message'[i].rId = n.room /\ "gone" \notin message'[i].tags
                                 /\ member'[n.room][n.user].rT # "none"
                                 /\ n.user \notin message'[i].dF} = {}
    BY <2>1, <2>2, <2>3 DEF Visible, InRoom, Alive, IsMember
  <2> QED BY <2>2, <2>4 DEF AtWork, Visible, InRoom, Alive, IsMember
<1>9. CASE EnterRead(s)
  <2>1. Kept(h, n) /\ Flow(h, n.pc) /\ h.pc = "enter_read"
    BY <1>1, <1>2, <1>9, MessagesMove DEF EnterRead, At
  <2>2. n.pc = "enter_seen" /\ n.seen = h.seen
    BY <2>1 DEF Flow, RoomsFlow, GroupFlow, LeaveFlow, BroadcastFlow, MessageFlow, Kept, SightPcs
  <2>3. h.seen.rT # "g"
    <3>1. h.seen.rT = "g" => Goto(s, "enter_deliver")
      BY <1>9 DEF EnterRead
    <3>2. ~Goto(s, "enter_deliver")
      <4>1. h \in Handlers
        BY HandlerOf
      <4> QED BY <2>2, <4>1 DEF Goto, Resume, Inv1, Handling, Handlers
    <3> QED BY <3>1, <3>2
  <2> QED BY <2>2, <2>3 DEF AtWork
<1>10. CASE EnterDeliver(s)
  <2>1. Kept(h, n) /\ Flow(h, n.pc) /\ h.pc = "enter_deliver"
    BY <1>1, <1>2, <1>10, MessagesMove DEF EnterDeliver, At
  <2>2. n.pc = "enter_seen" /\ n.room = h.room /\ n.user = h.user
    BY <2>1 DEF Flow, RoomsFlow, GroupFlow, LeaveFlow, BroadcastFlow, MessageFlow, Kept, SightPcs
  <2>3. h.user \in Users /\ message' = DeliverGroup(h.room, h.user)
    BY <1>10, <2>1, UserOf DEF EnterDeliver
  <2>4. PICK r, u : r = h.room /\ u = h.user
    OBVIOUS
  <2>5. ASSUME NEW i \in InRoom(r)'
        PROVE  message'[i].status[u] # "sent"
    <3>1. /\ Len(message') = Len(message)
          /\ \A j \in 1..Len(message) :
               message'[j].status =
                 IF j \in InRoom(r)
                 THEN [message[j].status EXCEPT ![u] = ToDelivered(message[j].status[u])]
                 ELSE message[j].status
      BY <2>3, <2>4, DeliverGroupGrows
    <3>2. i \in 1..Len(message') /\ message'[i].rId = r /\ Alive(i)'
      <4>1. DOMAIN message' = 1..Len(message')
        BY <1>1 DEF Grows
      <4> QED BY <4>1 DEF InRoom
    <3>3. i \in 1..Len(message) /\ i \in InRoom(r)
      BY <1>1, <3>1, <3>2, MessageDoc DEF InRoom, Grows, Version, Alive
    <3>4. message[i].status \in [Users -> Statuses]
      BY <3>3, MessageDoc DEF MessageDocs
    <3>5. ToDelivered(message[i].status[u]) # "sent"
      BY DEF ToDelivered
    <3> QED BY <2>3, <2>4, <3>1, <3>3, <3>4, <3>5
  <2> QED BY <2>2, <2>4, <2>5 DEF AtWork
<1> QED BY <1>4, <1>5, <1>6, <1>7, <1>8, <1>9, <1>10, ContinueSight

\* The steps that do something for these properties.
LEMMA CreateMembersSight ==
  ASSUME Inv1, InSight3, NEW s \in Slots, CreateMembers(s), AtWork(s),
         \A t \in Slots \ {s} : req[t].pc = "idle"
  PROVE  InSight3'
<1>1. Grows
  BY RoomsGrow DEF RoomsContinue
<1>2. req[s].pc = "room_members" /\ UNCHANGED message
  BY DEF CreateMembers, At
<1>3. \A r, u : ~Seeing(req, r, u) /\ ~Hiding(req, r, u)
  BY <1>2, NobodySees
<1>4. req[s].at \in Rooms /\ \E f : member' = [member EXCEPT ![req[s].at] = f]
  BY <1>2, HandlerOf DEF CreateMembers, HandlerOK, AtPcs, NewPcs
<1>5. \A r \in Rooms \ {req[s].at} : member'[r] = member[r]
  BY <1>4, PutDocs
<1>6. \A i \in 1..Len(message) : message[i].rId \in Rooms \ {req[s].at}
  BY <1>2, MessageDoc DEF AtWork, MessageDocs
<1>7. \A i \in 1..Len(message), u \in Users : ReadKept(i, u) /\ HideKept(i, u)
  BY <1>3, <1>5, <1>6 DEF ReadKept, HideKept
<1> QED BY <1>1, <1>2, <1>7, StillInSight

LEMMA EnterReadSight ==
  ASSUME Inv1, InSight3, NEW s \in Slots, EnterRead(s), AtWork(s),
         \A t \in Slots \ {s} : req[t].pc = "idle"
  PROVE  InSight3'
<1> DEFINE h == req[s]
           r == h.room
           u == h.user
           d == member[r][u]
           e == [d EXCEPT !.lSM = Len(message)]
<1>1. Grows
  BY MessagesGrow DEF MessagesContinue
<1>2. h.pc = "enter_read" /\ UNCHANGED message /\ r \in Rooms /\ u \in Users
  BY HandlerOf DEF EnterRead, At, HandlerOK, RoomPcs, EnterPcs
<1>3. \A q, v : ~Seeing(req, q, v) /\ ~Hiding(req, q, v)
  BY <1>2, NobodySees
<1>4. UNCHANGED member \/ member' = [member EXCEPT ![r][u] = e]
  BY <1>2 DEF EnterRead, Inv1, Typed
<1>5. d \in MemberDocs
  BY <1>2, MemberDoc
<1>6. d.rT \in {"s", "o"} => Seeing(req', r, u)
  <2>1. d.rT = h.seen.rT
    BY <1>2 DEF AtWork
  <2>2. h \in Handlers
    BY HandlerOf
  <2>3. d.rT \in {"s", "o"} => Goto(s, "enter_seen")
    BY <2>1 DEF EnterRead
  <2>4. Goto(s, "enter_seen") => /\ req'[s].pc = "enter_seen" /\ req'[s].room = r
                                 /\ req'[s].user = u /\ req'[s].seen = h.seen
    BY <2>2 DEF Goto, Resume, Inv1, Handling, Handlers
  <2> QED BY <2>1, <2>3, <2>4 DEF Seeing
<1> HIDE DEF h, d
<1>7. e.rT = d.rT /\ e.isD = d.isD
  BY <1>5 DEF MemberDocs
<1> HIDE DEF r, u, e
<1>8. \A q \in Rooms, v \in Users :
        \/ member'[q][v] = member[q][v]
        \/ q = r /\ v = u /\ member'[q][v].rT = d.rT /\ member'[q][v].isD = d.isD
  BY <1>2, <1>4, <1>7, PutDoc
<1>9. ASSUME NEW i \in 1..Len(message), NEW v \in Users
      PROVE  ReadKept(i, v) /\ HideKept(i, v)
  <2>1. message[i].rId \in Rooms
    BY MessageDoc DEF MessageDocs
  <2>2. d = member[r][u]
    BY DEF d, r, u
  <2> QED BY <1>3, <1>6, <1>8, <2>1, <2>2 DEF ReadKept, HideKept
<1> QED BY <1>1, <1>2, <1>9, StillInSight

LEMMA DeletedRoomSight ==
  ASSUME Inv1, InSight3, NEW s \in Slots, DeletedRoom(s), AtWork(s),
         \A t \in Slots \ {s} : req[t].pc = "idle"
  PROVE  InSight3'
<1> DEFINE h == req[s]
           r == h.room
           u == h.user
           d == member[r][u]
           e == [d EXCEPT !.isD = TRUE]
<1>1. Grows
  BY MessagesGrow DEF MessagesContinue
<1>2. h.pc = "deleted_room" /\ UNCHANGED message /\ r \in Rooms /\ u \in Users
  BY HandlerOf DEF DeletedRoom, At, HandlerOK, RoomPcs
<1>3. \A q, v : ~Seeing(req, q, v) /\ ~Hiding(req, q, v)
  BY <1>2, NobodySees
<1>4. UNCHANGED member \/ member' = [member EXCEPT ![r][u] = e]
  BY <1>2 DEF DeletedRoom, Inv1, Typed
<1>5. d \in MemberDocs
  BY <1>2, MemberDoc
<1>6. \A i \in 1..Len(message) : message[i].rId = r /\ Alive(i) /\ d.rT # "none" => u \in message[i].dF
  <2>1. Visible(r, u) = {}
    BY <1>2 DEF AtWork
  <2> QED BY <2>1, MessageDoc DEF Visible, InRoom, IsMember
<1> HIDE DEF h, d
<1>7. e.rT = d.rT /\ e.lSM = d.lSM
  BY <1>5 DEF MemberDocs
<1> HIDE DEF r, u, e
<1>8. \A q \in Rooms, v \in Users :
        \/ member'[q][v] = member[q][v]
        \/ q = r /\ v = u /\ member'[q][v].rT = d.rT /\ member'[q][v].lSM = d.lSM
  BY <1>2, <1>4, <1>7, PutDoc
<1>9. ASSUME NEW i \in 1..Len(message), NEW v \in Users
      PROVE  ReadKept(i, v) /\ HideKept(i, v)
  <2>1. message[i].rId \in Rooms
    BY MessageDoc DEF MessageDocs
  <2>2. d = member[r][u]
    BY DEF d, r, u
  <2>3. Alive(i)' => Alive(i)
    BY <1>2 DEF Alive
  <2> QED BY <1>2, <1>3, <1>6, <1>8, <2>1, <2>2, <2>3 DEF ReadKept, HideKept
<1> QED BY <1>1, <1>2, <1>9, StillInSight

LEMMA HideRoomSight ==
  ASSUME Inv1, InSight3, NEW s \in Slots, HideRoom(s), \A t \in Slots \ {s} : req[t].pc = "idle"
  PROVE  InSight3'
<1> DEFINE h == req[s]
<1>1. h.pc = "room_hide" /\ UNCHANGED member /\ h.user \in Users
      /\ message' = HideAll(h.room, h.user)
  BY WriterUser DEF HideRoom, At, rooms, WriterPcs
<1>2. \A r, u : ~Seeing(req, r, u) /\ (Hiding(req, r, u) => r = h.room /\ u = h.user)
  BY <1>1 DEF Seeing, Hiding
<1>3. /\ Grows /\ Len(message') = Len(message)
      /\ \A i \in 1..Len(message) :
           /\ message'[i].tags = message[i].tags /\ message'[i].status = message[i].status
           /\ i \in InRoom(h.room) => h.user \in message'[i].dF
  BY <1>1, HideAllGrows
<1> HIDE DEF h
<1>4. ASSUME NEW i \in 1..Len(message), NEW v \in Users
      PROVE  ReadKept(i, v) /\ HideKept(i, v)
  <2>1. Alive(i)' => Alive(i)
    BY <1>3 DEF Alive
  <2>2. Alive(i) /\ message[i].rId = h.room => i \in InRoom(h.room)
    BY MessageDoc DEF InRoom
  <2> QED BY <1>1, <1>2, <1>3, <2>1, <2>2 DEF ReadKept, HideKept
<1> QED BY <1>3, <1>4, StillInSight

LEMMA EnterSeenSight ==
  ASSUME Inv1, InSight3, NEW s \in Slots, EnterSeen(s), AtWork(s),
         \A t \in Slots \ {s} : req[t].pc = "idle"
  PROVE  InSight3'
<1> DEFINE h == req[s]
<1>1. h.pc = "enter_seen" /\ UNCHANGED member /\ h.user \in Users
  BY WriterUser DEF EnterSeen, At, rooms, WriterPcs
<1>2. \A r, u : /\ ~Hiding(req, r, u)
                /\ Seeing(req, r, u) => r = h.room /\ u = h.user /\ h.seen.rT # "g"
  BY <1>1 DEF Seeing, Hiding
<1>3. /\ Grows /\ Len(message') = Len(message)
      /\ \A i \in 1..Len(message) :
           /\ message'[i].tags \subseteq message[i].tags \cup {"sAt"}
           /\ message[i].tags \subseteq message'[i].tags
           /\ h.seen.rT # "g" /\ i \in InRoom(h.room) /\ message[i].sId # h.user
                => "sAt" \in message'[i].tags
           /\ message'[i].status =
                IF h.seen.rT = "g" /\ i \in InRoom(h.room)
                THEN [message[i].status EXCEPT ![h.user] = ToSeen(message[i].status[h.user])]
                ELSE message[i].status
  BY EnterSeenGrows
<1>4. h.seen.rT = "g" => \A i \in InRoom(h.room) : message[i].status[h.user] # "sent"
  BY <1>1 DEF AtWork
<1> HIDE DEF h
<1>5. ASSUME NEW i \in 1..Len(message), NEW v \in Users
      PROVE  ReadKept(i, v) /\ HideKept(i, v)
  <2>1. Alive(i)' => Alive(i)
    BY <1>3 DEF Alive
  <2>2. Alive(i) /\ message[i].rId = h.room => i \in InRoom(h.room)
    BY MessageDoc DEF InRoom
  <2> QED BY <1>1, <1>2, <1>3, <2>1, <2>2 DEF ReadKept, HideKept
<1>6. ASSUME NEW i \in 1..Len(message), NEW v \in Users, message'[i].status[v] = "seenOnly"
      PROVE  message[i].status[v] = "seenOnly"
  <2>1. message[i].status \in [Users -> Statuses]
    BY MessageDoc DEF MessageDocs
  <2>2. \A x : ToSeen(x) = "seenOnly" => x \in {"sent", "seenOnly"}
    BY DEF ToSeen
  <2>3. CASE h.seen.rT = "g" /\ i \in InRoom(h.room)
    <3>1. message'[i].status = [message[i].status EXCEPT ![h.user] = ToSeen(message[i].status[h.user])]
      BY <1>3, <2>3
    <3> QED BY <1>1, <1>4, <1>6, <2>1, <2>2, <2>3, <3>1
  <2>4. CASE ~(h.seen.rT = "g" /\ i \in InRoom(h.room))
    BY <1>3, <1>6, <2>4
  <2> QED BY <2>3, <2>4
<1> QED BY <1>3, <1>5, <1>6, StillInSight

LEMMA DeleteRoomSight ==
  ASSUME Inv1, InSight3, Quiet, NEW s \in Slots, NEW u \in Users, NEW r \in Rooms, DeleteRoom(s, u, r)
  PROVE  InSight3'
<1> DEFINE d == member[r][u]
           e == [d EXCEPT !.isD = TRUE]
<1>1. UNCHANGED message /\ Grows
  BY SameMessages DEF DeleteRoom
<1>2. \A q, v : ~Seeing(req, q, v) /\ ~Hiding(req, q, v)
  BY QuietIdle, NobodySees
<1>3. member' = [member EXCEPT ![r][u] = e]
  BY DEF DeleteRoom, Inv1, Typed
<1>4. Hiding(req', r, u)
  <2>1. Called(req'[s], "room_hide", u, r)
    BY <1>1, CallBegins DEF DeleteRoom
  <2> QED BY <2>1 DEF Called, Hiding
<1>5. d \in MemberDocs
  BY MemberDoc
<1> HIDE DEF d
<1>6. e.rT = d.rT /\ e.lSM = d.lSM
  BY <1>5 DEF MemberDocs
<1> HIDE DEF e
<1>7. \A q \in Rooms, v \in Users :
        \/ member'[q][v] = member[q][v]
        \/ q = r /\ v = u /\ member'[q][v].rT = d.rT /\ member'[q][v].lSM = d.lSM
  BY <1>3, <1>6, PutDoc
<1>8. ASSUME NEW i \in 1..Len(message), NEW v \in Users
      PROVE  ReadKept(i, v) /\ HideKept(i, v)
  <2>1. message[i].rId \in Rooms
    BY MessageDoc DEF MessageDocs
  <2>2. d = member[r][u]
    BY DEF d
  <2> QED BY <1>2, <1>4, <1>7, <2>1, <2>2 DEF ReadKept, HideKept
<1> QED BY <1>1, <1>8, StillInSight

LEMMA ContinueInSight ==
  ASSUME Inv1, InSight3, NEW s \in Slots, Continue(s), \A t \in Slots : AtWork(t),
         \A t \in Slots \ {s} : req[t].pc = "idle"
  PROVE  InSight3'
<1>1. CASE CreateMembers(s) \/ EnterRead(s) \/ DeletedRoom(s)
  BY <1>1, CreateMembersSight, EnterReadSight, DeletedRoomSight
<1>2. CASE HideRoom(s) \/ EnterSeen(s)
  BY <1>2, HideRoomSight, EnterSeenSight
<1>3. CASE ~(CreateMembers(s) \/ EnterRead(s) \/ DeletedRoom(s) \/ HideRoom(s) \/ EnterSeen(s))
  <2>1. DocSteps /\ Written
    BY <1>3, ContinueDocs, ContinueWrites
  <2>2. Grows
    BY RoomsGrow, GroupsGrow, MessagesGrow DEF Continue
  <2>3. req[s].pc \notin {"enter_seen", "room_hide"}
    BY <1>3, ContinueAt DEF RoomsAt, GroupsAt, MessagesAt
  <2>4. \A r, u : ~Seeing(req, r, u) /\ ~Hiding(req, r, u)
    BY <2>3, NobodySees
  <2> QED BY <2>1, <2>2, <2>4, ShownInSight
<1> QED BY <1>1, <1>2, <1>3

LEMMA ControllersWrite ==
  ASSUME Inv1, Controllers
  PROVE  Written /\ (Len(message') = Len(message) \/ UNCHANGED req)
<1>1. CASE UNCHANGED message
  BY <1>1, NoneWritten
<1>2. CASE \E u \in Users, r \in Rooms : message' = HideAll(r, u) \/ message' = Deliver(r, u)
  BY <1>2, HideAllGrows, DeliverGrows, NoneWritten, DeliverWritten
<1>4. CASE \E u \in Users, i \in DOMAIN message, s \in Slots, r \in Rooms : DeleteFromMe(s, u, r, i)
  BY <1>4, DeleteFromMeGrows, NoneWritten
<1>5. CASE \E u \in Users, i \in DOMAIN message : MessageMark(u, i)
  <2>1. /\ Len(message') = Len(message)
        /\ \A j \in 1..Len(message) : message'[j] = message[j] \/ Marks(message[j], message'[j])
    BY <1>5, MessageMarks, MarkGrows
  <2>2. \A j \in 1..Len(message) : message'[j].status = message[j].status
    BY <2>1 DEF Marks
  <2> QED BY <2>1, <2>2, NoneWritten
<1>6. CASE MessageChannelController
  <2>1. CASE \/ \E u \in Users, r \in Rooms, l \in LocalIds, s \in Slots : SendBegin(s, u, r, l)
             \/ \E u \in Users, i \in DOMAIN message, s \in Slots, e \in Emojis :
                  ReactBegin(s, u, i, e)
    <3>1. UNCHANGED message
      BY <2>1 DEF SendBegin, ReactBegin, UnchangedRooms
    <3> QED BY <1>1, <3>1
  <2> QED BY <1>4, <1>5, <1>6, <2>1 DEF MessageChannelController, MessageMark
<1> QED BY <1>1, <1>2, <1>6, ChannelMessages, ControllersMessages DEF Controllers

LEMMA ControllersInSight ==
  ASSUME Inv1, InSight3, Quiet, Controllers
  PROVE  InSight3'
<1>1. CASE \E s \in Slots, u \in Users, r \in Rooms : DeleteRoom(s, u, r)
  BY <1>1, DeleteRoomSight
<1>2. CASE ~\E s \in Slots, u \in Users, r \in Rooms : DeleteRoom(s, u, r)
  <2>1. DocSteps
    BY <1>2, ControllersFrame, RequestDocSteps, DocsStay DEF RequestsFrame
  <2>2. Written
    BY ControllersWrite
  <2>3. Grows
    BY ChannelGrows, ControllersGrow, MessageControllerGrows DEF Controllers
  <2>4. \A r, u : ~Seeing(req, r, u) /\ ~Hiding(req, r, u)
    BY QuietIdle, NobodySees
  <2>5. \A s \in Slots : AtWork(s)
    BY QuietIdle DEF AtWork
  <2> QED BY <2>1, <2>2, <2>3, <2>4, <2>5, ShownInSight
<1> QED BY <1>1, <1>2

\* Who asks for a change of documents has no handler that relies on them.
LEMMA MemberRequestPcs ==
  ASSUME Inv1, Quiet, NEW u \in Users, NEW r \in Rooms, MemberRequest(u, r)
  PROVE  \A t \in Slots : req'[t].pc # "enter_read"
<1>1. /\ Called(Call("room_hide", u, r), "room_hide", u, r)
      /\ Called(Call("room_info", u, r), "room_info", u, r)
  <2>1. "room_hide" \in PCs /\ "room_info" \in PCs
    BY DEF PCs, RoomPcs
  <2> QED BY <2>1, CallType
<1>2. CASE \E s : Begin(s, Call("room_hide", u, r)) \/ Begin(s, Call("room_info", u, r))
  <2>1. PICK s, n : Begin(s, n) /\ n \in Handlers /\ n.pc # "enter_read"
    BY <1>1, <1>2 DEF Called
  <2>2. req' = [req EXCEPT ![s] = n]
    BY <2>1 DEF Begin
  <2> QED BY <2>1, <2>2, QuietIdle DEF Inv1, Handling
<1>3. CASE UNCHANGED req
  BY <1>3, QuietIdle
<1>4. (\E s \in Slots : DeleteRoom(s, u, r)) => \E s : Begin(s, Call("room_hide", u, r))
  BY DEF DeleteRoom
<1>5. (\E s \in Slots : UpdateTimer(s, u, r)) => \E s : Begin(s, Call("room_info", u, r))
  BY DEF UpdateTimer
<1>6. (\E s \in Slots : RoomOneSeenOn(s, u, r) \/ RoomOneSeenOff(s, u, r))
        => \E s : Begin(s, Call("room_info", u, r))
  BY DEF RoomOneSeenOn, RoomOneSeenOff, SetOneSeen
<1>7. (\E flag \in Flags, on \in BOOLEAN : SetFlag(u, r, flag, on)) \/ RenameBroadcast(u, r)
        => UNCHANGED req
  BY DEF SetFlag, RenameBroadcast, AtOnce
<1> QED BY <1>2, <1>3, <1>4, <1>5, <1>6, <1>7 DEF MemberRequest

LEMMA ControllersAtWork ==
  ASSUME Inv1, Quiet, Controllers, NEW s \in Slots
  PROVE  AtWork(s)'
<1>1. Grows
  BY ChannelGrows, ControllersGrow, MessageControllerGrows DEF Controllers
<1>2. RequestTaken
  BY <1>1, ControllersStart
<1>3. CASE req'[s].pc \notin SightPcs
  BY <1>3 DEF AtWork, SightPcs
<1>4. CASE req'[s].pc \in SightPcs
  <2>1. ~Answered
    BY <1>4, QuietIdle DEF Answered, SightPcs
  <2>2. PICK t \in Slots : /\ Begins(t, req'[t]) /\ req'[t].pc \in StartPcs
                           /\ req'[t].pc \in {"room_setting", "order_setting"} => req'[t].at \in Fresh
                           /\ req'[t].pc = "enter_read" => req'[t].seen = member[req'[t].room][req'[t].user]
    BY <1>2, <2>1 DEF RequestTaken
  <2>3. t = s
    BY <1>4, <2>2, QuietIdle DEF Begins, Rest, SightPcs
  <2>4. req'[s].pc \in {"room_setting", "order_setting", "enter_read"}
    BY <1>4, <2>2, <2>3 DEF SightPcs, StartPcs
  <2>5. CASE req'[s].pc \in {"room_setting", "order_setting"}
    <3>1. Len(message') = Len(message)
      BY <2>4, QuietIdle, ControllersWrite
    <3>2. \A i \in 1..Len(message) : message[i].rId # req'[s].at
      BY <2>2, <2>3, <2>5, MessageDoc DEF Fresh
    <3>3. \A i \in 1..Len(message') : message'[i].rId # req'[s].at
      BY <1>1, <3>1, <3>2 DEF Grows, Version
    <3> QED BY <2>5, <3>3 DEF AtWork
  <2>6. CASE req'[s].pc = "enter_read"
    <3>1. UNCHANGED member
      BY <2>6, ControllersFrame, MemberRequestPcs DEF RequestsFrame
    <3> QED BY <2>2, <2>3, <2>6, <3>1 DEF AtWork
  <2> QED BY <2>4, <2>5, <2>6
<1> QED BY <1>3, <1>4

LEMMA AnnouncedInSight ==
  ASSUME Inv1, Serial, Alone, InSight3, NEW n, Announced(n)
  PROVE  InSight3' /\ \A s \in Slots : AtWork(s)'
<1>1. \A s \in Slots : req[s].pc \in LaterPcs
  BY DEF Announced, Serial
<1>2. \A s \in Slots : AtWork(s) /\ AtWork(s)'
  BY <1>1 DEF AtWork, Announced, LaterPcs
<1>3. PICK r \in Rooms, u \in Users : Announce(r, u) /\ Grows
  BY AnnouncedGrows
<1>4. DocSteps
  BY <1>3, ShownDocs, DocsStay DEF Announce
<1>5. Written
  BY <1>3, AnnounceWritten
<1>6. \A q, v : ~Seeing(req, q, v) /\ ~Hiding(req, q, v)
  BY <1>1, NobodySees DEF LaterPcs
<1> QED BY <1>2, <1>3, <1>4, <1>5, <1>6, ShownInSight

LEMMA ExpireInSight ==
  ASSUME Inv1, InSight3, \A s \in Slots : AtWork(s), NEW i, Expire(i)
  PROVE  InSight3' /\ \A s \in Slots : AtWork(s)'
<1>1. UNCHANGED <<member, req>>
  BY DEF Expire, rooms
<1>2. /\ Grows /\ Len(message') = Len(message) /\ DOMAIN message' = 1..Len(message)
      /\ \A j \in 1..Len(message) : /\ message'[j].dF = message[j].dF
                                    /\ message'[j].status = message[j].status
                                    /\ message'[j].rId = message[j].rId
                                    /\ Alive(j)' => Alive(j)
  <2>1. /\ Grows /\ Len(message') = Len(message)
        /\ \A j \in 1..Len(message) :
             message'[j].dF = message[j].dF /\ message'[j].status = message[j].status
    BY ExpireGrows
  <2>2. DOMAIN message' = 1..Len(message')
    BY <2>1 DEF Grows
  <2>3. \A j \in 1..Len(message) : message'[j].rId = message[j].rId /\ (Alive(j)' => Alive(j))
    BY <2>1 DEF Grows, Version, Alive
  <2> QED BY <2>1, <2>2, <2>3
<1>3. \A j \in 1..Len(message), u \in Users : ReadKept(j, u) /\ HideKept(j, u)
  BY <1>1 DEF ReadKept, HideKept
<1>4. InSight3'
  BY <1>2, <1>3, StillInSight
<1>5. ASSUME NEW s \in Slots
      PROVE  AtWork(s)'
  <2> DEFINE h == req[s]
  <2>1. h.pc \in {"room_setting", "order_setting", "room_members"} =>
          \A j \in 1..Len(message') : message'[j].rId # h.at
    BY <1>2 DEF AtWork
  <2>2. h.pc \in {"send_check", "send_create", "send_copies"} =>
          \A u \in Users : member'[h.room][u].rT # "none" => ~member'[h.room][u].isD
    BY <1>1 DEF AtWork, IsMember
  <2>3. h.pc = "deleted_room" =>
          {j \in DOMAIN message' : /\ message'[j].rId = h.room /\ Alive(j)'
                                   /\ member'[h.room][h.user].rT # "none"
                                   /\ h.user \notin message'[j].dF} = {}
    <3>1. h.pc = "deleted_room" =>
            {j \in DOMAIN message : /\ message[j].rId = h.room /\ Alive(j)
                                    /\ member[h.room][h.user].rT # "none"
                                    /\ h.user \notin message[j].dF} = {}
      BY DEF AtWork, Visible, InRoom, IsMember
    <3> QED BY <1>1, <1>2, <3>1, MessageDoc
  <2>4. h.pc = "enter_read" => h.seen.rT = member'[h.room][h.user].rT
    BY <1>1 DEF AtWork
  <2>5. h.pc = "enter_seen" /\ h.seen.rT = "g" =>
          \A j \in DOMAIN message' : message'[j].rId = h.room /\ Alive(j)'
                                       => message'[j].status[h.user] # "sent"
    BY <1>2, MessageDoc DEF AtWork, InRoom
  <2> QED BY <1>1, <2>1, <2>2, <2>3, <2>4, <2>5 DEF AtWork, Visible, InRoom, IsMember
<1> QED BY <1>4, <1>5

LEMMA StepInSight ==
  ASSUME Inv1, Serial, InSight, [Next]_vars
  PROVE  InSight'
<1> SUFFICES ASSUME Alone'
             PROVE  InSight3' /\ \A s \in Slots : AtWork(s)'
  BY DEF InSight, InSight3
<1>1. Alone
  BY AloneSteps
<1>2. InSight3 /\ \A s \in Slots : AtWork(s)
  BY <1>1 DEF InSight, InSight3
<1>3. ASSUME NEW s \in Slots, Continue(s)
      PROVE  InSight3' /\ \A t \in Slots : AtWork(t)'
  <2>1. Rest(s) /\ req[s].pc # "idle"
    BY <1>3, ContinueBecomes DEF Becomes
  <2>2. \A t \in Slots \ {s} : req[t].pc = "idle"
    BY <1>1, <2>1, OthersIdle
  <2>3. \A t \in Slots \ {s} : req'[t].pc = "idle"
    BY <2>1, <2>2 DEF Rest
  <2>4. \A t \in Slots \ {s} : AtWork(t)'
    BY <2>3 DEF AtWork
  <2>5. req'[s].pc \notin SightPcs => AtWork(s)'
    BY DEF AtWork, SightPcs
  <2>6. req'[s].pc \in SightPcs => AtWork(s)'
    BY <1>2, <1>3, ContinueAtWork
  <2>7. InSight3'
    BY <1>2, <1>3, <2>2, ContinueInSight
  <2> QED BY <2>4, <2>5, <2>6, <2>7
<1>5. ASSUME Quiet, Controllers
      PROVE  InSight3' /\ \A t \in Slots : AtWork(t)'
  BY <1>2, <1>5, ControllersInSight, ControllersAtWork
<1>6. ASSUME UNCHANGED vars
      PROVE  InSight3' /\ \A t \in Slots : AtWork(t)'
  <2>1. UNCHANGED <<member, message, req>>
    BY <1>6 DEF vars, rooms
  <2>2. InSight3'
    BY <1>2, <2>1 DEF InSight3, SeenWhenRead, NotSeenOnly, HiddenWhenDeleted, Alive
  <2>3. \A t \in Slots : AtWork(t)'
    BY <1>2, <2>1 DEF AtWork, IsMember, Visible, InRoom, Alive
  <2> QED BY <2>2, <2>3
<1> QED BY <1>1, <1>2, <1>3, <1>5, <1>6, AnnouncedInSight, ExpireInSight, AloneSteps

\* Without overlap and without a restart, the messages of the other that are no
\* longer counted as unread are seen, and the lists of a group message miss nobody
\* to whom it has come.
THEOREM ChatReadIsSeen == Spec => []ReadIsSeen
<1> DEFINE I == Inv1 /\ Serial /\ InSight
<1>1. Init => I
  BY InitTyped, InitSerial, InitInSight
<1>2. I /\ [Next]_vars => I'
  BY StepTyped, StepSerial, StepInSight
<1>3. I => ReadIsSeen
  <2> SUFFICES ASSUME I, Undisturbed, NEW i \in DOMAIN message, NEW u \in Users
               PROVE  LET m == message[i]
                      IN /\ /\ Alive(i) /\ m.sId # u /\ member[m.rId][u].rT \in {"s", "o"}
                            /\ i \notin Unread(m.rId, u)
                            => "sAt" \in m.tags
                         /\ m.status[u] \in {"none", "sent"} \/ u \in DeliveredTo(i) \cup SeenBy(i)
    BY DEF ReadIsSeen
  <2>1. InSight3 /\ Quiet
    BY DEF InSight, InSight3, Undisturbed, Alone
  <2>2. i \in 1..Len(message) /\ message[i] \in MessageDocs /\ i \in Nat
    BY MessageDoc
  <2>3. message[i].rId \in Rooms /\ message[i].status[u] \in Statuses
    BY <2>2 DEF MessageDocs
  <2>4. member[message[i].rId][u].lSM \in Nat
    BY <2>3, MemberDoc DEF MemberDocs
  <2>5. \A r, v : ~Seeing(req, r, v)
    BY <2>1, QuietIdle, NobodySees
  <2>6. Alive(i) /\ message[i].sId # u /\ i \notin Unread(message[i].rId, u)
          => i <= member[message[i].rId][u].lSM
    BY <2>2, <2>4, MessageDoc DEF Unread, InRoom
  <2>7. message[i].status[u] # "seenOnly"
    BY <2>1, <2>2 DEF InSight3, NotSeenOnly
  <2>8. message[i].status[u] \in {"none", "sent"} \/ u \in DeliveredTo(i) \cup SeenBy(i)
    BY <2>3, <2>7 DEF Statuses, DeliveredTo, SeenBy
  <2> QED BY <2>1, <2>2, <2>5, <2>6, <2>8 DEF InSight3, SeenWhenRead
<1> QED BY <1>1, <1>2, <1>3, PTL DEF Spec

\* Without overlap and without a restart a member who has not deleted a message
\* that was sent to a room has the room in the list.
THEOREM ChatShownAgain == Spec => []ShownAgain
<1> DEFINE I == Inv1 /\ Serial /\ InSight
<1>1. Init => I
  BY InitTyped, InitSerial, InitInSight
<1>2. I /\ [Next]_vars => I'
  BY StepTyped, StepSerial, StepInSight
<1>3. I => ShownAgain
  <2> SUFFICES ASSUME I, Undisturbed, NEW r \in Rooms, NEW u \in Users,
                      NEW i \in Visible(r, u), "created" \in message[i].tags
               PROVE  r \in Listed(u)
    BY DEF ShownAgain
  <2>1. InSight3 /\ Quiet
    BY DEF InSight, InSight3, Undisturbed, Alone
  <2>2. /\ i \in 1..Len(message) /\ Alive(i) /\ message[i].rId = r /\ u \notin message[i].dF
        /\ member[r][u].rT # "none"
    BY MessageDoc DEF Visible, InRoom, IsMember
  <2>3. \A q, v : ~Hiding(req, q, v)
    BY <2>1, QuietIdle, NobodySees
  <2>4. ~member[r][u].isD
    BY <2>1, <2>2, <2>3 DEF InSight3, HiddenWhenDeleted
  <2> QED BY <2>2, <2>4 DEF Listed, RoomsOf, IsMember
<1> QED BY <1>1, <1>2, <1>3, PTL DEF Spec
-----------------------------------------------------------------------------
(* RoomsAreWhole: what the documents of a room say *)

-----------------------------------------------------------------------------
(* RoomsAreWhole: rooms that stay as they are *)

LEMMA SameRoom ==
  ASSUME NEW r, Same(r)
  PROVE  /\ Type(r)' = Type(r) /\ \A u, v : Both(r, u, v)' <=> Both(r, u, v)
         /\ \A u \in Users : /\ Fits(r, u)' <=> Fits(r, u)
                             /\ IsMember(r, u)' <=> IsMember(r, u)
                             /\ Docs(r, u)' = Docs(r, u)
         /\ Nobody(r)' <=> Nobody(r)
         /\ Bare(r)' <=> Bare(r)
         /\ Whole(r)' <=> Whole(r)
<1>1. /\ Type(r)' = Type(r) /\ \A u, v : Both(r, u, v)' <=> Both(r, u, v)
      /\ \A u \in Users : /\ IsMember(r, u)' <=> IsMember(r, u)
                          /\ Docs(r, u)' = Docs(r, u)
  BY DEF Same, Type, Both, IsMember, Docs
<1>2. \A u \in Users : Fits(r, u)' <=> Fits(r, u)
  BY DEF Same, Fits, Docs, Titled
<1>3. (Nobody(r)' <=> Nobody(r)) /\ (Bare(r)' <=> Bare(r))
  BY <1>1 DEF Nobody, Bare
<1>4. setting'[r].cId = setting[r].cId /\ setting'[r].pId = setting[r].pId
  BY DEF Same
<1> QED BY <1>1, <1>2, <1>3, <1>4 DEF Whole

LEMMA IdsKept ==
  ASSUME \A r \in Rooms : Ids(r)
  PROVE  /\ OneSingle => OneSingle'
         /\ \A u, v : SingleRooms(u, v)' = SingleRooms(u, v)
BY DEF Ids, OneSingle, SingleRooms, Type

LEMMA CopiesOwned ==
  ASSUME Inv1, \A r \in Rooms : Ids(r), NEW h, NEW n, \A c \in copies : Owned(c, h),
         h.pc # "broadcast_setting", copies' \subseteq copies
  PROVE  \A c \in copies' : Owned(c, n)'
<1> SUFFICES ASSUME NEW c \in copies'
             PROVE  Owned(c, n)'
  OBVIOUS
<1>1. c \in copies /\ c[1] \in Rooms
  BY DEF Inv1, Typed, CopyDocs
<1>2. Type(c[1]) = "b" /\ c[3] \in SingleRooms(setting[c[1]].cId, c[2])
  BY <1>1 DEF Owned
<1>3. Ids(c[1])
  BY <1>1
<1> QED BY <1>2, <1>3, IdsKept DEF Owned, Ids, Type

\* Room x changes, if it is one; who writes it has still to finish it, or it is whole.
LEMMA RoomChanges ==
  ASSUME NEW h, NEW n, NEW x, Fit(h), \A r \in Rooms \ {x} : Same(r),
         Unfinished(h) \subseteq Unfinished(n) \cup {x},
         x \in Rooms => Whole(x)' \/ x \in Unfinished(n),
         OneSingle', \A c \in copies' : Owned(c, n)', Part(n)'
  PROVE  Fit(n)'
<1>1. ASSUME NEW r \in Rooms
      PROVE  Whole(r)' \/ r \in Unfinished(n)
  <2>1. CASE r # x
    BY <2>1, SameRoom DEF Fit
  <2> QED BY <2>1
<1> QED BY <1>1 DEF Fit, Unfinished, NewBroadcast, Broadcasting

\* No room changes.
LEMMA NothingChanges ==
  ASSUME Inv1, NEW h, NEW n, Fit(h), \A r \in Rooms : Same(r), copies' \subseteq copies,
         Unfinished(h) \subseteq Unfinished(n), h.pc # "broadcast_setting", Part(n)'
  PROVE  Fit(n)'
<1>1. \A r \in Rooms : Ids(r)
  BY DEF Same, Ids
<1>2. OneSingle' /\ \A c \in copies' : Owned(c, n)'
  BY <1>1, IdsKept, CopiesOwned DEF Fit
<1>3. \A r \in Rooms \ {NoRoom} : Same(r)
  OBVIOUS
<1>4. NoRoom \notin Rooms
  BY ChatAssumption
<1> QED BY <1>2, <1>3, <1>4, RoomChanges

-----------------------------------------------------------------------------
(* RoomsAreWhole: how the handlers go on *)

LEMMA GoesTo ==
  ASSUME Inv1, NEW s \in Slots, NEW h, NEW n, h = req[s], n = req'[s]
  PROVE  /\ \A pc : Goto(s, pc) => n.pc = pc /\ Kept(h, n)
         /\ Return(s) => n.pc = "idle"
<1>1. h \in Handlers /\ req \in [Slots -> Handlers]
  BY HandlerOf DEF Inv1, Handling
<1>2. ASSUME NEW pc, Goto(s, pc)
      PROVE  n.pc = pc /\ Kept(h, n)
  <2>1. n = [h EXCEPT !.pc = pc]
    BY <1>1, <1>2 DEF Goto, Resume
  <2> QED BY <1>1, <2>1 DEF Handlers, Kept
<1>3. ASSUME Return(s)
      PROVE  n.pc = "idle"
  BY <1>1, <1>3, IdleType DEF Return, Resume
<1> QED BY <1>2, <1>3

LEMMA CalmParts ==
  ASSUME NEW n, Calm(n)
  PROVE  Part(n)' /\ Unfinished(n) = {}
<1> USE DEF Calm, BusyPcs, NewPcs, LeavePcs, RenamePcs, BroadcastPcs
<1>1. NewPart(n)' /\ GroupPart(n)' /\ AddPart(n)' /\ KickPart(n)'
  BY DEF NewPart, GroupPart, AddPart, KickPart
<1>2. LeavePart(n)' /\ DeletePart(n)' /\ RenamePart(n)'
  BY DEF LeavePart, DeletePart, RenamePart, Leaving
<1>3. BroadcastPart(n)' /\ Unfinished(n) = {}
  BY DEF BroadcastPart, NewBroadcast, Broadcasting, Unfinished, WorkPcs
<1> QED BY <1>1, <1>2, <1>3 DEF Part

LEMMA SameWhenUnchanged ==
  ASSUME UNCHANGED <<setting, member, role>>
  PROVE  \A r \in Rooms : Same(r)
BY DEF Same

LEMMA ShownSame ==
  ASSUME Inv1, NEW r \in Rooms, member' = UnDeleted(r), UNCHANGED <<setting, role>>
  PROVE  \A q \in Rooms : Same(q)
BY ShownDocs DEF Same

\* A field is written that nobody asks for here.
LEMMA FieldSame ==
  ASSUME Inv1, NEW r \in Rooms, NEW u \in Users, NEW e, UNCHANGED <<setting, role>>,
         member' = [member EXCEPT ![r][u] = e],
         e.rT = member[r][u].rT, e.t = member[r][u].t, e.img = member[r][u].img
  PROVE  \A q \in Rooms : Same(q)
BY PutDoc DEF Same

LEMMA DocFields ==
  ASSUME NEW d \in MemberDocs
  PROVE  /\ \A b : LET e == [d EXCEPT !.isD = b] IN e.rT = d.rT /\ e.t = d.t /\ e.img = d.img
         /\ \A b : LET e == [d EXCEPT !.lSM = b] IN e.rT = d.rT /\ e.t = d.t /\ e.img = d.img
         /\ \A b : LET e == [d EXCEPT !.isOneSeen = b] IN e.rT = d.rT /\ e.t = d.t /\ e.img = d.img
         /\ \A b : LET e == [d EXCEPT !.timer = b] IN e.rT = d.rT /\ e.t = d.t /\ e.img = d.img
         /\ \A b : LET e == [d EXCEPT !.flags = b] IN e.rT = d.rT /\ e.t = d.t /\ e.img = d.img
BY DEF MemberDocs

LEMMA SettingsSaveSame ==
  ASSUME Inv1, NEW s \in Slots, SettingsSave(s)
  PROVE  \A r \in Rooms : Same(r)
<1> DEFINE r == req[s].room
<1>1. HandlerOK(req[s], message) /\ setting \in [Rooms -> SettingDocs]
  BY HandlerOf DEF Inv1, Typed
<1>2. r \in Rooms
  BY <1>1 DEF SettingsSave, At, HandlerOK, RoomPcs
<1>3. PICK only \in BOOLEAN, muted \in SUBSET Users :
        setting' = IF setting[r].rT # "g" THEN setting
                   ELSE [setting EXCEPT ![r].adminsOnly = only, ![r].muted = muted]
  BY DEF SettingsSave
<1> DEFINE x == setting[r]
           y == [x EXCEPT !.adminsOnly = only, !.muted = muted]
<1> HIDE DEF r
<1>4. y.rT = x.rT /\ y.cId = x.cId /\ y.pId = x.pId /\ y.t = x.t /\ y.img = x.img
  BY <1>1, <1>2 DEF SettingDocs
<1>5. setting' = setting \/ setting' = [setting EXCEPT ![r] = y]
  BY <1>1, <1>2, <1>3
<1> HIDE DEF y
<1>6. UNCHANGED <<member, role>>
  BY DEF SettingsSave
<1> QED BY <1>1, <1>2, <1>4, <1>5, <1>6 DEF Same

LEMMA RoleSetSame ==
  ASSUME Inv1, NEW s \in Slots, RoleSet(s)
  PROVE  \A r \in Rooms : Same(r)
<1> DEFINE h == req[s]
           r == h.room
           x == role[r][h.peer]
           y == <<h.lId>> \o Tail(x)
<1>1. role \in [Rooms -> [Users -> Seq(Roles)]]
  BY DEF Inv1, Typed
<1>2. /\ h.peer \in Users /\ r \in Rooms /\ h.lId \in Roles
      /\ UNCHANGED role \/ (x # <<>> /\ role' = [role EXCEPT ![r][h.peer] = y])
  BY RoleWrites
<1>3. UNCHANGED <<setting, member>>
  BY DEF RoleSet
<1> HIDE DEF h, r
<1>4. x # <<>> => Len(y) = Len(x)
  BY <1>1, <1>2
<1> HIDE DEF x, y
<1>5. ASSUME x # <<>>, role' = [role EXCEPT ![r][h.peer] = y]
      PROVE  \A q \in Rooms, u \in Users : Len(role'[q][u]) = Len(role[q][u])
  BY <1>1, <1>2, <1>4, <1>5 DEF x
<1> QED BY <1>2, <1>3, <1>5 DEF Same

LEMMA DeletedRoomSame ==
  ASSUME Inv1, NEW s \in Slots, DeletedRoom(s)
  PROVE  \A r \in Rooms : Same(r)
<1> DEFINE r == req[s].room
           u == req[s].user
<1>1. HandlerOK(req[s], message)
  BY HandlerOf
<1>2. r \in Rooms /\ u \in Users
  BY <1>1 DEF DeletedRoom, At, HandlerOK, RoomPcs
<1>3. /\ UNCHANGED <<setting, role>>
      /\ \/ UNCHANGED member
         \/ member' = [member EXCEPT ![r][u].isD = TRUE]
  BY DEF DeletedRoom
<1> HIDE DEF r, u
<1> DEFINE d == member[r][u]
           e == [d EXCEPT !.isD = TRUE]
<1>4. member' = [member EXCEPT ![r][u].isD = TRUE] => member' = [member EXCEPT ![r][u] = e]
  BY <1>2 DEF Inv1, Typed
<1>5. e.rT = d.rT /\ e.t = d.t /\ e.img = d.img
  BY <1>2, MemberDoc, DocFields
<1> HIDE DEF e
<1> QED BY <1>2, <1>3, <1>4, <1>5, SameWhenUnchanged, FieldSame DEF d

LEMMA EnterReadSame ==
  ASSUME Inv1, NEW s \in Slots, EnterRead(s)
  PROVE  \A r \in Rooms : Same(r)
<1> DEFINE r == req[s].room
           u == req[s].user
<1>1. HandlerOK(req[s], message)
  BY HandlerOf
<1>2. r \in Rooms /\ u \in Users
  BY <1>1 DEF EnterRead, At, HandlerOK, RoomPcs, EnterPcs
<1>3. /\ UNCHANGED <<setting, role>>
      /\ \/ UNCHANGED member
         \/ member' = [member EXCEPT ![r][u].lSM = Len(message)]
  BY DEF EnterRead
<1> HIDE DEF r, u
<1> DEFINE d == member[r][u]
           e == [d EXCEPT !.lSM = Len(message)]
<1>4. member' = [member EXCEPT ![r][u].lSM = Len(message)] => member' = [member EXCEPT ![r][u] = e]
  BY <1>2 DEF Inv1, Typed
<1>5. e.rT = d.rT /\ e.t = d.t /\ e.img = d.img
  BY <1>2, MemberDoc, DocFields
<1> HIDE DEF e
<1> QED BY <1>2, <1>3, <1>4, <1>5, SameWhenUnchanged, FieldSame DEF d

\* Elsewhere no room changes.
LEMMA ContinueSame ==
  ASSUME Inv1, NEW s \in Slots, Continue(s), req[s].pc \notin ChangePcs
  PROVE  (\A r \in Rooms : Same(r)) /\ copies' = copies
<1>1. HandlerOK(req[s], message) /\ (RoomsAt(s) \/ GroupsAt(s) \/ MessagesAt(s))
  BY HandlerOf, ContinueAt
<1>2. CASE RoomsAt(s)
  <2>1. UNCHANGED <<setting, role, copies>> /\ (OpenShow(s) \/ UNCHANGED member)
    <3>1. RoomsContinue(s) /\ ~CreateSetting(s) /\ ~OrderSetting(s) /\ ~CreateMembers(s)
      BY <1>2 DEF RoomsAt, RoomsContinue, ChangePcs, CreateSetting, OrderSetting, CreateMembers, At
    <3> QED BY <3>1, RoomsFrame
  <2>2. CASE OpenShow(s)
    BY <1>1, <2>1, <2>2, ShownSame DEF OpenShow, At, HandlerOK, RoomPcs
  <2> QED BY <2>1, <2>2, SameWhenUnchanged
<1>3. CASE GroupsAt(s)
  <2>1. /\ GroupsContinue(s) /\ UNCHANGED copies
        /\ SettingsSave(s) \/ UNCHANGED setting
        /\ AwaitAnnounce(s) \/ UNCHANGED member
        /\ RoleSet(s) \/ UNCHANGED role
    <3>1. GroupsContinue(s)
      BY <1>3 DEF GroupsAt, GroupsContinue
    <3>2. /\ ~CreateGroupSetting(s) /\ ~DeleteSetting(s) /\ ~RenameSetting(s) /\ ~BroadcastSetting(s)
          /\ ~CreateGroupMembers(s) /\ ~AddMember(s) /\ ~KickMember(s) /\ ~LeaveMember(s)
          /\ ~DeleteMembers(s) /\ ~RenameMembers(s) /\ ~BroadcastMember(s)
      BY DEF ChangePcs, At, CreateGroupSetting, DeleteSetting, RenameSetting, BroadcastSetting,
         CreateGroupMembers, AddMember, KickMember, LeaveMember, DeleteMembers, RenameMembers,
         BroadcastMember
    <3>3. /\ ~CreateGroupRoles(s) /\ ~AddRole(s) /\ ~KickRole(s) /\ ~LeaveRole(s)
          /\ ~DeleteRoles(s) /\ ~BroadcastCopies(s)
      BY DEF ChangePcs, At, CreateGroupRoles, AddRole, KickRole, LeaveRole, DeleteRoles,
         BroadcastCopies
    <3> QED BY <3>1, <3>2, <3>3, GroupsFrame
  <2>2. CASE SettingsSave(s)
    BY <2>1, <2>2, SettingsSaveSame
  <2>3. CASE RoleSet(s)
    BY <2>1, <2>3, RoleSetSame
  <2>4. CASE AwaitAnnounce(s)
    <3>1. req[s].room \in Rooms /\ UNCHANGED <<setting, role>>
      BY <1>1, <2>4 DEF AwaitAnnounce, At, HandlerOK, RoomPcs
    <3>2. member' = UnDeleted(req[s].room) \/ UNCHANGED member
      BY <2>4 DEF AwaitAnnounce, Announce
    <3> QED BY <2>1, <3>1, <3>2, ShownSame, SameWhenUnchanged
  <2> QED BY <2>1, <2>2, <2>3, <2>4, SameWhenUnchanged
<1>4. CASE MessagesAt(s)
  <2>1. MessagesContinue(s)
    BY <1>4 DEF MessagesAt, MessagesContinue
  <2>2. /\ UNCHANGED <<setting, role, copies>>
        /\ SendUndelete(s) \/ DeletedRoom(s) \/ EnterRead(s) \/ UNCHANGED member
    BY <2>1, MessagesFrame
  <2>3. CASE SendUndelete(s)
    BY <1>1, <2>2, <2>3, ShownSame DEF SendUndelete, At, HandlerOK, RoomPcs, SendPcs
  <2> QED BY <2>2, <2>3, DeletedRoomSame, EnterReadSame, SameWhenUnchanged
<1> QED BY <1>1, <1>2, <1>3, <1>4

LEMMA IdleCalm ==
  ASSUME NEW n, n.pc = "idle"
  PROVE  Calm(n)
BY DEF Calm, BusyPcs, NewPcs, LeavePcs, RenamePcs, BroadcastPcs

LEMMA MovesCalm ==
  ASSUME Inv1, NEW s \in Slots, Moves(s), req[s].pc \notin ChangePcs \cup RelayPcs
  PROVE  Calm(req'[s])
<1> DEFINE h == req[s]
           n == req'[s]
<1>1. HandlerOK(h, message)
  BY HandlerOf
<1>2. CASE Becomes(s, Idle)
  BY <1>2, IdleType, IdleCalm DEF Becomes
<1>3. CASE Kept(h, n) /\ Flow(h, n.pc)
  <2> HIDE DEF h, n
  <2>1. h.pc \notin ChangePcs \cup RelayPcs
    BY DEF h
  <2>2. \/ n.pc \notin BusyPcs
        \/ n.pc = "announce" /\ h.pc = "kick_leave"
    BY <1>3, <2>1 DEF Flow, RoomsFlow, GroupFlow, LeaveFlow, BroadcastFlow, MessageFlow, BusyPcs,
       NewPcs, LeavePcs, RenamePcs, BroadcastPcs, ChangePcs, RelayPcs
  <2>3. h.pc = "kick_leave" => n.next = "idle"
    BY <1>1, <1>3 DEF HandlerOK, KickPcs, Kept
  <2>4. Calm(n)
    BY <2>2, <2>3 DEF Calm
  <2> QED BY <2>4 DEF n
<1> QED BY <1>2, <1>3 DEF Moves

LEMMA ContinueCalm ==
  ASSUME Inv1, NEW s \in Slots, Continue(s), req[s].pc \notin ChangePcs \cup RelayPcs
  PROVE  Calm(req'[s])
<1> DEFINE n == req'[s]
<1>1. Grows /\ (RoomsAt(s) \/ GroupsAt(s) \/ MessagesAt(s))
  BY RoomsGrow, GroupsGrow, MessagesGrow, ContinueAt DEF Continue
<1>2. Moves(s) => Calm(n)
  BY MovesCalm
<1>3. Becomes(s, Idle) => Calm(n)
  BY IdleType, IdleCalm DEF Becomes
<1>4. ASSUME n.pc \in {"ban_sockets", "connect_join", "connect_deliver", "send_create",
                        "send_copies", "send_statuses"}
      PROVE  Calm(n)
  BY <1>4 DEF Calm, BusyPcs, NewPcs, LeavePcs, RenamePcs, BroadcastPcs
<1>5. CASE RoomsAt(s)
  <2>1. \/ BanDelete(s) \/ ConnectRead(s) \/ ConnectDeliver(s)
        \/ HideRoom(s) \/ OpenShow(s) \/ OpenJoin(s) \/ RoomInfo(s) \/ BanCreate(s)
        \/ BanSockets(s) \/ RequestCreate(s) \/ ConnectJoin(s)
    BY <1>5 DEF RoomsAt, ChangePcs, RelayPcs
  <2>2. CASE BanDelete(s) \/ ConnectRead(s)
    BY <1>1, <1>4, <2>2, BanDeleteMoves, ConnectReadMoves
  <2>3. CASE ConnectDeliver(s)
    <3>1. Becomes(s, Idle) \/ n.pc = "connect_deliver"
      BY <1>1, <2>3, ConnectDeliverMoves
    <3> QED BY <1>3, <1>4, <3>1
  <2> QED BY <1>1, <1>2, <2>1, <2>2, <2>3, RoomsMove
<1>6. CASE GroupsAt(s)
  <2>1. \/ JoinGroup(s) \/ GroupHello(s) \/ AddJoin(s) \/ KickLeave(s)
        \/ DeleteMessages(s) \/ SettingsSave(s)
    BY <1>6 DEF GroupsAt, ChangePcs, RelayPcs
  <2> QED BY <1>1, <1>2, <2>1, GroupsMove, LeavesMove
<1>7. CASE MessagesAt(s)
  <2>1. CASE SendCheck(s)
    <3>1. Becomes(s, Idle) \/ n.pc \in {"send_create", "send_copies"}
      BY <1>1, <2>1, SendCheckMoves
    <3> QED BY <1>3, <1>4, <3>1
  <2>2. CASE SendCreate(s)
    <3>1. Becomes(s, Idle) \/ n.pc = "send_statuses"
      BY <2>2, SendCreateMoves
    <3> QED BY <1>3, <1>4, <3>1
  <2> QED BY <1>1, <1>2, <1>7, <2>1, <2>2, MessagesMove DEF MessagesAt
<1> QED BY <1>1, <1>5, <1>6, <1>7

\* A step that changes no room.
LEMMA StaysFit ==
  ASSUME Inv1, NEW s \in Slots, NEW h, NEW n, h = req[s], n = req'[s], Continue(s), Fit(h),
         h.pc \notin ChangePcs, Unfinished(h) \subseteq Unfinished(n),
         (\A r \in Rooms : Same(r)) => Part(n)'
  PROVE  Fit(n)'
<1>1. (\A r \in Rooms : Same(r)) /\ copies' = copies
  BY ContinueSame
<1> QED BY <1>1, NothingChanges DEF ChangePcs

LEMMA NotBroadcast ==
  ASSUME NEW h, h.pc \notin ChangePcs, h.pc \notin {"room_join", "broadcast_join", "broadcast_next",
           "broadcast_note", "broadcast_own"}
  PROVE  Unfinished(h) = {}
BY DEF Unfinished, NewBroadcast, Broadcasting, WorkPcs, ChangePcs, NewPcs, BroadcastPcs

LEMMA CalmFit ==
  ASSUME Inv1, NEW s \in Slots, NEW h, NEW n, h = req[s], n = req'[s], Continue(s), Fit(h),
         h.pc \notin ChangePcs \cup RelayPcs
  PROVE  Fit(n)'
<1>1. Calm(n)
  BY ContinueCalm
<1>2. Unfinished(h) = {}
  BY NotBroadcast DEF RelayPcs
<1>3. Part(n)'
  BY <1>1, CalmParts
<1> QED BY <1>2, <1>3, StaysFit

-----------------------------------------------------------------------------
(* RoomsAreWhole: a member leaves, or the group is deleted *)

LEMMA RelayPart ==
  ASSUME NEW n, n.room \in Rooms, Same(n.room), n.user \in Users, n.pc \in RelayedPcs,
         Leaving(n, "leave_successor") \/ Leaving(n, "leave_role") =>
           Type(n.room) = "g" /\ IsMember(n.room, n.user),
         Leaving(n, "leave_role") => \E v \in Users \ {n.user} : IsMember(n.room, v),
         Leaving(n, "delete_sockets") \/ Leaving(n, "delete_members") => Type(n.room) = "g"
  PROVE  Part(n)'
<1>1. NewPart(n)' /\ GroupPart(n)' /\ AddPart(n)' /\ KickPart(n)' /\ RenamePart(n)'
  BY DEF RelayedPcs, NewPart, GroupPart, AddPart, KickPart, RenamePart
<1>2. BroadcastPart(n)'
  BY DEF RelayedPcs, BroadcastPart, NewBroadcast, Broadcasting, BroadcastPcs, NewPcs
<1>3. /\ Type(n.room)' = Type(n.room)
      /\ \A u \in Users : IsMember(n.room, u)' <=> IsMember(n.room, u)
  BY SameRoom
<1>4. LeavePart(n)'
  BY <1>3 DEF RelayedPcs, LeavePart, Leaving
<1>5. DeletePart(n)'
  BY <1>3 DEF RelayedPcs, DeletePart, Leaving
<1> QED BY <1>1, <1>2, <1>4, <1>5 DEF Part

LEMMA LeaveRelay ==
  ASSUME Inv1, NEW s \in Slots, NEW h, NEW n, h = req[s], n = req'[s], Continue(s), Fit(h),
         h.pc \in {"announce", "role_set", "leave_socket", "leave_successor", "delete_sockets"}
  PROVE  Fit(n)'
<1>1. HandlerOK(h, message) /\ (RoomsAt(s) \/ GroupsAt(s) \/ MessagesAt(s)) /\ Grows
  BY HandlerOf, ContinueAt, RoomsGrow, GroupsGrow, MessagesGrow DEF Continue
<1>2. h.room \in Rooms /\ h.user \in Users
  BY <1>1 DEF HandlerOK, RoomPcs, LeavePcs, DeletePcs
<1>3. Unfinished(h) = {} /\ h.pc \notin ChangePcs
  BY NotBroadcast DEF ChangePcs
<1>4. LeavePart(h) /\ DeletePart(h) /\ Whole(h.room)
  BY <1>2, <1>3 DEF Fit, Part
<1>5. SUFFICES ASSUME \A r \in Rooms : Same(r)
               PROVE  Part(n)'
  BY <1>3, StaysFit
<1>6. ASSUME n.pc = "idle"
      PROVE  Part(n)'
  BY <1>6, IdleCalm, CalmParts
<1>7. ASSUME Goto(s, h.next), Calm(n) \/ h.next \in RelayedPcs,
             h.pc \in {"announce", "role_set", "leave_socket"}
      PROVE  Part(n)'
  <2>1. n.pc = h.next /\ Kept(h, n)
    BY <1>7, GoesTo
  <2>2. CASE h.next \in RelayedPcs
    BY <1>2, <1>4, <1>5, <1>7, <2>1, <2>2, RelayPart
       DEF LeavePart, DeletePart, Leaving, Kept, RelayedPcs
  <2> QED BY <1>7, <2>2, CalmParts
<1>8. CASE h.pc = "announce"
  <2>1. AwaitAnnounce(s) /\ h.next \in {"idle", "leave_role", "delete_sockets"}
    BY <1>1, <1>8 DEF RoomsAt, GroupsAt, MessagesAt, HandlerOK
  <2>2. Return(s) \/ (Goto(s, h.next) /\ h.next # "idle")
    BY <2>1 DEF AwaitAnnounce, Proceed
  <2>3. Return(s) => n.pc = "idle"
    BY GoesTo
  <2> QED BY <1>6, <1>7, <1>8, <2>1, <2>2, <2>3 DEF RelayedPcs
<1>9. CASE h.pc = "leave_socket"
  <2>1. LeaveSocket(s) /\ h.next \in {"idle", "leave_role", "leave_successor", "delete_members"}
    BY <1>1, <1>9 DEF RoomsAt, GroupsAt, MessagesAt, HandlerOK
  <2>2. Goto(s, h.next)
    BY <2>1 DEF LeaveSocket
  <2>3. n.pc = h.next
    BY <2>2, GoesTo
  <2> QED BY <1>6, <1>7, <1>9, <2>1, <2>2, <2>3 DEF RelayedPcs
<1>10. CASE h.pc = "role_set"
  <2>1. RoleSet(s)
    BY <1>1, <1>10 DEF RoomsAt, GroupsAt, MessagesAt
  <2>2. h.next \in {"idle", "leave_role"}
    BY <1>1, <1>10 DEF HandlerOK
  <2>3. \/ Goto(s, "announce")
        \/ Return(s) \/ (Goto(s, h.next) /\ h.next # "idle")
    BY <2>1 DEF RoleSet, Proceed
  <2>4. CASE Goto(s, "announce")
    <3>1. n.pc = "announce" /\ Kept(h, n)
      BY <2>4, GoesTo
    <3> QED BY <1>2, <1>4, <1>5, <1>10, <2>2, <3>1, RelayPart
            DEF LeavePart, DeletePart, Leaving, Kept, RelayedPcs
  <2>5. Return(s) => n.pc = "idle"
    BY GoesTo
  <2> QED BY <1>6, <1>7, <1>10, <2>2, <2>3, <2>4, <2>5 DEF RelayedPcs
<1>11. CASE h.pc = "delete_sockets"
  <2>1. DeleteSockets(s)
    BY <1>1, <1>11 DEF RoomsAt, GroupsAt, MessagesAt
  <2>2. n.pc = "delete_members" /\ Kept(h, n)
    BY <2>1, GoesTo DEF DeleteSockets
  <2> QED BY <1>2, <1>4, <1>5, <1>11, <2>2, RelayPart
          DEF LeavePart, DeletePart, Leaving, Kept, RelayedPcs
<1>12. CASE h.pc = "leave_successor"
  <2>1. LeaveSuccessor(s)
    BY <1>1, <1>12 DEF RoomsAt, GroupsAt, MessagesAt
  <2>2. \/ Becomes(s, Idle)
        \/ /\ n.pc = "role_set" /\ n.user = h.user /\ n.room = h.room /\ n.next = "leave_role"
           /\ n.peer \in GroupMembers(h.room) \ {h.user}
    BY <1>1, <2>1, LeaveSuccessorMoves
  <2>3. CASE Becomes(s, Idle)
    BY <1>6, <2>3, IdleType DEF Becomes
  <2>4. CASE /\ n.pc = "role_set" /\ n.user = h.user /\ n.room = h.room /\ n.next = "leave_role"
             /\ n.peer \in GroupMembers(h.room) \ {h.user}
    <3>1. Type(h.room) = "g" /\ IsMember(h.room, h.user)
      BY <1>4, <1>12 DEF LeavePart, Leaving
    <3>2. n.peer \in Users \ {h.user} /\ role[h.room][n.peer] # <<>> /\ Fits(h.room, n.peer)
      BY <1>4, <2>4 DEF GroupMembers, InGroup, Whole
    <3>3. role[h.room][n.peer] \in Seq(Roles)
      BY <1>2, <3>2 DEF Inv1, Typed
    <3>4. Docs(h.room, n.peer) # 0
      BY <3>2, <3>3 DEF Docs
    <3>5. IsMember(h.room, n.peer)
      BY <3>2, <3>4 DEF Fits, IsMember
    <3> QED BY <1>2, <1>5, <2>4, <3>1, <3>2, <3>5, RelayPart DEF Leaving, RelayedPcs
  <2> QED BY <2>2, <2>3, <2>4
<1> QED BY <1>8, <1>9, <1>10, <1>11, <1>12

-----------------------------------------------------------------------------
(* RoomsAreWhole: a broadcast is made *)

\* What a broadcast in progress relies on stays.
LEMMA BroadcastStays ==
  ASSUME Inv1, NEW h, NEW n, BroadcastPart(h), Broadcasting(h), h.pc # "broadcast_member",
         h.room \in Rooms, h.user \in Users, Same(h.room),
         \A u, v : SingleRooms(u, v) \subseteq SingleRooms(u, v)',
         n.user = h.user, n.room = h.room, n.after = h.after,
         \A c \in n.list : c \in h.list \/ c[2] \in SingleRooms(h.user, c[1]),
         n.pc # "broadcast_member",
         n.pc \in {"broadcast_join", "broadcast_own", "broadcast_setting"} =>
           h.after = "broadcast_own",
         n.pc = "broadcast_note" => n.at \in SingleRooms(n.user, n.peer)
  PROVE  BroadcastPart(n)' /\ (NewBroadcast(h) /\ Broadcasting(n) => NewBroadcast(n))
<1>1. /\ Type(h.room)' = Type(h.room) /\ (Bare(h.room)' <=> Bare(h.room))
      /\ setting'[h.room].cId = setting[h.room].cId
      /\ \A u \in Users : member'[h.room][u].rT = member[h.room][u].rT
  BY SameRoom DEF Same
<1>2. NewBroadcast(n) => NewBroadcast(h)
  BY DEF NewBroadcast
<1>3. NewBroadcast(n) => /\ Type(h.room)' = "none" /\ Bare(h.room)'
                         /\ \A u \in Users : member'[h.room][u].rT = IF u = h.user THEN "b" ELSE "none"
  BY <1>1, <1>2 DEF BroadcastPart
<1>4. /\ n.after = "broadcast_copies" => Type(h.room)' = "b" /\ setting'[h.room].cId = h.user
      /\ \A c \in n.list : c[2] \in SingleRooms(h.user, c[1])'
  BY <1>1 DEF BroadcastPart
<1>5. n.pc = "broadcast_note" => n.at \in SingleRooms(n.user, n.peer)'
  OBVIOUS
<1> QED BY <1>3, <1>4, <1>5 DEF BroadcastPart, NewBroadcast

\* A broadcast goes on to one of these.
LEMMA BroadcastGoes ==
  ASSUME Inv1, NEW s \in Slots, NEW h, NEW n, h = req[s], n = req'[s], Continue(s), Fit(h),
         h.pc \notin ChangePcs, Broadcasting(h), h.room \in Rooms, h.user \in Users,
         n.user = h.user, n.room = h.room, n.after = h.after, Broadcasting(n),
         \A c \in n.list : c \in h.list \/ c[2] \in SingleRooms(h.user, c[1]),
         n.pc \notin {"broadcast_member", "order_setting", "room_members", "room_join"},
         n.pc \in {"broadcast_join", "broadcast_own", "broadcast_setting"} =>
           h.after = "broadcast_own",
         n.pc = "broadcast_note" => n.at \in SingleRooms(n.user, n.peer),
         n.pc = "room_setting" => /\ n.at \in Fresh /\ n.at # n.room
                                  /\ SingleRooms(n.user, n.peer) = {}
  PROVE  Fit(n)'
<1>1. BroadcastPart(h) /\ h.pc # "broadcast_member"
  BY DEF Fit, Part, ChangePcs
<1>2. Unfinished(h) \subseteq Unfinished(n)
  <2>1. Unfinished(h) = {} \/ NewBroadcast(h)
    BY DEF Unfinished, ChangePcs, WorkPcs
  <2>2. Unfinished(h) \subseteq {h.room}
    BY DEF Unfinished, ChangePcs
  <2>3. NewBroadcast(h) => NewBroadcast(n)
    BY DEF NewBroadcast
  <2> QED BY <2>1, <2>2, <2>3 DEF Unfinished
<1>3. SUFFICES ASSUME \A r \in Rooms : Same(r)
               PROVE  Part(n)'
  BY <1>2, StaysFit
<1>4. \A u, v : SingleRooms(u, v)' = SingleRooms(u, v)
  BY <1>3, IdsKept DEF Same, Ids
<1>5. BroadcastPart(n)'
  BY <1>1, <1>3, <1>4, BroadcastStays
<1>6. n.pc \in {"room_setting"} \cup BroadcastPcs
  BY DEF Broadcasting, NewPcs
<1>7. NewPart(n)'
  <2>1. n.pc = "room_setting" => Type(n.at)' = "none" /\ SingleRooms(n.user, n.peer)' = {}
    <3>1. HAVE n.pc = "room_setting"
    <3>2. n.at \in Rooms /\ setting[n.at].rT = "none"
      BY <3>1, Settings0 DEF Fresh
    <3> QED BY <1>3, <1>4, <3>1, <3>2, SameRoom DEF Type
  <2> QED BY <1>6, <2>1 DEF NewPart, BroadcastPcs
<1>8. GroupPart(n)' /\ AddPart(n)' /\ KickPart(n)' /\ RenamePart(n)'
  BY <1>6 DEF GroupPart, AddPart, KickPart, RenamePart, BroadcastPcs
<1>9. LeavePart(n)' /\ DeletePart(n)'
  BY <1>6 DEF LeavePart, DeletePart, Leaving, BroadcastPcs
<1> QED BY <1>5, <1>7, <1>8, <1>9 DEF Part

LEMMA BroadcastRelay ==
  ASSUME Inv1, NEW s \in Slots, NEW h, NEW n, h = req[s], n = req'[s], Continue(s), Fit(h),
         h.pc \in {"room_join", "broadcast_join", "broadcast_next", "broadcast_note",
                   "broadcast_own"}
  PROVE  Fit(n)'
<1>1. HandlerOK(h, message) /\ (RoomsAt(s) \/ GroupsAt(s) \/ MessagesAt(s)) /\ Grows
  BY HandlerOf, ContinueAt, RoomsGrow, GroupsGrow, MessagesGrow DEF Continue
<1>2. h.pc \notin ChangePcs /\ BroadcastPart(h) /\ h.user \in Users
  BY <1>1 DEF ChangePcs, Fit, Part, HandlerOK
<1>3. Broadcasting(h) => h.room \in Rooms /\ h.after \in {"broadcast_own", "broadcast_copies"}
  BY <1>1 DEF HandlerOK
<1>4. CASE h.pc = "room_join"
  <2>1. JoinMembers(s) /\ h.next \in {"idle", "request_create", "broadcast_note"}
    BY <1>1, <1>4 DEF RoomsAt, GroupsAt, MessagesAt, HandlerOK, NewPcs
  <2>2. \/ Return(s)
        \/ Goto(s, h.next) /\ h.next # "idle"
    BY <2>1 DEF JoinMembers
  <2>3. n.pc = h.next /\ (h.next # "idle" => Kept(h, n))
    BY <2>1, <2>2, GoesTo DEF JoinMembers
  <2>4. CASE h.next = "broadcast_note"
    <3>1. Broadcasting(h) /\ h.at \in Rooms
      BY <1>1, <1>4, <2>4 DEF Broadcasting, NewPcs, HandlerOK, AtPcs
    <3>2. Type(h.at) = "s" /\ Both(h.at, h.user, h.peer)
      BY <1>4, <2>4 DEF Fit, Part, NewPart
    <3>3. h.at \in SingleRooms(h.user, h.peer)
      BY <3>1, <3>2 DEF SingleRooms, Type, Both
    <3>4. Broadcasting(n) /\ n.pc = "broadcast_note"
      BY <2>3, <2>4 DEF Broadcasting, BroadcastPcs
    <3> QED BY <1>2, <1>3, <2>3, <2>4, <3>1, <3>3, <3>4, BroadcastGoes DEF Kept
  <2>5. CASE h.next # "broadcast_note"
    <3>1. Calm(n)
      BY <2>1, <2>3, <2>5 DEF Calm, BusyPcs, NewPcs, LeavePcs, RenamePcs, BroadcastPcs
    <3>2. Unfinished(h) = {}
      BY <1>4, <2>5 DEF Unfinished, NewBroadcast, Broadcasting, WorkPcs, BroadcastPcs
    <3>3. Part(n)'
      BY <3>1, CalmParts
    <3> QED BY <1>2, <3>2, <3>3, StaysFit
  <2> QED BY <2>4, <2>5
<1>5. ASSUME NEW pc \in BroadcastPcs \ {"broadcast_member", "broadcast_note"}, Goto(s, pc),
             h.pc \in BroadcastPcs,
             pc \in {"broadcast_join", "broadcast_own", "broadcast_setting"} =>
               h.after = "broadcast_own"
      PROVE  Fit(n)'
  <2>1. n.pc = pc /\ Kept(h, n)
    BY <1>5, GoesTo
  <2>2. Broadcasting(h) /\ Broadcasting(n)
    BY <1>5, <2>1 DEF Broadcasting
  <2>3. n.pc \notin {"broadcast_member", "order_setting", "room_members", "room_join",
                     "broadcast_note", "room_setting"}
    BY <1>5, <2>1 DEF BroadcastPcs
  <2> QED BY <1>2, <1>3, <1>5, <2>1, <2>2, <2>3, BroadcastGoes DEF Kept
<1>6. CASE h.pc = "broadcast_join"
  <2>1. Goto(s, "broadcast_next")
    BY <1>1, <1>6 DEF RoomsAt, GroupsAt, MessagesAt, BroadcastJoin
  <2> QED BY <1>5, <1>6, <2>1 DEF BroadcastPcs
<1>7. CASE h.pc = "broadcast_own"
  <2>1. Goto(s, "broadcast_copies")
    BY <1>1, <1>7 DEF RoomsAt, GroupsAt, MessagesAt, BroadcastOwn
  <2> QED BY <1>5, <1>7, <2>1 DEF BroadcastPcs
<1>8. CASE h.pc = "broadcast_note"
  <2>1. BroadcastNote(s)
    BY <1>1, <1>8 DEF RoomsAt, GroupsAt, MessagesAt
  <2>2. /\ n.pc = "broadcast_next" /\ KeptBroadcast(h, n)
        /\ n.list = h.list \cup {<<h.peer, h.at>>}
    BY <1>1, <2>1, BroadcastNoteMoves
  <2>3. h.at \in SingleRooms(h.user, h.peer)
    BY <1>2, <1>8 DEF BroadcastPart
  <2>4. Broadcasting(h) /\ Broadcasting(n)
    BY <1>8, <2>2 DEF Broadcasting, BroadcastPcs
  <2> QED BY <1>2, <1>3, <2>2, <2>3, <2>4, BroadcastGoes DEF KeptBroadcast
<1>9. CASE h.pc = "broadcast_next"
  <2>1. BroadcastNext(s) /\ Broadcasting(h)
    BY <1>1, <1>9 DEF RoomsAt, GroupsAt, MessagesAt, Broadcasting, BroadcastPcs
  <2>2. \/ n.pc = h.after /\ Kept(h, n)
        \/ /\ KeptBroadcast(h, n) /\ n.list = h.list
           /\ \/ n.pc = "broadcast_next"
              \/ n.pc = "broadcast_note" /\ n.at \in SingleRooms(h.user, n.peer)
              \/ /\ n.pc = "room_setting" /\ n.next = "broadcast_note" /\ n.at \in Fresh
                 /\ SingleRooms(h.user, n.peer) = {}
    BY <1>1, <2>1, BroadcastNextMoves
  <2>3. CASE n.pc = h.after /\ Kept(h, n)
    <3>1. Broadcasting(n)
      BY <1>3, <2>1, <2>3 DEF Broadcasting, BroadcastPcs
    <3> QED BY <1>2, <1>3, <2>1, <2>3, <3>1, BroadcastGoes DEF Kept
  <2>4. CASE /\ KeptBroadcast(h, n) /\ n.list = h.list
             /\ \/ n.pc = "broadcast_next"
                \/ n.pc = "broadcast_note" /\ n.at \in SingleRooms(h.user, n.peer)
                \/ /\ n.pc = "room_setting" /\ n.next = "broadcast_note" /\ n.at \in Fresh
                   /\ SingleRooms(h.user, n.peer) = {}
    <3>1. Broadcasting(n)
      BY <2>4 DEF Broadcasting, BroadcastPcs, NewPcs
    <3>2. n.at \in Fresh => n.at # n.room
      BY <2>4 DEF Fresh, KeptBroadcast
    <3> QED BY <1>2, <1>3, <2>1, <2>4, <3>1, <3>2, BroadcastGoes DEF KeptBroadcast
  <2> QED BY <2>2, <2>3, <2>4
<1> QED BY <1>4, <1>6, <1>7, <1>8, <1>9

-----------------------------------------------------------------------------
(* RoomsAreWhole: one room is written *)

\* Only what a place relies on has to be shown there.
LEMMA PartOf ==
  ASSUME NEW n
  PROVE  /\ n.pc \in {"group_roles", "group_setting"} /\ GroupPart(n)' => Part(n)'
         /\ n.pc = "add_member" /\ AddPart(n)' => Part(n)'
         /\ n.pc = "kick_member" /\ KickPart(n)' => Part(n)'
         /\ n.pc = "leave_member" /\ LeavePart(n)' => Part(n)'
         /\ n.pc \in {"delete_roles", "delete_setting"} /\ DeletePart(n)' => Part(n)'
         /\ n.pc = "rename_setting" /\ RenamePart(n)' => Part(n)'
         /\ n.pc \in {"broadcast_join", "broadcast_setting"} /\ BroadcastPart(n)' => Part(n)'
         /\ n.pc \in {"room_members", "room_join"} /\ NewPart(n)' /\ BroadcastPart(n)' => Part(n)'
<1> DEFINE Pcs == {"group_roles", "group_setting", "add_member", "kick_member", "leave_member",
                   "delete_roles", "delete_setting", "rename_setting", "broadcast_join",
                   "broadcast_setting", "room_members", "room_join"}
<1>1. ASSUME n.pc \in Pcs
      PROVE  /\ n.pc \notin {"room_members", "room_join"} => NewPart(n)'
             /\ n.pc \notin {"group_roles", "group_setting"} => GroupPart(n)'
             /\ n.pc # "add_member" => AddPart(n)'
             /\ n.pc # "kick_member" => KickPart(n)'
  BY <1>1 DEF NewPart, GroupPart, AddPart, KickPart
<1>2. ASSUME n.pc \in Pcs
      PROVE  /\ n.pc # "leave_member" => LeavePart(n)'
             /\ n.pc \notin {"delete_roles", "delete_setting"} => DeletePart(n)'
             /\ n.pc # "rename_setting" => RenamePart(n)'
  BY <1>2 DEF LeavePart, DeletePart, RenamePart, Leaving
<1>3. ASSUME n.pc \in Pcs
      PROVE  n.pc \notin {"broadcast_join", "broadcast_setting", "room_members", "room_join"}
               => BroadcastPart(n)'
  BY <1>3 DEF BroadcastPart, NewBroadcast, Broadcasting, BroadcastPcs, NewPcs
<1> QED BY <1>1, <1>2, <1>3 DEF Part

LEMMA OneUnfinished ==
  ASSUME NEW h, h.pc \in ChangePcs
  PROVE  /\ h.pc # "room_members" => Unfinished(h) \subseteq {h.room}
         /\ h.pc = "room_members" => Unfinished(h) \subseteq {h.at, h.room}
         /\ h.pc \in {"group_members", "add_role", "kick_role", "leave_role", "delete_members",
                      "rename_members", "broadcast_member"} => Unfinished(h) = {}
         /\ h.pc \in WorkPcs /\ h.room \in Rooms => h.room \in Unfinished(h)
BY DEF ChangePcs, Unfinished, NewBroadcast, Broadcasting, WorkPcs, BroadcastPcs, NewPcs

\* The documents of room x are written, its settings stay.
LEMMA DocsChange ==
  ASSUME Inv1, NEW h, NEW n, NEW x \in Rooms, Fit(h), UNCHANGED <<setting, copies>>,
         h.pc # "broadcast_setting", \A r \in Rooms \ {x} : Same(r),
         Unfinished(h) \subseteq Unfinished(n) \cup {x}, Whole(x)' \/ x \in Unfinished(n), Part(n)'
  PROVE  Fit(n)'
<1>1. \A r \in Rooms : Ids(r)
  BY DEF Ids
<1>2. OneSingle' /\ \A c \in copies' : Owned(c, n)'
  BY <1>1, IdsKept, CopiesOwned DEF Fit
<1> QED BY <1>2, RoomChanges

LEMMA UserSame ==
  ASSUME NEW r, NEW u, UNCHANGED setting, member'[r][u] = member[r][u], role'[r][u] = role[r][u]
  PROVE  /\ Fits(r, u)' <=> Fits(r, u)
         /\ IsMember(r, u)' <=> IsMember(r, u)
         /\ Docs(r, u)' = Docs(r, u)
BY DEF Fits, IsMember, Docs, Titled

\* The documents of one user of room x, or of all.
LEMMA PutRole ==
  ASSUME Inv1, NEW r \in Rooms, NEW u \in Users, NEW d, role' = [role EXCEPT ![r][u] = d]
  PROVE  /\ role'[r][u] = d
         /\ \A q \in Rooms, v \in Users : q # r \/ v # u => role'[q][v] = role[q][v]
BY DEF Inv1, Typed

LEMMA OthersSame ==
  ASSUME NEW x \in Rooms, UNCHANGED setting,
         \A q \in Rooms \ {x}, v \in Users : /\ member'[q][v] = member[q][v]
                                             /\ role'[q][v] = role[q][v]
  PROVE  \A q \in Rooms \ {x} : Same(q)
BY DEF Same

\* The number of roles of a user.
LEMMA RoleDocs ==
  ASSUME Inv1, NEW r \in Rooms, NEW u \in Users
  PROVE  /\ Docs(r, u) \in Nat /\ Len(Append(role[r][u], "member")) = Docs(r, u) + 1
         /\ Docs(r, u) = 1 => role[r][u] # <<>> /\ Len(Tail(role[r][u])) = 0
<1>1. role[r][u] \in Seq(Roles)
  BY DEF Inv1, Typed
<1> DEFINE q == role[r][u]
<1> HIDE DEF q
<1>2. q \in Seq(Roles)
  BY <1>1 DEF q
<1>3. Len(q) \in Nat
  BY <1>2
<1>4. \A e : Len(Append(q, e)) = Len(q) + 1
  BY <1>2
<1>5. Len(q) = 1 => q # <<>> /\ Len(Tail(q)) = 0
  BY <1>2
<1> QED BY <1>3, <1>4, <1>5 DEF Docs, q

-----------------------------------------------------------------------------
(* RoomsAreWhole: a group is made *)

LEMMA GroupMembersFit ==
  ASSUME Inv1, NEW s \in Slots, NEW h, NEW n, h = req[s], n = req'[s], Fit(h), CreateGroupMembers(s)
  PROVE  Fit(n)'
<1> DEFINE x == h.room
           f == [v \in Users |-> IF v \in h.list THEN Member("g") ELSE member[x][v]]
<1>1. h.pc = "group_members" /\ n.pc = "group_roles" /\ Kept(h, n)
  BY GoesTo DEF CreateGroupMembers, At
<1>2. x \in Rooms
  BY <1>1, HandlerOf DEF HandlerOK, RoomPcs, GroupPcs
<1>3. Unfinished(h) = {} /\ x \in Unfinished(n)
  BY <1>1, <1>2, OneUnfinished DEF ChangePcs, Unfinished, WorkPcs, Kept
<1>4. Whole(x) /\ Type(x) = "none" /\ h.user \in h.list
  BY <1>1, <1>2, <1>3 DEF Fit, Part, GroupPart
<1>5. member' = [member EXCEPT ![x] = f] /\ UNCHANGED <<setting, role, copies>>
  BY <1>2 DEF CreateGroupMembers, Inv1, Typed
<1> HIDE DEF f
<1>6. (\A v \in Users : member'[x][v] = f[v]) /\ \A q \in Rooms \ {x} : member'[q] = member[q]
  BY <1>2, <1>5, PutDocs
<1>7. \A q \in Rooms \ {x} : Same(q)
  BY <1>2, <1>5, <1>6, OthersSame
<1>8. /\ Member("g").rT = "g" /\ Member("g").t = "old" /\ Member("g").img = "old"
  BY NewDocs DEF RoomTypes
<1>9. \A u \in Users : member[x][u].rT = "none" /\ Docs(x, u) = 0
  BY <1>4 DEF Whole, Fits, Type
<1>10. \A u \in Users : /\ member'[x][u].rT = IF u \in h.list THEN "g" ELSE "none"
                        /\ u \in h.list => member'[x][u].t = "old" /\ member'[x][u].img = "old"
                        /\ Docs(x, u)' = 0
  BY <1>5, <1>6, <1>8, <1>9 DEF f, Docs
<1>11. Type(x)' = "none"
  BY <1>4, <1>5 DEF Type
<1>12. Part(n)'
  BY <1>1, <1>4, <1>10, <1>11, PartOf DEF GroupPart, Kept
<1> QED BY <1>1, <1>2, <1>3, <1>5, <1>7, <1>12, DocsChange

LEMMA GroupRolesFit ==
  ASSUME Inv1, NEW s \in Slots, NEW h, NEW n, h = req[s], n = req'[s], Fit(h), CreateGroupRoles(s)
  PROVE  Fit(n)'
<1> DEFINE x == h.room
           f == [v \in Users |-> IF v = h.user THEN <<"superAdmin">>
                                 ELSE IF v \in h.list THEN <<"member">> ELSE role[x][v]]
<1>1. h.pc = "group_roles" /\ n.pc = "group_setting" /\ Kept(h, n)
  BY GoesTo DEF CreateGroupRoles, At
<1>2. x \in Rooms
  BY <1>1, HandlerOf DEF HandlerOK, RoomPcs, GroupPcs
<1>3. Unfinished(h) \subseteq {x} /\ x \in Unfinished(n)
  BY <1>1, <1>2, OneUnfinished DEF ChangePcs, Unfinished, WorkPcs, Kept
<1>4. GroupPart(h)
  BY DEF Fit, Part
<1>5. role' = [role EXCEPT ![x] = f] /\ UNCHANGED <<setting, member, copies>>
  BY <1>2 DEF CreateGroupRoles, Inv1, Typed
<1> HIDE DEF f
<1>6. (\A v \in Users : role'[x][v] = f[v]) /\ \A q \in Rooms \ {x} : role'[q] = role[q]
  BY <1>2, <1>5 DEF Inv1, Typed
<1>7. \A q \in Rooms \ {x} : Same(q)
  BY <1>2, <1>5, <1>6, OthersSame
<1>8. \A u \in Users : Docs(x, u)' = IF u \in h.list THEN 1 ELSE 0
  <2>1. Len(<<"superAdmin">>) = 1 /\ Len(<<"member">>) = 1
    OBVIOUS
  <2>2. \A u \in Users : /\ u \notin h.list => Len(role[x][u]) = 0
                         /\ u = h.user => u \in h.list
    BY <1>1, <1>4 DEF Docs, GroupPart
  <2>3. \A u \in Users : Len(f[u]) = IF u \in h.list THEN 1 ELSE 0
    BY <2>1, <2>2 DEF f
  <2> QED BY <1>6, <2>3 DEF Docs
<1>9. Type(x)' = "none" /\ h.user \in h.list
  BY <1>1, <1>4, <1>5 DEF Type, GroupPart
<1>10. \A u \in Users : /\ member'[x][u].rT = IF u \in h.list THEN "g" ELSE "none"
                        /\ u \in h.list => member'[x][u].t = "old" /\ member'[x][u].img = "old"
  BY <1>1, <1>4, <1>5 DEF GroupPart
<1>11. Part(n)'
  BY <1>1, <1>8, <1>9, <1>10, PartOf DEF GroupPart, Kept
<1> QED BY <1>1, <1>2, <1>3, <1>5, <1>7, <1>11, DocsChange

\* The settings of room x are written; it is neither a room of two nor a broadcast.
LEMMA KindChange ==
  ASSUME Inv1, NEW h, NEW n, NEW x \in Rooms, Fit(h), copies' = copies,
         h.pc # "broadcast_setting", \A r \in Rooms \ {x} : Same(r),
         Type(x) \notin {"s", "b"}, Type(x)' # "s",
         Unfinished(h) \subseteq Unfinished(n) \cup {x}, Whole(x)' \/ x \in Unfinished(n), Part(n)'
  PROVE  Fit(n)'
<1>1. \A r \in Rooms \ {x} : Ids(r)
  BY DEF Same, Ids
<1>2. OneSingle'
  BY <1>1 DEF Fit, OneSingle, Ids, Type
<1>3. \A u, v : SingleRooms(u, v)' = SingleRooms(u, v)
  BY <1>1 DEF SingleRooms, Ids, Type
<1>4. ASSUME NEW c \in copies
      PROVE  Owned(c, n)'
  <2>1. c[1] \in Rooms /\ Type(c[1]) = "b" /\ c[3] \in SingleRooms(setting[c[1]].cId, c[2])
    BY DEF Fit, Owned, Inv1, Typed, CopyDocs
  <2>2. Ids(c[1])
    BY <1>1, <2>1
  <2> QED BY <1>3, <2>1, <2>2 DEF Owned, Ids, Type
<1> QED BY <1>2, <1>4, RoomChanges

LEMMA GroupSettingFit ==
  ASSUME Inv1, NEW s \in Slots, NEW h, NEW n, h = req[s], n = req'[s], Fit(h), CreateGroupSetting(s)
  PROVE  Fit(n)'
<1> DEFINE x == h.room
           d == Setting("g", h.user, NoUser)
<1>1. h.pc = "group_setting" /\ n.pc = "group_join" /\ Kept(h, n)
  BY GoesTo DEF CreateGroupSetting, At
<1>2. x \in Rooms /\ h.user \in Users
  BY <1>1, HandlerOf DEF HandlerOK, RoomPcs, GroupPcs
<1>3. Unfinished(h) \subseteq {x}
  BY <1>1, OneUnfinished DEF ChangePcs
<1>4. GroupPart(h)
  BY DEF Fit, Part
<1>5. setting' = [setting EXCEPT ![x] = d] /\ UNCHANGED <<member, role, copies>>
  BY DEF CreateGroupSetting
<1>6. d.rT = "g" /\ d.cId = h.user /\ d.t = "old" /\ d.img = "old"
  BY <1>2, SettingType DEF RoomTypes
<1> HIDE DEF d
<1>7. setting'[x] = d /\ \A q \in Rooms \ {x} : setting'[q] = setting[q]
  BY <1>2, <1>5 DEF Inv1, Typed
<1>8. \A q \in Rooms \ {x} : Same(q)
  BY <1>5, <1>7 DEF Same
<1>9. \A u \in Users : /\ member[x][u].rT = IF u \in h.list THEN "g" ELSE "none"
                       /\ u \in h.list => member[x][u].t = "old" /\ member[x][u].img = "old"
                       /\ Docs(x, u) = IF u \in h.list THEN 1 ELSE 0
  BY <1>1, <1>4 DEF GroupPart
<1>10. \A u \in Users : Fits(x, u)'
  BY <1>5, <1>6, <1>7, <1>9 DEF Fits, Docs, Titled
<1>11. ~Nobody(x)'
  BY <1>1, <1>2, <1>4, <1>5, <1>9 DEF GroupPart, Nobody, IsMember
<1>12. Type(x) = "none" /\ Type(x)' = "g"
  BY <1>1, <1>4, <1>6, <1>7 DEF GroupPart, Type
<1>13. Whole(x)'
  BY <1>10, <1>11, <1>12 DEF Whole
<1>14. Part(n)'
  BY <1>1, CalmParts DEF Calm, BusyPcs, NewPcs, LeavePcs, RenamePcs, BroadcastPcs
<1> QED BY <1>1, <1>2, <1>3, <1>5, <1>8, <1>12, <1>13, <1>14, KindChange

-----------------------------------------------------------------------------
(* RoomsAreWhole: a member is added *)

\* The roles of user u of room x are written: x is to be finished.
LEMMA RoleWritten ==
  ASSUME Inv1, NEW h, NEW n, NEW x \in Rooms, NEW u \in Users, NEW d, Fit(h),
         Unfinished(h) = {}, h.pc # "broadcast_setting", x \in Unfinished(n),
         role' = [role EXCEPT ![x][u] = d], UNCHANGED <<setting, member, copies>>, Part(n)'
  PROVE  Fit(n)'
<1>1. \A q \in Rooms, v \in Users : q # x \/ v # u => role'[q][v] = role[q][v]
  BY PutRole
<1>2. \A q \in Rooms \ {x} : Same(q)
  BY <1>1, OthersSame
<1> QED BY <1>2, DocsChange

\* What becomes of the others.
LEMMA OthersStay ==
  ASSUME Inv1, NEW x \in Rooms, NEW u \in Users, UNCHANGED setting,
         \A v \in Users : v # u => member'[x][v] = member[x][v] /\ role'[x][v] = role[x][v]
  PROVE  \A v \in Users \ {u} : /\ Fits(x, v)' <=> Fits(x, v)
                                /\ IsMember(x, v)' <=> IsMember(x, v)
BY UserSame

LEMMA AddRoleFit ==
  ASSUME Inv1, NEW s \in Slots, NEW h, NEW n, h = req[s], n = req'[s], Fit(h), AddRole(s)
  PROVE  Fit(n)'
<1> DEFINE x == h.room
           u == h.peer
           d == Append(role[x][u], "member")
<1>1. h.pc = "add_role" /\ n.pc = "add_member" /\ Kept(h, n)
  BY GoesTo DEF AddRole, At
<1>2. /\ u \in Users /\ x \in Rooms /\ role' = [role EXCEPT ![x][u] = d]
      /\ UNCHANGED <<setting, member, copies>>
  BY RoleWrites DEF AddRole
<1>3. Unfinished(h) = {} /\ x \in Unfinished(n)
  BY <1>1, <1>2, OneUnfinished DEF ChangePcs, Unfinished, WorkPcs, Kept
<1>4. Whole(x) /\ AddPart(h)
  BY <1>2, <1>3 DEF Fit, Part
<1>5. role'[x][u] = d /\ \A v \in Users : v # u => role'[x][v] = role[x][v]
  <2> HIDE DEF d
  <2>1. /\ role'[x][u] = d
        /\ \A q \in Rooms, v \in Users : q # x \/ v # u => role'[q][v] = role[q][v]
    BY <1>2 DEF Inv1, Typed
  <2> QED BY <1>2, <2>1 DEF d
<1>6. \A v \in Users \ {u} : Fits(x, v)'
  BY <1>2, <1>4, <1>5, OthersStay DEF Whole
<1>7. Docs(x, u) = 0 /\ Type(x) = "g" /\ ~IsMember(x, u)
  BY <1>1, <1>2, <1>4 DEF Whole, Fits, AddPart, IsMember
<1>8. Docs(x, u)' = 1
  BY <1>2, <1>5, <1>7, RoleDocs DEF Docs
<1>9. Type(x)' = "g" /\ ~IsMember(x, u)' /\ setting'[x] = setting[x]
  BY <1>2, <1>7 DEF Type, IsMember
<1>10. Part(n)'
  BY <1>1, <1>4, <1>6, <1>8, <1>9, PartOf DEF AddPart, Kept
<1> QED BY <1>1, <1>2, <1>3, <1>10, RoleWritten

\* The document of user u of room x is written: x is whole again.
LEMMA MemberWritten ==
  ASSUME Inv1, NEW h, NEW n, NEW x \in Rooms, NEW u \in Users, NEW d, Fit(h),
         Unfinished(h) \subseteq {x}, h.pc # "broadcast_setting", Type(x) = "g",
         member' = [member EXCEPT ![x][u] = d], UNCHANGED <<setting, role, copies>>,
         \A v \in Users \ {u} : Fits(x, v),
         \/ d.rT = "g" /\ Docs(x, u) = 1 /\ d.t = setting[x].t /\ d.img = setting[x].img
         \/ d.rT = "none" /\ Docs(x, u) = 0 /\ \E v \in Users \ {u} : IsMember(x, v),
         Calm(n)
  PROVE  Fit(n)'
<1>1. /\ member'[x][u] = d
      /\ \A q \in Rooms, v \in Users : q # x \/ v # u => member'[q][v] = member[q][v]
  BY DEF Inv1, Typed
<1>2. \A q \in Rooms \ {x} : Same(q)
  BY <1>1, OthersSame
<1>3. \A v \in Users \ {u} : Fits(x, v)' /\ (IsMember(x, v)' <=> IsMember(x, v))
  BY <1>1, OthersStay
<1>4. setting'[x].rT = "g" /\ setting' = setting /\ role' = role /\ Docs(x, u)' = Docs(x, u)
  BY DEF Type, Docs
<1>5. Fits(x, u)'
  BY <1>1, <1>4 DEF Fits, Titled
<1>6. ~Nobody(x)'
  BY <1>1, <1>3 DEF Nobody, IsMember
<1>7. Whole(x)'
  BY <1>3, <1>4, <1>5, <1>6 DEF Whole, Type
<1>8. Part(n)'
  BY CalmParts
<1> QED BY <1>2, <1>7, <1>8, DocsChange

LEMMA AddMemberFit ==
  ASSUME Inv1, NEW s \in Slots, NEW h, NEW n, h = req[s], n = req'[s], Fit(h), AddMember(s)
  PROVE  Fit(n)'
<1> DEFINE x == h.room
           u == h.peer
           m == Member("g")
           d == [m EXCEPT !.t = h.seen.t, !.img = h.seen.img]
<1>1. h.pc = "add_member" /\ UNCHANGED <<setting, role, copies>>
  BY DEF AddMember, At
<1>2. x \in Rooms /\ u \in Users
  BY <1>1, HandlerOf DEF HandlerOK, RoomPcs, AddPcs, PeerPcs
<1>3. Unfinished(h) \subseteq {x}
  BY <1>1, OneUnfinished DEF ChangePcs
<1>4. /\ Type(x) = "g" /\ ~IsMember(x, u) /\ h.seen.t = setting[x].t /\ h.seen.img = setting[x].img
      /\ (\A v \in Users \ {u} : Fits(x, v)) /\ Docs(x, u) = 1
  BY <1>1 DEF Fit, Part, AddPart
<1>5. member' = [member EXCEPT ![x][u] = d] /\ n.pc = "add_join"
  BY <1>4, GoesTo DEF AddMember, SetMember
<1>6. m \in MemberDocs /\ m.rT = "g"
  BY MemberType, MessageDoc DEF RoomTypes
<1> HIDE DEF m
<1>7. d.rT = "g" /\ d.t = h.seen.t /\ d.img = h.seen.img
  BY <1>6 DEF MemberDocs
<1> HIDE DEF d
<1>8. Calm(n)
  BY <1>5 DEF Calm, BusyPcs, NewPcs, LeavePcs, RenamePcs, BroadcastPcs
<1>9. d.rT = "g" /\ Docs(x, u) = 1 /\ d.t = setting[x].t /\ d.img = setting[x].img
  BY <1>4, <1>7
<1>10. h.pc # "broadcast_setting" /\ Type(x) = "g" /\ \A v \in Users \ {u} : Fits(x, v)
  BY <1>1, <1>4
<1>11. x \in Rooms /\ u \in Users /\ member' = [member EXCEPT ![x][u] = d]
  BY <1>2, <1>5
<1>12. UNCHANGED <<setting, role, copies>>
  BY <1>1
<1> HIDE DEF x, u
<1> QED BY <1>3, <1>8, <1>9, <1>10, <1>11, <1>12, MemberWritten

-----------------------------------------------------------------------------
(* RoomsAreWhole: a member is kicked, or leaves *)

\* One document is taken from the only role of a user.
LEMMA RoleDropped ==
  ASSUME Inv1, NEW x \in Rooms, NEW u \in Users, Whole(x), Type(x) = "g", IsMember(x, u),
         role' = [role EXCEPT ![x][u] = IF role[x][u] = <<>> THEN role[x][u] ELSE Tail(role[x][u])],
         UNCHANGED <<setting, member>>
  PROVE  /\ \A v \in Users \ {u} : Fits(x, v)'
         /\ Docs(x, u)' = 0 /\ Type(x)' = "g"
         /\ \A v \in Users : IsMember(x, v)' <=> IsMember(x, v)
<1> DEFINE d == IF role[x][u] = <<>> THEN role[x][u] ELSE Tail(role[x][u])
<1>1. role'[x][u] = d /\ \A v \in Users : v # u => role'[x][v] = role[x][v]
  <2>1. role' = [role EXCEPT ![x][u] = d]
    OBVIOUS
  <2> HIDE DEF d
  <2>2. /\ role'[x][u] = d
        /\ \A q \in Rooms, v \in Users : q # x \/ v # u => role'[q][v] = role[q][v]
    BY <2>1 DEF Inv1, Typed
  <2> QED BY <2>2
<1>2. \A v \in Users \ {u} : Fits(x, v)'
  BY <1>1, OthersStay DEF Whole
<1>3. Docs(x, u) = 1
  BY DEF Whole, Fits, IsMember, Type
<1>4. d = Tail(role[x][u]) /\ Len(Tail(role[x][u])) = 0
  BY <1>3, RoleDocs
<1> HIDE DEF d
<1>5. Docs(x, u)' = 0
  BY <1>1, <1>4 DEF Docs
<1> QED BY <1>2, <1>5 DEF Type, IsMember

LEMMA KickRoleFit ==
  ASSUME Inv1, NEW s \in Slots, NEW h, NEW n, h = req[s], n = req'[s], Fit(h), KickRole(s)
  PROVE  Fit(n)'
<1> DEFINE x == h.room
           u == h.peer
           d == IF role[x][u] = <<>> THEN role[x][u] ELSE Tail(role[x][u])
<1>1. h.pc = "kick_role" /\ n.pc = "kick_member" /\ Kept(h, n)
  BY GoesTo DEF KickRole, At
<1>2. /\ u \in Users /\ x \in Rooms /\ role' = [role EXCEPT ![x][u] = d]
      /\ UNCHANGED <<setting, member, copies>>
  BY RoleWrites DEF KickRole
<1>3. Unfinished(h) = {} /\ x \in Unfinished(n) /\ h.user \in Users
  BY <1>1, <1>2, OneUnfinished, HandlerOf
     DEF ChangePcs, Unfinished, WorkPcs, Kept, HandlerOK
<1>4. Whole(x) /\ KickPart(h)
  BY <1>2, <1>3 DEF Fit, Part
<1>5. Type(x) = "g" /\ h.user # u /\ IsMember(x, h.user) /\ IsMember(x, u)
  BY <1>1, <1>4 DEF KickPart
<1>6. /\ \A v \in Users \ {u} : Fits(x, v)'
      /\ Docs(x, u)' = 0 /\ Type(x)' = "g" /\ IsMember(x, h.user)' /\ IsMember(x, u)'
  BY <1>2, <1>3, <1>4, <1>5, RoleDropped
<1>7. Part(n)'
  BY <1>1, <1>5, <1>6, PartOf DEF KickPart, Kept
<1> QED BY <1>1, <1>2, <1>3, <1>7, RoleWritten

LEMMA LeaveRoleFit ==
  ASSUME Inv1, NEW s \in Slots, NEW h, NEW n, h = req[s], n = req'[s], Fit(h), LeaveRole(s)
  PROVE  Fit(n)'
<1> DEFINE x == h.room
           u == h.user
           d == IF role[x][u] = <<>> THEN role[x][u] ELSE Tail(role[x][u])
<1>1. h.pc = "leave_role" /\ n.pc = "leave_member" /\ Kept(h, n)
  BY GoesTo DEF LeaveRole, At
<1>2. /\ u \in Users /\ x \in Rooms /\ role' = [role EXCEPT ![x][u] = d]
      /\ UNCHANGED <<setting, member, copies>>
  BY RoleWrites DEF LeaveRole
<1>3. Unfinished(h) = {} /\ x \in Unfinished(n)
  BY <1>1, <1>2, OneUnfinished DEF ChangePcs, Unfinished, WorkPcs, Kept
<1>4. Whole(x) /\ LeavePart(h)
  BY <1>2, <1>3 DEF Fit, Part
<1>5. Type(x) = "g" /\ IsMember(x, u) /\ \E v \in Users \ {u} : IsMember(x, v)
  BY <1>1, <1>4 DEF LeavePart, Leaving
<1>6. /\ \A v \in Users \ {u} : Fits(x, v)'
      /\ Docs(x, u)' = 0 /\ Type(x)' = "g" /\ IsMember(x, u)'
      /\ \E v \in Users \ {u} : IsMember(x, v)'
  BY <1>2, <1>4, <1>5, RoleDropped
<1>7. Part(n)'
  BY <1>1, <1>6, PartOf DEF LeavePart, Leaving, Kept
<1> QED BY <1>1, <1>2, <1>3, <1>7, RoleWritten

LEMMA KickMemberFit ==
  ASSUME Inv1, NEW s \in Slots, NEW h, NEW n, h = req[s], n = req'[s], Fit(h), KickMember(s)
  PROVE  Fit(n)'
<1> DEFINE x == h.room
           u == h.peer
<1>1. h.pc = "kick_member" /\ n.pc = "kick_leave" /\ UNCHANGED <<setting, role, copies>>
  BY GoesTo DEF KickMember, At
<1>2. x \in Rooms /\ u \in Users /\ h.user \in Users
  BY <1>1, HandlerOf DEF HandlerOK, RoomPcs, KickPcs, PeerPcs
<1>3. Unfinished(h) \subseteq {x}
  BY <1>1, OneUnfinished DEF ChangePcs
<1>4. /\ Type(x) = "g" /\ h.user # u /\ IsMember(x, h.user)
      /\ (\A v \in Users \ {u} : Fits(x, v)) /\ Docs(x, u) = 0
  BY <1>1 DEF Fit, Part, KickPart
<1>5. member' = [member EXCEPT ![x][u] = NoMember] /\ NoMember.rT = "none"
  BY Members0 DEF KickMember, SetMember
<1>6. Calm(n)
  BY <1>1 DEF Calm, BusyPcs, NewPcs, LeavePcs, RenamePcs, BroadcastPcs
<1>7. \E v \in Users \ {u} : IsMember(x, v)
  BY <1>2, <1>4
<1> QED BY <1>1, <1>2, <1>3, <1>4, <1>5, <1>6, <1>7, MemberWritten

LEMMA LeaveMemberFit ==
  ASSUME Inv1, NEW s \in Slots, NEW h, NEW n, h = req[s], n = req'[s], Fit(h), LeaveMember(s)
  PROVE  Fit(n)'
<1> DEFINE x == h.room
           u == h.user
<1>1. h.pc = "leave_member" /\ n.pc = "idle" /\ UNCHANGED <<setting, role, copies>>
  BY GoesTo DEF LeaveMember, At
<1>2. x \in Rooms /\ u \in Users
  BY <1>1, HandlerOf DEF HandlerOK, RoomPcs, LeavePcs
<1>3. Unfinished(h) \subseteq {x}
  BY <1>1, OneUnfinished DEF ChangePcs
<1>4. /\ Type(x) = "g" /\ \E v \in Users \ {u} : IsMember(x, v)
      /\ (\A v \in Users \ {u} : Fits(x, v)) /\ Docs(x, u) = 0
  BY <1>1 DEF Fit, Part, LeavePart
<1>5. member' = [member EXCEPT ![x][u] = NoMember] /\ NoMember.rT = "none"
  BY Members0 DEF LeaveMember, SetMember
<1>6. Calm(n)
  BY <1>1, IdleCalm
<1> QED BY <1>1, <1>2, <1>3, <1>4, <1>5, <1>6, MemberWritten

-----------------------------------------------------------------------------
(* RoomsAreWhole: a group is deleted, or gets another name *)

LEMMA DeleteMembersFit ==
  ASSUME Inv1, NEW s \in Slots, NEW h, NEW n, h = req[s], n = req'[s], Fit(h), DeleteMembers(s)
  PROVE  Fit(n)'
<1> DEFINE x == h.room
           f == [u \in Users |-> NoMember]
<1>1. h.pc = "delete_members" /\ n.pc = "delete_roles" /\ Kept(h, n)
  BY GoesTo DEF DeleteMembers, At
<1>2. x \in Rooms
  BY <1>1, HandlerOf DEF HandlerOK, RoomPcs, DeletePcs
<1>3. Unfinished(h) = {} /\ x \in Unfinished(n)
  BY <1>1, <1>2, OneUnfinished DEF ChangePcs, Unfinished, WorkPcs, Kept
<1>4. Type(x) = "g"
  BY <1>1 DEF Fit, Part, DeletePart, Leaving
<1>5. member' = [member EXCEPT ![x] = f] /\ UNCHANGED <<setting, role, copies>>
  BY DEF DeleteMembers
<1> HIDE DEF f
<1>6. (\A v \in Users : member'[x][v] = f[v]) /\ \A q \in Rooms \ {x} : member'[q] = member[q]
  BY <1>2, <1>5, PutDocs
<1>7. \A q \in Rooms \ {x} : Same(q)
  BY <1>2, <1>5, <1>6, OthersSame
<1>8. Nobody(x)' /\ Type(x)' = "g"
  BY <1>4, <1>5, <1>6, Members0 DEF f, Nobody, IsMember, Type
<1>9. Part(n)'
  BY <1>1, <1>8, PartOf DEF DeletePart, Leaving, Kept
<1> QED BY <1>1, <1>2, <1>3, <1>5, <1>7, <1>9, DocsChange

LEMMA DeleteRolesFit ==
  ASSUME Inv1, NEW s \in Slots, NEW h, NEW n, h = req[s], n = req'[s], Fit(h), DeleteRoles(s)
  PROVE  Fit(n)'
<1> DEFINE x == h.room
           f == [u \in Users |-> <<>>]
<1>1. h.pc = "delete_roles" /\ n.pc = "delete_setting" /\ Kept(h, n)
  BY GoesTo DEF DeleteRoles, At
<1>2. x \in Rooms
  BY <1>1, HandlerOf DEF HandlerOK, RoomPcs, DeletePcs
<1>3. Unfinished(h) \subseteq {x} /\ x \in Unfinished(n)
  BY <1>1, <1>2, OneUnfinished DEF ChangePcs, Unfinished, WorkPcs, Kept
<1>4. Type(x) = "g" /\ Nobody(x)
  BY <1>1 DEF Fit, Part, DeletePart, Leaving
<1>5. role' = [role EXCEPT ![x] = f] /\ UNCHANGED <<setting, member, copies>>
  BY DEF DeleteRoles
<1> HIDE DEF f
<1>6. (\A v \in Users : role'[x][v] = f[v]) /\ \A q \in Rooms \ {x} : role'[q] = role[q]
  BY <1>2, <1>5 DEF Inv1, Typed
<1>7. \A q \in Rooms \ {x} : Same(q)
  BY <1>2, <1>5, <1>6, OthersSame
<1>8. Bare(x)'
  BY <1>6 DEF f, Bare, Docs
<1>9. Nobody(x)' /\ Type(x)' = "g"
  BY <1>4, <1>5 DEF Nobody, IsMember, Type
<1>10. Part(n)'
  BY <1>1, <1>8, <1>9, PartOf DEF DeletePart, Leaving, Kept
<1> QED BY <1>1, <1>2, <1>3, <1>5, <1>7, <1>10, DocsChange

LEMMA DeleteSettingFit ==
  ASSUME Inv1, NEW s \in Slots, NEW h, NEW n, h = req[s], n = req'[s], Fit(h), DeleteSetting(s)
  PROVE  Fit(n)'
<1> DEFINE x == h.room
<1>1. h.pc = "delete_setting" /\ n.pc \in {"idle", "delete_messages"}
  BY GoesTo DEF DeleteSetting, At
<1>2. x \in Rooms
  BY <1>1, HandlerOf DEF HandlerOK, RoomPcs, DeletePcs
<1>3. Unfinished(h) \subseteq {x}
  BY <1>1, OneUnfinished DEF ChangePcs
<1>4. Type(x) = "g" /\ Nobody(x) /\ Bare(x)
  BY <1>1 DEF Fit, Part, DeletePart, Leaving
<1>5. setting' = [setting EXCEPT ![x] = NoSetting] /\ UNCHANGED <<member, role, copies>>
  BY DEF DeleteSetting
<1>6. setting'[x] = NoSetting /\ \A q \in Rooms \ {x} : setting'[q] = setting[q]
  BY <1>2, <1>5 DEF Inv1, Typed
<1>7. \A q \in Rooms \ {x} : Same(q)
  BY <1>5, <1>6 DEF Same
<1>8. setting'[x].rT = "none"
  BY <1>6, Settings0
<1>9. \A u \in Users : member'[x][u].rT = "none" /\ Docs(x, u)' = 0
  BY <1>4, <1>5 DEF Nobody, Bare, IsMember, Docs
<1>10. Whole(x)'
  BY <1>8, <1>9 DEF Whole, Fits, Type
<1>11. Calm(n)
  BY <1>1 DEF Calm, BusyPcs, NewPcs, LeavePcs, RenamePcs, BroadcastPcs
<1>12. Part(n)'
  BY <1>11, CalmParts
<1>13. Type(x)' = "none"
  BY <1>8 DEF Type
<1> QED BY <1>1, <1>2, <1>3, <1>4, <1>5, <1>7, <1>10, <1>12, <1>13, KindChange

LEMMA RenameMembersFit ==
  ASSUME Inv1, NEW s \in Slots, NEW h, NEW n, h = req[s], n = req'[s], Fit(h), RenameMembers(s)
  PROVE  Fit(n)'
<1> DEFINE x == h.room
<1>1. h.pc = "rename_members" /\ n.pc = "rename_setting" /\ Kept(h, n)
  BY GoesTo DEF RenameMembers, At
<1>2. x \in Rooms
  BY <1>1, HandlerOf DEF HandlerOK, RoomPcs, RenamePcs
<1>3. Unfinished(h) = {} /\ x \in Unfinished(n)
  BY <1>1, <1>2, OneUnfinished DEF ChangePcs, Unfinished, WorkPcs, Kept
<1>4. Whole(x) /\ Type(x) = "g" /\ h.next \in {"t", "img"}
  BY <1>1, <1>2, <1>3 DEF Fit, Part, RenamePart
<1>5. member' = RenamedRoom(x, h) /\ UNCHANGED <<setting, role, copies>>
  BY <1>2 DEF RenameMembers, UpdateMembers, RenamedRoom, Inv1, Typed
<1>6. /\ \A q \in Rooms, u \in Users : member'[q][u].rT = member[q][u].rT
      /\ \A u \in Users : IsMember(x, u) =>
           /\ member'[x][u].t = (IF h.next = "t" THEN h.lId ELSE member[x][u].t)
           /\ member'[x][u].img = (IF h.next = "t" THEN member[x][u].img ELSE h.lId)
      /\ \A q \in Rooms \ {x} : member'[q] = member[q]
  BY <1>2, <1>5, RenamedDocs
<1>7. \A q \in Rooms \ {x} : Same(q)
  BY <1>2, <1>5, <1>6, OthersSame
<1>8. Type(x)' = "g" /\ ~Nobody(x)'
  BY <1>2, <1>4, <1>5, <1>6 DEF Type, Nobody, IsMember, Whole
<1>9. ASSUME NEW u \in Users
      PROVE  LET m == member'[x][u]
             IN /\ m.rT \in {"none", "g"}
                /\ Docs(x, u)' = IF m.rT = "g" THEN 1 ELSE 0
                /\ m.rT = "g" =>
                     IF h.next = "t" THEN m.t = h.lId /\ m.img = setting'[x].img
                     ELSE m.t = setting'[x].t /\ m.img = h.lId
  <2>1. /\ member[x][u].rT \in {"none", "g"}
        /\ Docs(x, u) = IF member[x][u].rT = "g" THEN 1 ELSE 0
        /\ member[x][u].rT = "g" => IsMember(x, u) /\ Titled(x, u)
    BY <1>4 DEF Whole, Fits, Type, IsMember
  <2>2. member'[x][u].rT = member[x][u].rT /\ Docs(x, u)' = Docs(x, u)
    BY <1>2, <1>5, <1>6 DEF Docs
  <2> QED BY <1>5, <1>6, <2>1, <2>2 DEF Titled
<1>10. Part(n)'
  BY <1>1, <1>4, <1>8, <1>9, PartOf DEF RenamePart, Kept
<1> QED BY <1>1, <1>2, <1>3, <1>5, <1>7, <1>10, DocsChange

LEMMA RenameSettingFit ==
  ASSUME Inv1, NEW s \in Slots, NEW h, NEW n, h = req[s], n = req'[s], Fit(h), RenameSetting(s)
  PROVE  Fit(n)'
<1> DEFINE x == h.room
           d == Renamed(setting[x], h)
<1>1. h.pc = "rename_setting" /\ n.pc = "idle" /\ UNCHANGED <<member, role, copies>>
  BY GoesTo DEF RenameSetting, At
<1>2. x \in Rooms
  BY <1>1, HandlerOf DEF HandlerOK, RoomPcs, RenamePcs
<1>3. Unfinished(h) \subseteq {x}
  BY <1>1, OneUnfinished DEF ChangePcs
<1>4. RenamePart(h)
  BY DEF Fit, Part
<1>5. Type(x) = "g" /\ ~Nobody(x) /\ h.next \in {"t", "img"}
  BY <1>1, <1>4 DEF RenamePart
<1>6. setting' = [setting EXCEPT ![x] = d]
  <2>1. setting[x] # NoSetting
    BY <1>5, Settings0 DEF Type
  <2> QED BY <1>2, <2>1 DEF RenameSetting, Inv1, Typed
<1>7. /\ d.rT = setting[x].rT /\ d.cId = setting[x].cId /\ d.pId = setting[x].pId
      /\ IF h.next = "t" THEN d.t = h.lId /\ d.img = setting[x].img
         ELSE d.t = setting[x].t /\ d.img = h.lId
  <2>1. setting[x] \in SettingDocs
    BY <1>2 DEF Inv1, Typed
  <2> QED BY <2>1 DEF Renamed, SettingDocs
<1> HIDE DEF d
<1>8. setting'[x] = d /\ \A q \in Rooms \ {x} : setting'[q] = setting[q]
  BY <1>2, <1>6 DEF Inv1, Typed
<1>9. \A q \in Rooms \ {x} : Same(q)
  BY <1>1, <1>8 DEF Same
<1>10. ASSUME NEW u \in Users
       PROVE  Fits(x, u)'
  <2>1. LET m == member[x][u]
        IN /\ m.rT \in {"none", "g"}
           /\ Docs(x, u) = IF m.rT = "g" THEN 1 ELSE 0
           /\ m.rT = "g" =>
                IF h.next = "t" THEN m.t = h.lId /\ m.img = setting[x].img
                ELSE m.t = setting[x].t /\ m.img = h.lId
    BY <1>1, <1>4 DEF RenamePart
  <2>2. member' = member /\ Docs(x, u)' = Docs(x, u) /\ setting'[x].rT = "g"
    BY <1>1, <1>5, <1>7, <1>8 DEF Docs, Type
  <2> QED BY <1>7, <1>8, <2>1, <2>2 DEF Fits, Titled
<1>11. Whole(x)'
  BY <1>1, <1>5, <1>7, <1>8, <1>10 DEF Whole, Type, Nobody, IsMember
<1>12. Type(x)' = "g"
  BY <1>5, <1>7, <1>8 DEF Type
<1>13. Part(n)'
  BY <1>1, IdleCalm, CalmParts
<1> QED BY <1>1, <1>2, <1>3, <1>5, <1>9, <1>11, <1>12, <1>13, KindChange

-----------------------------------------------------------------------------
(* RoomsAreWhole: a broadcast gets its documents *)

LEMMA BroadcastMemberFit ==
  ASSUME Inv1, NEW s \in Slots, NEW h, NEW n, h = req[s], n = req'[s], Fit(h), BroadcastMember(s)
  PROVE  Fit(n)'
<1> DEFINE x == h.room
           d == Member("b")
<1>1. h.pc = "broadcast_member" /\ n.pc = "broadcast_join" /\ Kept(h, n)
  BY GoesTo DEF BroadcastMember, At
<1>2. x \in Rooms /\ h.user \in Users
  BY <1>1, HandlerOf DEF HandlerOK, RoomPcs, BroadcastPcs
<1>3. Broadcasting(h) /\ Broadcasting(n)
  BY <1>1 DEF Broadcasting, BroadcastPcs
<1>4. BroadcastPart(h)
  BY DEF Fit, Part
<1>5. Type(x) = "none" /\ h.after = "broadcast_own"
  BY <1>1, <1>4 DEF BroadcastPart
<1>6. Unfinished(h) = {} /\ x \in Unfinished(n)
  BY <1>1, <1>2, <1>3, <1>5, OneUnfinished DEF ChangePcs, Unfinished, NewBroadcast, Kept
<1>7. \A u \in Users : member[x][u].rT = "none" /\ Docs(x, u) = 0
  BY <1>2, <1>5, <1>6 DEF Fit, Whole, Fits, Type
<1>8. member' = [member EXCEPT ![x][h.user] = d] /\ UNCHANGED <<setting, role, copies>>
  BY DEF BroadcastMember, SetMember
<1>9. d.rT = "b"
  BY NewDocs DEF RoomTypes
<1> HIDE DEF d
<1>10. /\ member'[x][h.user] = d
       /\ \A q \in Rooms, v \in Users : q # x \/ v # h.user => member'[q][v] = member[q][v]
  BY <1>2, <1>8 DEF Inv1, Typed
<1>11. \A q \in Rooms \ {x} : Same(q)
  BY <1>2, <1>8, <1>10, OthersSame
<1>12. /\ Type(x)' = "none" /\ Bare(x)'
       /\ \A u \in Users : member'[x][u].rT = IF u = h.user THEN "b" ELSE "none"
  BY <1>2, <1>5, <1>7, <1>8, <1>9, <1>10 DEF Type, Bare, Docs
<1>13. \A c \in h.list : c[2] \in SingleRooms(h.user, c[1])'
  BY <1>3, <1>4, <1>8 DEF BroadcastPart, SingleRooms
<1>14. BroadcastPart(n)'
  BY <1>1, <1>5, <1>12, <1>13 DEF BroadcastPart, Kept
<1>15. Part(n)'
  BY <1>1, <1>14, PartOf
<1> QED BY <1>1, <1>2, <1>6, <1>8, <1>11, <1>15, DocsChange

LEMMA BroadcastCopiesFit ==
  ASSUME Inv1, NEW s \in Slots, NEW h, NEW n, h = req[s], n = req'[s], Fit(h), BroadcastCopies(s)
  PROVE  Fit(n)'
<1> DEFINE x == h.room
           own == h.after = "broadcast_own"
<1>1. /\ h.pc = "broadcast_copies" /\ UNCHANGED <<setting, member, role>>
      /\ own => n.pc = "broadcast_setting" /\ Kept(h, n)
      /\ ~own => n.pc = "idle"
      /\ copies' = copies \cup {<<x, c[1], c[2]>> : c \in h.list}
  BY GoesTo DEF BroadcastCopies, At
<1>2. x \in Rooms /\ h.user \in Users /\ h.after \in {"broadcast_own", "broadcast_copies"}
  BY <1>1, HandlerOf DEF HandlerOK, Broadcasting, BroadcastPcs
<1>3. Broadcasting(h) /\ (own => Broadcasting(n))
  BY <1>1 DEF Broadcasting, BroadcastPcs
<1>4. BroadcastPart(h)
  BY DEF Fit, Part
<1>5. \A r \in Rooms : Same(r) /\ Ids(r)
  BY <1>1 DEF Same, Ids
<1>6. OneSingle' /\ \A u, v : SingleRooms(u, v)' = SingleRooms(u, v)
  BY <1>5, IdsKept DEF Fit
<1>7. Unfinished(h) \subseteq Unfinished(n)
  BY <1>1, <1>3 DEF Unfinished, NewBroadcast, WorkPcs, Kept
<1>8. ASSUME NEW c \in copies'
      PROVE  Owned(c, n)'
  <2>1. CASE c \in copies
    BY <1>1, <1>6, <2>1 DEF Fit, Owned, Type
  <2>2. CASE c \in {<<x, k[1], k[2]>> : k \in h.list}
    <3>1. PICK k \in h.list : c = <<x, k[1], k[2]>>
      BY <2>2
    <3>2. c[1] = x /\ c[2] = k[1] /\ c[3] = k[2]
      BY <3>1
    <3>3. c[3] \in SingleRooms(h.user, c[2])
      BY <1>3, <1>4, <3>1, <3>2 DEF BroadcastPart
    <3>4. CASE own
      BY <1>1, <1>6, <3>2, <3>3, <3>4 DEF Owned, Kept
    <3>5. CASE ~own
      <4>1. Type(x) = "b" /\ setting[x].cId = h.user
        BY <1>2, <1>3, <1>4, <3>5 DEF BroadcastPart
      <4> QED BY <1>1, <1>6, <3>2, <3>3, <4>1 DEF Owned, Type
    <3> QED BY <3>4, <3>5
  <2> QED BY <1>1, <2>1, <2>2
<1>9. Part(n)'
  <2>1. CASE own
    <3>1. BroadcastPart(n)'
      BY <1>1, <1>2, <1>3, <1>4, <1>5, <1>6, <2>1, BroadcastStays DEF Kept
    <3> QED BY <1>1, <2>1, <3>1, PartOf
  <2>2. CASE ~own
    BY <1>1, <2>2, IdleCalm, CalmParts
  <2> QED BY <2>1, <2>2
<1>10. NoRoom \notin Rooms
  BY ChatAssumption
<1> QED BY <1>5, <1>6, <1>7, <1>8, <1>9, <1>10, RoomChanges

LEMMA BroadcastSettingFit ==
  ASSUME Inv1, NEW s \in Slots, NEW h, NEW n, h = req[s], n = req'[s], Fit(h), BroadcastSetting(s)
  PROVE  Fit(n)'
<1> DEFINE x == h.room
           d == Setting("b", h.user, NoUser)
<1>1. h.pc = "broadcast_setting" /\ n.pc = "idle" /\ UNCHANGED <<member, role, copies>>
  BY GoesTo DEF BroadcastSetting, At
<1>2. x \in Rooms /\ h.user \in Users
  BY <1>1, HandlerOf DEF HandlerOK, RoomPcs, BroadcastPcs
<1>3. BroadcastPart(h)
  BY DEF Fit, Part
<1>4. NewBroadcast(h)
  BY <1>1, <1>3 DEF BroadcastPart, NewBroadcast, Broadcasting, BroadcastPcs
<1>5. Type(x) = "none" /\ Bare(x) /\ \A u \in Users : member[x][u].rT = IF u = h.user THEN "b" ELSE "none"
  BY <1>3, <1>4 DEF BroadcastPart
<1>6. setting' = [setting EXCEPT ![x] = d]
  BY DEF BroadcastSetting
<1>7. d.rT = "b" /\ d.cId = h.user
  BY <1>2, SettingType DEF RoomTypes
<1> HIDE DEF d
<1>8. setting'[x] = d /\ \A q \in Rooms \ {x} : setting'[q] = setting[q]
  BY <1>2, <1>6 DEF Inv1, Typed
<1>9. \A q \in Rooms \ {x} : Same(q)
  BY <1>1, <1>8 DEF Same
<1>10. \A u, v : SingleRooms(u, v)' = SingleRooms(u, v)
  <2>1. \A r \in Rooms : setting'[r].rT = "s" <=> setting[r].rT = "s"
    BY <1>5, <1>7, <1>8 DEF Type
  <2>2. \A r \in Rooms : setting[r].rT = "s" => setting'[r] = setting[r]
    BY <1>5, <1>8 DEF Type
  <2> QED BY <2>1, <2>2 DEF SingleRooms
<1>11. OneSingle'
  BY <1>7, <1>8 DEF Fit, OneSingle, Type
<1>12. ASSUME NEW c \in copies'
       PROVE  Owned(c, n)'
  <2>1. c[1] \in Rooms /\ Owned(c, h)
    BY <1>1 DEF Fit, Inv1, Typed, CopyDocs
  <2>2. CASE c[1] = x
    BY <1>5, <1>7, <1>8, <1>10, <2>1, <2>2 DEF Owned, Type
  <2>3. CASE c[1] # x
    BY <1>8, <1>10, <2>1, <2>3 DEF Owned, Type
  <2> QED BY <2>2, <2>3
<1>13. \A u \in Users : Fits(x, u)'
  BY <1>1, <1>2, <1>5, <1>7, <1>8 DEF Fits, Bare, Docs
<1>14. Whole(x)'
  BY <1>7, <1>8, <1>13 DEF Whole, Type
<1>15. Unfinished(h) \subseteq {x}
  BY <1>1, OneUnfinished DEF ChangePcs
<1>16. Part(n)'
  BY <1>1, IdleCalm, CalmParts
<1> QED BY <1>2, <1>9, <1>11, <1>12, <1>14, <1>15, <1>16, RoomChanges

-----------------------------------------------------------------------------
(* RoomsAreWhole: a room of two is made *)

\* A broadcast may be waiting for it.
LEMMA NewRoomStays ==
  ASSUME Inv1, NEW h, NEW n, Fit(h), h.pc \in {"room_setting", "order_setting", "room_members"},
         n.pc \in {"room_members", "room_join"}, Kept(h, n), HandlerOK(h, message),
         \A r \in Rooms \ {h.at} : Same(r),
         \A u, v : SingleRooms(u, v) \subseteq SingleRooms(u, v)'
  PROVE  BroadcastPart(n)' /\ Unfinished(h) \subseteq Unfinished(n) \cup {h.at}
<1>1. Broadcasting(h) <=> Broadcasting(n)
  BY DEF Kept, Broadcasting, NewPcs, BroadcastPcs
<1>2. Unfinished(h) \subseteq Unfinished(n) \cup {h.at}
  BY <1>1 DEF Unfinished, NewBroadcast, WorkPcs, Kept
<1>3. CASE Broadcasting(h)
  <2>1. h.room \in Rooms /\ h.user \in Users
    BY <1>3 DEF HandlerOK
  <2>2. h.room # h.at /\ BroadcastPart(h)
    BY DEF Fit, Part, NewPart
  <2> QED BY <1>2, <1>3, <2>1, <2>2, BroadcastStays DEF Kept
<1>4. CASE ~Broadcasting(h)
  <2>1. BroadcastPart(n)'
    BY <1>1, <1>4 DEF BroadcastPart, NewBroadcast
  <2> QED BY <1>2, <2>1
<1> QED BY <1>3, <1>4

\* The id of the room is new.
LEMMA NewRoomEmpty ==
  ASSUME Inv1, NEW h, Fit(h), h.pc \in {"room_setting", "order_setting"}, h.at \in Rooms
  PROVE  Type(h.at) = "none" /\ Nobody(h.at) /\ Bare(h.at)
<1>1. Type(h.at) = "none" /\ h.at # h.room
  BY DEF Fit, Part, NewPart
<1>2. Whole(h.at)
  BY <1>1 DEF Fit, Unfinished
<1> QED BY <1>1, <1>2 DEF Whole, Fits, Type, Nobody, Bare, IsMember

LEMMA CreateSettingFit ==
  ASSUME Inv1, NEW s \in Slots, NEW h, NEW n, h = req[s], n = req'[s], Fit(h), CreateSetting(s)
  PROVE  Fit(n)'
<1> DEFINE x == h.at
           d == Setting("s", h.user, h.peer)
<1>1. h.pc = "room_setting" /\ UNCHANGED <<member, role, copies>>
  BY DEF CreateSetting, At
<1>2. /\ HandlerOK(h, message) /\ x \in Rooms /\ h.user \in Users /\ h.peer \in Users
  BY <1>1, HandlerOf DEF HandlerOK, AtPcs, PeerPcs, NewPcs
<1>3. SingleRooms(h.user, h.peer) = {} /\ x # h.room
  BY <1>1 DEF Fit, Part, NewPart
<1>4. setting' = [setting EXCEPT ![x] = d] /\ n.pc = "room_members" /\ Kept(h, n)
  <2>1. ~\E r \in Rooms : setting[r].rT = "s" /\ setting[r].cId = h.user /\ setting[r].pId = h.peer
    BY <1>3 DEF SingleRooms
  <2> QED BY <2>1, GoesTo DEF CreateSetting
<1>5. d.rT = "s" /\ d.cId = h.user /\ d.pId = h.peer
  BY <1>2, SettingType DEF RoomTypes
<1> HIDE DEF d
<1>6. setting'[x] = d /\ \A q \in Rooms \ {x} : setting'[q] = setting[q]
  BY <1>2, <1>4 DEF Inv1, Typed
<1>7. \A q \in Rooms \ {x} : Same(q)
  BY <1>1, <1>6 DEF Same
<1>8. Type(x) = "none" /\ Nobody(x) /\ Bare(x)
  BY <1>1, <1>2, NewRoomEmpty
<1>9. \A u, v : SingleRooms(u, v) \subseteq SingleRooms(u, v)'
  BY <1>6, <1>8 DEF SingleRooms, Type
<1>10. OneSingle'
  <2>1. ASSUME NEW q \in Rooms \ {x}, Type(q)' = "s"
        PROVE  {setting'[q].cId, setting'[q].pId} # {h.user, h.peer}
    BY <1>3, <1>6, <2>1 DEF SingleRooms, Type
  <2>2. SUFFICES ASSUME NEW r \in Rooms, NEW q \in Rooms, Type(r)' = "s", Type(q)' = "s",
                        {setting'[r].cId, setting'[r].pId} = {setting'[q].cId, setting'[q].pId}
                 PROVE  r = q
    BY DEF OneSingle, Type
  <2>3. {setting'[x].cId, setting'[x].pId} = {h.user, h.peer}
    BY <1>5, <1>6
  <2>4. CASE r # x /\ q # x
    BY <1>6, <2>2, <2>4 DEF Fit, OneSingle, Type
  <2>5. CASE r = x \/ q = x
    BY <2>1, <2>2, <2>3, <2>5
  <2> QED BY <2>4, <2>5
<1>11. ASSUME NEW c \in copies'
       PROVE  Owned(c, n)'
  <2>1. c[1] \in Rooms /\ Type(c[1]) = "b" /\ c[3] \in SingleRooms(setting[c[1]].cId, c[2])
    BY <1>1 DEF Fit, Owned, Inv1, Typed, CopyDocs
  <2>2. setting'[c[1]] = setting[c[1]]
    BY <1>6, <1>8, <2>1
  <2> QED BY <1>9, <2>1, <2>2 DEF Owned, Type
<1>12. BroadcastPart(n)' /\ Unfinished(h) \subseteq Unfinished(n) \cup {x}
  BY <1>1, <1>2, <1>4, <1>7, <1>9, NewRoomStays
<1>13. /\ Type(x)' = "s" /\ Both(x, h.user, h.peer)' /\ Nobody(x)' /\ Bare(x)'
  BY <1>1, <1>5, <1>6, <1>8 DEF Type, Both, Nobody, Bare, IsMember, Docs
<1>14. NewPart(n)'
  BY <1>3, <1>4, <1>13 DEF NewPart, Kept
<1>15. Part(n)' /\ x \in Unfinished(n)
  BY <1>2, <1>4, <1>12, <1>14, PartOf DEF Unfinished, Kept
<1> QED BY <1>7, <1>10, <1>11, <1>12, <1>15, RoomChanges

LEMMA OrderSettingFit ==
  ASSUME Inv1, NEW s \in Slots, NEW h, NEW n, h = req[s], n = req'[s], Fit(h), OrderSetting(s)
  PROVE  Fit(n)'
<1> DEFINE x == h.at
           d == Setting("o", h.user, h.peer)
<1>1. /\ h.pc = "order_setting" /\ n.pc = "room_members" /\ Kept(h, n)
      /\ UNCHANGED <<member, role, copies>> /\ setting' = [setting EXCEPT ![x] = d]
  BY GoesTo DEF OrderSetting, At
<1>2. /\ HandlerOK(h, message) /\ x \in Rooms /\ h.user \in Users /\ h.peer \in Users
  BY <1>1, HandlerOf DEF HandlerOK, AtPcs, PeerPcs, NewPcs
<1>3. x # h.room /\ h.next = "idle"
  BY <1>1 DEF Fit, Part, NewPart
<1>4. d.rT = "o" /\ d.cId = h.user /\ d.pId = h.peer
  BY <1>2, SettingType DEF RoomTypes
<1> HIDE DEF d
<1>5. setting'[x] = d /\ \A q \in Rooms \ {x} : setting'[q] = setting[q]
  BY <1>1, <1>2 DEF Inv1, Typed
<1>6. \A q \in Rooms \ {x} : Same(q)
  BY <1>1, <1>5 DEF Same
<1>7. Type(x) = "none" /\ Nobody(x) /\ Bare(x)
  BY <1>1, <1>2, NewRoomEmpty
<1>8. \A u, v : SingleRooms(u, v) \subseteq SingleRooms(u, v)'
  BY <1>5, <1>7 DEF SingleRooms, Type
<1>9. BroadcastPart(n)' /\ Unfinished(h) \subseteq Unfinished(n) \cup {x}
  BY <1>1, <1>2, <1>6, <1>8, NewRoomStays
<1>10. Type(x)' = "o" /\ Both(x, h.user, h.peer)' /\ Nobody(x)' /\ Bare(x)'
  BY <1>1, <1>4, <1>5, <1>7 DEF Type, Both, Nobody, Bare, IsMember, Docs
<1>11. NewPart(n)'
  BY <1>1, <1>3, <1>10 DEF NewPart, Kept
<1>12. Part(n)' /\ x \in Unfinished(n)
  BY <1>1, <1>2, <1>9, <1>11, PartOf DEF Unfinished, Kept
<1> QED BY <1>1, <1>2, <1>6, <1>7, <1>9, <1>10, <1>12, KindChange

LEMMA CreateMembersFit ==
  ASSUME Inv1, NEW s \in Slots, NEW h, NEW n, h = req[s], n = req'[s], Fit(h), CreateMembers(s)
  PROVE  Fit(n)'
<1> DEFINE x == h.at
           m == Member(setting[x].rT)
           d == [m EXCEPT !.isD = TRUE]
           f == [u \in Users |-> IF u \in {h.user, h.peer} THEN d ELSE member[x][u]]
<1>1. /\ h.pc = "room_members" /\ n.pc = "room_join" /\ Kept(h, n)
      /\ UNCHANGED <<setting, role, copies>>
  BY GoesTo DEF CreateMembers, At
<1>2. /\ HandlerOK(h, message) /\ x \in Rooms /\ h.user \in Users /\ h.peer \in Users
  BY <1>1, HandlerOf DEF HandlerOK, AtPcs, PeerPcs, NewPcs
<1>3. /\ Type(x) \in {"s", "o"} /\ Both(x, h.user, h.peer) /\ Nobody(x) /\ Bare(x) /\ x # h.room
      /\ h.next = "broadcast_note" => Type(x) = "s"
  BY <1>1 DEF Fit, Part, NewPart
<1>4. member' = [member EXCEPT ![x] = f]
  BY <1>2 DEF CreateMembers, Inv1, Typed
<1>5. m \in MemberDocs /\ m.rT = setting[x].rT
  BY <1>3, MemberType, MessageDoc DEF RoomTypes, Type
<1> HIDE DEF m
<1>6. d.rT = setting[x].rT
  BY <1>5 DEF MemberDocs
<1> HIDE DEF d, f
<1>7. (\A v \in Users : member'[x][v] = f[v]) /\ \A q \in Rooms \ {x} : member'[q] = member[q]
  BY <1>2, <1>4, PutDocs
<1>8. \A q \in Rooms \ {x} : Same(q)
  BY <1>1, <1>2, <1>7, OthersSame
<1>9. \A u \in Users : member'[x][u].rT = IF u \in {h.user, h.peer} THEN setting[x].rT ELSE "none"
  BY <1>3, <1>6, <1>7 DEF f, Nobody, IsMember
<1>10. \A u \in Users : Fits(x, u)'
  BY <1>1, <1>3, <1>9 DEF Fits, Type, Both, Bare, Docs
<1>11. Type(x)' = Type(x) /\ Both(x, h.user, h.peer)'
  BY <1>1, <1>3 DEF Type, Both
<1>12. Whole(x)'
  BY <1>2, <1>3, <1>10, <1>11 DEF Whole, Both
<1>13. \A u, v : SingleRooms(u, v) \subseteq SingleRooms(u, v)'
  BY <1>1 DEF SingleRooms
<1>14. BroadcastPart(n)' /\ Unfinished(h) \subseteq Unfinished(n) \cup {x}
  BY <1>1, <1>2, <1>8, <1>13, NewRoomStays
<1>15. NewPart(n)'
  BY <1>1, <1>3, <1>11 DEF NewPart, Kept
<1>16. Part(n)'
  BY <1>1, <1>14, <1>15, PartOf
<1> QED BY <1>1, <1>2, <1>8, <1>12, <1>14, <1>16, DocsChange

-----------------------------------------------------------------------------
(* RoomsAreWhole: the next step of a handler *)

LEMMA ChangeFit ==
  ASSUME Inv1, NEW s \in Slots, NEW h, NEW n, h = req[s], n = req'[s], Continue(s), Fit(h),
         h.pc \in ChangePcs
  PROVE  Fit(n)'
<1>1. RoomsAt(s) \/ GroupsAt(s) \/ MessagesAt(s)
  BY ContinueAt
<1>2. ~MessagesAt(s)
  BY DEF MessagesAt, ChangePcs
<1>3. RoomsAt(s) => CreateSetting(s) \/ CreateMembers(s) \/ OrderSetting(s)
  BY DEF RoomsAt, ChangePcs
<1>4. GroupsAt(s) => \/ CreateGroupMembers(s) \/ CreateGroupRoles(s) \/ CreateGroupSetting(s)
                     \/ AddRole(s) \/ AddMember(s) \/ KickRole(s) \/ KickMember(s)
                     \/ LeaveRole(s) \/ LeaveMember(s) \/ DeleteMembers(s) \/ DeleteRoles(s)
                     \/ DeleteSetting(s) \/ RenameMembers(s) \/ RenameSetting(s)
                     \/ BroadcastMember(s) \/ BroadcastCopies(s) \/ BroadcastSetting(s)
  BY DEF GroupsAt, ChangePcs
<1>5. CASE CreateSetting(s) \/ CreateMembers(s) \/ OrderSetting(s)
  BY <1>5, CreateSettingFit, CreateMembersFit, OrderSettingFit
<1>6. CASE \/ CreateGroupMembers(s) \/ CreateGroupRoles(s) \/ CreateGroupSetting(s)
           \/ AddRole(s) \/ AddMember(s) \/ KickRole(s) \/ KickMember(s)
  BY <1>6, GroupMembersFit, GroupRolesFit, GroupSettingFit, AddRoleFit, AddMemberFit, KickRoleFit,
     KickMemberFit
<1>7. CASE \/ LeaveRole(s) \/ LeaveMember(s) \/ DeleteMembers(s) \/ DeleteRoles(s)
           \/ DeleteSetting(s) \/ RenameMembers(s) \/ RenameSetting(s)
  BY <1>7, LeaveRoleFit, LeaveMemberFit, DeleteMembersFit, DeleteRolesFit, DeleteSettingFit,
     RenameMembersFit, RenameSettingFit
<1>8. CASE BroadcastMember(s) \/ BroadcastCopies(s) \/ BroadcastSetting(s)
  BY <1>8, BroadcastMemberFit, BroadcastCopiesFit, BroadcastSettingFit
<1> QED BY <1>1, <1>2, <1>3, <1>4, <1>5, <1>6, <1>7, <1>8

LEMMA ContinueFit ==
  ASSUME Inv1, NEW s \in Slots, NEW h, NEW n, h = req[s], n = req'[s], Continue(s), Fit(h)
  PROVE  Fit(n)'
<1>1. CASE h.pc \notin ChangePcs \cup RelayPcs
  BY <1>1, CalmFit
<1>2. CASE h.pc \in RelayPcs
  BY <1>2, LeaveRelay, BroadcastRelay DEF RelayPcs
<1>3. CASE h.pc \in ChangePcs
  BY <1>3, ChangeFit
<1> QED BY <1>1, <1>2, <1>3

-----------------------------------------------------------------------------
(* RoomsAreWhole: what a request starts with *)

\* A handler that starts writes its room later.
LEMMA StartParts ==
  ASSUME NEW n
  PROVE  /\ n.pc \in {"room_setting", "order_setting"} /\ n.next # "broadcast_note" /\ NewPart(n)'
              => Part(n)'
         /\ n.pc = "group_members" /\ GroupPart(n)' => Part(n)'
         /\ n.pc = "add_role" /\ AddPart(n)' => Part(n)'
         /\ n.pc = "kick_role" /\ KickPart(n)' => Part(n)'
         /\ n.pc = "rename_members" /\ RenamePart(n)' => Part(n)'
         /\ n.pc = "leave_socket" /\ LeavePart(n)' /\ DeletePart(n)' => Part(n)'
         /\ n.pc \in {"broadcast_member", "broadcast_next"} /\ BroadcastPart(n)' => Part(n)'
<1>1. n.pc \notin {"room_setting", "order_setting", "room_members", "room_join"} => NewPart(n)'
  BY DEF NewPart
<1>2. n.pc \notin {"group_members", "group_roles", "group_setting"} => GroupPart(n)'
  BY DEF GroupPart
<1>3. /\ n.pc \notin {"add_role", "add_member"} => AddPart(n)'
      /\ n.pc \notin {"kick_role", "kick_member"} => KickPart(n)'
      /\ n.pc \notin {"rename_members", "rename_setting"} => RenamePart(n)'
  BY DEF AddPart, KickPart, RenamePart
<1>4. n.pc \notin {"leave_socket", "role_set", "announce", "leave_successor", "leave_role",
                   "leave_member"} => LeavePart(n)'
  BY DEF LeavePart, Leaving
<1>5. n.pc \notin {"leave_socket", "role_set", "announce", "delete_sockets", "delete_members",
                   "delete_roles", "delete_setting"} => DeletePart(n)'
  BY DEF DeletePart, Leaving
<1>6. ~Broadcasting(n) => BroadcastPart(n)'
  BY DEF BroadcastPart, NewBroadcast, Broadcasting, BroadcastPcs
<1>7. Broadcasting(n) <=> \/ n.pc \in BroadcastPcs
                          \/ n.pc \in NewPcs /\ n.next = "broadcast_note"
  BY DEF Broadcasting
<1> QED BY <1>1, <1>2, <1>3, <1>4, <1>5, <1>6, <1>7 DEF Part, BroadcastPcs, NewPcs

\* What belongs to a member of a group, or of a broadcast, of which all is there.
LEMMA WholeMember ==
  ASSUME Inv1, AllWhole, NEW r \in Rooms, NEW u \in Users
  PROVE  /\ member[r][u].rT = "g" => Type(r) = "g" /\ IsMember(r, u) /\ Titled(r, u)
         /\ member[r][u].rT = "b" => Type(r) = "b" /\ setting[r].cId = u
         /\ InGroup(r, u) <=> member[r][u].rT = "g"
         /\ InGroup(r, u) => Docs(r, u) = 1 /\ DOMAIN role[r][u] = {1}
         /\ ~InGroup(r, u) => DOMAIN role[r][u] = {}
         /\ Type(r) = "g" => (IsMember(r, u) <=> member[r][u].rT = "g")
<1>1. Fits(r, u)
  BY DEF AllWhole, Whole
<1>2. role[r][u] \in Seq(Roles)
  BY DEF Inv1, Typed
<1> DEFINE q == role[r][u]
<1> HIDE DEF q
<1>3. q \in Seq(Roles) /\ Docs(r, u) = Len(q) /\ (InGroup(r, u) <=> q # <<>>)
  BY <1>2 DEF q, Docs, InGroup
<1>4. (q # <<>> <=> Len(q) # 0) /\ DOMAIN q = 1..Len(q)
  BY <1>3
<1>5. Len(q) \in {0, 1} /\ (Len(q) = 1 <=> member[r][u].rT = "g")
  BY <1>1, <1>3 DEF Fits
<1>6. DOMAIN role[r][u] = DOMAIN q
  BY DEF q
<1>7. (Len(q) = 1 => DOMAIN q = {1}) /\ (Len(q) = 0 => DOMAIN q = {})
  BY <1>4
<1> QED BY <1>1, <1>3, <1>4, <1>5, <1>6, <1>7 DEF Fits, Type, IsMember

LEMMA NewRoomPart ==
  ASSUME Inv1, Grows, NEW s \in Slots, NEW n, n = req'[s], NEW u \in Users, NEW v \in Users,
         PeerBegin(s, u, v) \/ OrderBegin(s, u, v) \/ RequestBegin(s, u, v)
  PROVE  Part(n)'
<1>1. UNCHANGED <<setting, member, role>>
  BY DEF PeerBegin, OrderBegin, RequestBegin, rooms
<1>2. CASE PeerBegin(s, u, v) \/ OrderBegin(s, u, v)
  <2>1. /\ n.user = u /\ n.peer = v /\ n.at \in Fresh /\ n.next = "idle" /\ n.room = NoRoom
        /\ (n.pc = "room_setting" /\ SingleRooms(u, v) = {}) \/ n.pc = "order_setting"
    BY <1>2, NewRoomBegins
  <2>2. n.at \in Rooms /\ Type(n.at) = "none" /\ n.at # n.room
    BY <2>1, Settings0, ChatAssumption DEF Fresh, Type
  <2>3. NewPart(n)'
    BY <1>1, <2>1, <2>2 DEF NewPart, Type, SingleRooms
  <2> QED BY <2>1, <2>3, StartParts
<1>3. CASE RequestBegin(s, u, v)
  <2>1. \/ n.pc = "request_create"
        \/ /\ n.pc = "room_setting" /\ n.next = "request_create" /\ n.at \in Fresh
           /\ SingleRooms(u, v) = {} /\ n.room = NoRoom /\ n.user = u /\ n.peer = v
    BY <1>3, RequestBegins
  <2>2. CASE n.pc = "request_create"
    <3>1. Calm(n)
      BY <2>2 DEF Calm, BusyPcs, NewPcs, LeavePcs, RenamePcs, BroadcastPcs
    <3> QED BY <3>1, CalmParts
  <2>3. CASE n.pc = "room_setting"
    <3>1. n.at \in Rooms /\ Type(n.at) = "none" /\ n.at # n.room
      BY <2>1, <2>3, Settings0, ChatAssumption DEF Fresh, Type
    <3>2. NewPart(n)'
      BY <1>1, <2>1, <2>3, <3>1 DEF NewPart, Type, SingleRooms
    <3> QED BY <2>1, <2>3, <3>2, StartParts
  <2> QED BY <2>1, <2>2, <2>3
<1> QED BY <1>2, <1>3

LEMMA GroupStartPart ==
  ASSUME Inv1, Grows, AllWhole, NEW s \in Slots, NEW n, n = req'[s], NEW u \in Users,
         NEW v \in Users, NEW r \in Rooms, NEW us \in SUBSET Users,
         \/ GroupBegin(s, u, us) \/ AddBegin(s, u, v, r) \/ KickBegin(s, u, v, r)
         \/ RoleBegin(s, u, v, r) \/ DeleteGroup(s, u, r)
         \/ UpdateTitle(s, u, r) \/ UpdateImage(s, u, r)
  PROVE  Part(n)'
<1>1. UNCHANGED <<setting, member, role>>
  BY DEF GroupBegin, AddBegin, KickBegin, RoleBegin, DeleteGroup, UpdateTitle, UpdateImage, Rename,
     UnchangedRooms, rooms
<1>2. CASE GroupBegin(s, u, us)
  <2>1. n.pc = "group_members" /\ n.user \in n.list /\ n.room \in Fresh
    BY <1>2, GroupBegins
  <2>2. Type(n.room) = "none"
    BY <2>1, Settings0 DEF Fresh, Type
  <2>3. GroupPart(n)'
    BY <1>1, <2>1, <2>2 DEF GroupPart, Type
  <2> QED BY <2>1, <2>3, StartParts
<1>3. CASE AddBegin(s, u, v, r)
  <2>1. /\ n.pc = "add_role" /\ n.peer = v /\ n.room = r /\ n.seen = member[r][u]
        /\ IsGroupAdmin(r, u) /\ ~InGroup(r, v)
    BY <1>3, AddBegins
  <2>2. /\ Type(r) = "g" /\ ~IsMember(r, v)
        /\ n.seen.t = setting[r].t /\ n.seen.img = setting[r].img
    BY <2>1, WholeMember DEF IsGroupAdmin, Titled
  <2>3. AddPart(n)'
    BY <1>1, <2>1, <2>2 DEF AddPart, Type, IsMember
  <2> QED BY <2>1, <2>3, StartParts
<1>4. CASE KickBegin(s, u, v, r)
  <2>1. /\ n.pc = "kick_role" /\ n.user = u /\ n.peer = v /\ n.room = r /\ u # v
        /\ IsGroupAdmin(r, u) /\ InGroup(r, v)
    BY <1>4, KickBegins
  <2>2. Type(r) = "g" /\ IsMember(r, u) /\ IsMember(r, v)
    BY <2>1, WholeMember DEF IsGroupAdmin
  <2>3. KickPart(n)'
    BY <1>1, <2>1, <2>2 DEF KickPart, Type, IsMember
  <2> QED BY <2>1, <2>3, StartParts
<1>5. CASE RoleBegin(s, u, v, r)
  <2>1. n.pc = "role_set" /\ n.next = "idle"
    BY <1>5, RoleBegins
  <2> QED BY <2>1, CalmParts DEF Calm
<1>6. CASE DeleteGroup(s, u, r)
  <2>1. /\ n.pc = "announce" /\ n.user = u /\ n.room = r /\ n.next = "delete_sockets"
        /\ Type(r) = "g"
    BY <1>6, DeleteGroupBegins DEF Type
  <2>2. Same(r)
    BY <1>1 DEF Same
  <2> QED BY <2>1, <2>2, RelayPart DEF Leaving, RelayedPcs
<1>7. CASE UpdateTitle(s, u, r) \/ UpdateImage(s, u, r)
  <2>1. /\ n.pc = "rename_members" /\ n.room = r /\ n.next \in {"t", "img"}
        /\ member[r][u].rT = "g"
    BY <1>7, RenameBegins
  <2>2. Type(r) = "g"
    BY <2>1, WholeMember
  <2>3. RenamePart(n)'
    BY <1>1, <2>1, <2>2 DEF RenamePart, Type
  <2> QED BY <2>1, <2>3, StartParts
<1> QED BY <1>2, <1>3, <1>4, <1>5, <1>6, <1>7

LEMMA BroadcastStartPart ==
  ASSUME Inv1, Grows, AllWhole, NEW s \in Slots, NEW n, n = req'[s], NEW u \in Users,
         NEW r \in Rooms, NEW us \in SUBSET Users,
         BroadcastBegin(s, u, us) \/ AddToBroadcast(s, u, r, us)
  PROVE  Part(n)'
<1>1. UNCHANGED <<setting, member, role>>
  BY DEF BroadcastBegin, AddToBroadcast, UnchangedRooms, rooms
<1>2. CASE BroadcastBegin(s, u, us)
  <2>1. /\ n.pc = "broadcast_member" /\ n.room \in Fresh /\ n.list = {}
        /\ n.after = "broadcast_own"
    BY <1>2, BroadcastBegins
  <2>2. Type(n.room) = "none"
    BY <2>1, Settings0 DEF Fresh, Type
  <2>3. BroadcastPart(n)'
    BY <1>1, <2>1, <2>2 DEF BroadcastPart, NewBroadcast, Type
  <2> QED BY <2>1, <2>3, StartParts
<1>3. CASE AddToBroadcast(s, u, r, us)
  <2>1. /\ n.pc = "broadcast_next" /\ n.user = u /\ n.room = r /\ n.list = {}
        /\ n.after = "broadcast_copies" /\ member[r][u].rT = "b"
    BY <1>3, AddToBroadcastBegins
  <2>2. Type(r) = "b" /\ setting[r].cId = u
    BY <2>1, WholeMember
  <2>3. BroadcastPart(n)'
    BY <1>1, <2>1, <2>2 DEF BroadcastPart, NewBroadcast, Type
  <2> QED BY <2>1, <2>3, StartParts
<1> QED BY <1>2, <1>3

\* How many documents a group has.
LEMMA DocumentsOf ==
  ASSUME Inv1, AllWhole, NEW r \in Rooms, NEW u \in Users
  PROVE  /\ Documents(r) = 1 /\ IsMember(r, u) =>
              Type(r) = "g" /\ \A v \in Users : IsMember(r, v) => v = u
         /\ Documents(r) # 1 /\ InGroup(r, u) => \E v \in Users \ {u} : IsMember(r, v)
<1> DEFINE D == {d \in Users \X (1..2) : d[2] \in DOMAIN role[r][d[1]]}
<1>1. D = {<<v, 1>> : v \in GroupMembers(r)}
  <2>1. ASSUME NEW d \in D
        PROVE  d \in {<<v, 1>> : v \in GroupMembers(r)}
    <3>1. d[1] \in Users /\ d[2] \in DOMAIN role[r][d[1]] /\ d = <<d[1], d[2]>>
      BY <2>1
    <3>2. InGroup(r, d[1]) /\ d[2] = 1
      BY <3>1, WholeMember
    <3> QED BY <3>1, <3>2 DEF GroupMembers
  <2>2. ASSUME NEW v \in GroupMembers(r)
        PROVE  <<v, 1>> \in D
    <3>1. v \in Users /\ InGroup(r, v)
      BY DEF GroupMembers
    <3>2. 1 \in DOMAIN role[r][v]
      BY <3>1, WholeMember
    <3> QED BY <3>1, <3>2
  <2> QED BY <2>1, <2>2
<1>2. Documents(r) = Cardinality(D)
  BY DEF Documents
<1> HIDE DEF D
<1>3. ASSUME Documents(r) = 1, IsMember(r, u)
      PROVE  Type(r) = "g" /\ \A v \in Users : IsMember(r, v) => v = u
  <2>1. IsFiniteSet(D)
    <3>1. IsFiniteSet(Users \X (1..2))
      <4>1. IsFiniteSet({1}) /\ IsFiniteSet({2})
        BY FS_Singleton
      <4>2. 1..2 = {1} \cup {2}
        OBVIOUS
      <4>3. IsFiniteSet(1..2)
        BY <4>1, <4>2, FS_Union
      <4> QED BY <4>3, ChatAssumption, FS_Product
    <3>2. D \subseteq Users \X (1..2)
      BY <1>1 DEF GroupMembers
    <3> QED BY <3>1, <3>2, FS_Subset
  <2>2. PICK d : D = {d}
    BY <1>2, <1>3, <2>1, FS_Singleton
  <2>3. \A v, w \in GroupMembers(r) : v = w
    <3> TAKE v, w \in GroupMembers(r)
    <3>1. <<v, 1>> \in D /\ <<w, 1>> \in D
      BY <1>1
    <3>2. <<v, 1>> = <<w, 1>>
      BY <2>2, <3>1
    <3> QED BY <3>2
  <2>4. PICK w \in GroupMembers(r) : TRUE
    BY <1>1, <2>2
  <2>5. Type(r) = "g"
    BY <2>4, WholeMember DEF GroupMembers
  <2>6. \A v \in Users : IsMember(r, v) => v \in GroupMembers(r)
    BY <2>5, WholeMember DEF GroupMembers
  <2> QED BY <1>3, <2>3, <2>5, <2>6
<1>4. ASSUME Documents(r) # 1, InGroup(r, u)
      PROVE  \E v \in Users \ {u} : IsMember(r, v)
  <2>1. SUFFICES ASSUME \A v \in Users \ {u} : ~IsMember(r, v)
                 PROVE  FALSE
    OBVIOUS
  <2>2. GroupMembers(r) = {u}
    BY <1>4, <2>1, WholeMember DEF GroupMembers
  <2>3. D = {<<u, 1>>}
    BY <1>1, <2>2
  <2>4. Cardinality(D) = 1
    BY <2>3, FS_Singleton
  <2> QED BY <1>2, <1>4, <2>4
<1> QED BY <1>3, <1>4

LEMMA LeaveStartPart ==
  ASSUME Inv1, Grows, AllWhole, NEW s \in Slots, NEW n, n = req'[s], NEW u \in Users,
         NEW r \in Rooms, LeaveBegin(s, u, r)
  PROVE  Part(n)'
<1>1. UNCHANGED <<setting, member, role>>
  BY DEF LeaveBegin, UnchangedRooms, rooms
<1>2. /\ n.pc = "leave_socket" /\ n.user = u /\ n.room = r /\ IsMember(r, u)
      /\ n.next = IF Documents(r) = 1 THEN "delete_members"
                  ELSE IF ~InGroup(r, u) THEN "idle"
                  ELSE IF Head(role[r][u]) = "superAdmin" THEN "leave_successor"
                  ELSE "leave_role"
  BY LeaveBegins
<1>3. /\ n.next = "delete_members" => Documents(r) = 1
      /\ n.next \in {"leave_successor", "leave_role"} => InGroup(r, u) /\ Documents(r) # 1
      /\ n.next # "delete_sockets"
  BY <1>2
<1>4. n.next \in {"leave_successor", "leave_role"} =>
        Type(r) = "g" /\ \E v \in Users \ {u} : IsMember(r, v)
  BY <1>3, WholeMember, DocumentsOf
<1>5. n.next = "delete_members" =>
        Type(r) = "g" /\ \A v \in Users : IsMember(r, v) => v = u
  BY <1>2, <1>3, DocumentsOf
<1>6. LeavePart(n)'
  BY <1>1, <1>2, <1>4 DEF LeavePart, Leaving, Type, IsMember
<1>7. DeletePart(n)'
  BY <1>1, <1>2, <1>3, <1>5 DEF DeletePart, Leaving, Type, IsMember
<1> QED BY <1>2, <1>6, <1>7, StartParts

-----------------------------------------------------------------------------
(* RoomsAreWhole: what the requests change at once *)

\* The fields asked for here are others.
LEMMA MemberRequestSame ==
  ASSUME Inv1, NEW u \in Users, NEW r \in Rooms, MemberRequest(u, r), ~RenameBroadcast(u, r),
         UNCHANGED <<setting, role>>
  PROVE  \A q \in Rooms : Same(q)
<1>1. member[r][u] \in MemberDocs /\ \A v \in Users : member[r][v] \in MemberDocs
  BY MemberDoc
<1>2. CASE \E s \in Slots : DeleteRoom(s, u, r)
  <2> DEFINE e == [member[r][u] EXCEPT !.isD = TRUE]
  <2>1. member' = [member EXCEPT ![r][u] = e]
    BY <1>2 DEF DeleteRoom, Inv1, Typed
  <2>2. e.rT = member[r][u].rT /\ e.t = member[r][u].t /\ e.img = member[r][u].img
    BY <1>1, DocFields
  <2> HIDE DEF e
  <2> QED BY <2>1, <2>2, FieldSame
<1>3. CASE \E s \in Slots : RoomOneSeenOn(s, u, r) \/ RoomOneSeenOff(s, u, r)
  <2>1. PICK s \in Slots, on \in BOOLEAN : SetOneSeen(s, u, r, on)
    BY <1>3 DEF RoomOneSeenOn, RoomOneSeenOff
  <2> DEFINE e == [member[r][u] EXCEPT !.isOneSeen = on]
  <2>2. member' = [member EXCEPT ![r][u] = e]
    BY <2>1 DEF SetOneSeen, Inv1, Typed
  <2>3. e.rT = member[r][u].rT /\ e.t = member[r][u].t /\ e.img = member[r][u].img
    BY <1>1, DocFields
  <2> HIDE DEF e
  <2> QED BY <2>2, <2>3, FieldSame
<1>4. CASE \E flag \in Flags, on \in BOOLEAN : SetFlag(u, r, flag, on)
  <2>1. PICK flags \in SUBSET Flags :
          member' = [member EXCEPT ![r][u] = [member[r][u] EXCEPT !.flags = flags]]
    <3>1. PICK flag \in Flags, on \in BOOLEAN : SetFlag(u, r, flag, on)
      BY <1>4
    <3> DEFINE f == member[r][u].flags
               g == IF on THEN f \cup {flag} ELSE f \ {flag}
    <3>2. g \in SUBSET Flags
      BY <1>1, <3>1 DEF MemberDocs
    <3>3. member' = [member EXCEPT ![r][u] = [member[r][u] EXCEPT !.flags = g]]
      BY <3>1 DEF SetFlag, Inv1, Typed
    <3> HIDE DEF g
    <3> QED BY <3>2, <3>3
  <2> DEFINE e == [member[r][u] EXCEPT !.flags = flags]
  <2>2. e.rT = member[r][u].rT /\ e.t = member[r][u].t /\ e.img = member[r][u].img
    BY <1>1, DocFields
  <2> HIDE DEF e
  <2> QED BY <2>1, <2>2, FieldSame DEF e
<1>5. CASE \E s \in Slots : UpdateTimer(s, u, r)
  <2>1. PICK on \in BOOLEAN :
          LET Timed(m) == [m EXCEPT !.timer = on] IN member' = UpdateMembers(r, Timed)
    BY <1>5 DEF UpdateTimer
  <2> DEFINE f == [v \in Users |-> IF IsMember(r, v) THEN [member[r][v] EXCEPT !.timer = on]
                                   ELSE member[r][v]]
  <2>2. member' = [member EXCEPT ![r] = f]
    BY <2>1 DEF UpdateMembers, Inv1, Typed
  <2>3. \A v \in Users : /\ f[v].rT = member[r][v].rT /\ f[v].t = member[r][v].t
                         /\ f[v].img = member[r][v].img
    BY <1>1, DocFields
  <2> HIDE DEF f
  <2>4. (\A v \in Users : member'[r][v] = f[v]) /\ \A q \in Rooms \ {r} : member'[q] = member[q]
    BY <2>2, PutDocs
  <2> QED BY <2>3, <2>4 DEF Same
<1> QED BY <1>2, <1>3, <1>4, <1>5 DEF MemberRequest

LEMMA ControllersFit ==
  ASSUME Inv1, Quiet, Controllers, NEW h, NEW n, h.pc = "idle", Fit(h), Part(n)'
  PROVE  Fit(n)'
<1>1. RequestsFrame
  BY ControllersFrame
<1>2. /\ UNCHANGED <<setting, role>> /\ copies' \subseteq copies
      /\ (\E u \in Users, r \in Rooms : MemberRequest(u, r)) \/ UNCHANGED member
  BY <1>1 DEF RequestsFrame
<1>3. Unfinished(h) = {} /\ h.pc # "broadcast_setting"
  BY CalmParts, IdleCalm
<1>4. CASE \A r \in Rooms : Same(r)
  BY <1>2, <1>3, <1>4, NothingChanges
<1>5. CASE \E u \in Users, r \in Rooms : RenameBroadcast(u, r)
  <2>1. PICK u \in Users, r \in Rooms : RenameBroadcast(u, r)
    BY <1>5
  <2>2. PICK x \in [next : {"t", "img"}, lId : Names \ {"old"}] : member' = RenamedRoom(r, x)
    BY <2>1 DEF RenameBroadcast, RenamedRoom, UpdateMembers, Inv1, Typed
  <2>3. /\ \A q \in Rooms, v \in Users : member'[q][v].rT = member[q][v].rT
        /\ \A q \in Rooms \ {r} : member'[q] = member[q]
    BY <2>2, RenamedDocs
  <2>4. \A q \in Rooms \ {r} : Same(q)
    BY <1>2, <2>3 DEF Same
  <2>5. Whole(r) /\ member[r][u].rT = "b"
    BY <1>3, <2>1 DEF Fit, RenameBroadcast
  <2>6. Type(r) = "b" /\ \A v \in Users : Fits(r, v) /\ member[r][v].rT # "g"
    BY <2>5 DEF Whole, Fits, Type
  <2>7. Type(r)' = "b" /\ \A v \in Users : Fits(r, v)'
    BY <1>2, <2>3, <2>6 DEF Fits, Type, Docs
  <2>8. Whole(r)'
    BY <2>7 DEF Whole
  <2>9. \A q \in Rooms : Ids(q)
    BY <1>2 DEF Ids
  <2>10. OneSingle' /\ \A c \in copies' : Owned(c, n)'
    BY <1>2, <1>3, <2>9, IdsKept, CopiesOwned DEF Fit
  <2> QED BY <1>3, <2>4, <2>8, <2>10, RoomChanges
<1> QED BY <1>2, <1>4, <1>5, MemberRequestSame, SameWhenUnchanged

-----------------------------------------------------------------------------
(* RoomsAreWhole: the requests and the other steps *)

LEMMA CallsCalm ==
  ASSUME Inv1, Grows, NEW s \in Slots, NEW u \in Users, NEW r \in Rooms, NEW request,
         NEW pc \in {"room_hide", "open_show", "room_info", "settings_save", "deleted_look"},
         Free(s, request), Begin(s, Call(pc, u, r))
  PROVE  CalmStart(s)
<1>1. Begins(s, req'[s]) /\ req'[s].pc = pc
  BY CallBegins DEF Called
<1> QED BY <1>1 DEF CalmStart, Calm, BusyPcs, NewPcs, LeavePcs, RenamePcs, BroadcastPcs

LEMMA ChannelStartsOne ==
  ASSUME Inv1, Grows, ChannelController
  PROVE  StartsOne
<1>1. CASE \E u, v \in Users, s \in Slots : PeerBegin(s, u, v) \/ OrderBegin(s, u, v)
  BY <1>1 DEF StartsOne, Working
<1>2. CASE \E u \in Users, s \in Slots, r \in Rooms :
             \/ DeleteRoom(s, u, r) \/ GetRoomById(s, u, r) \/ UpdateTimer(s, u, r)
             \/ RoomOneSeenOn(s, u, r) \/ RoomOneSeenOff(s, u, r)
  <2>1. PICK u \in Users, s \in Slots, r \in Rooms :
             \/ DeleteRoom(s, u, r) \/ GetRoomById(s, u, r) \/ UpdateTimer(s, u, r)
             \/ RoomOneSeenOn(s, u, r) \/ RoomOneSeenOff(s, u, r)
    BY <1>2
  <2>2. \/ Free(s, "deleteRoom") /\ Begin(s, Call("room_hide", u, r))
        \/ Free(s, "open") /\ Begin(s, Call("open_show", u, r))
        \/ Free(s, "timer") /\ Begin(s, Call("room_info", u, r))
        \/ Free(s, "oneSeenRoom") /\ Begin(s, Call("room_info", u, r))
    BY <2>1 DEF DeleteRoom, GetRoomById, UpdateTimer, RoomOneSeenOn, RoomOneSeenOff, SetOneSeen
  <2>3. CalmStart(s)
    BY <2>2, CallsCalm
  <2> QED BY <2>3 DEF StartsOne
<1>3. CASE \E u \in Users, r \in Rooms : ClearRoomMessages(u, r) \/ DeliverRoomMessages(u, r)
  BY <1>3 DEF ClearRoomMessages, DeliverRoomMessages, StartsOne, AtOnce
<1>4. CASE \E u \in Users, r \in Rooms :
             \/ MuteRoom(u, r) \/ UnMuteRoom(u, r) \/ ArchiveRoom(u, r)
             \/ UnArchiveRoom(u, r) \/ ChangeNickName(u, r) \/ UpdateTranslate(u, r)
             \/ StopTranslate(u, r)
  <2>1. \E u \in Users, r \in Rooms, flag \in Flags, on \in BOOLEAN : SetFlag(u, r, flag, on)
    BY <1>4, FlagSteps
  <2> QED BY <2>1 DEF SetFlag, AtOnce, StartsOne
<1> QED BY <1>1, <1>2, <1>3, <1>4 DEF ChannelController

LEMMA GroupStartsOne ==
  ASSUME Inv1, Grows, GroupChannelController
  PROVE  StartsOne
<1>1. PICK s \in Slots, u \in Users :
        \/ \E us \in SUBSET Users : GroupBegin(s, u, us)
        \/ \E r \in Rooms :
             \/ LeaveBegin(s, u, r) \/ DeleteGroup(s, u, r) \/ SettingsBegin(s, u, r)
             \/ UpdateTitle(s, u, r) \/ UpdateImage(s, u, r)
             \/ \E v \in Users : AddBegin(s, u, v, r) \/ KickBegin(s, u, v, r)
                                 \/ RoleBegin(s, u, v, r)
  BY DEF GroupChannelController
<1>2. CASE \E r \in Rooms : SettingsBegin(s, u, r)
  <2>1. CalmStart(s)
    BY <1>2, CallsCalm DEF SettingsBegin
  <2> QED BY <2>1 DEF StartsOne
<1>3. CASE ~\E r \in Rooms : SettingsBegin(s, u, r)
  <2>1. Working(s)
    BY <1>1, <1>3 DEF Working
  <2> QED BY <2>1 DEF StartsOne
<1> QED BY <1>2, <1>3

LEMMA BroadcastStartsOne ==
  ASSUME Inv1, Grows, BroadcastChannelController
  PROVE  StartsOne
<1>1. CASE \E u \in Users, s \in Slots, us \in SUBSET Users :
             BroadcastBegin(s, u, us) \/ \E r \in Rooms : AddToBroadcast(s, u, r, us)
  BY <1>1 DEF StartsOne, Working
<1>2. CASE \E u \in Users, r \in Rooms :
             RenameBroadcast(u, r) \/ \E v \in Users : KickFromBroadcast(u, v, r)
  BY <1>2 DEF RenameBroadcast, KickFromBroadcast, StartsOne, AtOnce
<1> QED BY <1>1, <1>2 DEF BroadcastChannelController

LEMMA MessageStartsOne ==
  ASSUME Inv1, Grows, MessageChannelController
  PROVE  StartsOne
<1> USE DEF BusyPcs, NewPcs, LeavePcs, RenamePcs, BroadcastPcs
<1>1. CASE \E u \in Users, r \in Rooms, l \in LocalIds, s \in Slots : SendBegin(s, u, r, l)
  BY <1>1, SendBegins DEF StartsOne, CalmStart, Calm
<1>2. CASE \E u \in Users, i \in DOMAIN message, s \in Slots, e \in Emojis : ReactBegin(s, u, i, e)
  BY <1>2, ReactBegins DEF StartsOne, CalmStart, Calm
<1>3. CASE \E u \in Users, i \in DOMAIN message, s \in Slots, r \in Rooms : DeleteFromMe(s, u, r, i)
  BY <1>3, CallsCalm DEF DeleteFromMe, StartsOne
<1>4. CASE \E u \in Users, i \in DOMAIN message : MessageMark(u, i)
  <2>1. \E request : AtOnce(request)
    BY <1>4 DEF MessageMark, Mark, DeleteFromAll, StarRoomMessage, UnStarRoomMessage,
       OneSeeThisMessage, EditMessage, PinUnpinMessage, VoteOnPoll
  <2> QED BY <2>1 DEF AtOnce, StartsOne
<1> QED BY <1>1, <1>2, <1>3, <1>4 DEF MessageChannelController, MessageMark

LEMMA OthersStartOne ==
  ASSUME Inv1, Grows, UserBanController \/ ChatRequestRoutes \/ SocketIoGateway
  PROVE  StartsOne
<1> USE DEF BusyPcs, NewPcs, LeavePcs, RenamePcs, BroadcastPcs
<1>1. CASE UserBanController
  BY <1>1, BanBegins DEF UserBanController, StartsOne, CalmStart, Calm
<1>2. CASE ChatRequestRoutes
  BY <1>2 DEF ChatRequestRoutes, UpdateRequest, StartsOne, AtOnce, Working
<1>3. CASE SocketIoGateway
  BY <1>3, ConnectBegins, EnterBegins DEF SocketIoGateway, Disconnect, StartsOne, AtOnce,
     CalmStart, Calm
<1> QED BY <1>1, <1>2, <1>3

LEMMA ControllersStartOne ==
  ASSUME Inv1, Grows, Controllers
  PROVE  StartsOne
BY ChannelStartsOne, GroupStartsOne, BroadcastStartsOne, MessageStartsOne, OthersStartOne
   DEF Controllers

LEMMA WorkingBegins ==
  ASSUME Inv1, Grows, NEW s \in Slots, Working(s)
  PROVE  Begins(s, req'[s])
BY NewRoomBegins, RequestBegins, GroupBegins, BroadcastBegins, LeaveBegins, DeleteGroupBegins,
   RenameBegins, AddBegins, KickBegins, RoleBegins, AddToBroadcastBegins DEF Working

LEMMA WorkingPart ==
  ASSUME Inv1, Grows, AllWhole, NEW s \in Slots, NEW n, n = req'[s], Working(s)
  PROVE  Part(n)'
<1>1. \E u \in Users, r \in Rooms : TRUE
  BY ChatAssumption
<1>2. \E us \in SUBSET Users : TRUE
  OBVIOUS
<1>3. CASE \E u, v \in Users : PeerBegin(s, u, v) \/ OrderBegin(s, u, v) \/ RequestBegin(s, u, v)
  BY <1>3, NewRoomPart
<1>4. CASE \E u \in Users, us \in SUBSET Users : GroupBegin(s, u, us) \/ BroadcastBegin(s, u, us)
  BY <1>1, <1>4, GroupStartPart, BroadcastStartPart
<1>5. CASE \E u \in Users, r \in Rooms : \/ LeaveBegin(s, u, r) \/ DeleteGroup(s, u, r)
                                         \/ UpdateTitle(s, u, r) \/ UpdateImage(s, u, r)
  BY <1>2, <1>5, GroupStartPart, LeaveStartPart
<1>6. CASE \E u, v \in Users, r \in Rooms :
             AddBegin(s, u, v, r) \/ KickBegin(s, u, v, r) \/ RoleBegin(s, u, v, r)
  BY <1>2, <1>6, GroupStartPart
<1>7. CASE \E u \in Users, r \in Rooms, us \in SUBSET Users : AddToBroadcast(s, u, r, us)
  BY <1>7, BroadcastStartPart
<1> QED BY <1>3, <1>4, <1>5, <1>6, <1>7 DEF Working

-----------------------------------------------------------------------------
(* RoomsAreWhole: every step *)

\* The handler there is, or none, fits.
LEMMA OnlyFits ==
  ASSUME NEW s \in Slots, NEW n \in Handlers, n = req'[s], Fit(n)',
         \A t \in Slots \ {s} : req'[t].pc = "idle"
  PROVE  RoomsFit'
<1>1. ASSUME NEW t \in Slots, NEW m \in Handlers, m = req'[t], Only(t)'
      PROVE  Fit(m)'
  <2>1. CASE t = s
    BY <1>1, <2>1
  <2>2. CASE t # s
    <3>1. m.pc = "idle" /\ n.pc = "idle"
      BY <1>1, <2>2 DEF Only
    <3>2. Part(m)' /\ Unfinished(m) = {} /\ Unfinished(n) = {}
      BY <3>1, IdleCalm, CalmParts
    <3>3. \A c \in copies' : Owned(c, m)'
      BY <3>1 DEF Fit, Owned
    <3> QED BY <3>2, <3>3 DEF Fit, Unfinished, NewBroadcast, Broadcasting
  <2> QED BY <2>1, <2>2
<1> QED BY <1>1 DEF RoomsFit

LEMMA UnchangedFit ==
  ASSUME NEW h, Fit(h), UNCHANGED <<setting, member, role, copies>>
  PROVE  Fit(h)'
<1>1. OneSingle' /\ (\A r \in Rooms : Whole(r)' <=> Whole(r)) /\ \A c \in copies' : Owned(c, h)'
  <2>1. OneSingle'
    BY DEF Fit, OneSingle, Type
  <2>2. \A r \in Rooms : Whole(r)' <=> Whole(r)
    BY SameWhenUnchanged, SameRoom
  <2>3. \A c \in copies' : Owned(c, h)'
    BY DEF Fit, Owned, Type, SingleRooms
  <2> QED BY <2>1, <2>2, <2>3
<1>2. NewPart(h)' /\ GroupPart(h)'
  BY DEF Fit, Part, NewPart, GroupPart, Type, Docs, Nobody, Bare, Both, IsMember, SingleRooms
<1>3. AddPart(h)' /\ KickPart(h)'
  BY DEF Fit, Part, AddPart, KickPart, Type, Docs, IsMember, Fits, Titled
<1>4. LeavePart(h)' /\ DeletePart(h)'
  BY DEF Fit, Part, LeavePart, DeletePart, Leaving, Type, Docs, IsMember, Fits, Titled, Nobody, Bare
<1>5. RenamePart(h)' /\ BroadcastPart(h)'
  BY DEF Fit, Part, RenamePart, BroadcastPart, NewBroadcast, Type, Docs, IsMember, Nobody, Bare,
     SingleRooms
<1> QED BY <1>1, <1>2, <1>3, <1>4, <1>5 DEF Fit, Part, Unfinished, NewBroadcast, Broadcasting

\* The handlers a call nobody awaits may meet rely on what it leaves alone.
LEMMA AnnouncedFit ==
  ASSUME Inv1, NEW h, HandlerOK(h, message), h.pc \in LaterPcs, Fit(h), NEW k, Announced(k)
  PROVE  Fit(h)'
<1>1. UNCHANGED <<setting, role, copies>>
  BY DEF Announced
<1>2. PICK r \in Rooms, u \in Users : Announce(r, u)
  BY AnnouncedGrows
<1>3. \A q \in Rooms : Same(q)
  BY <1>1, <1>2, ShownSame, SameWhenUnchanged DEF Announce
<1>4. CASE h.pc = "idle"
  <2>1. Part(h)'
    BY <1>4, IdleCalm, CalmParts
  <2> QED BY <1>1, <1>3, <1>4, <2>1, NothingChanges
<1>5. CASE h.pc # "idle"
  <2>1. h.room \in Rooms /\ h.user \in Users
    BY <1>5 DEF HandlerOK, LaterPcs, RoomPcs, LeavePcs, RenamePcs
  <2>2. /\ Type(h.room)' = Type(h.room)
        /\ \A v \in Users : /\ Fits(h.room, v)' <=> Fits(h.room, v)
                            /\ IsMember(h.room, v)' <=> IsMember(h.room, v)
                            /\ Docs(h.room, v)' = Docs(h.room, v)
        /\ Nobody(h.room)' <=> Nobody(h.room)
    BY <1>3, <2>1, SameRoom
  <2>3. LeavePart(h) /\ RenamePart(h)
    BY DEF Fit, Part
  <2>4. Part(h)'
    <3>1. CASE h.pc = "leave_role"
      <4>1. /\ Type(h.room) = "g" /\ IsMember(h.room, h.user)
            /\ \E v \in Users \ {h.user} : IsMember(h.room, v)
        BY <2>3, <3>1 DEF LeavePart, Leaving
      <4> QED BY <1>3, <2>1, <3>1, <4>1, RelayPart DEF RelayedPcs, Leaving
    <3>2. CASE h.pc = "leave_member"
      <4>1. LeavePart(h)'
        BY <2>1, <2>2, <2>3, <3>2 DEF LeavePart, Leaving
      <4> QED BY <3>2, <4>1, PartOf
    <3>3. CASE h.pc = "rename_setting"
      <4>1. RenamePart(h)'
        BY <1>3, <2>1, <2>2, <2>3, <3>3 DEF RenamePart, Same
      <4> QED BY <3>3, <4>1, PartOf
    <3> QED BY <1>5, <3>1, <3>2, <3>3 DEF LaterPcs
  <2>5. h.pc # "broadcast_setting"
    BY DEF LaterPcs
  <2> QED BY <1>1, <1>3, <2>4, <2>5, NothingChanges
<1> QED BY <1>4, <1>5

\* A request meets rooms that are whole.
LEMMA RequestsFit ==
  ASSUME Inv1, Quiet, Controllers, NEW h, h.pc = "idle", Fit(h)
  PROVE  RoomsFit'
<1>1. Grows
  BY ChannelGrows, ControllersGrow, MessageControllerGrows DEF Controllers
<1>2. AllWhole
  BY CalmParts, IdleCalm DEF Fit, AllWhole
<1>3. StartsOne
  BY <1>1, ControllersStartOne
<1>4. Inv1'
  BY <1>1, RequestsTyped
<1>5. CASE UNCHANGED req
  <2>1. PICK s \in Slots : TRUE
    BY ChatAssumption
  <2>2. PICK n \in Handlers : n = req'[s]
    BY <1>4 DEF Inv1, Handling
  <2>3. \A t \in Slots : req'[t].pc = "idle"
    BY <1>5, QuietIdle
  <2>4. Part(n)'
    BY <2>2, <2>3, IdleCalm, CalmParts
  <2>5. Fit(n)'
    BY <2>4, ControllersFit
  <2> QED BY <2>2, <2>3, <2>5, OnlyFits
<1>6. CASE \E s \in Slots : Working(s) \/ CalmStart(s)
  <2>1. PICK s \in Slots : Working(s) \/ CalmStart(s)
    BY <1>6
  <2>2. Begins(s, req'[s])
    BY <1>1, <2>1, WorkingBegins DEF CalmStart
  <2>3. PICK n \in Handlers : n = req'[s]
    BY <2>2 DEF Begins
  <2>4. \A t \in Slots \ {s} : req'[t].pc = "idle"
    BY <2>2, QuietIdle DEF Begins, Rest
  <2>5. Part(n)'
    BY <1>1, <1>2, <2>1, <2>3, WorkingPart, CalmParts DEF CalmStart
  <2>6. Fit(n)'
    BY <2>5, ControllersFit
  <2> QED BY <2>3, <2>4, <2>6, OnlyFits
<1> QED BY <1>3, <1>5, <1>6 DEF StartsOne

LEMMA StepFit ==
  ASSUME Inv1, Serial, RoomsFit, [Next]_vars
  PROVE  RoomsFit'
<1> SUFFICES ASSUME Alone'
             PROVE  RoomsFit'
  BY DEF RoomsFit
<1>1. Alone
  BY AloneSteps
<1>2. \A s \in Slots : req[s] \in Handlers /\ HandlerOK(req[s], message)
  BY HandlerOf
<1>3. \A s \in Slots : Only(s) => Fit(req[s])
  BY <1>1, <1>2 DEF RoomsFit
<1>4. Quiet => \A s \in Slots : req[s].pc = "idle" /\ Fit(req[s])
  BY <1>3, QuietIdle DEF Only
<1>5. PICK s0 \in Slots : Only(s0)
  <2>1. CASE \E s \in Slots : req[s].pc # "idle"
    BY <1>1, <2>1, OthersIdle DEF Only
  <2>2. CASE \A s \in Slots : req[s].pc = "idle"
    BY <2>2, ChatAssumption DEF Only
  <2> QED BY <2>1, <2>2
<1>6. ASSUME NEW s \in Slots, Continue(s)
      PROVE  RoomsFit'
  <2>1. Becomes(s, req'[s]) /\ req[s].pc # "idle"
    BY <1>6, ContinueBecomes
  <2>2. PICK n \in Handlers : n = req'[s]
    BY <2>1 DEF Becomes
  <2>3. \A t \in Slots \ {s} : req[t].pc = "idle"
    BY <1>1, <2>1, OthersIdle
  <2>4. \A t \in Slots \ {s} : req'[t].pc = "idle"
    BY <2>1, <2>3 DEF Becomes, Rest
  <2>5. PICK h : h = req[s] /\ Fit(h)
    BY <1>3, <2>3 DEF Only
  <2>6. Fit(n)'
    BY <1>6, <2>2, <2>5, ContinueFit
  <2> QED BY <2>2, <2>4, <2>6, OnlyFits
<1>7. ASSUME Quiet, Controllers
      PROVE  RoomsFit'
  <2>1. PICK h : h.pc = "idle" /\ Fit(h)
    BY <1>4, <1>5, <1>7
  <2> QED BY <1>7, <2>1, RequestsFit
<1>9. ASSUME UNCHANGED req, Fit(req[s0]) => \A n : n = req[s0] => Fit(n)'
      PROVE  RoomsFit'
  <2>1. PICK n \in Handlers : n = req'[s0]
    BY <1>2, <1>9
  <2>2. \A t \in Slots \ {s0} : req'[t].pc = "idle"
    BY <1>5, <1>9 DEF Only
  <2>3. Fit(n)'
    BY <1>3, <1>5, <1>9, <2>1
  <2> QED BY <2>1, <2>2, <2>3, OnlyFits
<1>10. ASSUME NEW k \in 1..2, Announced(k)
       PROVE  RoomsFit'
  <2>1. later # <<>> /\ UNCHANGED req
    BY <1>10 DEF Announced
  <2>2. req[s0].pc \in LaterPcs
    BY <1>1, <2>1 DEF Serial
  <2> QED BY <1>2, <1>9, <1>10, <2>1, <2>2, AnnouncedFit
<1>11. ASSUME (\E i \in DOMAIN message : Expire(i)) \/ UNCHANGED vars
       PROVE  RoomsFit'
  <2>1. UNCHANGED <<setting, member, role, copies, req>>
    BY <1>11 DEF Expire, vars, rooms
  <2> QED BY <1>9, <2>1, UnchangedFit
<1> QED BY <1>6, <1>7, <1>10, <1>11, AloneSteps

\* The rooms a scene starts with.
LEMMA FirstSetups ==
  ASSUME Init
  PROVE  LET single == SingleOf(scene.setup)
             group == Started(scene.setup, "group")
             broadcast == Started(scene.setup, "broadcast")
         IN /\ \A r, q \in single : r = q
            /\ single \cap group = {} /\ single \cap broadcast = {} /\ group \cap broadcast = {}
            /\ broadcast # {} => r2 \in single
BY FirstRooms DEF SingleOf, Started

LEMMA FirstDocs ==
  ASSUME Init, NEW r \in Rooms
  PROVE  LET single == SingleOf(scene.setup)
             group == Started(scene.setup, "group")
             broadcast == Started(scene.setup, "broadcast")
         IN /\ setting[r].t = "old" /\ setting[r].img = "old"
            /\ r \in single =>
                 Type(r) = "s" /\ setting[r].cId = Creator /\ setting[r].pId = Peer
            /\ r \in group => Type(r) = "g"
            /\ r \in broadcast => Type(r) = "b" /\ setting[r].cId = Creator
            /\ r \notin single \cup group \cup broadcast => Type(r) = "none"
            /\ \A u \in Users :
                 /\ member[r][u].t = "old" /\ member[r][u].img = "old"
                 /\ member[r][u].rT =
                      IF r \in single /\ u \in {Creator, Peer} THEN "s"
                      ELSE IF r \in group /\ u \in {Creator, Peer} THEN "g"
                      ELSE IF r \in broadcast /\ u = Creator THEN "b" ELSE "none"
                 /\ Docs(r, u) = IF r \in group /\ u \in {Creator, Peer} THEN 1 ELSE 0
<1> DEFINE single == SingleOf(scene.setup)
           group == Started(scene.setup, "group")
           broadcast == Started(scene.setup, "broadcast")
           x == Setting("s", Creator, Peer)
           y == Setting("g", Creator, NoUser)
           z == Setting("b", Creator, NoUser)
           a == NoMember
           b == [a EXCEPT !.rT = "s"]
           c == [a EXCEPT !.rT = "g"]
           d == [a EXCEPT !.rT = "b"]
<1>1. /\ single \cap group = {} /\ single \cap broadcast = {} /\ group \cap broadcast = {}
  BY FirstSetups
<1>2. /\ setting = [q \in Rooms |-> IF q \in single THEN x ELSE IF q \in group THEN y
                                    ELSE IF q \in broadcast THEN z ELSE NoSetting]
      /\ member = [q \in Rooms |-> [u \in Users |->
                     IF q \in single /\ u \in {Creator, Peer} THEN b
                     ELSE IF q \in group /\ u \in {Creator, Peer} THEN c
                     ELSE IF q \in broadcast /\ u = Creator THEN d ELSE a]]
      /\ role = [q \in Rooms |-> [u \in Users |->
                   IF q \in group /\ u = Creator THEN <<"superAdmin">>
                   ELSE IF q \in group /\ u = Peer THEN <<"member">> ELSE <<>>]]
  BY DEF Init
<1>3. /\ x.rT = "s" /\ x.cId = Creator /\ x.pId = Peer /\ x.t = "old" /\ x.img = "old"
      /\ y.rT = "g" /\ y.t = "old" /\ y.img = "old"
      /\ z.rT = "b" /\ z.cId = Creator /\ z.t = "old" /\ z.img = "old"
  BY SettingType, ChatAssumption DEF RoomTypes
<1>4. a \in MemberDocs /\ a.rT = "none" /\ a.t = "old" /\ a.img = "old"
  BY Members0
<1> HIDE DEF single, group, broadcast, x, y, z, a
<1>5. /\ b.rT = "s" /\ c.rT = "g" /\ d.rT = "b"
      /\ \A e \in {b, c, d} : e.t = "old" /\ e.img = "old"
  BY <1>4 DEF MemberDocs
<1> HIDE DEF b, c, d
<1>6. /\ setting[r].t = "old" /\ setting[r].img = "old"
      /\ r \in single => Type(r) = "s" /\ setting[r].cId = Creator /\ setting[r].pId = Peer
      /\ r \in group => Type(r) = "g"
      /\ r \in broadcast => Type(r) = "b" /\ setting[r].cId = Creator
      /\ r \notin single \cup group \cup broadcast => Type(r) = "none"
  BY <1>1, <1>2, <1>3, Settings0 DEF Type
<1>7. ASSUME NEW u \in Users
      PROVE  /\ member[r][u].t = "old" /\ member[r][u].img = "old"
             /\ member[r][u].rT = IF r \in single /\ u \in {Creator, Peer} THEN "s"
                                  ELSE IF r \in group /\ u \in {Creator, Peer} THEN "g"
                                  ELSE IF r \in broadcast /\ u = Creator THEN "b" ELSE "none"
             /\ Docs(r, u) = IF r \in group /\ u \in {Creator, Peer} THEN 1 ELSE 0
  <2>1. member[r][u] = IF r \in single /\ u \in {Creator, Peer} THEN b
                       ELSE IF r \in group /\ u \in {Creator, Peer} THEN c
                       ELSE IF r \in broadcast /\ u = Creator THEN d ELSE a
    BY <1>2
  <2>2. role[r][u] = IF r \in group /\ u = Creator THEN <<"superAdmin">>
                     ELSE IF r \in group /\ u = Peer THEN <<"member">> ELSE <<>>
    BY <1>2
  <2>3. Len(role[r][u]) = IF r \in group /\ u \in {Creator, Peer} THEN 1 ELSE 0
    BY <2>2
  <2> QED BY <1>4, <1>5, <2>1, <2>3 DEF Docs
<1> QED BY <1>6, <1>7 DEF single, group, broadcast

LEMMA InitFit ==
  ASSUME Init
  PROVE  RoomsFit
<1> DEFINE single == SingleOf(scene.setup)
           group == Started(scene.setup, "group")
           broadcast == Started(scene.setup, "broadcast")
<1>1. /\ \A r, q \in single : r = q
      /\ single \cap group = {} /\ single \cap broadcast = {} /\ group \cap broadcast = {}
      /\ broadcast # {} => r2 \in single
  BY FirstSetups
<1>2. \A r \in Rooms :
        /\ setting[r].t = "old" /\ setting[r].img = "old"
        /\ r \in single => Type(r) = "s" /\ setting[r].cId = Creator /\ setting[r].pId = Peer
        /\ r \in group => Type(r) = "g"
        /\ r \in broadcast => Type(r) = "b" /\ setting[r].cId = Creator
        /\ r \notin single \cup group \cup broadcast => Type(r) = "none"
        /\ \A u \in Users :
             /\ member[r][u].t = "old" /\ member[r][u].img = "old"
             /\ member[r][u].rT =
                  IF r \in single /\ u \in {Creator, Peer} THEN "s"
                  ELSE IF r \in group /\ u \in {Creator, Peer} THEN "g"
                  ELSE IF r \in broadcast /\ u = Creator THEN "b" ELSE "none"
             /\ Docs(r, u) = IF r \in group /\ u \in {Creator, Peer} THEN 1 ELSE 0
  BY FirstDocs
<1>3. copies = {<<r, Peer, r2>> : r \in broadcast} /\ broadcast \subseteq Rooms
  BY FirstRooms DEF Init, Started
<1>4. req = [s \in Slots |-> Idle] /\ r2 \in Rooms
  BY FirstRooms DEF Init
<1> HIDE DEF single, group, broadcast
<1>5. ASSUME NEW r \in Rooms
      PROVE  Whole(r)
  <2>1. \A u \in Users : Fits(r, u)
    BY <1>1, <1>2 DEF Fits, Type, Titled
  <2>2. Type(r) = "g" => ~Nobody(r)
    <3>1. Type(r) = "g" => r \in group
      BY <1>1, <1>2
    <3>2. r \in group => IsMember(r, Creator)
      BY <1>1, <1>2, ChatAssumption DEF IsMember
    <3> QED BY <3>1, <3>2, ChatAssumption DEF Nobody
  <2>3. Type(r) \in {"s", "o"} => setting[r].cId \in Users /\ setting[r].pId \in Users
    BY <1>1, <1>2, ChatAssumption
  <2> QED BY <2>1, <2>2, <2>3 DEF Whole
<1>6. OneSingle
  BY <1>1, <1>2 DEF OneSingle
<1>7. ASSUME NEW c \in copies, NEW h
      PROVE  Owned(c, h)
  <2>1. PICK r \in broadcast : c = <<r, Peer, r2>>
    BY <1>3
  <2>2. r2 \in SingleRooms(Creator, Peer)
    BY <1>1, <1>2, <1>4, <2>1 DEF SingleRooms, Type
  <2> QED BY <1>2, <1>3, <2>1, <2>2 DEF Owned
<1>8. ASSUME NEW h, h.pc = "idle"
      PROVE  Part(h)
  <2>1. NewPart(h) /\ GroupPart(h) /\ AddPart(h) /\ KickPart(h)
    BY <1>8 DEF NewPart, GroupPart, AddPart, KickPart
  <2>2. LeavePart(h) /\ DeletePart(h) /\ RenamePart(h)
    BY <1>8 DEF LeavePart, DeletePart, RenamePart, Leaving
  <2>3. BroadcastPart(h)
    BY <1>8 DEF BroadcastPart, NewBroadcast, Broadcasting, BroadcastPcs, NewPcs
  <2> QED BY <2>1, <2>2, <2>3 DEF Part
<1> QED BY <1>4, <1>5, <1>6, <1>7, <1>8, IdleType DEF RoomsFit, Fit

\* Without overlap and without a restart the documents of every room agree.
THEOREM ChatRoomsAreWhole == Spec => []RoomsAreWhole
<1> DEFINE I == Inv1 /\ Serial /\ RoomsFit
<1>1. Init => I
  BY InitTyped, InitSerial, InitFit
<1>2. I /\ [Next]_vars => I'
  BY StepTyped, StepSerial, StepFit
<1>3. I => RoomsAreWhole
  <2> SUFFICES ASSUME I, Undisturbed
               PROVE  /\ \A u, v \in Users : u # v => Cardinality(SingleRooms(u, v)) <= 1
                      /\ \A r \in Rooms :
                           /\ setting[r].rT \in {"s", "o"} =>
                                Members(r) = {setting[r].cId, setting[r].pId}
                           /\ setting[r].rT = "g" => Members(r) # {}
                           /\ \A u \in Users :
                                /\ Len(role[r][u]) = IF member[r][u].rT = "g" THEN 1 ELSE 0
                                /\ member[r][u].rT = "g" =>
                                     /\ setting[r].rT = "g"
                                     /\ member[r][u].t = setting[r].t
                                     /\ member[r][u].img = setting[r].img
                      /\ \A c \in copies : c[3] \in SingleRooms(setting[c[1]].cId, c[2])
    BY DEF RoomsAreWhole
  <2>1. PICK s \in Slots : TRUE
    BY ChatAssumption
  <2>2. PICK h : h = req[s] /\ h.pc = "idle" /\ Fit(h)
    BY <2>1, QuietIdle, HandlerOf DEF Undisturbed, Alone, RoomsFit, Only
  <2>3. OneSingle /\ \A c \in copies : Owned(c, h)
    BY <2>2 DEF Fit
  <2>4. \A r \in Rooms : Whole(r)
    BY <2>2, IdleCalm, CalmParts DEF Fit
  <2>5. ASSUME NEW u \in Users, NEW v \in Users
        PROVE  Cardinality(SingleRooms(u, v)) <= 1
    <3>1. \A r, q \in SingleRooms(u, v) : r = q
      BY <2>3 DEF OneSingle, SingleRooms, Type
    <3>2. SingleRooms(u, v) = {} \/ \E r : SingleRooms(u, v) = {r}
      BY <3>1
    <3>3. Cardinality(SingleRooms(u, v)) \in {0, 1}
      BY <3>2, FS_EmptySet, FS_Singleton
    <3> QED BY <3>3
  <2>6. ASSUME NEW r \in Rooms
        PROVE  /\ setting[r].rT \in {"s", "o"} => Members(r) = {setting[r].cId, setting[r].pId}
               /\ setting[r].rT = "g" => Members(r) # {}
               /\ \A u \in Users :
                    /\ Len(role[r][u]) = IF member[r][u].rT = "g" THEN 1 ELSE 0
                    /\ member[r][u].rT = "g" =>
                         /\ setting[r].rT = "g"
                         /\ member[r][u].t = setting[r].t /\ member[r][u].img = setting[r].img
    <3>1. Whole(r)
      BY <2>4
    <3>2. setting[r].rT \in {"s", "o"} => Members(r) = {setting[r].cId, setting[r].pId}
      BY <3>1 DEF Whole, Fits, Type, Members, IsMember
    <3>3. setting[r].rT = "g" => Members(r) # {}
      BY <3>1 DEF Whole, Nobody, Type, Members
    <3> QED BY <3>1, <3>2, <3>3 DEF Whole, Fits, Docs, Titled
  <2> QED BY <2>2, <2>3, <2>5, <2>6 DEF Owned
<1> QED BY <1>1, <1>2, <1>3, PTL DEF Spec
===============================================================================
