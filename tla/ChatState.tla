----------------------------- MODULE ChatState -----------------------------
(***************************************************************************)
(* The state of the chat: the documents of its collections, the socket.io  *)
(* rooms its users listen to and the handlers in progress, with the        *)
(* operations that several services share.  ChatRooms, ChatGroups and      *)
(* ChatMessages hold the handlers, Chat puts them together.                *)
(***************************************************************************)
EXTENDS Integers, FiniteSets, Sequences

CONSTANTS
  Users,
  Creator, Peer,  \* who has created the room a scene starts with, and with whom
  Rooms,          \* ids of rooms
  LocalIds,       \* the localId a client gives to a message, the same when it retries
  Scenes,         \* where a behaviour starts, its requests, their number and the restarts
  Slots,          \* handlers that may be in progress at once
  NoUser, NoRoom, NoId

Requests == {"peer", "order", "request", "block", "connect", "open", "deleteRoom",
             "clear", "flags", "oneSeenRoom", "timer", "send", "deliver",
             "enter", "marks", "deleteMessage", "react", "vote", "group", "add",
             "kick", "leave", "role", "deleteGroup", "settings", "rename",
             "broadcast", "addToBroadcast", "kickFromBroadcast"}

\* What there is at the start: nothing, a room of two, a group, a broadcast.
Setups == {"empty", "single", "group", "broadcast"}

ASSUME ChatAssumption ==
  /\ Creator \in Users /\ Peer \in Users /\ Creator # Peer
  /\ \E r, q \in Rooms : r # q
  /\ IsFiniteSet(Users) /\ IsFiniteSet(Rooms) /\ IsFiniteSet(Slots) /\ Slots # {}
  /\ Scenes \subseteq [setup : Setups, menu : SUBSET Requests, limit : Nat, restarts : Nat]
  /\ NoUser \notin Users /\ NoRoom \notin Rooms /\ NoId \notin LocalIds

VARIABLES
  scene,
  setting,   \* single, order, group and broadcast room settings, by room
  member,    \* room_member, by room and user
  role,      \* group_member: the roles of the documents of a user in a group
  copies,    \* broadcast_member: in which room a user gets the messages of a broadcast
  message,   \* the messages in the order of their ids
  bans,      \* user_ban: <<banner, target>>
  requests,  \* chat_request
  online,    \* the users with a socket
  joined,    \* the socket.io rooms the socket of a user is in
  req,       \* handlers in progress
  later,     \* createMessage calls nobody awaits: <<user, room>>
  apart,     \* history: whose sockets a request has parted from the documents
  begun, overlapped, restarts

rooms == <<setting, member, role, copies>>
people == <<bans, requests, apart>>
sockets == <<online, joined>>
process == <<begun, overlapped, restarts>>
vars == <<scene, rooms, message, people, sockets, req, later, process>>

RoomTypes == {"s", "o", "g", "b"}
Roles == {"member", "admin", "superAdmin"}
Names == {"old", "new", "newer"}
Emojis == {"like", "love"}
Options == {"yes", "no"}
Flags == {"isM", "isA", "tTo", "nTitle"}

\* The settings of a room: creator, peer, order, and of a group its policy,
\* muted members, title and image.
NoSetting == [rT |-> "none", cId |-> NoUser, pId |-> NoUser, adminsOnly |-> FALSE,
              muted |-> {}, t |-> "old", img |-> "old"]
Setting(rT, c, p) == [NoSetting EXCEPT !.rT = rT, !.cId = c, !.pId = p]

NoMember == [rT |-> "none", isD |-> FALSE, lSM |-> 0, isOneSeen |-> FALSE,
             timer |-> FALSE, flags |-> {}, t |-> "old", img |-> "old"]
Member(rT) == [NoMember EXCEPT !.rT = rT, !.lSM = Len(message)]

\* tags: the flags and dates of a message that are set; status: what
\* group_message_status says of each member.
Statuses == {"none", "sent", "delivered", "seen", "seenOnly"}
Tags == {"isOneSeen", "disappearAt", "dAt", "sAt", "dltAt", "isEdited", "isPinned",
         "poll", "info", "created", "gone"}
Message(r, u, l, tags) ==
  [rId |-> r, sId |-> u, lId |-> l, tags |-> tags, dF |-> {}, stars |-> {},
   oneSeenBy |-> {}, votes |-> {}, reactions |-> [v \in Users |-> "none"],
   status |-> [v \in Users |-> "none"]]

Idle == [pc |-> "idle", user |-> NoUser, peer |-> NoUser, room |-> NoRoom, at |-> NoRoom,
         lId |-> NoId, msg |-> 0, todo |-> {}, list |-> {}, seen |-> NoMember,
         next |-> "idle", after |-> "idle"]
Call(pc, u, r) == [Idle EXCEPT !.pc = pc, !.user = u, !.room = r]

InProgress == {s \in Slots : req[s].pc # "idle"}
Quiet == InProgress = {} /\ later = <<>>

\* Handlers are alike: the next one takes a slot chosen for it.
Free(s, request) ==
  /\ request \in scene.menu /\ begun < scene.limit
  /\ InProgress # Slots /\ s = CHOOSE t \in Slots \ InProgress : TRUE

Counted == begun' = begun + 1 /\ overlapped' = (overlapped \/ ~Quiet) /\ UNCHANGED restarts
Begin(s, h) == req' = [req EXCEPT ![s] = h] /\ Counted

\* A request that is answered by one database operation needs no slot.
AtOnce(request) == request \in scene.menu /\ begun < scene.limit /\ Counted /\ UNCHANGED req

Resume(s, h) == req' = [req EXCEPT ![s] = h] /\ UNCHANGED process
Goto(s, pc) == Resume(s, [req[s] EXCEPT !.pc = pc])
Return(s) == Resume(s, Idle)

At(s, pc) == req[s].pc = pc

-----------------------------------------------------------------------------
(* Lookups: RoomMiddlewareService, UserBanService *)

IsMember(r, u) == member[r][u].rT # "none"
Members(r) == {u \in Users : IsMember(r, u)}
InGroup(r, u) == role[r][u] # <<>>
GroupMembers(r) == {u \in Users : InGroup(r, u)}
RoomsOf(u) == {r \in Rooms : IsMember(r, u)}

\* getSingleRoomSetting: whichever of the two has created the room.
SingleRooms(u, v) ==
  {r \in Rooms : setting[r].rT = "s" /\ {setting[r].cId, setting[r].pId} = {u, v}}
SingleRoom(u, v) == CHOOSE r \in SingleRooms(u, v) : TRUE

\* getBan: a ban in either direction.
Banned(u, v) == <<u, v>> \in bans \/ <<v, u>> \in bans

\* newMongoObjId: an id no document and no handler has, or had.
Fresh == {r \in Rooms : /\ setting[r] = NoSetting /\ Members(r) = {} /\ GroupMembers(r) = {}
                        /\ \A i \in DOMAIN message : message[i].rId # r
                        /\ \A s \in Slots : r \notin {req[s].room, req[s].at}}
NewRoom == CHOOSE r \in Fresh : TRUE

-----------------------------------------------------------------------------
(* Writes: RoomMemberService, GroupMemberService, MessageService *)

SetMember(r, u, m) == [member EXCEPT ![r][u] = m]
UpdateMembers(r, Changed(_)) ==
  [member EXCEPT ![r] = [u \in Users |-> IF IsMember(r, u) THEN Changed(@[u]) ELSE @[u]]]

\* unDeleteAllRoomMembers
UnDeleted(r) == LET Shown(m) == [m EXCEPT !.isD = FALSE] IN UpdateMembers(r, Shown)

Alive(i) == "gone" \notin message[i].tags
InRoom(r) == {i \in DOMAIN message : message[i].rId = r /\ Alive(i)}
\* getRoomMessages: what a member is shown of a room.
Visible(r, u) == {i \in InRoom(r) : IsMember(r, u) /\ u \notin message[i].dF}

\* getRoomsLimited: the rooms in the lists of a user, archived ones included.
Listed(u) == {r \in RoomsOf(u) : ~member[r][u].isD}

\* getRoomUnReadCount, also counted for every room of the list.
Unread(r, u) == {i \in InRoom(r) : i > member[r][u].lSM /\ message[i].sId # u}

\* getGroupMessageInfo: to whom a message has been delivered, who has seen it.
DeliveredTo(i) == {u \in Users : message[i].status[u] = "delivered"}
SeenBy(i) == {u \in Users : message[i].status[u] = "seen"}

UpdateMessages(ids, Changed(_)) ==
  [i \in DOMAIN message |-> IF i \in ids THEN Changed(message[i]) ELSE message[i]]
Tagged(ids, tag) ==
  LET With(m) == [m EXCEPT !.tags = @ \cup {tag}] IN UpdateMessages(ids, With)

\* $addToSet dF: the messages of a room are deleted from a user only.
HideAll(r, u) ==
  LET Hidden(m) == [m EXCEPT !.dF = @ \cup {u}] IN UpdateMessages(InRoom(r), Hidden)

Info(r, u) == Message(r, u, NoId, {"info"})

\* _createStatusForGroupChat: a status for every member of the group.
ForGroup(m) ==
  [m EXCEPT !.tags = @ \cup {"created"},
            !.status = [v \in Users |-> IF InGroup(m.rId, v) THEN "sent" ELSE "none"]]

\* createMessage: who may send to a group; the membership looked at is the
\* first document found.
MaySend(r, u) ==
  /\ setting[r].rT = "g" /\ InGroup(r, u) /\ u \notin setting[r].muted
  /\ setting[r].adminsOnly => Head(role[r][u]) # "member"

\* leaveRoom, leaveRooms and joinRoom of SocketIoService: the sockets of users
\* that have one.
JoinRoom(us, r) ==
  joined' = [u \in Users |-> IF u \in us \cap online THEN joined[u] \cup {r} ELSE joined[u]]
LeaveRoom(us, r) == joined' = [u \in Users |-> IF u \in us THEN joined[u] \ {r} ELSE joined[u]]
=============================================================================
