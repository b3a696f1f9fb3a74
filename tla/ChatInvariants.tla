--------------------------- MODULE ChatInvariants ---------------------------
(***************************************************************************)
(* What holds of the chat between and during its requests: the types of    *)
(* the documents and of what a handler keeps, what steps may do to the     *)
(* messages and documents, and the inductive invariants.  ChatProofs shows *)
(* that they hold and that they imply the properties of Chat.              *)
(*                                                                         *)
(* Typed and HandlerOK are TypeOK with what a handler keeps; Grows is what *)
(* a step may do to the messages; InSight and RoomsFit say of a request in *)
(* progress what its handler has still to do.                              *)
(***************************************************************************)
EXTENDS Chat

\* Where a room is created, for itself, for a chat request or by a broadcast.
NewPcs == {"room_setting", "order_setting", "room_members", "room_join"}
BanPcs == {"ban_create", "ban_delete", "ban_sockets"}
ConnectPcs == {"connect_read", "connect_join", "connect_deliver"}
GroupPcs == {"group_members", "group_roles", "group_setting", "group_join", "group_hello"}
AddPcs == {"add_role", "add_member", "add_join"}
KickPcs == {"kick_role", "kick_member", "kick_leave"}
LeavePcs == {"leave_socket", "leave_successor", "leave_role", "leave_member"}
DeletePcs == {"delete_sockets", "delete_members", "delete_roles", "delete_setting",
              "delete_messages"}
RenamePcs == {"rename_members", "rename_setting"}
BroadcastPcs == {"broadcast_member", "broadcast_join", "broadcast_next", "broadcast_note",
                 "broadcast_own", "broadcast_copies", "broadcast_setting"}
SendPcs == {"send_undelete", "send_check", "send_create", "send_statuses", "send_copies"}
EnterPcs == {"enter_read", "enter_deliver", "enter_seen"}
AtPcs == NewPcs \cup {"request_create", "broadcast_note"}
PeerPcs == AtPcs \cup BanPcs \cup AddPcs \cup KickPcs \cup {"role_set"}
RoomPcs == {"room_hide", "room_info", "open_show", "open_join", "announce", "role_set",
            "settings_save", "deleted_look", "deleted_room"}
             \cup GroupPcs \cup AddPcs \cup KickPcs \cup LeavePcs \cup DeletePcs \cup RenamePcs
             \cup BroadcastPcs \cup SendPcs \cup EnterPcs

\* What a handler keeps for a later step: where to go, what to do there.
Nexts == {"idle", "request_create", "broadcast_note", "broadcast_own", "broadcast_copies", "join",
          "leave_role", "leave_successor", "delete_members", "delete_sockets", "leave", "t", "img"}

PCs == {"idle", "react_save"} \cup PeerPcs \cup RoomPcs \cup ConnectPcs

SettingDocs == [rT : RoomTypes \cup {"none"}, cId : Users \cup {NoUser},
                pId : Users \cup {NoUser}, adminsOnly : BOOLEAN,
                muted : SUBSET Users, t : Names, img : Names]

MemberDocs == [rT : RoomTypes \cup {"none"}, isD : BOOLEAN, lSM : Nat, isOneSeen : BOOLEAN,
               timer : BOOLEAN, flags : SUBSET Flags, t : Names, img : Names]

Reactions == [Users -> Emojis \cup {"none"}]

MessageDocs == [rId : Rooms, sId : Users, lId : LocalIds \cup {NoId}, tags : SUBSET Tags,
                dF : SUBSET Users, stars : SUBSET Users, oneSeenBy : SUBSET Users,
                votes : SUBSET (Users \X Options), reactions : Reactions,
                status : [Users -> Statuses]]

RequestDocs == [from : Users, to : Users, room : Rooms,
                status : {"Pending", "Accepted", "Refused", "Canceled"}]

CopyDocs == Rooms \X Users \X Rooms

Todos == SUBSET (Users \cup Rooms \cup RequestDocs \cup CopyDocs \cup Nat)

Lists == (SUBSET (Users \cup Tags \cup (Users \X Rooms))) \cup Reactions

Handlers == [pc : PCs, user : Users \cup {NoUser}, peer : Users \cup {NoUser},
             room : Rooms \cup {NoRoom}, at : Rooms \cup {NoRoom},
             lId : LocalIds \cup {NoId} \cup Names \cup Roles, msg : Nat,
             todo : Todos, list : Lists, seen : MemberDocs, next : Nexts, after : Nexts]

Typed ==
  /\ scene \in Scenes
  /\ setting \in [Rooms -> SettingDocs]
  /\ member \in [Rooms -> [Users -> MemberDocs]]
  /\ role \in [Rooms -> [Users -> Seq(Roles)]]
  /\ copies \subseteq CopyDocs
  /\ message \in Seq(MessageDocs)
  /\ bans \subseteq Users \X Users /\ requests \subseteq RequestDocs
  /\ apart \subseteq Rooms \X Users
  /\ online \subseteq Users /\ joined \in [Users -> SUBSET Rooms]
  /\ later \in Seq(Users \X Rooms)
  /\ begun \in 0..scene.limit /\ overlapped \in BOOLEAN /\ restarts \in 0..scene.restarts

\* No member has seen more than there is.
LastSeen == \A r \in Rooms, u \in Users : member[r][u].lSM <= Len(message)

Requesting(h) == h.pc = "request_create" \/ (h.pc \in NewPcs /\ h.next = "request_create")

Broadcasting(h) == h.pc \in BroadcastPcs \/ (h.pc \in NewPcs /\ h.next = "broadcast_note")

\* What a handler has, with the messages of log.
HandlerOK(h, log) ==
  /\ h.pc # "idle" => h.user \in Users
  /\ h.pc \in RoomPcs => h.room \in Rooms
  /\ h.pc \in PeerPcs => h.peer \in Users
  /\ h.pc \in AtPcs => h.at \in Rooms
  /\ h.pc \in NewPcs => h.next \in {"idle", "request_create", "broadcast_note"}
  /\ Requesting(h) => h.todo \subseteq RequestDocs
  /\ Broadcasting(h) => /\ h.room \in Rooms /\ h.todo \subseteq Users
                        /\ h.list \subseteq Users \X Rooms
                        /\ h.after \in {"broadcast_own", "broadcast_copies"}
  /\ h.pc \in GroupPcs => h.todo \subseteq Users /\ h.list \subseteq Users
  /\ h.pc \in ConnectPcs => h.todo \subseteq Rooms
  /\ h.pc \in KickPcs => h.next = "idle"
  /\ h.pc = "announce" => h.next \in {"idle", "leave_role", "delete_sockets"}
  /\ h.pc = "role_set" => h.next \in {"idle", "leave_role"} /\ h.lId \in Roles
  /\ h.pc = "leave_socket" => h.next \in {"idle", "leave_role", "leave_successor",
                                          "delete_members"}
  /\ h.pc \in RenamePcs => h.lId \in Names
  /\ h.pc \in SendPcs => /\ h.lId \in LocalIds /\ h.list \subseteq Tags
                         /\ "created" \in h.list
                         /\ h.seen.rT \in RoomTypes
  /\ h.pc = "send_copies" => h.todo \subseteq CopyDocs
  /\ h.pc \in {"send_statuses", "react_save"} => h.msg \in 1..Len(log)
  /\ h.pc = "send_statuses" => "created" \in log[h.msg].tags
  /\ h.pc = "react_save" => h.list \in Reactions

Handling ==
  /\ req \in [Slots -> Handlers]
  /\ \A s \in Slots : HandlerOK(req[s], message)

Inv1 == Typed /\ LastSeen /\ Handling

-----------------------------------------------------------------------------
(* Documents and handlers as they are made *)

\* What Call returns.
Called(h, pc, u, r) ==
  /\ h \in Handlers /\ h.pc = pc /\ h.user = u /\ h.room = r
  /\ h.peer = NoUser /\ h.at = NoRoom /\ h.todo = {} /\ h.list = {} /\ h.lId = NoId /\ h.msg = 0
  /\ h.next = "idle" /\ h.after = "idle"

-----------------------------------------------------------------------------
(* How a handler goes on *)

Kept(h, n) ==
  /\ n.user = h.user /\ n.peer = h.peer /\ n.room = h.room /\ n.at = h.at /\ n.lId = h.lId
  /\ n.msg = h.msg /\ n.todo = h.todo /\ n.list = h.list /\ n.seen = h.seen
  /\ n.next = h.next /\ n.after = h.after

\* Where a handler goes with what it has kept.
RoomsFlow(h, next) ==
  \/ h.pc \in {"room_setting", "order_setting"} /\ next = "room_members"
  \/ h.pc = "room_members" /\ next = "room_join"
  \/ h.pc = "room_join" /\ h.next # "idle" /\ next = h.next
  \/ h.pc = "open_show" /\ next = "open_join"
  \/ h.pc = "ban_create" /\ next = "ban_sockets"
  \/ h.pc = "connect_join" /\ next = "connect_deliver"

GroupFlow(h, next) ==
  \/ h.pc = "group_members" /\ next = "group_roles"
  \/ h.pc = "group_roles" /\ next = "group_setting"
  \/ h.pc = "group_setting" /\ next = "group_join"
  \/ h.pc = "group_join" /\ next = "group_hello"
  \/ h.pc = "add_role" /\ next = "add_member"
  \/ h.pc = "add_member" /\ next = "add_join"
  \/ h.pc = "kick_role" /\ next = "kick_member"
  \/ h.pc = "kick_member" /\ next = "kick_leave"
  \/ h.pc = "kick_leave" /\ next = "announce"
  \/ h.pc = "role_set" /\ next = "announce"
  \/ h.pc \in {"role_set", "announce"} /\ h.next # "idle" /\ next = h.next

LeaveFlow(h, next) ==
  \/ h.pc = "leave_socket" /\ next = h.next
  \/ h.pc = "leave_role" /\ next = "leave_member"
  \/ h.pc = "delete_sockets" /\ next = "delete_members"
  \/ h.pc = "delete_members" /\ next = "delete_roles"
  \/ h.pc = "delete_roles" /\ next = "delete_setting"
  \/ h.pc = "delete_setting" /\ next = "delete_messages"
  \/ h.pc = "rename_members" /\ next = "rename_setting"

BroadcastFlow(h, next) ==
  \/ h.pc = "broadcast_member" /\ next = "broadcast_join"
  \/ h.pc = "broadcast_join" /\ next = "broadcast_next"
  \/ h.pc = "broadcast_next" /\ next = h.after
  \/ h.pc = "broadcast_own" /\ next = "broadcast_copies"
  \/ h.pc = "broadcast_copies" /\ next = "broadcast_setting"

MessageFlow(h, next) ==
  \/ h.pc = "send_undelete" /\ next = "send_check"
  \/ h.pc = "send_check" /\ next = "send_create"
  \/ h.pc = "deleted_look" /\ next = "deleted_room"
  \/ h.pc = "enter_read" /\ next \in {"enter_deliver", "enter_seen"}
  \/ h.pc = "enter_deliver" /\ next = "enter_seen"

Flow(h, next) ==
  \/ RoomsFlow(h, next) \/ GroupFlow(h, next) \/ LeaveFlow(h, next)
  \/ BroadcastFlow(h, next) \/ MessageFlow(h, next)

-----------------------------------------------------------------------------
(* What a step does to the messages *)

Once(votes) == \A v, w \in votes : v[1] = w[1] => v = w

\* What a step may make of the message m.
Version(m, n) ==
  /\ n \in MessageDocs
  /\ n.rId = m.rId /\ n.sId = m.sId /\ n.lId = m.lId
  /\ "gone" \in m.tags => "gone" \in n.tags
  /\ "created" \in n.tags <=> "created" \in m.tags
  /\ "sAt" \in m.tags => "sAt" \in n.tags
  /\ m.dF \subseteq n.dF
  /\ Once(m.votes) => Once(n.votes)

Added == (Len(message) + 1)..Len(message')

Grows ==
  /\ message' \in Seq(MessageDocs)
  /\ Len(message) \in Nat /\ Len(message') \in Nat /\ Len(message) <= Len(message')
  /\ \A i \in 1..Len(message) : Version(message[i], message'[i])
  /\ \A i \in Added : /\ message'[i].votes = {}
                      /\ message'[i].lId \in LocalIds => ~Taken(message'[i].lId)
  /\ \A i, j \in Added : message'[i].lId = message'[j].lId /\ message'[i].lId # NoId => i = j

\* The other handlers are where they were.
Rest(s) == req' \in [Slots -> Handlers] /\ \A t \in Slots \ {s} : req'[t] = req[t]

-----------------------------------------------------------------------------
(* Messages as they are made and changed *)

\* All but its tags.
SameButTags(m, n) ==
  /\ n \in MessageDocs /\ n.rId = m.rId /\ n.sId = m.sId /\ n.lId = m.lId
  /\ n.votes = m.votes /\ n.dF = m.dF /\ n.status = m.status

\* All but what nobody but the one who marks a message looks at.
SameButMarks(m, n) ==
  /\ Version(m, n) /\ n.tags = m.tags /\ n.dF = m.dF /\ n.status = m.status

-----------------------------------------------------------------------------
(* Updates of many messages *)

\* What delivery and reading do to the status of a member.
ToDelivered(x) == IF x = "sent" THEN "delivered" ELSE IF x = "seenOnly" THEN "seen" ELSE x

ToSeen(x) == IF x = "sent" THEN "seenOnly" ELSE IF x = "delivered" THEN "seen" ELSE x

-----------------------------------------------------------------------------
(* What each step does to the messages *)

\* Where a message is written.
WriterPcs == {"room_hide", "room_info", "connect_deliver", "group_hello", "announce",
              "delete_messages", "broadcast_note", "broadcast_own", "send_create",
              "send_statuses", "send_copies", "react_save", "enter_deliver", "enter_seen"}

-----------------------------------------------------------------------------
(* Requests that change a message at once *)

\* A mark that changes nothing of m but what only marks look at, or its tags.
Marks(m, n) ==
  /\ Version(m, n) /\ n.dF = m.dF /\ n.status = m.status
  /\ m.tags \ {"isPinned"} \subseteq n.tags
  /\ n.tags \subseteq m.tags \cup {"dltAt", "isEdited", "isPinned"}

MessageMark(u, i) ==
  \/ DeleteFromAll(u, i) \/ StarRoomMessage(u, i) \/ UnStarRoomMessage(u, i)
  \/ OneSeeThisMessage(u, i) \/ EditMessage(u, i)
  \/ \E pin \in BOOLEAN : PinUnpinMessage(u, i, pin)
  \/ \E o \in Options : VoteOnPoll(u, i, o)

-----------------------------------------------------------------------------
(* What each step does to the handlers *)

\* Handler s becomes n; the counters stay.
Becomes(s, n) ==
  Handling' /\ Rest(s) /\ req'[s] = n /\ n \in Handlers /\ UNCHANGED <<begun, overlapped, restarts>>

\* Handler s ends, or goes on with what it has kept.
Moves(s) ==
  \/ Becomes(s, Idle)
  \/ \E next : Becomes(s, req'[s]) /\ req'[s].pc = next /\ Kept(req[s], req'[s]) /\ Flow(req[s], next)

\* What a handler of a broadcast keeps when it goes on to another user.
KeptBroadcast(h, n) ==
  n.user = h.user /\ n.room = h.room /\ n.after = h.after

\* What a handler keeps of the message it sends.
KeptSend(h, n) ==
  /\ n.user = h.user /\ n.room = h.room /\ n.lId = h.lId /\ n.list = h.list /\ n.seen = h.seen

-----------------------------------------------------------------------------
(* The handlers that begin *)

\* Handler n begins in slot s.
Begins(s, n) ==
  /\ Handling' /\ Rest(s) /\ req'[s] = n /\ n \in Handlers /\ req[s].pc = "idle"
  /\ begun < scene.limit /\ begun' = begun + 1
  /\ overlapped' = (overlapped \/ ~Quiet) /\ restarts' = restarts

-----------------------------------------------------------------------------
(* What each step leaves alone *)

\* A request is answered at once.
Answered ==
  /\ begun < scene.limit /\ begun' = begun + 1 /\ overlapped' = (overlapped \/ ~Quiet)
  /\ UNCHANGED <<restarts, req>>

\* Where a request begins.
StartPcs == {"room_setting", "order_setting", "room_hide", "open_show", "room_info", "ban_create",
             "ban_delete", "request_create", "connect_read", "group_members", "add_role",
             "kick_role", "role_set", "leave_socket", "announce", "settings_save",
             "rename_members", "broadcast_member", "broadcast_next", "send_undelete",
             "deleted_look", "react_save", "enter_read"}

\* A request takes a slot, or is answered at once.
RequestTaken ==
  \/ \E s \in Slots :
       /\ Begins(s, req'[s]) /\ req'[s].pc \in StartPcs
       /\ req'[s].pc = "add_role" => \E u, v \in Users, r \in Rooms : AddBegin(s, u, v, r)
       /\ req'[s].pc \in {"room_setting", "order_setting"} => req'[s].at \in Fresh
       /\ req'[s].pc = "enter_read" => req'[s].seen = member[req'[s].room][req'[s].user]
  \/ Answered

Controllers ==
  \/ ChannelController \/ GroupChannelController \/ BroadcastChannelController
  \/ MessageChannelController \/ UserBanController \/ ChatRequestRoutes \/ SocketIoGateway

\* The requests that write the documents of members.
MemberRequest(u, r) ==
  \/ \E s \in Slots : \/ DeleteRoom(s, u, r) \/ UpdateTimer(s, u, r)
                      \/ RoomOneSeenOn(s, u, r) \/ RoomOneSeenOff(s, u, r)
  \/ \E flag \in Flags, on \in BOOLEAN : SetFlag(u, r, flag, on)
  \/ RenameBroadcast(u, r)

SocketRequest == \E u \in Users : Disconnect(u) \/ \E s \in Slots : ConnectBegin(s, u)

\* What the requests write at once.
RequestsFrame ==
  /\ UNCHANGED <<scene, setting, role, bans, later>>
  /\ copies' \subseteq copies /\ apart' \subseteq apart
  /\ (\E u \in Users, q \in requests : UpdateRequest(u, q)) \/ UNCHANGED requests
  /\ SocketRequest \/ UNCHANGED <<online, joined, apart>>
  /\ (\E u \in Users, r \in Rooms : MemberRequest(u, r)) \/ UNCHANGED member

AllStays ==
  UNCHANGED <<scene, setting, member, role, copies, bans, requests, apart, online, joined, later>>

-----------------------------------------------------------------------------
(* The documents of members *)

MembersOK(f) ==
  /\ f \in [Rooms -> [Users -> MemberDocs]]
  /\ \A r \in Rooms, u \in Users : f[r][u].lSM <= Len(message)

\* The members of room r with what h gives them.
RenamedRoom(r, h) ==
  [member EXCEPT ![r] = [u \in Users |-> IF IsMember(r, u) THEN Renamed(member[r][u], h)
                                         ELSE member[r][u]]]

-----------------------------------------------------------------------------
(* TypeOK: a user has as many roles in a group as handlers have added *)

\* The handlers that have seen a user outside the group and will add a role.
Adding(r, u) == {s \in Slots : req[s].pc = "add_role" /\ req[s].room = r /\ req[s].peer = u}

RolesBounded ==
  \A r \in Rooms, u \in Users :
    Len(role[r][u]) + Cardinality(Adding(r, u)) <= Cardinality(Slots)

-----------------------------------------------------------------------------
(* NothingTwice: localIds and votes *)

OneEach ==
  /\ \A i, j \in 1..Len(message) :
       Alive(i) /\ Alive(j) /\ message[i].lId = message[j].lId /\ message[i].lId \in LocalIds => i = j
  /\ \A i \in 1..Len(message) : Once(message[i].votes)

-----------------------------------------------------------------------------
(* One request after the other *)

Alone == ~overlapped /\ restarts = 0

\* Where the handler of a request is that has left a call to nobody.
LaterPcs == {"idle", "leave_role", "leave_member", "rename_setting"}

Serial ==
  Alone =>
    /\ \A s, t \in InProgress : s = t
    /\ later # <<>> => \A s \in Slots : req[s].pc \in LaterPcs

-----------------------------------------------------------------------------
(* What a step does to the documents of members *)

\* A document is kept, but for what nobody asks for here, is shown again, is not
\* there any more, or is a new one of a group or a broadcast.
DocStep(m, n) ==
  \/ n.rT \notin {"s", "o"} /\ ~n.isD
  \/ n.rT = m.rT /\ n.lSM = m.lSM /\ (n.isD => m.isD)

DocSteps == \A r \in Rooms, u \in Users : DocStep(member[r][u], member'[r][u])

-----------------------------------------------------------------------------
(* What a step writes: statuses, and messages that are sent *)

\* Everybody in the room sees it after the step, or the step is the last one of
\* the handler that has shown it to them.
ShownTo(r) ==
  \/ \A u \in Users : member'[r][u].rT # "none" => ~member'[r][u].isD
  \/ /\ UNCHANGED member
     /\ \E s \in Slots : req[s].pc \in {"send_create", "send_copies"} /\ req[s].room = r

Written ==
  /\ \A i \in 1..Len(message), u \in Users :
       message'[i].status[u] = "seenOnly" => message[i].status[u] = "seenOnly"
  /\ \A i \in Added :
       /\ \A u \in Users : message'[i].status[u] # "seenOnly"
       /\ "created" \in message'[i].tags => ShownTo(message'[i].rId)

-----------------------------------------------------------------------------
(* Where each step is made *)

RoomsAt(s) ==
  \/ req[s].pc = "room_setting" /\ CreateSetting(s)
  \/ req[s].pc = "room_members" /\ CreateMembers(s)
  \/ req[s].pc = "room_join" /\ JoinMembers(s)
  \/ req[s].pc = "order_setting" /\ OrderSetting(s)
  \/ req[s].pc = "room_hide" /\ HideRoom(s)
  \/ req[s].pc = "open_show" /\ OpenShow(s)
  \/ req[s].pc = "open_join" /\ OpenJoin(s)
  \/ req[s].pc = "room_info" /\ RoomInfo(s)
  \/ req[s].pc = "ban_create" /\ BanCreate(s)
  \/ req[s].pc = "ban_delete" /\ BanDelete(s)
  \/ req[s].pc = "ban_sockets" /\ BanSockets(s)
  \/ req[s].pc = "request_create" /\ RequestCreate(s)
  \/ req[s].pc = "connect_read" /\ ConnectRead(s)
  \/ req[s].pc = "connect_join" /\ ConnectJoin(s)
  \/ req[s].pc = "connect_deliver" /\ ConnectDeliver(s)

GroupsAt(s) ==
  \/ req[s].pc = "group_members" /\ CreateGroupMembers(s)
  \/ req[s].pc = "group_roles" /\ CreateGroupRoles(s)
  \/ req[s].pc = "group_setting" /\ CreateGroupSetting(s)
  \/ req[s].pc = "group_join" /\ JoinGroup(s)
  \/ req[s].pc = "group_hello" /\ GroupHello(s)
  \/ req[s].pc = "add_role" /\ AddRole(s)
  \/ req[s].pc = "add_member" /\ AddMember(s)
  \/ req[s].pc = "add_join" /\ AddJoin(s)
  \/ req[s].pc = "kick_role" /\ KickRole(s)
  \/ req[s].pc = "kick_member" /\ KickMember(s)
  \/ req[s].pc = "kick_leave" /\ KickLeave(s)
  \/ req[s].pc = "announce" /\ AwaitAnnounce(s)
  \/ req[s].pc = "role_set" /\ RoleSet(s)
  \/ req[s].pc = "leave_socket" /\ LeaveSocket(s)
  \/ req[s].pc = "leave_successor" /\ LeaveSuccessor(s)
  \/ req[s].pc = "leave_role" /\ LeaveRole(s)
  \/ req[s].pc = "leave_member" /\ LeaveMember(s)
  \/ req[s].pc = "delete_sockets" /\ DeleteSockets(s)
  \/ req[s].pc = "delete_members" /\ DeleteMembers(s)
  \/ req[s].pc = "delete_roles" /\ DeleteRoles(s)
  \/ req[s].pc = "delete_setting" /\ DeleteSetting(s)
  \/ req[s].pc = "delete_messages" /\ DeleteMessages(s)
  \/ req[s].pc = "settings_save" /\ SettingsSave(s)
  \/ req[s].pc = "rename_members" /\ RenameMembers(s)
  \/ req[s].pc = "rename_setting" /\ RenameSetting(s)
  \/ req[s].pc = "broadcast_member" /\ BroadcastMember(s)
  \/ req[s].pc = "broadcast_join" /\ BroadcastJoin(s)
  \/ req[s].pc = "broadcast_next" /\ BroadcastNext(s)
  \/ req[s].pc = "broadcast_note" /\ BroadcastNote(s)
  \/ req[s].pc = "broadcast_own" /\ BroadcastOwn(s)
  \/ req[s].pc = "broadcast_copies" /\ BroadcastCopies(s)
  \/ req[s].pc = "broadcast_setting" /\ BroadcastSetting(s)

MessagesAt(s) ==
  \/ req[s].pc = "send_undelete" /\ SendUndelete(s)
  \/ req[s].pc = "send_check" /\ SendCheck(s)
  \/ req[s].pc = "send_create" /\ SendCreate(s)
  \/ req[s].pc = "send_statuses" /\ SendStatuses(s)
  \/ req[s].pc = "send_copies" /\ SendCopies(s)
  \/ req[s].pc = "deleted_look" /\ DeletedLook(s)
  \/ req[s].pc = "deleted_room" /\ DeletedRoom(s)
  \/ req[s].pc = "react_save" /\ ReactSave(s)
  \/ req[s].pc = "enter_read" /\ EnterRead(s)
  \/ req[s].pc = "enter_deliver" /\ EnterDeliver(s)
  \/ req[s].pc = "enter_seen" /\ EnterSeen(s)

-----------------------------------------------------------------------------
(* ReadIsSeen and ShownAgain: what a handler has still to do *)

\* Of the handlers q one is about to do so.
Seeing(q, r, u) ==
  \E s \in Slots : /\ q[s].pc = "enter_seen" /\ q[s].seen.rT # "g"
                   /\ q[s].room = r /\ q[s].user = u

Hiding(q, r, u) ==
  \E s \in Slots : q[s].pc = "room_hide" /\ q[s].room = r /\ q[s].user = u

\* What counts as read is seen, or will be in the next step.
SeenWhenRead ==
  \A i \in 1..Len(message), u \in Users :
    LET m == message[i]
        d == member[m.rId][u]
    IN Alive(i) /\ m.sId # u /\ d.rT \in {"s", "o"} /\ i <= d.lSM
         => "sAt" \in m.tags \/ Seeing(req, m.rId, u)

\* Nobody has seen what was not delivered.
NotSeenOnly == \A i \in 1..Len(message), u \in Users : message[i].status[u] # "seenOnly"

\* Who has deleted a room is shown none of its messages, or will not be.
HiddenWhenDeleted ==
  \A i \in 1..Len(message), u \in Users :
    LET m == message[i]
        d == member[m.rId][u]
    IN Alive(i) /\ "created" \in m.tags /\ u \notin m.dF /\ d.rT # "none" /\ d.isD
         => Hiding(req, m.rId, u)

\* What a handler relies on.
AtWork(s) ==
  LET h == req[s]
  IN /\ h.pc \in {"room_setting", "order_setting", "room_members"} =>
          \A i \in 1..Len(message) : message[i].rId # h.at
     /\ h.pc \in {"send_check", "send_create", "send_copies"} =>
          \A u \in Users : IsMember(h.room, u) => ~member[h.room][u].isD
     /\ h.pc = "deleted_room" => Visible(h.room, h.user) = {}
     /\ h.pc = "enter_read" => h.seen.rT = member[h.room][h.user].rT
     /\ h.pc = "enter_seen" /\ h.seen.rT = "g" =>
          \A i \in InRoom(h.room) : message[i].status[h.user] # "sent"

InSight ==
  Alone =>
    /\ SeenWhenRead /\ NotSeenOnly /\ HiddenWhenDeleted
    /\ \A s \in Slots : AtWork(s)

SightPcs == {"room_setting", "order_setting", "room_members", "send_check", "send_create",
             "send_copies", "deleted_room", "enter_read", "enter_seen"}

\* The document d of a user becomes e: a message the user had seen stays so.
ReadKept(i, u) ==
  LET r == message[i].rId
      d == member[r][u]
      e == member'[r][u]
  IN Alive(i)' /\ message[i].sId # u /\ e.rT \in {"s", "o"} =>
       /\ (e.rT = d.rT /\ e.lSM = d.lSM) \/ Seeing(req', r, u)
       /\ Seeing(req, r, u) => Seeing(req', r, u) \/ "sAt" \in message'[i].tags

HideKept(i, u) ==
  LET r == message[i].rId
      d == member[r][u]
      e == member'[r][u]
  IN Alive(i)' /\ u \notin message'[i].dF /\ e.rT # "none" /\ e.isD =>
       /\ (d.rT # "none" /\ d.isD) \/ Hiding(req', r, u)
       /\ Hiding(req, r, u) => Hiding(req', r, u)

InSight3 == SeenWhenRead /\ NotSeenOnly /\ HiddenWhenDeleted

-----------------------------------------------------------------------------
(* RoomsAreWhole: what the documents of a room say *)

Type(r) == setting[r].rT

Docs(r, u) == Len(role[r][u])

Nobody(r) == \A u \in Users : ~IsMember(r, u)

Bare(r) == \A u \in Users : Docs(r, u) = 0

Both(r, u, v) == setting[r].cId = u /\ setting[r].pId = v

Titled(r, u) == member[r][u].t = setting[r].t /\ member[r][u].img = setting[r].img

\* What user u has of room r fits its settings.
Fits(r, u) ==
  LET x == setting[r]
      m == member[r][u]
  IN /\ m.rT \in {"none", x.rT}
     /\ Docs(r, u) = IF m.rT = "g" THEN 1 ELSE 0
     /\ x.rT \in {"s", "o"} => (m.rT # "none" <=> u \in {x.cId, x.pId})
     /\ x.rT = "b" => (m.rT # "none" <=> u = x.cId)
     /\ m.rT = "g" => Titled(r, u)

Whole(r) ==
  /\ \A u \in Users : Fits(r, u)
  /\ Type(r) = "g" => ~Nobody(r)
  /\ Type(r) \in {"s", "o"} => setting[r].cId \in Users /\ setting[r].pId \in Users

\* Two users have one room at most.
OneSingle ==
  \A r, q \in Rooms :
    /\ Type(r) = "s" /\ Type(q) = "s"
    /\ {setting[r].cId, setting[r].pId} = {setting[q].cId, setting[q].pId}
    => r = q

\* The broadcast a handler creates has no settings yet.
NewBroadcast(h) == Broadcasting(h) /\ h.after = "broadcast_own" /\ h.pc # "broadcast_member"

\* The room whose documents a handler is writing.
WorkPcs == {"group_roles", "group_setting", "add_member", "kick_member", "leave_member",
            "delete_roles", "delete_setting", "rename_setting"}

Unfinished(h) ==
  {r \in Rooms : \/ r = h.at /\ h.pc = "room_members"
                 \/ r = h.room /\ (h.pc \in WorkPcs \/ NewBroadcast(h))}

\* What the handlers in progress rely on.
NewPart(h) ==
  /\ h.pc \in {"room_setting", "order_setting"} => Type(h.at) = "none"
  /\ h.pc = "room_setting" => SingleRooms(h.user, h.peer) = {}
  /\ h.pc = "order_setting" => h.next = "idle"
  /\ h.pc \in {"room_members", "room_join"} =>
       /\ Type(h.at) \in {"s", "o"} /\ Both(h.at, h.user, h.peer)
       /\ h.next = "broadcast_note" => Type(h.at) = "s"
  /\ h.pc = "room_members" => Nobody(h.at) /\ Bare(h.at)
  /\ h.pc \in {"room_setting", "order_setting", "room_members"} => h.at # h.room

GroupPart(h) ==
  /\ h.pc \in {"group_members", "group_roles", "group_setting"} =>
       Type(h.room) = "none" /\ h.user \in h.list
  /\ h.pc \in {"group_roles", "group_setting"} =>
       \A u \in Users :
          /\ member[h.room][u].rT = IF u \in h.list THEN "g" ELSE "none"
          /\ u \in h.list => member[h.room][u].t = "old" /\ member[h.room][u].img = "old"
          /\ Docs(h.room, u) = IF u \in h.list /\ h.pc = "group_setting" THEN 1 ELSE 0

AddPart(h) ==
  /\ h.pc \in {"add_role", "add_member"} =>
       /\ Type(h.room) = "g" /\ ~IsMember(h.room, h.peer)
       /\ h.seen.t = setting[h.room].t /\ h.seen.img = setting[h.room].img
  /\ h.pc = "add_member" =>
       /\ \A u \in Users \ {h.peer} : Fits(h.room, u)
       /\ Docs(h.room, h.peer) = 1

KickPart(h) ==
  /\ h.pc \in {"kick_role", "kick_member"} =>
       /\ Type(h.room) = "g" /\ h.user # h.peer /\ IsMember(h.room, h.user)
       /\ IsMember(h.room, h.peer)
  /\ h.pc = "kick_member" =>
       /\ \A u \in Users \ {h.peer} : Fits(h.room, u)
       /\ Docs(h.room, h.peer) = 0

Leaving(h, pc) ==
  h.pc = pc \/ (h.pc \in {"leave_socket", "role_set", "announce"} /\ h.next = pc)

LeavePart(h) ==
  /\ Leaving(h, "leave_successor") \/ Leaving(h, "leave_role") \/ h.pc = "leave_member" =>
       Type(h.room) = "g" /\ IsMember(h.room, h.user)
  /\ Leaving(h, "leave_role") \/ h.pc = "leave_member" =>
       \E v \in Users \ {h.user} : IsMember(h.room, v)
  /\ h.pc = "leave_member" =>
       /\ \A u \in Users \ {h.user} : Fits(h.room, u)
       /\ Docs(h.room, h.user) = 0

DeletePart(h) ==
  /\ Leaving(h, "delete_sockets") \/ Leaving(h, "delete_members")
     \/ h.pc \in {"delete_roles", "delete_setting"} => Type(h.room) = "g"
  /\ h.pc = "leave_socket" /\ h.next = "delete_members" =>
       \A u \in Users : IsMember(h.room, u) => u = h.user
  /\ h.pc \in {"delete_roles", "delete_setting"} => Nobody(h.room)
  /\ h.pc = "delete_setting" => Bare(h.room)

RenamePart(h) ==
  /\ h.pc \in {"rename_members", "rename_setting"} =>
       Type(h.room) = "g" /\ h.next \in {"t", "img"}
  /\ h.pc = "rename_setting" =>
       /\ ~Nobody(h.room)
       /\ \A u \in Users :
            LET m == member[h.room][u]
            IN /\ m.rT \in {"none", "g"}
               /\ Docs(h.room, u) = IF m.rT = "g" THEN 1 ELSE 0
               /\ m.rT = "g" =>
                    IF h.next = "t" THEN m.t = h.lId /\ m.img = setting[h.room].img
                    ELSE m.t = setting[h.room].t /\ m.img = h.lId

BroadcastPart(h) ==
  /\ h.pc = "broadcast_member" => Type(h.room) = "none"
  /\ h.pc \in {"broadcast_member", "broadcast_join", "broadcast_own", "broadcast_setting"} =>
       h.after = "broadcast_own"
  /\ NewBroadcast(h) =>
       /\ Type(h.room) = "none" /\ Bare(h.room)
       /\ \A u \in Users : member[h.room][u].rT = IF u = h.user THEN "b" ELSE "none"
  /\ Broadcasting(h) =>
       /\ h.after = "broadcast_copies" => Type(h.room) = "b" /\ setting[h.room].cId = h.user
       /\ \A c \in h.list : c[2] \in SingleRooms(h.user, c[1])
  /\ h.pc = "broadcast_note" => h.at \in SingleRooms(h.user, h.peer)

Part(h) ==
  /\ NewPart(h) /\ GroupPart(h) /\ AddPart(h) /\ KickPart(h)
  /\ LeavePart(h) /\ DeletePart(h) /\ RenamePart(h) /\ BroadcastPart(h)

\* A copy of a broadcast goes to the room its owner shares with the user.
Owned(c, h) ==
  \/ Type(c[1]) = "b" /\ c[3] \in SingleRooms(setting[c[1]].cId, c[2])
  \/ h.pc = "broadcast_setting" /\ c[1] = h.room /\ c[3] \in SingleRooms(h.user, c[2])

Fit(h) ==
  /\ OneSingle
  /\ \A r \in Rooms : Whole(r) \/ r \in Unfinished(h)
  /\ \A c \in copies : Owned(c, h)
  /\ Part(h)

\* The handler in progress, or any one when there is none.
Only(s) == \A t \in Slots \ {s} : req[t].pc = "idle"

RoomsFit == Alone => \A s \in Slots : \A h \in Handlers : h = req[s] /\ Only(s) => Fit(h)

-----------------------------------------------------------------------------
(* RoomsAreWhole: rooms that stay as they are *)

Same(r) ==
  /\ setting'[r].rT = setting[r].rT /\ setting'[r].cId = setting[r].cId
  /\ setting'[r].pId = setting[r].pId
  /\ setting'[r].t = setting[r].t /\ setting'[r].img = setting[r].img
  /\ \A u \in Users : /\ member'[r][u].rT = member[r][u].rT
                      /\ member'[r][u].t = member[r][u].t /\ member'[r][u].img = member[r][u].img
                      /\ Len(role'[r][u]) = Len(role[r][u])

\* The settings that say whose room it is.
Ids(r) == /\ setting'[r].rT = setting[r].rT /\ setting'[r].cId = setting[r].cId
          /\ setting'[r].pId = setting[r].pId

-----------------------------------------------------------------------------
(* RoomsAreWhole: how the handlers go on *)

\* Where a handler has a room to itself.
BusyPcs == NewPcs \cup {"group_members", "group_roles", "group_setting", "add_role", "add_member",
                        "kick_role", "kick_member", "role_set", "announce", "delete_sockets",
                        "delete_members", "delete_roles", "delete_setting"}
             \cup LeavePcs \cup RenamePcs \cup BroadcastPcs

Calm(h) ==
  h.pc \notin BusyPcs \/ (h.pc \in {"role_set", "announce", "leave_socket"} /\ h.next = "idle")

\* The handlers at these places write the documents of a room.
ChangePcs == {"room_setting", "order_setting", "room_members", "group_members", "group_roles",
              "group_setting", "add_role", "add_member", "kick_role", "kick_member", "leave_role",
              "leave_member", "delete_members", "delete_roles", "delete_setting",
              "rename_members", "rename_setting", "broadcast_member", "broadcast_copies",
              "broadcast_setting"}

\* The handlers at these places go on to where they write, or have others go on.
RelayPcs == {"room_join", "announce", "role_set", "leave_socket", "leave_successor",
             "delete_sockets", "broadcast_join", "broadcast_next", "broadcast_note",
             "broadcast_own"}

-----------------------------------------------------------------------------
(* RoomsAreWhole: a member leaves, or the group is deleted *)

RelayedPcs == {"announce", "role_set", "leave_role", "leave_successor", "delete_sockets",
               "delete_members"}

-----------------------------------------------------------------------------
(* RoomsAreWhole: what a request starts with *)

AllWhole == \A r \in Rooms : Whole(r)

-----------------------------------------------------------------------------
(* RoomsAreWhole: the requests and the other steps *)

\* The handlers that write the documents of rooms, and all the others.
Working(s) ==
  \/ \E u, v \in Users : PeerBegin(s, u, v) \/ OrderBegin(s, u, v) \/ RequestBegin(s, u, v)
  \/ \E u \in Users, us \in SUBSET Users : GroupBegin(s, u, us) \/ BroadcastBegin(s, u, us)
  \/ \E u \in Users, r \in Rooms : \/ LeaveBegin(s, u, r) \/ DeleteGroup(s, u, r)
                                   \/ UpdateTitle(s, u, r) \/ UpdateImage(s, u, r)
  \/ \E u, v \in Users, r \in Rooms :
       AddBegin(s, u, v, r) \/ KickBegin(s, u, v, r) \/ RoleBegin(s, u, v, r)
  \/ \E u \in Users, r \in Rooms, us \in SUBSET Users : AddToBroadcast(s, u, r, us)

CalmStart(s) == Begins(s, req'[s]) /\ Calm(req'[s])

StartsOne == UNCHANGED req \/ \E s \in Slots : Working(s) \/ CalmStart(s)
=============================================================================
