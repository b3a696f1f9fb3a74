----------------------------- MODULE ChatRooms -----------------------------
(***************************************************************************)
(* Rooms of two users, what a member sets for a room, the bans between     *)
(* users, chat requests, and the connection of a socket: ChannelService,   *)
(* UserBanService, the chat requests of ProfileService, SocketIoService.   *)
(***************************************************************************)
EXTENDS ChatState

\* getOrCreatePeerRoom; a room that exists is answered.
PeerBegin(s, u, v) ==
  /\ Free(s, "peer") /\ u # v /\ SingleRooms(u, v) = {} /\ Fresh # {}
  /\ Begin(s, [Call("room_setting", u, NoRoom) EXCEPT !.peer = v, !.at = NewRoom])
  /\ UNCHANGED <<scene, rooms, message, people, sockets, later>>

\* singleRoomSetting.create, also of a broadcast; {cId, pId} is unique.
CreateSetting(s) ==
  /\ At(s, "room_setting")
  /\ LET h == req[s]
         taken == \E r \in Rooms : setting[r].rT = "s" /\ setting[r].cId = h.user
                                                      /\ setting[r].pId = h.peer
     IN IF taken THEN Return(s) /\ UNCHANGED setting
        ELSE /\ setting' = [setting EXCEPT ![h.at] = Setting("s", h.user, h.peer)]
             /\ Goto(s, "room_members")
  /\ UNCHANGED <<scene, member, role, copies, message, people, sockets, later>>

\* createMany of the two room members, both deleted until there is a message.
CreateMembers(s) ==
  /\ At(s, "room_members")
  /\ LET h == req[s]
     IN member' = [member EXCEPT ![h.at] = [u \in Users |->
          IF u \in {h.user, h.peer} THEN [Member(setting[h.at].rT) EXCEPT !.isD = TRUE]
          ELSE @[u]]]
  /\ Goto(s, "room_join")
  /\ UNCHANGED <<scene, setting, role, copies, message, people, sockets, later>>

JoinMembers(s) ==
  /\ At(s, "room_join")
  /\ JoinRoom({req[s].user, req[s].peer}, req[s].at)
  /\ IF req[s].next = "idle" THEN Return(s) ELSE Goto(s, req[s].next)
  /\ UNCHANGED <<scene, rooms, message, people, online, later>>

OrderRooms == {r \in Rooms : setting[r].rT = "o"}

\* createOrderRoom, for one order: a room that exists is answered to its
\* members.  Nothing keeps an order from having two.
OrderBegin(s, u, v) ==
  /\ Free(s, "order") /\ u # v /\ OrderRooms = {} /\ Fresh # {}
  /\ Begin(s, [Call("order_setting", u, NoRoom) EXCEPT !.peer = v, !.at = NewRoom])
  /\ UNCHANGED <<scene, rooms, message, people, sockets, later>>

OrderSetting(s) ==
  /\ At(s, "order_setting")
  /\ setting' = [setting EXCEPT ![req[s].at] = Setting("o", req[s].user, req[s].peer)]
  /\ Goto(s, "room_members")
  /\ UNCHANGED <<scene, member, role, copies, message, people, sockets, later>>

-----------------------------------------------------------------------------
(* The room of a member: delete, clear, open, flags, timer *)

DeleteRoom(s, u, r) ==
  /\ Free(s, "deleteRoom") /\ IsMember(r, u)
  /\ member' = [member EXCEPT ![r][u].isD = TRUE]
  /\ Begin(s, Call("room_hide", u, r))
  /\ UNCHANGED <<scene, setting, role, copies, message, people, sockets, later>>

HideRoom(s) ==
  /\ At(s, "room_hide")
  /\ message' = HideAll(req[s].room, req[s].user)
  /\ Return(s)
  /\ UNCHANGED <<scene, rooms, people, sockets, later>>

ClearRoomMessages(u, r) ==
  /\ AtOnce("clear") /\ IsMember(r, u)
  /\ message' = HideAll(r, u)
  /\ UNCHANGED <<scene, rooms, people, sockets, later>>

\* getRoomById brings a deleted room back when it has a message for the user.
GetRoomById(s, u, r) ==
  /\ Free(s, "open") /\ member[r][u].isD /\ Visible(r, u) # {}
  /\ member[r][u].rT = "s" => ~Banned(setting[r].cId, setting[r].pId)
  /\ Begin(s, Call("open_show", u, r))
  /\ UNCHANGED <<scene, rooms, message, people, sockets, later>>

OpenShow(s) ==
  /\ At(s, "open_show")
  /\ member' = UnDeleted(req[s].room)
  /\ Goto(s, "open_join")
  /\ UNCHANGED <<scene, setting, role, copies, message, people, sockets, later>>

OpenJoin(s) ==
  /\ At(s, "open_join")
  /\ JoinRoom({req[s].user}, req[s].room)
  /\ Return(s)
  /\ UNCHANGED <<scene, rooms, message, people, online, later>>

SetFlag(u, r, flag, on) ==
  /\ AtOnce("flags") /\ IsMember(r, u)
  /\ member' = [member EXCEPT ![r][u].flags = IF on THEN @ \cup {flag} ELSE @ \ {flag}]
  /\ UNCHANGED <<scene, setting, role, copies, message, people, sockets, later>>

MuteRoom(u, r) == SetFlag(u, r, "isM", TRUE)
UnMuteRoom(u, r) == SetFlag(u, r, "isM", FALSE)
ArchiveRoom(u, r) == SetFlag(u, r, "isA", TRUE)
UnArchiveRoom(u, r) == SetFlag(u, r, "isA", FALSE)
UpdateTranslate(u, r) == SetFlag(u, r, "tTo", TRUE)
StopTranslate(u, r) == SetFlag(u, r, "tTo", FALSE)
ChangeNickName(u, r) == \E on \in BOOLEAN : SetFlag(u, r, "nTitle", on)

\* roomOneSeenOn, roomOneSeenOff: for the messages the member will send.
SetOneSeen(s, u, r, on) ==
  /\ Free(s, "oneSeenRoom") /\ IsMember(r, u)
  /\ member' = [member EXCEPT ![r][u].isOneSeen = on]
  /\ Begin(s, Call("room_info", u, r))
  /\ UNCHANGED <<scene, setting, role, copies, message, people, sockets, later>>

RoomOneSeenOn(s, u, r) == SetOneSeen(s, u, r, TRUE)
RoomOneSeenOff(s, u, r) == SetOneSeen(s, u, r, FALSE)

\* updateDisappearingTimer sets it for all members, whoever asks.
UpdateTimer(s, u, r) ==
  /\ Free(s, "timer") /\ Members(r) # {}
  /\ \E on \in BOOLEAN :
       LET Timed(m) == [m EXCEPT !.timer = on] IN member' = UpdateMembers(r, Timed)
  /\ Begin(s, Call("room_info", u, r))
  /\ UNCHANGED <<scene, setting, role, copies, message, people, sockets, later>>

\* The message that tells of the change does not bring deleted rooms back.
RoomInfo(s) ==
  /\ At(s, "room_info")
  /\ message' = Append(message, Info(req[s].room, req[s].user))
  /\ Return(s)
  /\ UNCHANGED <<scene, rooms, people, sockets, later>>

-----------------------------------------------------------------------------
(* ban, unBan *)

Ban(s, u, v) ==
  /\ Free(s, "block") /\ u # v /\ <<u, v>> \notin bans
  /\ Begin(s, [Call("ban_create", u, NoRoom) EXCEPT !.peer = v])
  /\ UNCHANGED <<scene, rooms, message, people, sockets, later>>

\* {bannerId, targetId} is unique: the second of two bans ends here.
BanCreate(s) ==
  /\ At(s, "ban_create")
  /\ LET h == req[s]
     IN /\ bans' = bans \cup {<<h.user, h.peer>>}
        /\ IF <<h.user, h.peer>> \in bans THEN Return(s) ELSE Goto(s, "ban_sockets")
  /\ UNCHANGED <<scene, rooms, message, requests, apart, sockets, later>>

Unban(s, u, v) ==
  /\ Free(s, "block") /\ <<u, v>> \in bans
  /\ Begin(s, [Call("ban_delete", u, NoRoom) EXCEPT !.peer = v])
  /\ UNCHANGED <<scene, rooms, message, people, sockets, later>>

BanDelete(s) ==
  /\ At(s, "ban_delete")
  /\ bans' = bans \ {<<req[s].user, req[s].peer>>}
  /\ Resume(s, [req[s] EXCEPT !.pc = "ban_sockets", !.next = "join"])
  /\ UNCHANGED <<scene, rooms, message, requests, apart, sockets, later>>

\* _updateSingleChatBlock: both leave the room, or join it again, also when the
\* other still bans.
BanSockets(s) ==
  /\ At(s, "ban_sockets")
  /\ LET h == req[s]
     IN IF SingleRooms(h.user, h.peer) = {} THEN UNCHANGED joined
        ELSE IF h.next = "join" THEN JoinRoom({h.user, h.peer}, SingleRoom(h.user, h.peer))
        ELSE LeaveRoom({h.user, h.peer}, SingleRoom(h.user, h.peer))
  /\ Return(s)
  /\ UNCHANGED <<scene, rooms, message, people, online, later>>

-----------------------------------------------------------------------------
(* sendChatRequest, updateChatRequest *)

\* Any old request of the user counts, whoever it is to or from.
OldRequests(u) == {q \in requests : u \in {q.from, q.to}}

\* Only a canceled one does not refuse the new one; it is the one that is made
\* pending again.  The room of the two is created when there is none.
RequestBegin(s, u, v) ==
  /\ Free(s, "request") /\ u # v
  /\ \E old \in IF OldRequests(u) = {} THEN {{}}
                ELSE {{q} : q \in {p \in OldRequests(u) : p.status = "Canceled"}} :
       LET h == [Call("request_create", u, NoRoom) EXCEPT !.peer = v, !.todo = old]
       IN \/ /\ SingleRooms(u, v) # {}
             /\ Begin(s, [h EXCEPT !.at = SingleRoom(u, v)])
          \/ /\ SingleRooms(u, v) = {} /\ Fresh # {}
             /\ Begin(s, [h EXCEPT !.pc = "room_setting", !.at = NewRoom,
                                   !.next = "request_create"])
  /\ UNCHANGED <<scene, rooms, message, people, sockets, later>>

\* {senderId, receiverId, roomId} is unique.
RequestCreate(s) ==
  /\ At(s, "request_create")
  /\ LET h == req[s]
         same(q) == q.from = h.user /\ q.to = h.peer /\ q.room = h.at
         kept == {q \in requests : ~\E p \in h.todo : p.from = q.from /\ p.to = q.to /\ p.room = q.room}
     IN requests' =
          IF h.todo # {} THEN kept \cup {[q EXCEPT !.status = "Pending"] : q \in h.todo}
          ELSE IF \E q \in requests : same(q) THEN requests
          ELSE requests \cup {[from |-> h.user, to |-> h.peer, room |-> h.at, status |-> "Pending"]}
  /\ Return(s)
  /\ UNCHANGED <<scene, rooms, message, bans, apart, sockets, later>>

\* The sender cancels, the receiver accepts or refuses, whatever the status.
UpdateRequest(u, q) ==
  /\ AtOnce("request") /\ u \in {q.from, q.to}
  /\ \E status \in IF u = q.from THEN {"Canceled"} ELSE {"Accepted", "Refused"} :
       requests' = (requests \ {q}) \cup {[q EXCEPT !.status = status]}
  /\ UNCHANGED <<scene, rooms, message, bans, apart, sockets, later>>

-----------------------------------------------------------------------------
(* handleConnection, handleDisconnect *)

\* The rooms are read once, and joined when the answer is there.
ConnectBegin(s, u) ==
  /\ Free(s, "connect") /\ u \notin online
  /\ online' = online \cup {u}
  /\ Begin(s, [Call("connect_read", u, NoRoom) EXCEPT !.todo = {}])
  /\ UNCHANGED <<scene, rooms, message, people, joined, later>>

ConnectRead(s) ==
  /\ At(s, "connect_read")
  /\ Resume(s, [req[s] EXCEPT !.pc = "connect_join", !.todo = RoomsOf(req[s].user)])
  /\ UNCHANGED <<scene, rooms, message, people, sockets, later>>

\* setMessageDeliverForGroupChat
DeliverGroup(r, u) ==
  LET Delivered(m) == [m EXCEPT !.status[u] = IF @ = "sent" THEN "delivered"
                                              ELSE IF @ = "seenOnly" THEN "seen" ELSE @]
  IN UpdateMessages(InRoom(r), Delivered)

\* setMessageDeliverForSingleChat
DeliverSingle(r, u) ==
  LET Delivered(m) == IF m.sId # u THEN [m EXCEPT !.tags = @ \cup {"dAt"}] ELSE m
  IN UpdateMessages(InRoom(r), Delivered)

Deliver(r, u) ==
  CASE member[r][u].rT \in {"s", "o"} -> DeliverSingle(r, u)
    [] member[r][u].rT = "g" -> DeliverGroup(r, u)
    [] OTHER -> message

ConnectJoin(s) ==
  /\ At(s, "connect_join")
  /\ LET u == req[s].user
     IN joined' = [joined EXCEPT ![u] = IF u \in online THEN @ \cup req[s].todo ELSE {}]
  /\ Goto(s, "connect_deliver")
  /\ UNCHANGED <<scene, rooms, message, people, online, later>>

\* Room by room, what was sent to the user in the meantime is delivered.
ConnectDeliver(s) ==
  /\ At(s, "connect_deliver")
  /\ IF req[s].todo = {} THEN Return(s) /\ UNCHANGED message
     ELSE LET r == CHOOSE r \in req[s].todo : TRUE
          IN /\ message' = Deliver(r, req[s].user)
             /\ Resume(s, [req[s] EXCEPT !.todo = @ \ {r}])
  /\ UNCHANGED <<scene, rooms, people, sockets, later>>

Disconnect(u) ==
  /\ AtOnce("connect") /\ u \in online
  /\ online' = online \ {u}
  /\ joined' = [joined EXCEPT ![u] = {}]
  /\ apart' = {p \in apart : p[2] # u}
  /\ UNCHANGED <<scene, rooms, message, bans, requests, later>>

RoomsContinue(s) ==
  \/ CreateSetting(s) \/ CreateMembers(s) \/ JoinMembers(s) \/ OrderSetting(s)
  \/ HideRoom(s) \/ OpenShow(s) \/ OpenJoin(s) \/ RoomInfo(s)
  \/ BanCreate(s) \/ BanDelete(s) \/ BanSockets(s) \/ RequestCreate(s)
  \/ ConnectRead(s) \/ ConnectJoin(s) \/ ConnectDeliver(s)
=============================================================================
