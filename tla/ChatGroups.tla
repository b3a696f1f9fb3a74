----------------------------- MODULE ChatGroups -----------------------------
(***************************************************************************)
(* Groups and broadcasts: GroupChannelService, BroadcastChannelService.     *)
(* A member of a group has two documents, a room_member and a              *)
(* group_member; only the first is unique by an index.                     *)
(***************************************************************************)
EXTENDS ChatRooms

UnchangedRooms(s) == UNCHANGED <<scene, rooms, message, people, sockets, later>>

\* The info message of a group is sent with createMessage: the group is shown
\* to everybody again, and the message is refused to whom may not send.
Announce(r, u) ==
  /\ member' = IF IsMember(r, u) THEN UnDeleted(r) ELSE member
  /\ message' = IF IsMember(r, u) /\ MaySend(r, u)
                THEN Append(message, ForGroup(Info(r, u))) ELSE message

\* Where nobody awaits the call, it is done at some later time.
Without(calls, n) == [m \in 1..(Len(calls) - 1) |-> IF m < n THEN calls[m] ELSE calls[m + 1]]

Announced(n) ==
  /\ n \in DOMAIN later
  /\ Announce(later[n][2], later[n][1])
  /\ later' = Without(later, n)
  /\ UNCHANGED <<scene, setting, role, copies, people, sockets, req, process>>

-----------------------------------------------------------------------------
(* createGroupChat *)

GroupBegin(s, u, us) ==
  /\ Free(s, "group") /\ us # {} /\ u \notin us /\ Fresh # {}
  /\ Begin(s, [Call("group_members", u, NewRoom) EXCEPT !.todo = us,
                 !.list = {v \in us : ~Banned(u, v)} \cup {u}])
  /\ UnchangedRooms(s)

CreateGroupMembers(s) ==
  /\ At(s, "group_members")
  /\ member' = [member EXCEPT ![req[s].room] = [v \in Users |->
                  IF v \in req[s].list THEN Member("g") ELSE @[v]]]
  /\ Goto(s, "group_roles")
  /\ UNCHANGED <<scene, setting, role, copies, message, people, sockets, later>>

CreateGroupRoles(s) ==
  /\ At(s, "group_roles")
  /\ LET h == req[s]
     IN role' = [role EXCEPT ![h.room] = [v \in Users |->
          IF v = h.user THEN <<"superAdmin">> ELSE IF v \in h.list THEN <<"member">> ELSE @[v]]]
  /\ Goto(s, "group_setting")
  /\ UNCHANGED <<scene, setting, member, copies, message, people, sockets, later>>

CreateGroupSetting(s) ==
  /\ At(s, "group_setting")
  /\ setting' = [setting EXCEPT ![req[s].room] = Setting("g", req[s].user, NoUser)]
  /\ Goto(s, "group_join")
  /\ UNCHANGED <<scene, member, role, copies, message, people, sockets, later>>

\* All the users asked for join the socket.io room, the left out as well.
JoinGroup(s) ==
  /\ At(s, "group_join")
  /\ LET h == req[s]
     IN /\ JoinRoom(h.todo \cup {h.user}, h.room)
        /\ apart' = apart \cup {<<h.room, v>> : v \in h.todo \ h.list}
  /\ Goto(s, "group_hello")
  /\ UNCHANGED <<scene, rooms, message, bans, requests, online, later>>

\* The messages that tell of the group have no status.
GroupHello(s) ==
  /\ At(s, "group_hello")
  /\ message' = Append(message, Info(req[s].room, req[s].user))
  /\ Return(s)
  /\ UNCHANGED <<scene, rooms, people, sockets, later>>

-----------------------------------------------------------------------------
(* addMembersToGroup, kickGroupMember, changeGroupUserRole *)

\* checkGroupAdminMember
IsGroupAdmin(r, u) ==
  /\ member[r][u].rT = "g" /\ InGroup(r, u) /\ Head(role[r][u]) # "member"

AddBegin(s, u, v, r) ==
  /\ Free(s, "add") /\ IsGroupAdmin(r, u) /\ u # v
  /\ ~Banned(u, v) /\ ~InGroup(r, v)
  /\ Begin(s, [Call("add_role", u, r) EXCEPT !.peer = v, !.seen = member[r][u]])
  /\ UnchangedRooms(s)

AddRole(s) ==
  /\ At(s, "add_role")
  /\ role' = [role EXCEPT ![req[s].room][req[s].peer] = Append(@, "member")]
  /\ Goto(s, "add_member")
  /\ UNCHANGED <<scene, setting, member, copies, message, people, sockets, later>>

\* Title and image are those of the copy the administrator was checked with.
\* When there is a room_member already, the request ends here.
AddMember(s) ==
  /\ At(s, "add_member")
  /\ LET h == req[s]
     IN IF IsMember(h.room, h.peer) THEN Return(s) /\ UNCHANGED member
        ELSE /\ member' = SetMember(h.room, h.peer,
                            [Member("g") EXCEPT !.t = h.seen.t, !.img = h.seen.img])
             /\ Goto(s, "add_join")
  /\ UNCHANGED <<scene, setting, role, copies, message, people, sockets, later>>

AddJoin(s) ==
  /\ At(s, "add_join")
  /\ JoinRoom({req[s].peer}, req[s].room)
  /\ later' = Append(later, <<req[s].user, req[s].room>>)
  /\ Return(s)
  /\ UNCHANGED <<scene, rooms, message, people, online>>

KickBegin(s, u, v, r) ==
  /\ Free(s, "kick") /\ IsGroupAdmin(r, u) /\ u # v /\ InGroup(r, v)
  /\ Begin(s, [Call("kick_role", u, r) EXCEPT !.peer = v])
  /\ UnchangedRooms(s)

\* deleteOne of the group_member.
DropRole(r, u) == role' = [role EXCEPT ![r][u] = IF @ = <<>> THEN @ ELSE Tail(@)]

KickRole(s) ==
  /\ At(s, "kick_role")
  /\ DropRole(req[s].room, req[s].peer)
  /\ Goto(s, "kick_member")
  /\ UNCHANGED <<scene, setting, member, copies, message, people, sockets, later>>

KickMember(s) ==
  /\ At(s, "kick_member")
  /\ member' = SetMember(req[s].room, req[s].peer, NoMember)
  /\ Goto(s, "kick_leave")
  /\ UNCHANGED <<scene, setting, role, copies, message, people, sockets, later>>

KickStays(s) ==
  /\ At(s, "kick_leave")
  /\ Goto(s, "announce")
  /\ UNCHANGED <<scene, rooms, message, people, sockets, later>>

KickLeave(s) ==
  /\ At(s, "kick_leave")
  /\ LeaveRoom({req[s].peer}, req[s].room)
  /\ Goto(s, "announce")
  /\ UNCHANGED <<scene, rooms, message, people, online, later>>

\* What follows an announcement.  That a member leaves is told without waiting.
Proceed(s) ==
  LET h == req[s]
  IN /\ IF h.next = "idle" THEN Return(s) ELSE Goto(s, h.next)
     /\ later' = IF h.next = "leave_role" THEN Append(later, <<h.user, h.room>>) ELSE later

\* An awaited createMessage: when it refuses, the request ends with its error.
AwaitAnnounce(s) ==
  /\ At(s, "announce")
  /\ LET h == req[s]
     IN /\ Announce(h.room, h.user)
        /\ IF IsMember(h.room, h.user) /\ MaySend(h.room, h.user) THEN Proceed(s)
           ELSE Return(s) /\ UNCHANGED later
  /\ UNCHANGED <<scene, setting, role, copies, people, sockets>>

\* Of whose new role the group is told: it is another one than was read.
Telling(r, v, g) == IF Head(role[r][v]) = g THEN {} ELSE {v}

RoleBegin(s, u, v, r) ==
  /\ Free(s, "role") /\ IsGroupAdmin(r, u) /\ u # v
  /\ InGroup(r, v) /\ Head(role[r][v]) # "superAdmin"
  /\ \E g \in Roles :
       Begin(s, [Call("role_set", u, r) EXCEPT !.peer = v, !.lId = g, !.list = Telling(r, v, g)])
  /\ UnchangedRooms(s)

\* _changeUserRoleTo
RoleSet(s) ==
  /\ At(s, "role_set")
  /\ LET h == req[s]
     IN IF ~InGroup(h.room, h.peer) THEN UNCHANGED role
        ELSE role' = [role EXCEPT ![h.room][h.peer] = <<h.lId>> \o Tail(@)]
  /\ IF req[s].list = {} THEN Proceed(s) ELSE Goto(s, "announce") /\ UNCHANGED later
  /\ UNCHANGED <<scene, setting, member, copies, message, people, sockets>>

-----------------------------------------------------------------------------
(* leaveGroupChat, deleteGroup *)

Documents(r) == Cardinality({d \in Users \X (1..2) : d[2] \in DOMAIN role[r][d[1]]})

\* Membership, role and number of members are read first; the last member
\* deletes the group, a super administrator hands it over.
LeaveBegin(s, u, r) ==
  /\ Free(s, "leave") /\ IsMember(r, u)
  /\ Begin(s, [Call("leave_socket", u, r) EXCEPT !.next =
       IF Documents(r) = 1 THEN "delete_members"
       ELSE IF ~InGroup(r, u) THEN "idle"
       ELSE IF Head(role[r][u]) = "superAdmin" THEN "leave_successor" ELSE "leave_role",
       !.after = "leave"])
  /\ UnchangedRooms(s)

LeaveSocket(s) ==
  /\ At(s, "leave_socket")
  /\ LeaveRoom({req[s].user}, req[s].room)
  /\ Goto(s, req[s].next)
  /\ later' = IF req[s].next = "leave_role" THEN Append(later, <<req[s].user, req[s].room>>)
              ELSE later
  /\ apart' = apart \cup {<<req[s].room, req[s].user>>}
  /\ UNCHANGED <<scene, rooms, message, bans, requests, online>>

\* Without a successor the request ends with an error.
LeaveSuccessor(s) ==
  /\ At(s, "leave_successor")
  /\ LET h == req[s]
         others == GroupMembers(h.room) \ {h.user}
     IN IF others = {} THEN Return(s)
        ELSE \E v \in others :
               Resume(s, [h EXCEPT !.pc = "role_set", !.peer = v, !.lId = "superAdmin",
                 !.next = "leave_role", !.list = Telling(h.room, v, "superAdmin")])
  /\ UnchangedRooms(s)

LeaveRole(s) ==
  /\ At(s, "leave_role")
  /\ DropRole(req[s].room, req[s].user)
  /\ Goto(s, "leave_member")
  /\ UNCHANGED <<scene, setting, member, copies, message, people, sockets, later>>

LeaveMember(s) ==
  /\ At(s, "leave_member")
  /\ member' = SetMember(req[s].room, req[s].user, NoMember)
  /\ apart' = apart \ {<<req[s].room, req[s].user>>}
  /\ Return(s)
  /\ UNCHANGED <<scene, setting, role, copies, message, bans, requests, sockets, later>>

DeleteGroup(s, u, r) ==
  /\ Free(s, "deleteGroup") /\ member[r][u].rT = "g" /\ setting[r].rT = "g"
  /\ InGroup(r, u) /\ Head(role[r][u]) = "superAdmin"
  /\ Begin(s, [Call("announce", u, r) EXCEPT !.next = "delete_sockets"])
  /\ UnchangedRooms(s)

\* Every member is told to leave the socket.io room by an ObjectId, which is looked
\* for among the strings of the connected users and never found: nobody leaves.
DeleteSockets(s) ==
  /\ At(s, "delete_sockets")
  /\ apart' = apart \cup {<<req[s].room, v>> : v \in GroupMembers(req[s].room)}
  /\ Goto(s, "delete_members")
  /\ UNCHANGED <<scene, rooms, message, bans, requests, sockets, later>>

DeleteMembers(s) ==
  /\ At(s, "delete_members")
  /\ member' = [member EXCEPT ![req[s].room] = [u \in Users |-> NoMember]]
  /\ Goto(s, "delete_roles")
  /\ UNCHANGED <<scene, setting, role, copies, message, people, sockets, later>>

DeleteRoles(s) ==
  /\ At(s, "delete_roles")
  /\ role' = [role EXCEPT ![req[s].room] = [u \in Users |-> <<>>]]
  /\ Goto(s, "delete_setting")
  /\ UNCHANGED <<scene, setting, member, copies, message, people, sockets, later>>

\* The group the last member leaves keeps its messages.
DeleteSetting(s) ==
  /\ At(s, "delete_setting")
  /\ setting' = [setting EXCEPT ![req[s].room] = NoSetting]
  /\ IF req[s].after = "leave" THEN Return(s) ELSE Goto(s, "delete_messages")
  /\ UNCHANGED <<scene, member, role, copies, message, people, sockets, later>>

DeleteMessages(s) ==
  /\ At(s, "delete_messages")
  /\ message' = Tagged(InRoom(req[s].room), "gone")
  /\ Return(s)
  /\ UNCHANGED <<scene, rooms, people, sockets, later>>

-----------------------------------------------------------------------------
(* updateGroupSettings, updateTitle, updateImage *)

SettingsBegin(s, u, r) ==
  /\ Free(s, "settings") /\ IsGroupAdmin(r, u)
  /\ Begin(s, Call("settings_save", u, r))
  /\ UnchangedRooms(s)

SettingsSave(s) ==
  /\ At(s, "settings_save")
  /\ LET r == req[s].room
     IN \E only \in BOOLEAN, muted \in SUBSET Users :
          setting' = IF setting[r].rT # "g" THEN setting
                     ELSE [setting EXCEPT ![r].adminsOnly = only, ![r].muted = muted]
  /\ Return(s)
  /\ UNCHANGED <<scene, member, role, copies, message, people, sockets, later>>

\* The members have copies of title and image, the settings the original.
Rename(s, u, r, field) ==
  /\ Free(s, "rename") /\ member[r][u].rT = "g"
  /\ \E name \in Names \ {"old"} :
       Begin(s, [Call("rename_members", u, r) EXCEPT !.next = field, !.lId = name])
  /\ UnchangedRooms(s)

UpdateTitle(s, u, r) == Rename(s, u, r, "t")
UpdateImage(s, u, r) == Rename(s, u, r, "img")

Renamed(x, h) == IF h.next = "t" THEN [x EXCEPT !.t = h.lId] ELSE [x EXCEPT !.img = h.lId]

RenameMembers(s) ==
  /\ At(s, "rename_members")
  /\ LET New(m) == Renamed(m, req[s]) IN member' = UpdateMembers(req[s].room, New)
  /\ Goto(s, "rename_setting")
  /\ later' = Append(later, <<req[s].user, req[s].room>>)
  /\ UNCHANGED <<scene, setting, role, copies, message, people, sockets>>

RenameForgotten(s) ==
  /\ At(s, "rename_setting")
  /\ Return(s)
  /\ UnchangedRooms(s)

RenameSetting(s) ==
  /\ At(s, "rename_setting")
  /\ LET r == req[s].room
     IN setting' = IF setting[r] = NoSetting THEN setting
                   ELSE [setting EXCEPT ![r] = Renamed(@, req[s])]
  /\ Return(s)
  /\ UNCHANGED <<scene, member, role, copies, message, people, sockets, later>>

-----------------------------------------------------------------------------
(* createBroadcastChat, addMembersToBroadcast, kickBroadcastMember *)

BroadcastBegin(s, u, us) ==
  /\ Free(s, "broadcast") /\ us # {} /\ u \notin us /\ Fresh # {}
  /\ Begin(s, [Call("broadcast_member", u, NewRoom) EXCEPT !.todo = us, !.after = "broadcast_own"])
  /\ UnchangedRooms(s)

BroadcastMember(s) ==
  /\ At(s, "broadcast_member")
  /\ member' = SetMember(req[s].room, req[s].user, Member("b"))
  /\ Goto(s, "broadcast_join")
  /\ UNCHANGED <<scene, setting, role, copies, message, people, sockets, later>>

BroadcastJoin(s) ==
  /\ At(s, "broadcast_join")
  /\ JoinRoom({req[s].user}, req[s].room)
  /\ Goto(s, "broadcast_next")
  /\ UNCHANGED <<scene, rooms, message, people, online, later>>

AddToBroadcast(s, u, r, us) ==
  /\ Free(s, "addToBroadcast") /\ member[r][u].rT = "b" /\ us # {} /\ u \notin us
  /\ Begin(s, [Call("broadcast_next", u, r) EXCEPT !.todo = us, !.after = "broadcast_copies"])
  /\ UnchangedRooms(s)

\* _createPeerRoom, with the steps of getOrCreatePeerRoom.
CreatePeerRoom(s, h, v) ==
  /\ Fresh # {}
  /\ Resume(s, [h EXCEPT !.pc = "room_setting", !.peer = v, !.at = NewRoom,
                         !.next = "broadcast_note"])

\* The next user: skipped for a ban or as a member, otherwise told in the room
\* of the two, which is created when there is none.
BroadcastNext(s) ==
  /\ At(s, "broadcast_next")
  /\ LET h == req[s]
         v == CHOOSE v \in h.todo : TRUE
         rest == [h EXCEPT !.todo = @ \ {v}]
     IN IF h.todo = {} THEN Goto(s, h.after)
        ELSE IF Banned(h.user, v) \/ \E r \in Rooms : <<h.room, v, r>> \in copies
             THEN Resume(s, rest)
        ELSE IF SingleRooms(h.user, v) # {}
             THEN Resume(s, [rest EXCEPT !.pc = "broadcast_note", !.peer = v,
                                         !.at = SingleRoom(h.user, v)])
        ELSE CreatePeerRoom(s, rest, v)
  /\ UnchangedRooms(s)

BroadcastNote(s) ==
  /\ At(s, "broadcast_note")
  /\ message' = Append(message, Info(req[s].at, req[s].user))
  /\ Resume(s, [req[s] EXCEPT !.pc = "broadcast_next", !.list = @ \cup {<<req[s].peer, req[s].at>>}])
  /\ UNCHANGED <<scene, rooms, people, sockets, later>>

BroadcastOwn(s) ==
  /\ At(s, "broadcast_own")
  /\ message' = Append(message, Info(req[s].room, req[s].user))
  /\ Goto(s, "broadcast_copies")
  /\ UNCHANGED <<scene, rooms, people, sockets, later>>

BroadcastCopies(s) ==
  /\ At(s, "broadcast_copies")
  /\ copies' = copies \cup {<<req[s].room, c[1], c[2]>> : c \in req[s].list}
  /\ IF req[s].after = "broadcast_own" THEN Goto(s, "broadcast_setting") ELSE Return(s)
  /\ UNCHANGED <<scene, setting, member, role, message, people, sockets, later>>

BroadcastSetting(s) ==
  /\ At(s, "broadcast_setting")
  /\ setting' = [setting EXCEPT ![req[s].room] = Setting("b", req[s].user, NoUser)]
  /\ Return(s)
  /\ UNCHANGED <<scene, member, role, copies, message, people, sockets, later>>

KickFromBroadcast(u, v, r) ==
  /\ AtOnce("kickFromBroadcast") /\ member[r][u].rT = "b" /\ u # v
  /\ \E at \in Rooms : /\ <<r, v, at>> \in copies
                       /\ copies' = copies \ {<<r, v, at>>}
  /\ UNCHANGED <<scene, setting, member, role, message, people, sockets, later>>

\* The title and image of a broadcast change for its owner only.
RenameBroadcast(u, r) ==
  /\ AtOnce("rename") /\ member[r][u].rT = "b"
  /\ \E h \in [next : {"t", "img"}, lId : Names \ {"old"}] :
       LET New(m) == Renamed(m, h) IN member' = UpdateMembers(r, New)
  /\ UNCHANGED <<scene, setting, role, copies, message, people, sockets, later>>

GroupsContinue(s) ==
  \/ CreateGroupMembers(s) \/ CreateGroupRoles(s) \/ CreateGroupSetting(s) \/ JoinGroup(s)
  \/ GroupHello(s) \/ AddRole(s) \/ AddMember(s) \/ AddJoin(s)
  \/ KickRole(s) \/ KickMember(s) \/ KickLeave(s) \/ AwaitAnnounce(s) \/ RoleSet(s)
  \/ LeaveSocket(s) \/ LeaveSuccessor(s) \/ LeaveRole(s) \/ LeaveMember(s)
  \/ DeleteSockets(s) \/ DeleteMembers(s) \/ DeleteRoles(s) \/ DeleteSetting(s) \/ DeleteMessages(s)
  \/ SettingsSave(s) \/ RenameMembers(s) \/ RenameSetting(s)
  \/ BroadcastMember(s) \/ BroadcastJoin(s) \/ BroadcastNext(s) \/ BroadcastNote(s)
  \/ BroadcastOwn(s) \/ BroadcastCopies(s) \/ BroadcastSetting(s)
=============================================================================
