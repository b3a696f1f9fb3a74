-------------------------------- MODULE Chat --------------------------------
(***************************************************************************)
(* The chat: the handlers of ChatRooms, ChatGroups and ChatMessages on one *)
(* database and one set of sockets, the end of the process, and what is    *)
(* expected of all of them together.                                       *)
(***************************************************************************)
EXTENDS ChatMessages

r1 == CHOOSE r \in Rooms : TRUE
r2 == CHOOSE r \in Rooms \ {r1} : TRUE

\* The room, or the two rooms, a scene starts with, as the handlers leave them.
SingleOf(setup) == IF setup = "single" THEN {r1} ELSE IF setup = "broadcast" THEN {r2} ELSE {}
Started(setup, type) == IF setup = type THEN {r1} ELSE {}

\* The message there is in the room of two or the group.
First(single, group) ==
  LET tags == {"created"} \cup (IF "vote" \in scene.menu THEN {"poll"} ELSE {})
      members == IF group = {} THEN {} ELSE {Creator, Peer}
      sent == [v \in Users |-> IF v \in members THEN "sent" ELSE "none"]
  IN [Message(CHOOSE r \in single \cup group : TRUE, Creator, NoId, tags) EXCEPT !.status = sent]

Init ==
  /\ scene \in Scenes
  /\ LET both == {Creator, Peer}
         single == SingleOf(scene.setup)
         group == Started(scene.setup, "group")
         broadcast == Started(scene.setup, "broadcast")
     IN /\ setting = [r \in Rooms |-> IF r \in single THEN Setting("s", Creator, Peer)
                                      ELSE IF r \in group THEN Setting("g", Creator, NoUser)
                                      ELSE IF r \in broadcast THEN Setting("b", Creator, NoUser)
                                      ELSE NoSetting]
        /\ member = [r \in Rooms |-> [u \in Users |->
             IF r \in single /\ u \in both THEN [NoMember EXCEPT !.rT = "s"]
             ELSE IF r \in group /\ u \in both THEN [NoMember EXCEPT !.rT = "g"]
             ELSE IF r \in broadcast /\ u = Creator THEN [NoMember EXCEPT !.rT = "b"]
             ELSE NoMember]]
        /\ role = [r \in Rooms |-> [u \in Users |->
             IF r \in group /\ u = Creator THEN <<"superAdmin">>
             ELSE IF r \in group /\ u = Peer THEN <<"member">> ELSE <<>>]]
        /\ copies = {<<r, Peer, r2>> : r \in broadcast}
        /\ message = IF single \cup group = {} THEN <<>> ELSE <<First(single, group)>>
        /\ online = IF "connect" \in scene.menu THEN Users \ {Peer} ELSE Users
        /\ joined = [u \in Users |-> IF u \in online THEN RoomsOf(u) ELSE {}]
  /\ bans = {} /\ requests = {} /\ apart = {}
  /\ req = [s \in Slots |-> Idle] /\ later = <<>>
  /\ begun = 0 /\ overlapped = FALSE /\ restarts = 0

\* The process ends and starts anew: sockets, handlers and calls nobody awaits
\* are gone, the documents stay.
Restart ==
  /\ restarts < scene.restarts
  /\ restarts' = restarts + 1
  /\ online' = {} /\ joined' = [u \in Users |-> {}]
  /\ req' = [s \in Slots |-> Idle] /\ later' = <<>>
  /\ UNCHANGED <<scene, rooms, message, people, begun, overlapped>>

-----------------------------------------------------------------------------
(* What a client may ask for: the routes and the events of the sockets *)

ChannelController ==
  \E u \in Users :
    \/ \E s \in Slots, v \in Users : PeerBegin(s, u, v) \/ OrderBegin(s, u, v)
    \/ \E s \in Slots, r \in Rooms :
         \/ DeleteRoom(s, u, r) \/ GetRoomById(s, u, r) \/ UpdateTimer(s, u, r)
         \/ RoomOneSeenOn(s, u, r) \/ RoomOneSeenOff(s, u, r)
    \/ \E r \in Rooms :
         \/ ClearRoomMessages(u, r) \/ MuteRoom(u, r) \/ UnMuteRoom(u, r)
         \/ ArchiveRoom(u, r) \/ UnArchiveRoom(u, r) \/ ChangeNickName(u, r)
         \/ UpdateTranslate(u, r) \/ StopTranslate(u, r) \/ DeliverRoomMessages(u, r)

GroupChannelController ==
  \E s \in Slots, u \in Users :
    \/ \E us \in SUBSET Users : GroupBegin(s, u, us)
    \/ \E r \in Rooms :
         \/ LeaveBegin(s, u, r) \/ DeleteGroup(s, u, r) \/ SettingsBegin(s, u, r)
         \/ UpdateTitle(s, u, r) \/ UpdateImage(s, u, r)
         \/ \E v \in Users : AddBegin(s, u, v, r) \/ KickBegin(s, u, v, r) \/ RoleBegin(s, u, v, r)

BroadcastChannelController ==
  \E u \in Users :
    \/ \E s \in Slots, us \in SUBSET Users :
         BroadcastBegin(s, u, us) \/ \E r \in Rooms : AddToBroadcast(s, u, r, us)
    \/ \E r \in Rooms : RenameBroadcast(u, r) \/ \E v \in Users : KickFromBroadcast(u, v, r)

\* The date of a message that is meant for later does not pass the validation of
\* the request, so every message is sent at once.
MessageChannelController ==
  \E u \in Users :
    \/ \E s \in Slots, r \in Rooms, l \in LocalIds : SendBegin(s, u, r, l)
    \/ \E s \in Slots, i \in DOMAIN message :
         (\E r \in Rooms : DeleteFromMe(s, u, r, i)) \/ (\E e \in Emojis : ReactBegin(s, u, i, e))
    \/ \E i \in DOMAIN message :
         \/ DeleteFromAll(u, i) \/ StarRoomMessage(u, i) \/ UnStarRoomMessage(u, i)
         \/ OneSeeThisMessage(u, i) \/ EditMessage(u, i)
         \/ \E pin \in BOOLEAN : PinUnpinMessage(u, i, pin)
         \/ \E o \in Options : VoteOnPoll(u, i, o)

UserBanController == \E s \in Slots, u, v \in Users : Ban(s, u, v) \/ Unban(s, u, v)

ChatRequestRoutes ==
  \E u \in Users : \/ \E s \in Slots, v \in Users : RequestBegin(s, u, v)
                   \/ \E q \in requests : UpdateRequest(u, q)

\* The delivery of a room, asked for by its event, is that of the route.
SocketIoGateway ==
  \E u \in Users : \/ Disconnect(u)
                   \/ \E s \in Slots : ConnectBegin(s, u) \/ \E r \in Rooms : EnterBegin(s, u, r)

Continue(s) == RoomsContinue(s) \/ GroupsContinue(s) \/ MessagesContinue(s)

Next ==
  \/ \E s \in Slots : Continue(s)
  \/ ChannelController \/ GroupChannelController \/ BroadcastChannelController
  \/ MessageChannelController \/ UserBanController \/ ChatRequestRoutes \/ SocketIoGateway
  \/ \E n \in 1..2 : Announced(n)
  \/ \E i \in DOMAIN message : Expire(i)
  \/ Restart

Spec == Init /\ [][Next]_vars

-----------------------------------------------------------------------------
(* Properties *)

\* The type of every variable.
TypeOK ==
  /\ scene \in Scenes
  /\ setting \in [Rooms -> [rT : RoomTypes \cup {"none"}, cId : Users \cup {NoUser},
                            pId : Users \cup {NoUser}, adminsOnly : BOOLEAN,
                            muted : SUBSET Users, t : Names, img : Names]]
  /\ \A r \in Rooms, u \in Users :
       /\ member[r][u] \in [rT : RoomTypes \cup {"none"}, isD : BOOLEAN,
                            lSM : 0..Len(message), isOneSeen : BOOLEAN, timer : BOOLEAN,
                            flags : SUBSET Flags, t : Names, img : Names]
       /\ role[r][u] \in Seq(Roles) /\ Len(role[r][u]) <= Cardinality(Slots)
  /\ copies \subseteq Rooms \X Users \X Rooms
  /\ \A i \in DOMAIN message :
       LET m == message[i]
       IN /\ m.rId \in Rooms /\ m.sId \in Users /\ m.lId \in LocalIds \cup {NoId}
          /\ m.tags \subseteq Tags /\ m.status \in [Users -> Statuses]
          /\ m.dF \cup m.stars \cup m.oneSeenBy \subseteq Users
          /\ m.votes \subseteq Users \X Options
          /\ m.reactions \in [Users -> Emojis \cup {"none"}]
  /\ bans \subseteq Users \X Users
  /\ \A q \in requests : /\ {q.from, q.to} \subseteq Users /\ q.room \in Rooms
                         /\ q.status \in {"Pending", "Accepted", "Refused", "Canceled"}
  /\ online \subseteq Users /\ joined \in [Users -> SUBSET Rooms]
  /\ \A s \in Slots : req[s].user \in Users \cup {NoUser} /\ req[s].room \in Rooms \cup {NoRoom}
  /\ later \in Seq(Users \X Rooms)
  /\ apart \subseteq Rooms \X Users
  /\ begun \in 0..scene.limit /\ overlapped \in BOOLEAN /\ restarts \in 0..scene.restarts

Undisturbed == ~overlapped /\ restarts = 0 /\ Quiet

\* Whatever overlaps, is retried or cut off: a message a client sends once more
\* is stored once, and nobody's vote counts twice.
NothingTwice ==
  /\ \A l \in LocalIds : Cardinality({i \in DOMAIN message : Alive(i) /\ message[i].lId = l}) <= 1
  /\ \A i \in DOMAIN message : \A v, w \in message[i].votes : v[1] = w[1] => v = w

\* Without overlap and without a restart the documents a room consists of agree:
\* two users have one room at most and are both in it, a group has settings as
\* long as it has members, each of them with one role and with its title and
\* image, and a broadcast reaches its users in the room they share with its owner.
RoomsAreWhole ==
  Undisturbed =>
    /\ \A u, v \in Users : u # v => Cardinality(SingleRooms(u, v)) <= 1
    /\ \A r \in Rooms :
         /\ setting[r].rT \in {"s", "o"} => Members(r) = {setting[r].cId, setting[r].pId}
         /\ setting[r].rT = "g" => Members(r) # {}
         /\ \A u \in Users :
              /\ Len(role[r][u]) = IF member[r][u].rT = "g" THEN 1 ELSE 0
              /\ member[r][u].rT = "g" =>
                   /\ setting[r].rT = "g"
                   /\ member[r][u].t = setting[r].t /\ member[r][u].img = setting[r].img
    /\ \A c \in copies : c[3] \in SingleRooms(setting[c[1]].cId, c[2])

\* Without overlap and without a restart the sockets follow the documents: who is
\* kicked or leaves hears no more of the group, and who is a member hears of the
\* room, unless it is one of two users with a ban.  Three kinds of users stay apart
\* until they connect again: who is left out of a new group for a ban, but in its
\* socket.io room; who has left the socket.io room when the request to leave ends
\* early, as it does in a room of two or when its message is refused; and the
\* members of a group that is deleted, who stay in its socket.io room.
ListenersAreMembers ==
  Undisturbed =>
    \A u \in online, r \in Rooms :
      <<r, u>> \notin apart =>
        /\ r \in joined[u] => IsMember(r, u)
        /\ IsMember(r, u) =>
             r \in joined[u] \/ (setting[r].rT = "s" /\ Banned(setting[r].cId, setting[r].pId))

\* Without overlap and without a restart, the messages of the other that are no
\* longer counted as unread in a room of two are seen, and the lists of a group
\* message miss nobody to whom it has come.
ReadIsSeen ==
  Undisturbed =>
    \A i \in DOMAIN message, u \in Users :
      LET m == message[i]
      IN /\ /\ Alive(i) /\ m.sId # u /\ member[m.rId][u].rT \in {"s", "o"}
            /\ i \notin Unread(m.rId, u)
            => "sAt" \in m.tags
         /\ m.status[u] \in {"none", "sent"} \/ u \in DeliveredTo(i) \cup SeenBy(i)

\* Without overlap and without a restart no message is out of sight: a member who
\* has not deleted a message that was sent to a room has the room in the list,
\* whichever of the two was deleted first.
ShownAgain ==
  Undisturbed =>
    \A r \in Rooms, u \in Users :
      (\E i \in Visible(r, u) : "created" \in message[i].tags) => r \in Listed(u)
=============================================================================
