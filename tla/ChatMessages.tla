---------------------------- MODULE ChatMessages ----------------------------
(***************************************************************************)
(* Messages: MessageChannelService and MessageService, and what is         *)
(* delivered to and seen by whom.                                          *)
(***************************************************************************)
EXTENDS ChatGroups

Taken(l) == \E i \in DOMAIN message : Alive(i) /\ message[i].lId = l

-----------------------------------------------------------------------------
(* createMessage *)

\* The member's settings decide what the message does not say itself.
SendBegin(s, u, r, l) ==
  /\ Free(s, "send") /\ IsMember(r, u) /\ ~Taken(l)
  /\ \E oneSeen \in {member[r][u].isOneSeen} \cup (IF "marks" \in scene.menu THEN {TRUE} ELSE {}),
        poll \in {"vote" \in scene.menu} :
       Begin(s, [Call("send_undelete", u, r) EXCEPT !.lId = l, !.seen = member[r][u],
                   !.list = {"created"} \cup (IF oneSeen THEN {"isOneSeen"} ELSE {})
                            \cup (IF poll THEN {"poll"} ELSE {})
                            \cup (IF member[r][u].timer THEN {"disappearAt"} ELSE {})])
  /\ UnchangedRooms(s)

\* The room comes back for all its members, whether the message will be refused
\* or not.
SendAsItIs(s) ==
  /\ At(s, "send_undelete")
  /\ Goto(s, "send_check")
  /\ UnchangedRooms(s)

SendUndelete(s) ==
  /\ At(s, "send_undelete")
  /\ member' = UnDeleted(req[s].room)
  /\ Goto(s, "send_check")
  /\ UNCHANGED <<scene, setting, role, copies, message, people, sockets, later>>

\* In a room of two the peer must be there and no ban between them; the users of
\* a broadcast are read here.
SendCheck(s) ==
  /\ At(s, "send_check")
  /\ LET h == req[s]
         mayTell == \E v \in Users \ {h.user} :
                      member[h.room][v].rT = h.seen.rT /\ ~Banned(h.user, v)
     IN CASE h.seen.rT \in {"s", "o"} -> IF mayTell THEN Goto(s, "send_create") ELSE Return(s)
          [] h.seen.rT = "g" -> IF MaySend(h.room, h.user) THEN Goto(s, "send_create") ELSE Return(s)
          [] h.seen.rT = "b" ->
               Resume(s, [h EXCEPT !.pc = "send_copies", !.todo = {c \in copies : c[1] = h.room}])
  /\ UnchangedRooms(s)

\* localId is unique.
SendTwice(s) ==
  /\ At(s, "send_create")
  /\ LET h == req[s]
     IN /\ message' = Append(message, Message(h.room, h.user, h.lId, h.list))
        /\ IF h.seen.rT = "g"
           THEN Resume(s, [h EXCEPT !.pc = "send_statuses", !.msg = Len(message) + 1])
           ELSE Return(s)
  /\ UNCHANGED <<scene, rooms, people, sockets, later>>

SendCreate(s) ==
  /\ At(s, "send_create")
  /\ LET h == req[s]
     IN IF Taken(h.lId) THEN Return(s) /\ UNCHANGED message
        ELSE /\ message' = Append(message, Message(h.room, h.user, h.lId, h.list))
             /\ IF h.seen.rT = "g"
                THEN Resume(s, [h EXCEPT !.pc = "send_statuses", !.msg = Len(message) + 1])
                ELSE Return(s)
  /\ UNCHANGED <<scene, rooms, people, sockets, later>>

\* _createStatusForGroupChat
SendStatuses(s) ==
  /\ At(s, "send_statuses")
  /\ message' = [message EXCEPT ![req[s].msg] = ForGroup(@)]
  /\ Return(s)
  /\ UNCHANGED <<scene, rooms, people, sockets, later>>

\* saveBroadcastMessages: a message in every room of the broadcast and one in its
\* own.  The rooms stay deleted, bans are not looked at, and what the message
\* says of itself is lost.  The copies are in the order the users were found in.
Orders(todo) ==
  {order \in [1..Cardinality(todo) -> todo] : \A c \in todo : \E n \in DOMAIN order : order[n] = c}

SendCopies(s) ==
  /\ At(s, "send_copies")
  /\ \E order \in Orders(req[s].todo) :
       LET h == req[s]
           Copied(n) == Message(order[n][3], h.user, NoId, {})
           copied == message \o [n \in DOMAIN order |-> Copied(n)]
       IN message' = IF Taken(h.lId) THEN copied
                     ELSE Append(copied, Message(h.room, h.user, h.lId, {"created"}))
  /\ Return(s)
  /\ UNCHANGED <<scene, rooms, people, sockets, later>>

-----------------------------------------------------------------------------
(* deleteRoomMessage, voteOnPoll *)

\* Whether the message is one of the room is not asked.
DeleteFromMe(s, u, r, i) ==
  /\ Free(s, "deleteMessage") /\ IsMember(r, u) /\ Alive(i)
  /\ message' = [message EXCEPT ![i].dF = @ \cup {u}]
  /\ Begin(s, Call("deleted_look", u, r))
  /\ UNCHANGED <<scene, rooms, people, sockets, later>>

\* With its last message the room is deleted from the user.
DeletedLook(s) ==
  /\ At(s, "deleted_look")
  /\ IF Visible(req[s].room, req[s].user) = {} THEN Goto(s, "deleted_room") ELSE Return(s)
  /\ UnchangedRooms(s)

DeletedRoom(s) ==
  /\ At(s, "deleted_room")
  /\ member' = IF IsMember(req[s].room, req[s].user)
               THEN [member EXCEPT ![req[s].room][req[s].user].isD = TRUE] ELSE member
  /\ Return(s)
  /\ UNCHANGED <<scene, setting, role, copies, message, people, sockets, later>>

\* A message is changed with one write.
Mark(request, i, m) ==
  /\ AtOnce(request) /\ Alive(i)
  /\ message' = [message EXCEPT ![i] = m]
  /\ UNCHANGED <<scene, rooms, people, sockets, later>>

DeleteFromAll(u, i) ==
  /\ message[i].sId = u /\ RoomsOf(u) # {}
  /\ Mark("deleteMessage", i, [message[i] EXCEPT !.tags = @ \cup {"dltAt"}])

\* The pipeline takes the vote of the user from all options, and adds the new one.
VoteAgain(u, i, o) ==
  /\ "poll" \in message[i].tags
  /\ Mark("vote", i, [message[i] EXCEPT !.votes = @ \cup {<<u, o>>}])

VoteOnPoll(u, i, o) ==
  /\ "poll" \in message[i].tags
  /\ Mark("vote", i, [message[i] EXCEPT !.votes = {v \in @ : v[1] # u} \cup {<<u, o>>}])

-----------------------------------------------------------------------------
(* Stars, pins, edits, one-seen messages, reactions *)

StarRoomMessage(u, i) ==
  /\ IsMember(message[i].rId, u)
  /\ Mark("marks", i, [message[i] EXCEPT !.stars = @ \cup {u}])

UnStarRoomMessage(u, i) ==
  /\ IsMember(message[i].rId, u)
  /\ Mark("marks", i, [message[i] EXCEPT !.stars = @ \ {u}])

OneSeeThisMessage(u, i) ==
  /\ RoomsOf(u) # {} /\ "isOneSeen" \in message[i].tags /\ message[i].sId # u
  /\ Mark("marks", i, [message[i] EXCEPT !.oneSeenBy = @ \cup {u}])

EditMessage(u, i) ==
  /\ RoomsOf(u) # {} /\ message[i].sId = u /\ message[i].tags \cap {"info", "poll"} = {}
  /\ Mark("marks", i, [message[i] EXCEPT !.tags = @ \cup {"isEdited"}])

PinUnpinMessage(u, i, pin) ==
  /\ RoomsOf(u) # {}
  /\ Mark("marks", i, [message[i] EXCEPT !.tags = IF pin THEN @ \cup {"isPinned"} ELSE @ \ {"isPinned"}])

\* The reactions are read, changed and saved as a whole.
ReactBegin(s, u, i, e) ==
  /\ Free(s, "react") /\ Alive(i) /\ IsMember(message[i].rId, u)
  /\ LET had == message[i].reactions[u] = e
     IN Begin(s, [Call("react_save", u, message[i].rId) EXCEPT !.msg = i,
                    !.list = [message[i].reactions EXCEPT ![u] = IF had THEN "none" ELSE e]])
  /\ UnchangedRooms(s)

ReactSave(s) ==
  /\ At(s, "react_save")
  /\ message' = [message EXCEPT ![req[s].msg].reactions = req[s].list]
  /\ Return(s)
  /\ UNCHANGED <<scene, rooms, people, sockets, later>>

-----------------------------------------------------------------------------
(* deliverRoomMessages, updateRoomMessagesToSeen, the end of a message *)

DeliverRoomMessages(u, r) ==
  /\ AtOnce("deliver") /\ IsMember(r, u)
  /\ message' = Deliver(r, u)
  /\ UNCHANGED <<scene, rooms, people, sockets, later>>

EnterBegin(s, u, r) ==
  /\ Free(s, "enter") /\ IsMember(r, u)
  /\ Begin(s, [Call("enter_read", u, r) EXCEPT !.seen = member[r][u]])
  /\ UnchangedRooms(s)

EnterAhead(s) ==
  /\ At(s, "enter_read")
  /\ member' = IF IsMember(req[s].room, req[s].user)
               THEN [member EXCEPT ![req[s].room][req[s].user].lSM = Len(message) + 1] ELSE member
  /\ CASE req[s].seen.rT = "g" -> Goto(s, "enter_deliver")
       [] req[s].seen.rT \in {"s", "o"} -> Goto(s, "enter_seen")
       [] OTHER -> Return(s)
  /\ UNCHANGED <<scene, setting, role, copies, message, people, sockets, later>>

\* The last seen message is a new id, greater than those of all messages.
EnterRead(s) ==
  /\ At(s, "enter_read")
  /\ member' = IF IsMember(req[s].room, req[s].user)
               THEN [member EXCEPT ![req[s].room][req[s].user].lSM = Len(message)] ELSE member
  /\ CASE req[s].seen.rT = "g" -> Goto(s, "enter_deliver")
       [] req[s].seen.rT \in {"s", "o"} -> Goto(s, "enter_seen")
       [] OTHER -> Return(s)
  /\ UNCHANGED <<scene, setting, role, copies, message, people, sockets, later>>

EnterDeliver(s) ==
  /\ At(s, "enter_deliver")
  /\ message' = DeliverGroup(req[s].room, req[s].user)
  /\ Goto(s, "enter_seen")
  /\ UNCHANGED <<scene, rooms, people, sockets, later>>

SeenUnread(s) ==
  /\ At(s, "enter_seen")
  /\ Return(s)
  /\ UnchangedRooms(s)

\* In a room of two what is seen need not be delivered.
EnterSeen(s) ==
  /\ At(s, "enter_seen")
  /\ LET u == req[s].user
         Single(m) == IF m.sId # u THEN [m EXCEPT !.tags = @ \cup {"sAt"}] ELSE m
         Group(m) == [m EXCEPT !.status[u] = IF @ = "sent" THEN "seenOnly"
                                             ELSE IF @ = "delivered" THEN "seen" ELSE @]
     IN message' = IF req[s].seen.rT = "g" THEN UpdateMessages(InRoom(req[s].room), Group)
                   ELSE UpdateMessages(InRoom(req[s].room), Single)
  /\ Return(s)
  /\ UNCHANGED <<scene, rooms, people, sockets, later>>

\* The database removes a message whose time is over.
Expire(i) ==
  /\ Alive(i) /\ "disappearAt" \in message[i].tags
  /\ message' = Tagged({i}, "gone")
  /\ UNCHANGED <<scene, rooms, people, sockets, req, later, process>>

MessagesContinue(s) ==
  \/ SendUndelete(s) \/ SendCheck(s) \/ SendCreate(s) \/ SendStatuses(s) \/ SendCopies(s)
  \/ DeletedLook(s) \/ DeletedRoom(s) \/ ReactSave(s)
  \/ EnterRead(s) \/ EnterDeliver(s) \/ EnterSeen(s)
=============================================================================
