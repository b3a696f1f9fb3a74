------------------------------- MODULE Stream -------------------------------
(***************************************************************************)
(* A live stream: LiveStreamService and the four collections it keeps, for *)
(* one stream.  A request handler is a sequence of atomic database         *)
(* operations separated by awaits; a document that was read is saved later *)
(* field by field, and a field set to the value it was read with is not    *)
(* written at all.                                                         *)
(***************************************************************************)
EXTENDS Integers, FiniteSets, FiniteSetsExt

CONSTANTS
  Host,        \* the user that creates the stream
  Viewers,     \* the other users
  Subscribed,  \* the users with a subscription that has not expired
  Rows,        \* ids of live_stream_participant documents
  Messages,    \* ids of live_stream_message documents
  Asks,        \* ids of live_stream_join_request documents
  Scenes,      \* kinds of stream, of requests, and restarts a behaviour may have
  Price,       \* the price of a paid stream
  GiftPrice,   \* the price a gift message carries
  Wallet,      \* Wallet[u]: the balance u starts with
  Slots,       \* handlers that may be in progress at once
  MaxCount,    \* bound on the counters (rejoining counts without end)
  NoUser, NoRow, NoMessage, NoAsk

Users == Viewers \cup {Host}
Types == {"public", "private", "paid"}
Requests == {"join", "leave", "cohost", "remove", "ban", "message", "pin",
             "like", "ask", "record", "delete", "gift"}

\* A paid stream is made private whatever its creator asks for.
Kinds == {k \in [type : Types, isPrivate : BOOLEAN, approval : BOOLEAN] :
            k.type = "paid" => k.isPrivate}

ASSUME StreamAssumption ==
  /\ Host \notin Viewers /\ IsFiniteSet(Viewers)
  /\ Scenes \subseteq [kind : Kinds, menu : SUBSET Requests, restarts : Nat]
  /\ Price \in Nat /\ GiftPrice \in Nat /\ MaxCount \in Nat
  /\ Wallet \in [Users -> Int]
  /\ NoUser \notin Users /\ NoRow \notin Rows
  /\ NoMessage \notin Messages /\ NoAsk \notin Asks

VARIABLES
  scene,       \* the settings of the stream and the requests clients make
  status,      \* live_stream.status, "none" and "deleted" without a document
  viewerCount, \* live_stream.viewerCount
  banned,      \* live_stream.bannedUsers
  likedBy, likesCount,  \* live_stream.likedBy, live_stream.likesCount
  pinnedId,    \* live_stream.pinnedMessageId
  row,         \* the participants: userId, role and isActive
  message,     \* the messages: sent or not, a gift or not, isPinned
  ask,         \* the join requests: userId and status
  balance,     \* user.balance
  req,         \* handlers in progress
  granted,     \* history: users a join request of whom was once approved
  overlapped,  \* history: two handlers were in progress, or one was cut off
  restarts     \* restarts so far

counters == <<viewerCount, likedBy, likesCount>>
streamDoc == <<status, counters, banned, pinnedId>>
others == <<row, message, ask, balance>>
documents == <<scene, streamDoc, others, granted>>
process  == <<overlapped, restarts>>
vars == <<documents, req, process>>

Roles == {"streamer", "viewer", "co_host"}

PC == {"idle", "create_host", "start_save", "end_save", "end_clear",
       "record_save", "delete", "join_wallet", "join_charge", "join_credit",
       "join_gate", "join_find", "join_create", "join_revive", "join_count",
       "off_save", "ban_save", "ban_list", "off_count", "cohost_save",
       "message_check", "message_create", "gift", "gift_abort", "pin_find", "pin_clear",
       "pin_set", "pin_note", "unpin_find", "unpin_set", "unpin_note", "like",
       "ask_find", "ask_create", "answer"}

\* A handler: where it is, whom it serves, the document it works on (of one
\* of three collections), and what it has read: the role of a participant,
\* one flag (isActive, isPinned, liked, or, of a message, a gift), the pin.
For(pc, u) == [pc |-> pc, user |-> u, row |-> NoRow, message |-> NoMessage,
               ask |-> NoAsk, role |-> "viewer", flag |-> FALSE, pin |-> NoMessage]
Idle == For("idle", NoUser)

Absent == [user |-> NoUser, role |-> "viewer", active |-> FALSE]
Unsent == [sent |-> FALSE, gift |-> FALSE, pinned |-> FALSE]
NoRequest == [user |-> NoUser, status |-> "none"]

InProgress == {s \in Slots : req[s].pc # "idle"}
Exists == status \notin {"none", "deleted"}
Bounded(n) == n \in -MaxCount..MaxCount

\* A client makes a request of one of the behaviour's kinds.
Free(s, request) == req[s].pc = "idle" /\ request \in scene.menu

Begin(s, h) ==
  /\ req' = [req EXCEPT ![s] = h]
  /\ overlapped' = (overlapped \/ InProgress \ {s} # {})
  /\ UNCHANGED restarts

Resume(s, h) == req' = [req EXCEPT ![s] = h] /\ UNCHANGED process
Goto(s, pc) == Resume(s, [req[s] EXCEPT !.pc = pc])
Return(s) == Resume(s, Idle)
Proceed(s, h) == Resume(s, h) /\ UNCHANGED documents

Init ==
  /\ scene \in Scenes
  /\ status = "none"
  /\ viewerCount = 0 /\ banned = {} /\ likedBy = {} /\ likesCount = 0
  /\ pinnedId = NoMessage
  /\ row = [p \in Rows |-> Absent]
  /\ message = [m \in Messages |-> Unsent]
  /\ ask = [a \in Asks |-> NoRequest]
  /\ balance = Wallet
  /\ req = [s \in Slots |-> Idle]
  /\ granted = {} /\ overlapped = FALSE /\ restarts = 0

-----------------------------------------------------------------------------
(* createLiveStream, startLiveStream, endLiveStream, saveLiveStreamRecording,
   deleteSavedStream: the host's requests about the stream itself *)

RowsOf(u) == {p \in Rows : row[p].user = u}

\* An id that is not in use; which one is of no matter.
Fresh(docs, unused) == CHOOSE id \in DOMAIN docs : docs[id] = unused

NewRow(u, role) ==
  /\ RowsOf(NoUser) # {}
  /\ row' = [row EXCEPT ![Fresh(row, Absent)] = [user |-> u, role |-> role, active |-> TRUE]]

CreateInsert(s) ==
  /\ req[s].pc = "idle" /\ status = "none"
  /\ status' = "scheduled"
  /\ Begin(s, For("create_host", Host))
  /\ UNCHANGED <<scene, counters, banned, pinnedId, others, granted>>

CreateHost(s) ==
  /\ req[s].pc = "create_host"
  /\ NewRow(Host, "streamer")
  /\ Return(s)
  /\ UNCHANGED <<scene, streamDoc, message, ask, balance, granted>>

\* Bound: the handler is dropped when every id of Rows is in use.
NoRowId(s) ==
  /\ req[s].pc \in {"create_host", "join_create"}
  /\ RowsOf(NoUser) = {}
  /\ Proceed(s, Idle)

\* A request that is accepted in one status of the stream.
HostBegin(s, required, pc) ==
  /\ req[s].pc = "idle" /\ status = required
  /\ Begin(s, For(pc, Host))
  /\ UNCHANGED documents

StartBegin(s) == HostBegin(s, "scheduled", "start_save")
EndBegin(s) == HostBegin(s, "live", "end_save")
RecordBegin(s) == "record" \in scene.menu /\ HostBegin(s, "ended", "record_save")

\* stream.save() fails when the document is gone.
SaveStatus(s, pc, st, h) ==
  /\ req[s].pc = pc
  /\ IF Exists THEN status' = st /\ Resume(s, h) ELSE UNCHANGED status /\ Return(s)
  /\ UNCHANGED <<scene, counters, banned, pinnedId, others, granted>>

StartSave(s) == SaveStatus(s, "start_save", "live", Idle)
EndMisspelt(s) == SaveStatus(s, "end_save", "finished", For("end_clear", Host))
EndSave(s) == SaveStatus(s, "end_save", "ended", For("end_clear", Host))
RecordSave(s) == SaveStatus(s, "record_save", "recorded", Idle)

ClearViewers == [p \in Rows |-> IF row[p].role = "viewer"
                                  THEN [row[p] EXCEPT !.active = FALSE] ELSE row[p]]
ClearRows == [p \in Rows |-> [row[p] EXCEPT !.active = FALSE]]

\* updateMany: every participant becomes inactive; viewerCount stays.
EndClear(s) ==
  /\ req[s].pc = "end_clear"
  /\ row' = ClearRows
  /\ Return(s)
  /\ UNCHANGED <<scene, streamDoc, message, ask, balance, granted>>

\* The request is named for saved streams, and deletes one of any status.
DeleteBegin(s) ==
  /\ Free(s, "delete") /\ Exists
  /\ Begin(s, For("delete", Host))
  /\ UNCHANGED documents

DeleteOne(s) ==
  /\ req[s].pc = "delete"
  /\ status' = "deleted"
  /\ Return(s)
  /\ UNCHANGED <<scene, counters, banned, pinnedId, others, granted>>

-----------------------------------------------------------------------------
(* joinLiveStream *)

NobodyRefused(u) == FALSE
Refused(u) == u \in banned

ChargedIfPublic(k) == k.type = "paid" /\ ~k.isPrivate
Charged(k) == k.type = "paid"

JoinBegin(s, u) ==
  /\ Free(s, "join") /\ Bounded(viewerCount)
  /\ status = "live" /\ ~Refused(u)
  /\ Begin(s, For(IF Charged(scene.kind) THEN "join_wallet" ELSE "join_gate", u))
  /\ UNCHANGED documents

JoinUncharged(s) ==
  /\ req[s].pc = "join_wallet"
  /\ Proceed(s, IF balance[req[s].user] < Price THEN Idle ELSE For("join_credit", req[s].user))

\* The viewer's balance is looked at, and later changed by $inc.
JoinWallet(s) ==
  /\ req[s].pc = "join_wallet"
  /\ Proceed(s, IF balance[req[s].user] < Price THEN Idle ELSE For("join_charge", req[s].user))

Pay(s, pc, u, amount, h) ==
  /\ req[s].pc = pc
  /\ balance' = [balance EXCEPT ![u] = @ + amount]
  /\ Resume(s, h)
  /\ UNCHANGED <<scene, streamDoc, row, message, ask, granted>>

JoinCharge(s) == Pay(s, "join_charge", req[s].user, -Price, For("join_credit", req[s].user))
JoinCredit(s) == Pay(s, "join_credit", Host, Price, For("join_gate", req[s].user))

RequestMade(u) == \E a \in Asks : ask[a].user = u
Approved(u) == \E a \in Asks : ask[a] = [user |-> u, status |-> "approved"]

\* A private show asks for a subscription, and a stream that requires
\* approval, unless it is private, for an approved join request.
JoinGate(s) ==
  /\ req[s].pc = "join_gate"
  /\ Proceed(s, IF \/ scene.kind.type = "private" /\ req[s].user \notin Subscribed
                 \/ /\ scene.kind.approval /\ ~scene.kind.isPrivate
                    /\ ~Approved(req[s].user)
                THEN Idle ELSE For("join_find", req[s].user))

\* A handler that has read participant p.
WithRow(pc, u, p) == [For(pc, u) EXCEPT !.row = p, !.role = row[p].role, !.flag = row[p].active]

JoinFind(s) ==
  LET u == req[s].user
  IN /\ req[s].pc = "join_find"
     /\ IF RowsOf(u) = {} THEN Proceed(s, For("join_create", u))
        ELSE \E p \in RowsOf(u) : Proceed(s, WithRow("join_revive", u, p))

JoinCreate(s) ==
  /\ req[s].pc = "join_create"
  /\ NewRow(req[s].user, "viewer")
  /\ Goto(s, "join_count")
  /\ UNCHANGED <<scene, streamDoc, message, ask, balance, granted>>

\* save() of a participant that was read: isActive is written when it changes.
SetActive(s, active) ==
  row' = IF req[s].flag = active THEN row ELSE [row EXCEPT ![req[s].row].active = active]

JoinRevive(s) ==
  /\ req[s].pc = "join_revive"
  /\ SetActive(s, TRUE)
  /\ Resume(s, IF req[s].role = "viewer" THEN For("join_count", req[s].user) ELSE Idle)
  /\ UNCHANGED <<scene, streamDoc, message, ask, balance, granted>>

\* $inc of viewerCount: of a participant that was active already, too.
Counted(s, pc, n) ==
  /\ req[s].pc = pc
  /\ viewerCount' = IF Exists THEN viewerCount + n ELSE viewerCount
  /\ Return(s)
  /\ UNCHANGED <<scene, status, likedBy, likesCount, banned, pinnedId, row,
                 message, ask, balance, granted>>

JoinCount(s) == Counted(s, "join_count", 1)

-----------------------------------------------------------------------------
(* leaveLiveStream, removeParticipant, banParticipant, acceptCoHostInvitation *)

ReadRow(s, request, pc, u, p) ==
  /\ Free(s, request) /\ Bounded(viewerCount)
  /\ row[p].user = u /\ row[p].active
  /\ Begin(s, WithRow(pc, u, p))
  /\ UNCHANGED documents

LeaveBegin(s, u, p) == ReadRow(s, "leave", "off_save", u, p)

\* The host removes or bans a participant other than himself.
RemoveBegin(s, u, p) == Exists /\ u # Host /\ ReadRow(s, "remove", "off_save", u, p)
BanBegin(s, u, p) == Exists /\ u # Host /\ ReadRow(s, "ban", "ban_save", u, p)

\* Any active viewer may accept: no invitation is recorded.
CohostBegin(s, u, p) == row[p].role = "viewer" /\ ReadRow(s, "cohost", "cohost_save", u, p)

CountAnyway(s) == [req[s] EXCEPT !.pc = "off_count"]

\* Only a viewer was counted.
CountOff(s) == IF req[s].role = "viewer" THEN [req[s] EXCEPT !.pc = "off_count"] ELSE Idle

SaveRow(s, pc, h) ==
  /\ req[s].pc = pc
  /\ SetActive(s, FALSE)
  /\ Resume(s, h)
  /\ UNCHANGED <<scene, streamDoc, message, ask, balance, granted>>

OffSave(s) == SaveRow(s, "off_save", CountOff(s))
BanSave(s) == SaveRow(s, "ban_save", [req[s] EXCEPT !.pc = "ban_list"])
OffCount(s) == Counted(s, "off_count", -1)

\* bannedUsers.push and save(), which fails when the stream is gone.
BanList(s) ==
  /\ req[s].pc = "ban_list"
  /\ IF Exists THEN /\ banned' = banned \cup {req[s].user}
                    /\ Resume(s, CountOff(s))
               ELSE UNCHANGED banned /\ Return(s)
  /\ UNCHANGED <<scene, status, counters, pinnedId, others, granted>>

CohostSave(s) ==
  /\ req[s].pc = "cohost_save"
  /\ row' = [row EXCEPT ![req[s].row].role = "co_host"]
  /\ Goto(s, "off_count")
  /\ UNCHANGED <<scene, streamDoc, message, ask, balance, granted>>

-----------------------------------------------------------------------------
(* sendMessage, pinMessage, unpinMessage, likeStream *)

MessageBegin(s, u, gift) ==
  /\ Free(s, "message") /\ status = "live"
  /\ Begin(s, [For("message_check", u) EXCEPT !.flag = gift])
  /\ UNCHANGED documents

MessageCheck(s) ==
  /\ req[s].pc = "message_check"
  /\ Proceed(s, IF \E p \in RowsOf(req[s].user) : row[p].active
                THEN [req[s] EXCEPT !.pc = "message_create"] ELSE Idle)

\* Bound: the handler is dropped when every id of Messages is in use.
MessageNoId(s) ==
  /\ req[s].pc = "message_create"
  /\ \A m \in Messages : message[m].sent
  /\ Proceed(s, Idle)

MessageCreate(s) ==
  /\ req[s].pc = "message_create" /\ \E m \in Messages : ~message[m].sent
  /\ message' = [message EXCEPT ![Fresh(message, Unsent)] = [sent |-> TRUE, gift |-> req[s].flag, pinned |-> FALSE]]
  /\ Resume(s, IF req[s].flag THEN For("gift", req[s].user) ELSE Idle)
  /\ UNCHANGED <<scene, streamDoc, row, ask, balance, granted>>

\* A gift message credits the host; nobody is charged.
Gift(s) == Pay(s, "gift", Host, GiftPrice, Idle)

\* sendGift, of a gift of the catalogue: stream, balance and gift are read in a
\* transaction.
SendGift(s, u) ==
  /\ Free(s, "gift") /\ status = "live"
  /\ u # Host /\ balance[u] >= GiftPrice
  /\ Begin(s, For("gift_abort", u))
  /\ UNCHANGED documents

\* The options of its first write, {new, session}, are taken for the session
\* and refused: the transaction is aborted, whatever was asked.
GiftAborted(s) == req[s].pc = "gift_abort" /\ Proceed(s, Idle)

\* The host pins or unpins a message; the stream is read first.
PinBegin(s, m, pc) ==
  /\ Free(s, "pin") /\ Exists
  /\ Begin(s, [For(pc, Host) EXCEPT !.message = m, !.pin = pinnedId])
  /\ UNCHANGED documents

PinFind(s) ==
  LET m == message[req[s].message]
  IN /\ req[s].pc = "pin_find"
     /\ Proceed(s, IF m.sent THEN [req[s] EXCEPT !.pc = "pin_clear", !.flag = m.pinned] ELSE Idle)

UnpinFind(s) ==
  /\ req[s].pc = "unpin_find"
  /\ Proceed(s, IF message[req[s].message].pinned
                THEN [req[s] EXCEPT !.pc = "unpin_set", !.flag = TRUE] ELSE Idle)

SetPinned(s, pc, changed, next) ==
  /\ req[s].pc = pc
  /\ message' = changed
  /\ Goto(s, next)
  /\ UNCHANGED <<scene, streamDoc, row, ask, balance, granted>>

AllUnpinned == [m \in Messages |-> [message[m] EXCEPT !.pinned = FALSE]]

\* A message that was read as pinned is not pinned again by its save().
Pinned(s, on) == IF req[s].flag = on THEN message
                 ELSE [message EXCEPT ![req[s].message].pinned = on]

PinClear(s) == SetPinned(s, "pin_clear", AllUnpinned, "pin_set")
PinSet(s) == SetPinned(s, "pin_set", Pinned(s, TRUE), "pin_note")
UnpinSet(s) == SetPinned(s, "unpin_set", Pinned(s, FALSE), "unpin_note")

\* save() of the stream, when pinnedMessageId is not as it was read.
NotePin(s, pc, id) ==
  /\ req[s].pc = pc
  /\ pinnedId' = IF Exists /\ req[s].pin # id THEN id ELSE pinnedId
  /\ Return(s)
  /\ UNCHANGED <<scene, status, counters, banned, others, granted>>

PinNote(s) == NotePin(s, "pin_note", req[s].message)
UnpinNote(s) == NotePin(s, "unpin_note", NoMessage)

LikeBegin(s, u) ==
  /\ Free(s, "like") /\ Exists /\ Bounded(likesCount)
  /\ Begin(s, [For("like", u) EXCEPT !.flag = u \in likedBy])
  /\ UNCHANGED documents

\* $pull or $addToSet, by what likedBy was when it was read.
Likes(s) == IF req[s].flag THEN likedBy \ {req[s].user} ELSE likedBy \cup {req[s].user}

LikeWrite(s) ==
  /\ req[s].pc = "like"
  /\ IF Exists
       THEN /\ likedBy' = Likes(s)
            /\ likesCount' = likesCount + (IF req[s].flag THEN -1 ELSE 1)
       ELSE UNCHANGED <<likedBy, likesCount>>
  /\ Return(s)
  /\ UNCHANGED <<scene, status, viewerCount, banned, pinnedId, others, granted>>

-----------------------------------------------------------------------------
(* requestJoinStream, respondToJoinRequest *)

AskBegin(s, u) ==
  /\ Free(s, "ask") /\ status = "live" /\ ~Refused(u)
  /\ scene.kind.approval /\ ~scene.kind.isPrivate
  /\ Begin(s, For("ask_find", u))
  /\ UNCHANGED documents

Asked(u, statuses) == {a \in Asks : ask[a].user = u /\ ask[a].status \in statuses}

\* A user with a pending or an approved request is refused another.
AskFind(s) ==
  /\ req[s].pc = "ask_find"
  /\ Proceed(s, IF Asked(req[s].user, {"pending", "approved"}) = {}
                THEN For("ask_create", req[s].user) ELSE Idle)

\* Bound: the handler is dropped when every id of Asks is in use.
AskNoId(s) ==
  /\ req[s].pc = "ask_create"
  /\ \A a \in Asks : ask[a] # NoRequest
  /\ Proceed(s, Idle)

AskCreate(s) ==
  /\ req[s].pc = "ask_create" /\ \E a \in Asks : ask[a] = NoRequest
  /\ ask' = [ask EXCEPT ![Fresh(ask, NoRequest)] = [user |-> req[s].user, status |-> "pending"]]
  /\ Return(s)
  /\ UNCHANGED <<scene, streamDoc, row, message, balance, granted>>

\* The stream, read after the request, need only exist.
AnswerBegin(s, a) ==
  /\ Free(s, "ask") /\ Exists
  /\ ask[a].status = "pending"
  /\ Begin(s, [For("answer", Host) EXCEPT !.ask = a])
  /\ UNCHANGED documents

Answer(s, st) ==
  LET a == req[s].ask
  IN /\ req[s].pc = "answer"
     /\ ask' = [ask EXCEPT ![a].status = st]
     /\ granted' = IF st = "approved" THEN granted \cup {ask[a].user} ELSE granted
     /\ Return(s)
     /\ UNCHANGED <<scene, streamDoc, row, message, balance>>

-----------------------------------------------------------------------------
\* The process ends and is started again: the handlers are lost.
Restart ==
  /\ restarts < scene.restarts
  /\ restarts' = restarts + 1
  /\ overlapped' = (overlapped \/ InProgress # {})
  /\ req' = [s \in Slots |-> Idle]
  /\ UNCHANGED documents

\* A handler in progress goes on.
Continue(s) ==
  \/ CreateHost(s) \/ StartSave(s) \/ EndSave(s) \/ EndClear(s)
  \/ RecordSave(s) \/ DeleteOne(s)
  \/ JoinWallet(s) \/ JoinCharge(s) \/ JoinCredit(s) \/ JoinGate(s)
  \/ JoinFind(s) \/ NoRowId(s) \/ JoinCreate(s) \/ JoinRevive(s) \/ JoinCount(s)
  \/ OffSave(s) \/ BanSave(s) \/ BanList(s) \/ OffCount(s) \/ CohostSave(s)
  \/ MessageCheck(s) \/ MessageNoId(s) \/ MessageCreate(s)
  \/ Gift(s) \/ GiftAborted(s) \/ PinFind(s) \/ PinClear(s) \/ PinSet(s) \/ PinNote(s)
  \/ UnpinFind(s) \/ UnpinSet(s) \/ UnpinNote(s) \/ LikeWrite(s)
  \/ AskFind(s) \/ AskNoId(s) \/ AskCreate(s)
  \/ (\E st \in {"approved", "denied"} : Answer(s, st))

\* The routes of the controller, as they follow each other in it.
HostStart(s) == CreateInsert(s) \/ StartBegin(s) \/ EndBegin(s) \/ RecordBegin(s)

ViewerStart(s) ==
  \/ \E u \in Viewers : JoinBegin(s, u)
  \/ \E u \in Users, p \in Rows : LeaveBegin(s, u, p)
  \/ \E u \in Users, gift \in BOOLEAN : MessageBegin(s, u, gift)

PinStart(s) == \E m \in Messages, pc \in {"pin_find", "unpin_find"} : PinBegin(s, m, pc)

RemovalStart(s) ==
  \/ DeleteBegin(s)
  \/ \E u \in Users, p \in Rows : RemoveBegin(s, u, p) \/ BanBegin(s, u, p)

GiftStart(s) == \E u \in Viewers : SendGift(s, u)
CohostStart(s) == \E u \in Users, p \in Rows : CohostBegin(s, u, p)
LikeStart(s) == \E u \in Users : LikeBegin(s, u)
AskStart(s) == (\E u \in Viewers : AskBegin(s, u)) \/ \E a \in Asks : AnswerBegin(s, a)

Start(s) ==
  \/ HostStart(s) \/ ViewerStart(s) \/ PinStart(s) \/ RemovalStart(s)
  \/ GiftStart(s) \/ CohostStart(s) \/ LikeStart(s) \/ AskStart(s)

Next == (\E s \in Slots : Continue(s) \/ Start(s)) \/ Restart

Spec == Init /\ [][Next]_vars

-----------------------------------------------------------------------------
(* Properties *)

Handlers == [pc : PC, user : Users \cup {NoUser}, row : Rows \cup {NoRow},
             message : Messages \cup {NoMessage}, ask : Asks \cup {NoAsk},
             role : Roles, flag : BOOLEAN, pin : Messages \cup {NoMessage}]

\* The type of every variable.
TypeOK ==
  /\ scene \in Scenes
  /\ status \in {"none", "scheduled", "live", "ended", "recorded", "deleted"}
  /\ viewerCount \in Int /\ banned \subseteq Users
  /\ likedBy \subseteq Users /\ likesCount \in Int
  /\ pinnedId \in Messages \cup {NoMessage}
  /\ row \in [Rows -> [user : Users \cup {NoUser}, role : Roles, active : BOOLEAN]]
  /\ message \in [Messages -> [sent : BOOLEAN, gift : BOOLEAN, pinned : BOOLEAN]]
  /\ ask \in [Asks -> [user : Users \cup {NoUser},
                       status : {"none", "pending", "approved", "denied"}]]
  /\ balance \in [Users -> Int]
  /\ req \in [Slots -> Handlers]
  /\ granted \subseteq Users /\ overlapped \in BOOLEAN /\ restarts \in 0..scene.restarts

\* Who has a participant of a stream that requires approval was granted it by
\* the host, however requests, answers, joins and restarts overlap
\* (joinLiveStream: "You need approval from the host to join this stream.").
ApprovedOnly ==
  scene.kind.approval /\ ~scene.kind.isPrivate =>
    \A p \in Rows : row[p].user \in Viewers => row[p].user \in granted

Gifts == Cardinality({m \in Messages : message[m].gift})

\* Nobody enters a paid stream unpaid, by overlapping joins, rejoining or a
\* crash: each participant a viewer has was paid for by the viewer.
EntryIsPaid ==
  scene.kind.type = "paid" =>
    \A u \in Viewers : Wallet[u] - balance[u] >= Price * Cardinality(RowsOf(u))

\* The host is never credited what no viewer was charged, wherever the process
\* ends: apart from gift messages, joining moves money and does not make it.
CreditsAreCharged ==
  MapThenSumSet(LAMBDA u : balance[u], Users)
    <= MapThenSumSet(LAMBDA u : Wallet[u], Users) + GiftPrice * Gifts

\* No two handlers were ever in progress, none was cut off, and none is now.
Undisturbed == ~overlapped /\ InProgress = {}

\* Without overlap the count shown for a live stream covers its active
\* viewers, across joins, departures, removals, bans and promotions.  (It may
\* be more: a viewer who joins again while active is counted again.)  The count
\* of likes is that of the users who like it.
CountersAgree ==
  Undisturbed =>
    /\ status = "live" =>
         viewerCount >= Cardinality({p \in Rows : row[p].active /\ row[p].role = "viewer"})
    /\ likesCount = Cardinality(likedBy)

\* Without overlap nobody is left in a stream that is over, a banned user is
\* not in the stream, and a ban outlasts every way back in: joining, a join
\* request, an invitation to be a co-host.
OnlyTheAllowed ==
  Undisturbed => \A p \in Rows :
    row[p].active => status \notin {"ended", "recorded"} /\ row[p].user \notin banned
=============================================================================
