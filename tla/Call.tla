-------------------------------- MODULE Call --------------------------------
(***************************************************************************)
(* Calls between chat users: CallService and the documents it shares with  *)
(* the socket gateway.  A request handler is a sequence of atomic database *)
(* operations separated by awaits; between two of them any other handler,  *)
(* a ring timer or a socket callback may run.  A handler in progress holds *)
(* a slot of `req' with its program counter and the values it has read.    *)
(***************************************************************************)
EXTENDS Naturals, FiniteSets

CONSTANTS
  Users,        \* accounts, each with one device
  Mobile,       \* the users whose device is a phone (Android or iOS)
  Rooms,        \* chat rooms
  GroupRooms,   \* the rooms whose type is GroupChat; the others are Single
  MembersOf,    \* MembersOf[r]: the users that have a room_member in r
  Denies,       \* Denies[u]: users kept from calling u by u's privacy setting
  Calls,        \* ids of call_history documents (bounds the calls created)
  Slots,        \* handlers that may be in progress at once
  Bannable,     \* the single rooms whose members may ban each other
  MaxRestarts,  \* bound on restarts of the server process
  NoUser, NoRoom, NoCall

SingleRooms == Rooms \ GroupRooms

ASSUME CallAssumption ==
  /\ GroupRooms \subseteq Rooms
  /\ Mobile \subseteq Users
  /\ Bannable \subseteq SingleRooms
  /\ MembersOf \in [Rooms -> SUBSET Users]
  /\ \A r \in SingleRooms : \E a, b \in Users : a # b /\ MembersOf[r] = {a, b}
  /\ Denies \in [Users -> SUBSET Users]
  /\ MaxRestarts \in Nat
  /\ NoUser \notin Users /\ NoRoom \notin Rooms /\ NoCall \notin Calls

VARIABLES
  status,        \* call_history.callStatus, "none" while the id is unused
  caller, room,  \* call_history.caller, call_history.roomId
  participants,  \* call_history.participants
  members,       \* meet_member rows: members[c] is the set of their userIds
  busy,          \* user.userGlobalCallStatus.callId
  timer,         \* the ring timer of a call, in the process's memory
  log,           \* outcomes posted as Call messages in the call's room
  online,        \* users whose device has a socket
  banned,        \* single rooms with a ban between the two members
  req,           \* handlers in progress
  restarts       \* restarts so far

docs == <<status, caller, room, participants, members>>
vars == <<status, caller, room, participants, members, busy, timer, log,
          online, banned, req, restarts>>

Outcomes == {"Timeout", "Finished", "Rejected", "Canceled"}
Statuses == {"none", "Ring", "InCall", "Offline"} \cup Outcomes
Live     == {"Ring", "InCall"}

Peer(r, u) == CHOOSE v \in MembersOf[r] : v # u
Callee(c) == IF room[c] \in GroupRooms THEN NoUser ELSE Peer(room[c], caller[c])

\* isThereRoomMemberAndNotBanedOrThrow: a room_member, and no ban either way.
HasAccess(u, r) == u \in MembersOf[r] /\ r \notin banned

\* The program counters of a handler between two awaits.
CreatePcs == {"c_peer", "c_member", "c_self", "c_register"}
PC == {"idle", "a_write", "a_offline", "e_callee", "e_me", "e_write",
       "e_post", "i_rooms", "d_read", "d_clear"} \cup CreatePcs

\* A handler: where it is, whom it serves, the room and the call it works
\* with, the status it has read, and, of an accept, whether its member row is
\* still to be created and how often it is still to mark the call InCall.
Handler(pc, u, r, c, seen) ==
  [pc |-> pc, user |-> u, room |-> r, call |-> c, seen |-> seen,
   mem |-> "todo", marks |-> IF seen = "Ring" THEN 2 ELSE 1]

Idle == Handler("idle", NoUser, NoRoom, NoCall, "none")

TimerStates == {"none", "armed", "mark", "post", "callee", "caller", "done"}

Begin(s, h) == req' = [req EXCEPT ![s] = h]
Goto(s, pc) == req' = [req EXCEPT ![s].pc = pc]
Return(s) == Begin(s, Idle)

Init ==
  /\ status = [c \in Calls |-> "none"]
  /\ caller = [c \in Calls |-> NoUser]
  /\ room = [c \in Calls |-> NoRoom]
  /\ participants = [c \in Calls |-> {}]
  /\ members = [c \in Calls |-> {}]
  /\ busy = [u \in Users |-> NoCall]
  /\ timer = [c \in Calls |-> "none"]
  /\ log = [c \in Calls |-> {}]
  /\ online = [u \in Users |-> FALSE]
  /\ banned = {}
  /\ req = [s \in Slots |-> Idle]
  /\ restarts = 0

-----------------------------------------------------------------------------
(* createCall *)

\* The access check and the caller's own userGlobalCallStatus: a caller with
\* a callId there gets that call back, and nothing is created.  The privacy
\* setting does not change under a call, so it is tested here.
CreateBegin(s, u, r) ==
  /\ req[s].pc = "idle"
  /\ HasAccess(u, r)
  /\ busy[u] = NoCall
  /\ r \in SingleRooms => u \notin Denies[Peer(r, u)]
  /\ Begin(s, Handler("c_peer", u, r, NoCall, "none"))
  /\ UNCHANGED <<docs, busy, timer, log, online, banned, restarts>>

\* A single call is refused when the peer's userGlobalCallStatus names a call
\* of another room.
PeerElsewhere(r, u) ==
  r \in SingleRooms /\ busy[Peer(r, u)] # NoCall /\ room[busy[Peer(r, u)]] # r

CreateRefused(s) ==
  /\ req[s].pc = "c_peer"
  /\ PeerElsewhere(req[s].room, req[s].user)
  /\ Return(s)
  /\ UNCHANGED <<docs, busy, timer, log, online, banned, restarts>>

\* Bound: the handler is dropped when every id of Calls is in use.
CreateNoId(s) ==
  /\ req[s].pc = "c_peer"
  /\ \A c \in Calls : status[c] # "none"
  /\ Return(s)
  /\ UNCHANGED <<docs, busy, timer, log, online, banned, restarts>>

\* Single: the caller and the peer; GroupChat: the group's members.
CallerOnly(u, r) == {u}
InitialParticipants(u, r) == MembersOf[r]

\* callHistory.create: the call is visible, and rings, from here on.
CreateInsert(s, c) ==
  /\ req[s].pc = "c_peer"
  /\ ~PeerElsewhere(req[s].room, req[s].user)
  /\ status[c] = "none"
  /\ status' = [status EXCEPT ![c] = "Ring"]
  /\ caller' = [caller EXCEPT ![c] = req[s].user]
  /\ room' = [room EXCEPT ![c] = req[s].room]
  /\ participants' = [participants EXCEPT ![c] =
                        InitialParticipants(req[s].user, req[s].room)]
  /\ Begin(s, Handler("c_member", req[s].user, req[s].room, c, "none"))
  /\ UNCHANGED <<members, busy, timer, log, online, banned, restarts>>

\* callMember.create for the caller; the unique index refuses a second row.
\* A group call is complete here, with no ring timer.
CreateMember(s) ==
  LET c == req[s].call
      u == req[s].user
  IN /\ req[s].pc = "c_member"
     /\ members' = [members EXCEPT ![c] = @ \cup {u}]
     /\ IF u \in members[c] \/ req[s].room \in GroupRooms
          THEN Return(s)
          ELSE Goto(s, "c_self")
     /\ UNCHANGED <<status, caller, room, participants, busy, timer, log,
                    online, banned, restarts>>

\* updateCallStatusForUser for the caller.
CreateSetSelf(s) ==
  /\ req[s].pc = "c_self"
  /\ busy' = [busy EXCEPT ![req[s].user] = req[s].call]
  /\ Goto(s, "c_register")
  /\ UNCHANGED <<docs, timer, log, online, banned, restarts>>

\* registerMissedCall.
NoMissedCall(c) == timer
RegisterMissedCall(c) == [timer EXCEPT ![c] = "armed"]

\* updateCallStatusForUser for the callee, then registerMissedCall.
CreateRegister(s) ==
  /\ req[s].pc = "c_register"
  /\ busy' = [busy EXCEPT ![Peer(req[s].room, req[s].user)] = req[s].call]
  /\ timer' = RegisterMissedCall(req[s].call)
  /\ Return(s)
  /\ UNCHANGED <<docs, log, online, banned, restarts>>

-----------------------------------------------------------------------------
(* acceptCall *)

\* The same requirement without the rule that a caller cannot accept.
AcceptableToAll(u, c) == status[c] \in Live /\ HasAccess(u, room[c])

\* What the handler requires of the call it has read.
Acceptable(u, c) ==
  /\ status[c] \in Live
  /\ caller[c] = u => status[c] # "Ring"
  /\ HasAccess(u, room[c])

\* $addToSet of the accepting user.
JoinAlone(c, u) == {u}
Join(c, u) == participants[c] \cup {u}

\* A user who is not a participant is made one before the status, the caller
\* and the room are looked at; a refusal leaves it a participant.
AcceptBegin(s, u, c) ==
  /\ req[s].pc = "idle"
  /\ status[c] # "none"
  /\ participants' = [participants EXCEPT ![c] = Join(c, u)]
  /\ IF Acceptable(u, c)
       THEN Begin(s, Handler("a_write", u, NoRoom, c, status[c]))
       ELSE UNCHANGED req
  /\ UNCHANGED <<status, caller, room, members, busy, timer, log, online,
                 banned, restarts>>

\* callStatus := InCall: once for a call read as ringing, and once more for
\* every call.
AcceptMark(s) ==
  /\ req[s].pc = "a_write"
  /\ req[s].marks > 0
  /\ status' = [status EXCEPT ![req[s].call] = "InCall"]
  /\ req' = [req EXCEPT ![s].marks = @ - 1]
  /\ UNCHANGED <<caller, room, participants, members, busy, timer, log,
                 online, banned, restarts>>

\* The member row is created in parallel with the marks.  Its rejection by
\* the unique index while the first mark is awaited has no handler yet and
\* ends the process: see Restart.
AcceptMember(s) ==
  LET c == req[s].call
      u == req[s].user
      dup == u \in members[c]
  IN /\ req[s].pc = "a_write"
     /\ req[s].mem = "todo"
     /\ ~(dup /\ req[s].marks = 2)
     /\ members' = [members EXCEPT ![c] = @ \cup {u}]
     /\ req' = [req EXCEPT ![s].mem = IF dup THEN "dup" ELSE "ok"]
     /\ UNCHANGED <<status, caller, room, participants, busy, timer, log,
                    online, banned, restarts>>

\* After Promise.all: a duplicate row is an error, a group is done, and so is
\* a single call whose caller has no member row (an error) or is online.
AcceptNotify(s) ==
  LET c == req[s].call
      missing == caller[c] \notin members[c]
  IN /\ req[s].pc = "a_write"
     /\ req[s].marks = 0
     /\ req[s].mem # "todo"
     /\ IF \/ req[s].mem = "dup" \/ room[c] \in GroupRooms
           \/ missing \/ online[caller[c]]
          THEN Return(s)
          ELSE Goto(s, "a_offline")
     /\ UNCHANGED <<docs, busy, timer, log, online, banned, restarts>>

AcceptOffline(s) ==
  /\ req[s].pc = "a_offline"
  /\ status' = [status EXCEPT ![req[s].call] = "Offline"]
  /\ Return(s)
  /\ UNCHANGED <<caller, room, participants, members, busy, timer, log,
                 online, banned, restarts>>

-----------------------------------------------------------------------------
(* endCallV2, with cancelCall, rejectCallForSingle and endCallForSingle *)

\* The handler works with the call as it was read here.
EndBegin(s, u, c) ==
  /\ req[s].pc = "idle"
  /\ u \in participants[c]
  /\ HasAccess(u, room[c])
  /\ Begin(s, Handler(IF room[c] \in GroupRooms THEN "e_me" ELSE "e_callee",
                     u, NoRoom, c, status[c]))
  /\ UNCHANGED <<docs, busy, timer, log, online, banned, restarts>>

\* updateCallStatusForUser(call.callee, empty).
CallerFreed(c) == [busy EXCEPT ![caller[c]] = NoCall]
Freed(c) == [busy EXCEPT ![Callee(c)] = NoCall]

EndClearCallee(s) ==
  /\ req[s].pc = "e_callee"
  /\ busy' = Freed(req[s].call)
  /\ Goto(s, "e_me")
  /\ UNCHANGED <<docs, timer, log, online, banned, restarts>>

\* The outcomes with the caller cancelling whatever the status.
CancelAlways(s) ==
  IF caller[req[s].call] = req[s].user THEN "Canceled"
  ELSE IF req[s].seen = "Ring" THEN "Rejected"
  ELSE IF req[s].seen = "InCall" THEN "Finished"
  ELSE "none"

\* The outcome the handler will write, from the call it has read.
EndOutcome(s) ==
  LET c == req[s].call
      mine == caller[c] = req[s].user
  IN IF req[s].seen = "Ring" /\ mine THEN "Canceled"
     ELSE IF room[c] \in GroupRooms THEN "none"
     ELSE IF req[s].seen = "Ring" THEN "Rejected"
     ELSE IF req[s].seen = "InCall" THEN "Finished"
     ELSE "none"

EndClearMe(s) ==
  /\ req[s].pc = "e_me"
  /\ busy' = [busy EXCEPT ![req[s].user] = NoCall]
  /\ IF EndOutcome(s) = "none" THEN Return(s) ELSE Goto(s, "e_write")
  /\ UNCHANGED <<docs, timer, log, online, banned, restarts>>

EndWrite(s) ==
  /\ req[s].pc = "e_write"
  /\ status' = [status EXCEPT ![req[s].call] = EndOutcome(s)]
  /\ Goto(s, "e_post")
  /\ UNCHANGED <<caller, room, participants, members, busy, timer, log,
                 online, banned, restarts>>

\* The Call message of an ended call carries the outcome.
PostLost(s) == log[req[s].call]
PostSeen(s) == log[req[s].call] \cup {req[s].seen}
Post(s) == log[req[s].call] \cup {EndOutcome(s)}

EndPost(s) ==
  /\ req[s].pc = "e_post"
  /\ log' = [log EXCEPT ![req[s].call] = Post(s)]
  /\ Return(s)
  /\ UNCHANGED <<docs, busy, timer, online, banned, restarts>>

-----------------------------------------------------------------------------
(* inviteToCall: the other members of each room become participants *)

InviteBegin(s, u, c) ==
  /\ req[s].pc = "idle"
  /\ u \in participants[c]
  /\ status[c] \in Live
  /\ Begin(s, Handler("i_rooms", u, NoRoom, c, "none"))
  /\ UNCHANGED <<docs, busy, timer, log, online, banned, restarts>>

\* A room the inviter has no access to is skipped; $addToSet of one member.
InviteMember(s, r, v) ==
  /\ req[s].pc = "i_rooms"
  /\ HasAccess(req[s].user, r)
  /\ v \in MembersOf[r] \ {req[s].user}
  /\ participants' = [participants EXCEPT ![req[s].call] = @ \cup {v}]
  /\ UNCHANGED <<status, caller, room, members, busy, timer, log, online,
                 banned, req, restarts>>

InviteEnd(s) ==
  /\ req[s].pc = "i_rooms"
  /\ Return(s)
  /\ UNCHANGED <<docs, busy, timer, log, online, banned, restarts>>

-----------------------------------------------------------------------------
(* _timeoutRing, run by the timer registered under <callId>_call *)

TimerFire(c) ==
  /\ timer[c] = "armed"
  /\ timer' = [timer EXCEPT ![c] = IF status[c] = "Ring" THEN "mark" ELSE "done"]
  /\ UNCHANGED <<docs, busy, log, online, banned, req, restarts>>

TimerMark(c) ==
  /\ timer[c] = "mark"
  /\ status' = [status EXCEPT ![c] = "Timeout"]
  /\ timer' = [timer EXCEPT ![c] = "post"]
  /\ UNCHANGED <<caller, room, participants, members, busy, log, online,
                 banned, req, restarts>>

TimerPost(c) ==
  /\ timer[c] = "post"
  /\ log' = [log EXCEPT ![c] = @ \cup {"Timeout"}]
  /\ timer' = [timer EXCEPT ![c] = "callee"]
  /\ UNCHANGED <<docs, busy, online, banned, req, restarts>>

TimerClearCallee(c) ==
  /\ timer[c] = "callee"
  /\ busy' = Freed(c)
  /\ timer' = [timer EXCEPT ![c] = "caller"]
  /\ UNCHANGED <<docs, log, online, banned, req, restarts>>

TimerClearCaller(c) ==
  /\ timer[c] = "caller"
  /\ busy' = [busy EXCEPT ![caller[c]] = NoCall]
  /\ timer' = [timer EXCEPT ![c] = "done"]
  /\ UNCHANGED <<docs, log, online, banned, req, restarts>>

-----------------------------------------------------------------------------
(* Sockets, bans and the process *)

Connect(u) ==
  /\ ~online[u]
  /\ online' = [online EXCEPT ![u] = TRUE]
  /\ UNCHANGED <<docs, busy, timer, log, banned, req, restarts>>

\* handleDisconnect runs _checkIfThisDeviceInCall, which is for phones only.
Disconnect(s, u) ==
  /\ req[s].pc = "idle"
  /\ online[u]
  /\ online' = [online EXCEPT ![u] = FALSE]
  /\ Begin(s, Handler("d_read", u, NoRoom, NoCall, "none"))
  /\ UNCHANGED <<docs, busy, timer, log, banned, restarts>>

DisconnectRead(s) ==
  /\ req[s].pc = "d_read"
  /\ IF req[s].user \notin Mobile \/ busy[req[s].user] = NoCall
       THEN Return(s)
       ELSE Goto(s, "d_clear")
  /\ UNCHANGED <<docs, busy, timer, log, online, banned, restarts>>

DisconnectClear(s) ==
  /\ req[s].pc = "d_clear"
  /\ busy' = [busy EXCEPT ![req[s].user] = NoCall]
  /\ Return(s)
  /\ UNCHANGED <<docs, timer, log, online, banned, restarts>>

\* UserBanService.ban and unBan between the members of a single room.
SetBan(r, b) ==
  /\ r \in Bannable
  /\ banned' = IF b THEN banned \cup {r} ELSE banned \ {r}
  /\ UNCHANGED <<docs, busy, timer, log, online, req, restarts>>

\* The process ends, by a deployment or an unhandled rejection, and is
\* started again: handlers, timers and sockets are lost, documents are not.
Restart ==
  /\ restarts < MaxRestarts
  /\ restarts' = restarts + 1
  /\ req' = [s \in Slots |-> Idle]
  /\ timer' = [c \in Calls |-> IF timer[c] = "done" THEN "done" ELSE "none"]
  /\ online' = [u \in Users |-> FALSE]
  /\ UNCHANGED <<docs, busy, log, banned>>

-----------------------------------------------------------------------------
\* A handler in progress goes on: the event loop resumes it.
Continue(s) ==
  \/ CreateRefused(s) \/ CreateNoId(s) \/ (\E c \in Calls : CreateInsert(s, c))
  \/ CreateMember(s) \/ CreateSetSelf(s) \/ CreateRegister(s)
  \/ AcceptMark(s) \/ AcceptMember(s) \/ AcceptNotify(s) \/ AcceptOffline(s)
  \/ EndClearCallee(s) \/ EndClearMe(s) \/ EndWrite(s) \/ EndPost(s)
  \/ InviteEnd(s) \/ DisconnectRead(s) \/ DisconnectClear(s)

\* A client's request, or its socket closing, starts a handler.
Start(s) ==
  \/ \E u \in Users : Disconnect(s, u) \/ (\E r \in Rooms : CreateBegin(s, u, r))
  \/ \E u \in Users, c \in Calls :
       AcceptBegin(s, u, c) \/ EndBegin(s, u, c) \/ InviteBegin(s, u, c)
  \/ \E r \in Rooms, v \in Users : InviteMember(s, r, v)

TimerStep(c) ==
  TimerFire(c) \/ TimerMark(c) \/ TimerPost(c)
    \/ TimerClearCallee(c) \/ TimerClearCaller(c)

Next ==
  \/ \E s \in Slots : Continue(s) \/ Start(s)
  \/ \E c \in Calls : TimerStep(c)
  \/ \E u \in Users : Connect(u)
  \/ \E r \in SingleRooms, b \in BOOLEAN : SetBan(r, b)
  \/ Restart

Spec == Init /\ [][Next]_vars

\* A resumed handler and a due timer are run by the event loop; requests,
\* sockets, bans and restarts are up to the users and the operator.
Fairness ==
  /\ \A s \in Slots : WF_vars(Continue(s))
  /\ \A c \in Calls : WF_vars(TimerStep(c))

FairSpec == Spec /\ Fairness

-----------------------------------------------------------------------------
(* Properties *)

Handlers == [pc : PC, user : Users \cup {NoUser}, room : Rooms \cup {NoRoom},
             call : Calls \cup {NoCall}, seen : Statuses,
             mem : {"todo", "ok", "dup"}, marks : 0..2]

\* The type of every variable.
TypeOK ==
  /\ status \in [Calls -> Statuses]
  /\ caller \in [Calls -> Users \cup {NoUser}]
  /\ room \in [Calls -> Rooms \cup {NoRoom}]
  /\ participants \in [Calls -> SUBSET Users]
  /\ members \in [Calls -> SUBSET Users]
  /\ busy \in [Users -> Calls \cup {NoCall}]
  /\ timer \in [Calls -> TimerStates]
  /\ log \in [Calls -> SUBSET (Outcomes \cup {"none"})]
  /\ online \in [Users -> BOOLEAN]
  /\ banned \subseteq Rooms
  /\ req \in [Slots -> Handlers]
  /\ restarts \in 0..MaxRestarts

\* Every user with a meet_member row of a call is a participant of it, across
\* creation, invitations, concurrent accepts and restarts: endCallV2 and
\* getAgoraAccessForCall find calls by participants, so a member who were not
\* one could neither hang up nor join the media channel.
MembersAreParticipants == \A c \in Calls : members[c] \subseteq participants[c]

\* A userGlobalCallStatus names an existing single call its user takes part
\* in: createCall hands that callId back to its user, and endCallV2, the only
\* request that clears it, finds the call by participants.
BusyWithOwnCall ==
  \A u \in Users : busy[u] # NoCall =>
    /\ status[busy[u]] # "none"
    /\ room[busy[u]] \in SingleRooms
    /\ u \in participants[busy[u]]

\* The two documents kept beside a call, a member row and a marker of a user,
\* never name a call that their user is no participant of and so could not end.
OwnCalls == MembersAreParticipants /\ BusyWithOwnCall

\* Somebody other than the caller has accepted: the member row is there, or
\* the handler that marked the call is about to create it.
Answered(c) ==
  \E u \in Users \ {caller[c]} :
    \/ u \in members[c]
    \/ \E s \in Slots : /\ req[s].pc = "a_write" /\ req[s].mem = "todo"
                        /\ req[s].call = c /\ req[s].user = u

\* While the process has not been restarted, a call that is InCall, Finished
\* or Offline was accepted by a user other than its caller, however accepts,
\* hang-ups and the ring timer overtake each other.
InCallIsAnswered ==
  restarts = 0 =>
    \A c \in Calls : status[c] \in {"InCall", "Finished", "Offline"} => Answered(c)

\* The creation of a call has inserted it and not yet registered its timer.
Creating(c) ==
  \E s \in Slots : req[s].call = c /\ req[s].pc \in {"c_member", "c_self", "c_register"}

\* While the process has not been restarted, a ringing single call has a
\* timer to come (or a creation that will register it), so it cannot ring for
\* ever: nothing but creation registers the timer, and nothing rings again.
RingingIsTimed ==
  restarts = 0 =>
    \A c \in Calls : status[c] = "Ring" /\ room[c] \in SingleRooms =>
                     timer[c] \in {"armed", "mark"} \/ Creating(c)

\* Liveness: a single call stops ringing (registerMissedCall: "Register a
\* timeout to handle call unanswered scenario").
RingResolves ==
  \A c \in Calls : status[c] = "Ring" /\ room[c] \in SingleRooms ~> status[c] # "Ring"

\* Liveness: an outcome written to a call gets posted as a message in its
\* room, whatever is written to the call in between.
OutcomePosted ==
  \A c \in Calls, o \in Outcomes : status[c] = o ~> o \in log[c]

\* _timeoutRing: "Only handle if the call is still 'Ring'": the timer writes
\* Timeout to a ringing call only.
TimeoutOnlyRinging == [][\A c \in Calls : TimerMark(c) => status[c] = "Ring"]_vars
=============================================================================
