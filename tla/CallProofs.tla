----------------------------- MODULE CallProofs -----------------------------
(***************************************************************************)
(* Theorems about the call service, for any number of users, rooms, calls, *)
(* handlers in progress and restarts.                                      *)
(*                                                                         *)
(* The inductive invariant is in layers, each proved with the ones before  *)
(* it: what a handler in progress knows (HandlersOK), what it relies on    *)
(* about the documents (DocsOK), and, for a process that has not been      *)
(* restarted, who has answered (AnswerOK) and who will time the call out   *)
(* (RingOK).                                                               *)
(***************************************************************************)
EXTENDS CallSerial, FiniteSetTheorems, TLAPS

\* The handlers that work on an existing call.
CallPcs == PC \ {"idle", "c_peer", "d_read", "d_clear"}
\* The handlers that have inserted a call and not yet registered its timer.
NewCallPcs == {"c_member", "c_self", "c_register"}

HandlerOK(s) ==
  /\ req[s].pc # "idle" => req[s].user \in Users
  /\ req[s].pc \in CreatePcs => /\ req[s].room \in Rooms
                                /\ req[s].user \in MembersOf[req[s].room]
  /\ req[s].pc \in CallPcs => /\ req[s].call \in Calls
                              /\ status[req[s].call] # "none"
  /\ req[s].pc \in {"c_self", "c_register"} => req[s].room \in SingleRooms
  /\ req[s].pc \in {"e_write", "e_post"} => EndOutcome(s) # "none"

HandlersOK == \A s \in Slots : HandlerOK(s)

\* An unused id has no participants and no member rows.
UnusedOK == \A c \in Calls : status[c] = "none" =>
                              participants[c] = {} /\ members[c] = {}

Inv1 == TypeOK /\ HandlersOK /\ UnusedOK

\* A creation in progress has a call of its own room, with the room's members
\* as participants; an accepting user is a participant.
HandlerDocs(s) ==
  /\ req[s].pc \in NewCallPcs =>
       /\ room[req[s].call] = req[s].room
       /\ caller[req[s].call] = req[s].user
       /\ MembersOf[req[s].room] \subseteq participants[req[s].call]
  /\ req[s].pc = "a_write" => req[s].user \in participants[req[s].call]

DocsOK == \A s \in Slots : HandlerDocs(s)

Inv2 == DocsOK /\ MembersAreParticipants /\ BusyWithOwnCall

\* A handler that will write InCall, Finished or Offline has an answered call.
MustBeAnswered(s) ==
  \/ req[s].pc \in {"a_write", "a_offline"}
  \/ req[s].pc \in {"e_callee", "e_me", "e_write"} /\ req[s].seen = "InCall"

AnswerOK ==
  restarts = 0 => \A s \in Slots : MustBeAnswered(s) => Answered(req[s].call)

Inv3 == AnswerOK /\ InCallIsAnswered

\* A call has one creator.
OneCreator ==
  \A s, t \in Slots :
    req[s].pc \in NewCallPcs /\ req[t].pc \in NewCallPcs /\ s # t
      => req[s].call # req[t].call

\* A caller accepts no ringing call, so that its creator is the first to make
\* it a member of one.
CallerWaits ==
  \A s \in Slots :
    req[s].pc = "a_write" /\ req[s].user = caller[req[s].call]
      => status[req[s].call] # "Ring"

CallerIsNew ==
  \A s \in Slots :
    req[s].pc = "c_member" /\ status[req[s].call] = "Ring"
      => req[s].user \notin members[req[s].call]

RingOK == OneCreator /\ CallerWaits /\ CallerIsNew

Inv4 == RingOK /\ RingingIsTimed

-----------------------------------------------------------------------------
(* Who writes what *)

\* The steps that write a variable.
WritesStatus ==
  \/ \E s \in Slots : AcceptMark(s) \/ AcceptOffline(s) \/ EndWrite(s)
  \/ \E s \in Slots, c \in Calls : CreateInsert(s, c)
  \/ \E c \in Calls : TimerMark(c)
WritesCaller == \E s \in Slots, c \in Calls : CreateInsert(s, c)
WritesParticipants ==
  \/ WritesCaller
  \/ \E s \in Slots, u \in Users, c \in Calls : AcceptBegin(s, u, c)
  \/ \E s \in Slots, r \in Rooms, v \in Users : InviteMember(s, r, v)
WritesMembers == \E s \in Slots : CreateMember(s) \/ AcceptMember(s)
WritesBusy ==
  \/ \E s \in Slots : \/ CreateSetSelf(s) \/ CreateRegister(s)
                      \/ EndClearCallee(s) \/ EndClearMe(s)
                      \/ DisconnectClear(s)
  \/ \E c \in Calls : TimerClearCallee(c) \/ TimerClearCaller(c)

LEMMA ContinueWrites ==
  ASSUME NEW s \in Slots, Continue(s)
  PROVE  /\ WritesStatus \/ UNCHANGED status
         /\ WritesCaller \/ UNCHANGED <<caller, room, participants>>
         /\ WritesMembers \/ UNCHANGED members
         /\ WritesBusy \/ UNCHANGED busy
         /\ UNCHANGED restarts
<1> USE DEF docs
<1>1. CASE \E c \in Calls : CreateInsert(s, c)
  BY <1>1 DEF CreateInsert, WritesStatus, WritesCaller
<1>2. CASE CreateMember(s) \/ AcceptMember(s)
  BY <1>2 DEF CreateMember, AcceptMember, WritesMembers
<1>3. CASE CreateSetSelf(s) \/ CreateRegister(s)
  BY <1>3 DEF CreateSetSelf, CreateRegister, WritesBusy
<1>4. CASE EndClearCallee(s) \/ EndClearMe(s) \/ DisconnectClear(s)
  BY <1>4 DEF EndClearCallee, EndClearMe, DisconnectClear, WritesBusy
<1>5. CASE AcceptMark(s) \/ AcceptOffline(s) \/ EndWrite(s)
  BY <1>5 DEF AcceptMark, AcceptOffline, EndWrite, WritesStatus
<1>6. CASE \/ CreateRefused(s) \/ CreateNoId(s) \/ AcceptNotify(s) \/ EndPost(s)
           \/ InviteEnd(s) \/ DisconnectRead(s)
  BY <1>6 DEF CreateRefused, CreateNoId, AcceptNotify, EndPost, InviteEnd,
              DisconnectRead
<1> QED BY <1>1, <1>2, <1>3, <1>4, <1>5, <1>6 DEF Continue

LEMMA StartWrites ==
  ASSUME NEW s \in Slots, Start(s)
  PROVE  /\ WritesParticipants \/ UNCHANGED participants
         /\ UNCHANGED <<status, caller, room, members, busy, timer, restarts>>
<1> USE DEF docs
<1>1. ASSUME NEW u \in Users, NEW c \in Calls, AcceptBegin(s, u, c)
      PROVE  /\ WritesParticipants
             /\ UNCHANGED <<status, caller, room, members, busy, timer,
                            restarts>>
  BY <1>1 DEF AcceptBegin, WritesParticipants
<1>2. ASSUME NEW r \in Rooms, NEW v \in Users, InviteMember(s, r, v)
      PROVE  /\ WritesParticipants
             /\ UNCHANGED <<status, caller, room, members, busy, timer,
                            restarts>>
  BY <1>2 DEF InviteMember, WritesParticipants
<1>3. CASE \E u \in Users, c \in Calls :
             EndBegin(s, u, c) \/ InviteBegin(s, u, c)
  BY <1>3 DEF EndBegin, InviteBegin
<1>4. CASE \E u \in Users :
             Disconnect(s, u) \/ \E r \in Rooms : CreateBegin(s, u, r)
  BY <1>4 DEF Disconnect, CreateBegin
<1> QED BY <1>1, <1>2, <1>3, <1>4 DEF Start

LEMMA TimerWrites ==
  ASSUME NEW c \in Calls, TimerStep(c)
  PROVE  /\ WritesStatus \/ UNCHANGED status
         /\ WritesBusy \/ UNCHANGED busy
         /\ UNCHANGED <<caller, room, participants, members, req, restarts>>
BY DEF docs, TimerStep, TimerFire, TimerMark, TimerPost, TimerClearCallee,
       TimerClearCaller, WritesStatus, WritesBusy

\* Sockets, bans, a restart, or a step of something else.
OtherStep ==
  \/ (\E u \in Users : Connect(u))
  \/ (\E r \in SingleRooms, b \in BOOLEAN : SetBan(r, b))
  \/ Restart \/ UNCHANGED vars

LEMMA OtherWrites ==
  ASSUME OtherStep
  PROVE  /\ UNCHANGED <<docs, busy>>
         /\ Restart \/ UNCHANGED <<timer, req, restarts>>
<1>1. CASE \E u \in Users : Connect(u)
  BY <1>1 DEF Connect
<1>2. CASE \E r \in SingleRooms, b \in BOOLEAN : SetBan(r, b)
  BY <1>2 DEF SetBan
<1>3. CASE Restart
  BY <1>3 DEF Restart
<1>4. CASE UNCHANGED vars
  BY <1>4 DEF vars, docs
<1> QED BY <1>1, <1>2, <1>3, <1>4 DEF OtherStep

LEMMA Writers ==
  ASSUME [Next]_vars
  PROVE  /\ WritesStatus \/ UNCHANGED status
         /\ WritesCaller \/ UNCHANGED <<caller, room>>
         /\ WritesParticipants \/ UNCHANGED participants
         /\ WritesMembers \/ UNCHANGED members
         /\ WritesBusy \/ UNCHANGED busy
         /\ Restart \/ UNCHANGED restarts
<1>1. CASE \E s \in Slots : Continue(s)
  BY <1>1, ContinueWrites DEF WritesParticipants
<1>2. CASE \E s \in Slots : Start(s)
  BY <1>2, StartWrites
<1>3. CASE \E c \in Calls : TimerStep(c)
  BY <1>3, TimerWrites
<1>4. CASE OtherStep
  BY <1>4, OtherWrites DEF docs
<1> QED BY <1>1, <1>2, <1>3, <1>4 DEF Next, OtherStep

-----------------------------------------------------------------------------
(* Lemmas and theorems *)

LEMMA HandlerType ==
  ASSUME NEW pc \in PC, NEW u \in Users \cup {NoUser}, NEW r \in Rooms \cup
       {NoRoom},
         NEW c \in Calls \cup {NoCall}, NEW seen \in Statuses
  PROVE  Handler(pc, u, r, c, seen) \in Handlers
<1> QED BY DEF Handlers, Handler

LEMMA BeginType ==
  ASSUME TypeOK, NEW s \in Slots, NEW h \in Handlers, Begin(s, h)
  PROVE  req' \in [Slots -> Handlers]
<1> QED BY DEF TypeOK, Begin
LEMMA ReturnType ==
  ASSUME TypeOK, NEW s \in Slots, Return(s)
  PROVE  req' \in [Slots -> Handlers]
<1>1. Idle \in Handlers
  BY HandlerType DEF Idle, PC, Statuses
<1> QED BY <1>1, BeginType DEF Return

LEMMA GotoType ==
  ASSUME TypeOK, NEW s \in Slots, NEW pc \in PC, Goto(s, pc)
  PROVE  req' \in [Slots -> Handlers]
<1>1. req \in [Slots -> Handlers]
  BY DEF TypeOK
<1>2. [req[s] EXCEPT !.pc = pc] \in Handlers
  BY <1>1 DEF Handlers
<1> QED BY <1>1, <1>2 DEF Goto

\* What a handler's record is after it is begun, ended or moved on.
LEMMA BeginFields ==
  ASSUME TypeOK, NEW s \in Slots, NEW h, Begin(s, h)
  PROVE  req'[s] = h /\ \A t \in Slots \ {s} : req'[t] = req[t]
BY DEF TypeOK, Begin

LEMMA ReturnFields ==
  ASSUME TypeOK, NEW s \in Slots, Return(s)
  PROVE  req'[s].pc = "idle" /\ \A t \in Slots \ {s} : req'[t] = req[t]
BY BeginFields DEF Return, Idle, Handler

LEMMA GotoFields ==
  ASSUME TypeOK, NEW s \in Slots, NEW pc \in PC, Goto(s, pc)
  PROVE  /\ req'[s].pc = pc
         /\ req'[s].user = req[s].user /\ req'[s].room = req[s].room
         /\ req'[s].call = req[s].call /\ req'[s].seen = req[s].seen
         /\ req'[s].mem = req[s].mem
         /\ \A t \in Slots \ {s} : req'[t] = req[t]
<1>1. req \in [Slots -> Handlers]
  BY DEF TypeOK
<1> QED BY <1>1 DEF Goto, Handlers

\* Every step keeps the types, given what the handlers in progress know.
LEMMA TypeStep == TypeOK /\ HandlersOK /\ [Next]_vars => TypeOK'
<1> SUFFICES ASSUME TypeOK, HandlersOK, [Next]_vars PROVE TypeOK'
  OBVIOUS
<1> USE DEF HandlersOK, docs
<1>1. ASSUME NEW s \in Slots, NEW u \in Users, NEW r \in Rooms,
             CreateBegin(s, u, r)
      PROVE TypeOK'
  <2>1. req' \in [Slots -> Handlers]
    BY <1>1, HandlerType, BeginType DEF CreateBegin, TypeOK, PC, CreatePcs,
         Statuses
  <2> QED BY <1>1, <2>1 DEF CreateBegin, TypeOK
<1>2. ASSUME NEW s \in Slots, CreateRefused(s) PROVE TypeOK'
  <2>1. req' \in [Slots -> Handlers]
    BY <1>2, ReturnType DEF CreateRefused
  <2> QED BY <1>2, <2>1 DEF CreateRefused, TypeOK
<1>3. ASSUME NEW s \in Slots, CreateNoId(s) PROVE TypeOK'
  <2>1. req' \in [Slots -> Handlers]
    BY <1>3, ReturnType DEF CreateNoId
  <2> QED BY <1>3, <2>1 DEF CreateNoId, TypeOK
<1>4. ASSUME NEW s \in Slots, NEW c \in Calls, CreateInsert(s, c) PROVE TypeOK'
  <2>1. req' \in [Slots -> Handlers]
    BY <1>4, HandlerType, BeginType DEF CreateInsert, TypeOK, Handlers,
         HandlerOK, PC, CreatePcs, Statuses
  <2> QED BY <1>4, <2>1, CallAssumption DEF CreateInsert, TypeOK,
       InitialParticipants, HandlerOK, CreatePcs, Statuses
<1>5. ASSUME NEW s \in Slots, CreateMember(s) PROVE TypeOK'
  <2>1. req' \in [Slots -> Handlers]
    BY <1>5, ReturnType, GotoType DEF CreateMember, PC, CreatePcs
  <2> QED BY <1>5, <2>1 DEF CreateMember, TypeOK, HandlerOK
<1>6. ASSUME NEW s \in Slots, CreateSetSelf(s) PROVE TypeOK'
  <2>1. req' \in [Slots -> Handlers]
    BY <1>6, GotoType DEF CreateSetSelf, PC, CreatePcs
  <2> QED BY <1>6, <2>1 DEF CreateSetSelf, TypeOK, Handlers
<1>7. ASSUME NEW s \in Slots, CreateRegister(s) PROVE TypeOK'
  <2>1. req' \in [Slots -> Handlers]
    BY <1>7, ReturnType DEF CreateRegister
  <2> QED BY <1>7, <2>1 DEF CreateRegister, TypeOK, RegisterMissedCall,
       Handlers, TimerStates
<1>8. ASSUME NEW s \in Slots, NEW u \in Users, NEW c \in Calls,
             AcceptBegin(s, u, c)
      PROVE TypeOK'
  <2>1. req' \in [Slots -> Handlers]
    BY <1>8, HandlerType, BeginType DEF AcceptBegin, TypeOK, PC, CreatePcs,
         Statuses
  <2> QED BY <1>8, <2>1 DEF AcceptBegin, TypeOK, Join
<1>9. ASSUME NEW s \in Slots, AcceptMark(s) PROVE TypeOK'
  <2>1. req' \in [Slots -> Handlers]
    BY SMTT(60), <1>9 DEF AcceptMark, TypeOK, Handlers, PC, CreatePcs
  <2> QED BY <1>9, <2>1 DEF AcceptMark, TypeOK, Statuses
<1>10. ASSUME NEW s \in Slots, AcceptMember(s) PROVE TypeOK'
  <2>1. req' \in [Slots -> Handlers]
    <3>1. ASSUME NEW m \in {"ok", "dup"}
            PROVE  [req[s] EXCEPT !.mem = m] \in Handlers
        <4>1. req[s] \in Handlers
          BY DEF TypeOK
        <4> QED BY <4>1 DEF Handlers
      <3> QED BY <1>10, <3>1 DEF AcceptMember, TypeOK
  <2> QED BY <1>10, <2>1 DEF AcceptMember, TypeOK, HandlerOK
<1>11. ASSUME NEW s \in Slots, AcceptNotify(s) PROVE TypeOK'
  <2>1. req' \in [Slots -> Handlers]
    BY <1>11, ReturnType, GotoType DEF AcceptNotify, PC, CreatePcs
  <2> QED BY <1>11, <2>1 DEF AcceptNotify, TypeOK
<1>12. ASSUME NEW s \in Slots, AcceptOffline(s) PROVE TypeOK'
  <2>1. req' \in [Slots -> Handlers]
    BY <1>12, ReturnType DEF AcceptOffline
  <2> QED BY <1>12, <2>1 DEF AcceptOffline, TypeOK, Statuses
<1>13. ASSUME NEW s \in Slots, NEW u \in Users, NEW c \in Calls,
              EndBegin(s, u, c)
       PROVE TypeOK'
  <2>1. req' \in [Slots -> Handlers]
    BY <1>13, HandlerType, BeginType DEF EndBegin, TypeOK, PC, CreatePcs,
         Statuses
  <2> QED BY <1>13, <2>1 DEF EndBegin, TypeOK
<1>14. ASSUME NEW s \in Slots, EndClearCallee(s) PROVE TypeOK'
  <2>1. req' \in [Slots -> Handlers]
    BY <1>14, GotoType DEF EndClearCallee, PC, CreatePcs
  <2> QED BY <1>14, <2>1 DEF EndClearCallee, TypeOK, Freed
<1>15. ASSUME NEW s \in Slots, EndClearMe(s) PROVE TypeOK'
  <2>1. req' \in [Slots -> Handlers]
    BY <1>15, ReturnType, GotoType DEF EndClearMe, PC, CreatePcs
  <2> QED BY <1>15, <2>1 DEF EndClearMe, TypeOK
<1>16. ASSUME NEW s \in Slots, EndWrite(s) PROVE TypeOK'
  <2>1. req' \in [Slots -> Handlers]
    BY <1>16, GotoType DEF EndWrite, PC, CreatePcs
  <2> QED BY <1>16, <2>1 DEF EndWrite, TypeOK, EndOutcome, Statuses, Outcomes
<1>17. ASSUME NEW s \in Slots, EndPost(s) PROVE TypeOK'
  <2>1. req' \in [Slots -> Handlers]
    BY <1>17, ReturnType DEF EndPost
  <2> QED BY <1>17, <2>1 DEF EndPost, TypeOK, Post, EndOutcome, Outcomes
<1>18. ASSUME NEW s \in Slots, NEW u \in Users, NEW c \in Calls,
              InviteBegin(s, u, c)
       PROVE TypeOK'
  <2>1. req' \in [Slots -> Handlers]
    BY <1>18, HandlerType, BeginType DEF InviteBegin, TypeOK, PC, CreatePcs,
         Statuses
  <2> QED BY <1>18, <2>1 DEF InviteBegin, TypeOK
<1>19. ASSUME NEW s \in Slots, NEW r \in Rooms, NEW v \in Users,
              InviteMember(s, r, v)
      PROVE  TypeOK'
  BY <1>19, CallAssumption DEF InviteMember, TypeOK
<1>20. ASSUME NEW s \in Slots, InviteEnd(s) PROVE TypeOK'
  <2>1. req' \in [Slots -> Handlers]
    BY <1>20, ReturnType DEF InviteEnd
  <2> QED BY <1>20, <2>1 DEF InviteEnd, TypeOK
<1>21. ASSUME NEW s \in Slots, NEW u \in Users, Disconnect(s, u) PROVE TypeOK'
  <2>1. req' \in [Slots -> Handlers]
    BY <1>21, HandlerType, BeginType DEF Disconnect, TypeOK, PC, CreatePcs,
         Statuses
  <2> QED BY <1>21, <2>1 DEF Disconnect, TypeOK
<1>22. ASSUME NEW s \in Slots, DisconnectRead(s) PROVE TypeOK'
  <2>1. req' \in [Slots -> Handlers]
    BY <1>22, ReturnType, GotoType DEF DisconnectRead, PC, CreatePcs
  <2> QED BY <1>22, <2>1 DEF DisconnectRead, TypeOK
<1>23. ASSUME NEW s \in Slots, DisconnectClear(s) PROVE TypeOK'
  <2>1. req' \in [Slots -> Handlers]
    BY <1>23, ReturnType DEF DisconnectClear
  <2> QED BY <1>23, <2>1 DEF DisconnectClear, TypeOK
<1>24. ASSUME NEW c \in Calls, TimerFire(c) PROVE TypeOK'
  BY <1>24 DEF TimerFire, TypeOK, TimerStates
<1>25. ASSUME NEW c \in Calls, TimerMark(c) PROVE TypeOK'
  BY <1>25 DEF TimerMark, TypeOK, TimerStates, Statuses, Outcomes
<1>26. ASSUME NEW c \in Calls, TimerPost(c) PROVE TypeOK'
  BY <1>26 DEF TimerPost, TypeOK, TimerStates, Outcomes
<1>27. ASSUME NEW c \in Calls, TimerClearCallee(c) PROVE TypeOK'
  BY <1>27 DEF TimerClearCallee, TypeOK, TimerStates, Freed
<1>28. ASSUME NEW c \in Calls, TimerClearCaller(c) PROVE TypeOK'
  BY <1>28 DEF TimerClearCaller, TypeOK, TimerStates
<1>29. ASSUME NEW u \in Users, Connect(u) PROVE TypeOK'
  BY <1>29 DEF Connect, TypeOK
<1>30. ASSUME NEW r \in SingleRooms, NEW b \in BOOLEAN, SetBan(r, b)
       PROVE TypeOK'
  BY <1>30, CallAssumption DEF SetBan, TypeOK, SingleRooms
<1>31. CASE Restart
  <2>1. req' \in [Slots -> Handlers]
    <3>1. Idle \in Handlers
      BY HandlerType DEF Idle, PC, Statuses
    <3> QED BY <1>31, <3>1 DEF Restart
  <2>2. timer' \in [Calls -> TimerStates]
    BY <1>31 DEF Restart, TimerStates
  <2>3. restarts' \in 0..MaxRestarts
    BY <1>31, CallAssumption DEF Restart, TypeOK
  <2> QED BY <1>31, <2>1, <2>2, <2>3 DEF Restart, TypeOK
<1>32. CASE UNCHANGED vars
  BY <1>32 DEF vars, TypeOK
<1> QED BY <1>1, <1>2, <1>3, <1>4, <1>5, <1>6, <1>7, <1>8, <1>9, <1>10, <1>11,
     <1>12, <1>13, <1>14, <1>15, <1>16, <1>17, <1>18, <1>19, <1>20, <1>21,
     <1>22, <1>23, <1>24, <1>25, <1>26, <1>27, <1>28, <1>29, <1>30, <1>31,
     <1>32 DEF Next, Continue, Start, TimerStep

\* A call that exists keeps its caller and its room, loses no participant and
\* no member, and stays.
CallsKept ==
  \A c \in Calls : status[c] # "none" =>
    /\ status'[c] # "none"
    /\ caller'[c] = caller[c] /\ room'[c] = room[c]
    /\ participants[c] \subseteq participants'[c]
    /\ members[c] \subseteq members'[c]

LEMMA CallsKeptStep == TypeOK /\ HandlersOK /\ [Next]_vars => CallsKept
<1> SUFFICES ASSUME TypeOK, HandlersOK, [Next]_vars PROVE CallsKept
  OBVIOUS
<1> USE DEF CallsKept, docs
<1>1. ASSUME NEW s \in Slots, NEW c \in Calls, CreateInsert(s, c)
      PROVE CallsKept
  BY <1>1 DEF CreateInsert, TypeOK
<1>2. ASSUME NEW s \in Slots, CreateMember(s) PROVE CallsKept
  BY <1>2 DEF CreateMember, TypeOK
<1>3. ASSUME NEW s \in Slots, NEW u \in Users, NEW c \in Calls,
             AcceptBegin(s, u, c)
      PROVE CallsKept
  BY <1>3 DEF AcceptBegin, TypeOK, Join
<1>4. ASSUME NEW s \in Slots, AcceptMark(s) PROVE CallsKept
  BY <1>4 DEF AcceptMark, TypeOK
<1>5. ASSUME NEW s \in Slots, AcceptMember(s) PROVE CallsKept
  BY <1>5 DEF AcceptMember, TypeOK
<1>6. ASSUME NEW s \in Slots, AcceptOffline(s) PROVE CallsKept
  BY <1>6 DEF AcceptOffline, TypeOK
<1>7. ASSUME NEW s \in Slots, EndWrite(s) PROVE CallsKept
  BY <1>7 DEF EndWrite, TypeOK, HandlersOK, HandlerOK
<1>8. ASSUME NEW s \in Slots, NEW r \in Rooms, NEW v \in Users,
             InviteMember(s, r, v)
      PROVE  CallsKept
  BY <1>8 DEF InviteMember, TypeOK
<1>9. ASSUME NEW c \in Calls, TimerMark(c) PROVE CallsKept
  BY <1>9 DEF TimerMark, TypeOK
<1>10. CASE UNCHANGED docs
  BY <1>10
<1> HIDE DEF CallsKept
<1> QED BY <1>1, <1>2, <1>3, <1>4, <1>5, <1>6, <1>7, <1>8, <1>9, <1>10, Writers
        DEF WritesStatus, WritesCaller, WritesParticipants, WritesMembers

LEMMA HandlersStep == Inv1 /\ [Next]_vars => HandlersOK'
<1> SUFFICES ASSUME TypeOK, HandlersOK, UnusedOK, [Next]_vars PROVE HandlersOK'
  BY DEF Inv1
<1> USE DEF docs
<1>0. ASSUME NEW t \in Slots, req'[t] = req[t] PROVE HandlerOK(t)'
  <2>1. CallsKept
    BY CallsKeptStep
  <2> QED BY <1>0, <2>1 DEF HandlersOK, HandlerOK, CallsKept, EndOutcome,
       CallPcs, PC, CreatePcs
<1>1. ASSUME NEW s \in Slots, NEW u \in Users, NEW r \in Rooms,
             CreateBegin(s, u, r)
      PROVE HandlersOK'
  <2>1. HandlerOK(s)'
    BY <1>1, BeginFields DEF CreateBegin, HandlersOK, HandlerOK, CallPcs,
         CreatePcs, PC, Handler, HasAccess
  <2>2. \A t \in Slots \ {s} : req'[t] = req[t]
    BY <1>1, BeginFields DEF CreateBegin
  <2> QED BY <1>0, <2>1, <2>2 DEF HandlersOK
<1>2. ASSUME NEW s \in Slots, CreateRefused(s) PROVE HandlersOK'
  <2>1. HandlerOK(s)'
    BY <1>2, ReturnFields DEF CreateRefused, HandlersOK, HandlerOK, CallPcs,
         CreatePcs, PC
  <2>2. \A t \in Slots \ {s} : req'[t] = req[t]
    BY <1>2, ReturnFields DEF CreateRefused
  <2> QED BY <1>0, <2>1, <2>2 DEF HandlersOK
<1>3. ASSUME NEW s \in Slots, CreateNoId(s) PROVE HandlersOK'
  <2>1. HandlerOK(s)'
    BY <1>3, ReturnFields DEF CreateNoId, HandlersOK, HandlerOK, CallPcs,
         CreatePcs, PC
  <2>2. \A t \in Slots \ {s} : req'[t] = req[t]
    BY <1>3, ReturnFields DEF CreateNoId
  <2> QED BY <1>0, <2>1, <2>2 DEF HandlersOK
<1>4. ASSUME NEW s \in Slots, NEW c \in Calls, CreateInsert(s, c)
      PROVE HandlersOK'
  <2>1. HandlerOK(s)'
    BY <1>4, BeginFields DEF CreateInsert, HandlersOK, HandlerOK, CallPcs,
         CreatePcs, PC, Handler, TypeOK
  <2>2. \A t \in Slots \ {s} : req'[t] = req[t]
    BY <1>4, BeginFields DEF CreateInsert
  <2> QED BY <1>0, <2>1, <2>2 DEF HandlersOK
<1>5. ASSUME NEW s \in Slots, CreateMember(s) PROVE HandlersOK'
  <2>1. HandlerOK(s)'
    BY <1>5, ReturnFields, GotoFields DEF CreateMember, HandlersOK, HandlerOK,
         CallPcs, CreatePcs, PC, SingleRooms
  <2>2. \A t \in Slots \ {s} : req'[t] = req[t]
    BY <1>5, ReturnFields, GotoFields DEF CreateMember, PC, CreatePcs
  <2> QED BY <1>0, <2>1, <2>2 DEF HandlersOK
<1>6. ASSUME NEW s \in Slots, CreateSetSelf(s) PROVE HandlersOK'
  <2>1. HandlerOK(s)'
    BY <1>6, GotoFields DEF CreateSetSelf, HandlersOK, HandlerOK, CallPcs,
         CreatePcs, PC
  <2>2. \A t \in Slots \ {s} : req'[t] = req[t]
    BY <1>6, GotoFields DEF CreateSetSelf, PC, CreatePcs
  <2> QED BY <1>0, <2>1, <2>2 DEF HandlersOK
<1>7. ASSUME NEW s \in Slots, CreateRegister(s) PROVE HandlersOK'
  <2>1. HandlerOK(s)'
    BY <1>7, ReturnFields DEF CreateRegister, HandlersOK, HandlerOK, CallPcs,
         CreatePcs, PC
  <2>2. \A t \in Slots \ {s} : req'[t] = req[t]
    BY <1>7, ReturnFields DEF CreateRegister
  <2> QED BY <1>0, <2>1, <2>2 DEF HandlersOK
<1>8. ASSUME NEW s \in Slots, NEW u \in Users, NEW c \in Calls,
             AcceptBegin(s, u, c)
      PROVE HandlersOK'
  <2>1. HandlerOK(s)'
    BY <1>8, BeginFields DEF AcceptBegin, HandlersOK, HandlerOK, CallPcs,
         CreatePcs, PC, Handler
  <2>2. \A t \in Slots \ {s} : req'[t] = req[t]
    BY <1>8, BeginFields DEF AcceptBegin
  <2> QED BY <1>0, <2>1, <2>2 DEF HandlersOK
<1>9. ASSUME NEW s \in Slots, AcceptMark(s) PROVE HandlersOK'
  <2>1. HandlerOK(s)'
    BY <1>9 DEF AcceptMark, TypeOK, HandlersOK, HandlerOK, CallPcs, CreatePcs,
         PC
  <2>2. \A t \in Slots \ {s} : req'[t] = req[t]
    BY <1>9 DEF AcceptMark, TypeOK
  <2> QED BY <1>0, <2>1, <2>2 DEF HandlersOK
<1>10. ASSUME NEW s \in Slots, AcceptMember(s) PROVE HandlersOK'
  <2>1. HandlerOK(s)'
    BY <1>10 DEF AcceptMember, TypeOK, HandlersOK, HandlerOK, CallPcs,
         CreatePcs, PC
  <2>2. \A t \in Slots \ {s} : req'[t] = req[t]
    BY <1>10 DEF AcceptMember, TypeOK
  <2> QED BY <1>0, <2>1, <2>2 DEF HandlersOK
<1>11. ASSUME NEW s \in Slots, AcceptNotify(s) PROVE HandlersOK'
  <2>1. HandlerOK(s)'
    BY <1>11, ReturnFields, GotoFields DEF AcceptNotify, HandlersOK, HandlerOK,
         CallPcs, CreatePcs, PC
  <2>2. \A t \in Slots \ {s} : req'[t] = req[t]
    BY <1>11, ReturnFields, GotoFields DEF AcceptNotify, PC, CreatePcs
  <2> QED BY <1>0, <2>1, <2>2 DEF HandlersOK
<1>12. ASSUME NEW s \in Slots, AcceptOffline(s) PROVE HandlersOK'
  <2>1. HandlerOK(s)'
    BY <1>12, ReturnFields DEF AcceptOffline, HandlersOK, HandlerOK, CallPcs,
         CreatePcs, PC
  <2>2. \A t \in Slots \ {s} : req'[t] = req[t]
    BY <1>12, ReturnFields DEF AcceptOffline
  <2> QED BY <1>0, <2>1, <2>2 DEF HandlersOK
<1>13. ASSUME NEW s \in Slots, NEW u \in Users, NEW c \in Calls,
              EndBegin(s, u, c)
       PROVE HandlersOK'
  <2>1. HandlerOK(s)'
    BY <1>13, BeginFields DEF EndBegin, HandlersOK, HandlerOK, CallPcs,
         CreatePcs, PC, Handler, UnusedOK
  <2>2. \A t \in Slots \ {s} : req'[t] = req[t]
    BY <1>13, BeginFields DEF EndBegin
  <2> QED BY <1>0, <2>1, <2>2 DEF HandlersOK
<1>14. ASSUME NEW s \in Slots, EndClearCallee(s) PROVE HandlersOK'
  <2>1. HandlerOK(s)'
    BY <1>14, GotoFields DEF EndClearCallee, HandlersOK, HandlerOK, CallPcs,
         CreatePcs, PC
  <2>2. \A t \in Slots \ {s} : req'[t] = req[t]
    BY <1>14, GotoFields DEF EndClearCallee, PC, CreatePcs
  <2> QED BY <1>0, <2>1, <2>2 DEF HandlersOK
<1>15. ASSUME NEW s \in Slots, EndClearMe(s) PROVE HandlersOK'
  <2>1. HandlerOK(s)'
    BY <1>15, ReturnFields, GotoFields DEF EndClearMe, HandlersOK, HandlerOK,
         CallPcs, CreatePcs, PC, EndOutcome
  <2>2. \A t \in Slots \ {s} : req'[t] = req[t]
    BY <1>15, ReturnFields, GotoFields DEF EndClearMe, PC, CreatePcs
  <2> QED BY <1>0, <2>1, <2>2 DEF HandlersOK
<1>16. ASSUME NEW s \in Slots, EndWrite(s) PROVE HandlersOK'
  <2>1. HandlerOK(s)'
    BY <1>16, GotoFields DEF EndWrite, HandlersOK, HandlerOK, CallPcs,
         CreatePcs, PC, EndOutcome
  <2>2. \A t \in Slots \ {s} : req'[t] = req[t]
    BY <1>16, GotoFields DEF EndWrite, PC, CreatePcs
  <2> QED BY <1>0, <2>1, <2>2 DEF HandlersOK
<1>17. ASSUME NEW s \in Slots, EndPost(s) PROVE HandlersOK'
  <2>1. HandlerOK(s)'
    BY <1>17, ReturnFields DEF EndPost, HandlersOK, HandlerOK, CallPcs,
         CreatePcs, PC
  <2>2. \A t \in Slots \ {s} : req'[t] = req[t]
    BY <1>17, ReturnFields DEF EndPost
  <2> QED BY <1>0, <2>1, <2>2 DEF HandlersOK
<1>18. ASSUME NEW s \in Slots, NEW u \in Users, NEW c \in Calls,
              InviteBegin(s, u, c)
       PROVE HandlersOK'
  <2>1. HandlerOK(s)'
    BY <1>18, BeginFields DEF InviteBegin, HandlersOK, HandlerOK, CallPcs,
         CreatePcs, PC, Handler, Live
  <2>2. \A t \in Slots \ {s} : req'[t] = req[t]
    BY <1>18, BeginFields DEF InviteBegin
  <2> QED BY <1>0, <2>1, <2>2 DEF HandlersOK
<1>19. ASSUME NEW s \in Slots, InviteEnd(s) PROVE HandlersOK'
  <2>1. HandlerOK(s)'
    BY <1>19, ReturnFields DEF InviteEnd, HandlersOK, HandlerOK, CallPcs,
         CreatePcs, PC
  <2>2. \A t \in Slots \ {s} : req'[t] = req[t]
    BY <1>19, ReturnFields DEF InviteEnd
  <2> QED BY <1>0, <2>1, <2>2 DEF HandlersOK
<1>20. ASSUME NEW s \in Slots, NEW u \in Users, Disconnect(s, u)
       PROVE HandlersOK'
  <2>1. HandlerOK(s)'
    BY <1>20, BeginFields DEF Disconnect, HandlersOK, HandlerOK, CallPcs,
         CreatePcs, PC, Handler
  <2>2. \A t \in Slots \ {s} : req'[t] = req[t]
    BY <1>20, BeginFields DEF Disconnect
  <2> QED BY <1>0, <2>1, <2>2 DEF HandlersOK
<1>21. ASSUME NEW s \in Slots, DisconnectRead(s) PROVE HandlersOK'
  <2>1. HandlerOK(s)'
    BY <1>21, ReturnFields, GotoFields DEF DisconnectRead, HandlersOK,
         HandlerOK, CallPcs, CreatePcs, PC
  <2>2. \A t \in Slots \ {s} : req'[t] = req[t]
    BY <1>21, ReturnFields, GotoFields DEF DisconnectRead, PC, CreatePcs
  <2> QED BY <1>0, <2>1, <2>2 DEF HandlersOK
<1>22. ASSUME NEW s \in Slots, DisconnectClear(s) PROVE HandlersOK'
  <2>1. HandlerOK(s)'
    BY <1>22, ReturnFields DEF DisconnectClear, HandlersOK, HandlerOK, CallPcs,
         CreatePcs, PC
  <2>2. \A t \in Slots \ {s} : req'[t] = req[t]
    BY <1>22, ReturnFields DEF DisconnectClear
  <2> QED BY <1>0, <2>1, <2>2 DEF HandlersOK
<1>23. CASE Restart
  BY <1>23 DEF Restart, HandlersOK, HandlerOK, Idle, Handler, CallPcs,
       CreatePcs, PC
<1>24. CASE UNCHANGED req
  BY <1>24, <1>0 DEF HandlersOK
<1>25. CASE \E c \in Calls : TimerStep(c)
  BY <1>24, <1>25, TimerWrites
<1>26. ASSUME NEW s \in Slots, NEW r \in Rooms, NEW v \in Users,
              InviteMember(s, r, v)
       PROVE  HandlersOK'
  BY <1>24, <1>26 DEF InviteMember
<1>27. CASE \E s \in Slots : Continue(s)
  BY <1>2, <1>3, <1>4, <1>5, <1>6, <1>7, <1>9, <1>10, <1>11, <1>12, <1>14,
     <1>15, <1>16, <1>17, <1>19, <1>21, <1>22, <1>27 DEF Continue
<1>28. CASE \E s \in Slots : Start(s)
  BY <1>1, <1>8, <1>13, <1>18, <1>20, <1>26, <1>28 DEF Start
<1> QED BY <1>23, <1>24, <1>25, <1>27, <1>28, OtherWrites
        DEF Next, OtherStep

LEMMA UnusedStep == Inv1 /\ [Next]_vars => UnusedOK'
<1> SUFFICES ASSUME TypeOK, HandlersOK, UnusedOK, CallsKept, [Next]_vars
    PROVE UnusedOK'
  BY CallsKeptStep DEF Inv1
<1> USE DEF UnusedOK, CallsKept, docs, TypeOK
<1>1. ASSUME NEW s \in Slots, NEW c \in Calls, CreateInsert(s, c)
      PROVE UnusedOK'
  BY <1>1 DEF CreateInsert
<1>2. ASSUME NEW s \in Slots, CreateMember(s) PROVE UnusedOK'
  BY <1>2 DEF CreateMember, HandlersOK, HandlerOK, CallPcs, PC, CreatePcs
<1>3. ASSUME NEW s \in Slots, NEW u \in Users, NEW c \in Calls,
             AcceptBegin(s, u, c)
      PROVE UnusedOK'
  BY <1>3 DEF AcceptBegin
<1>4. ASSUME NEW s \in Slots, AcceptMember(s) PROVE UnusedOK'
  BY <1>4 DEF AcceptMember, HandlersOK, HandlerOK, CallPcs, PC, CreatePcs
<1>5. ASSUME NEW s \in Slots, NEW r \in Rooms, NEW v \in Users,
             InviteMember(s, r, v)
      PROVE  UnusedOK'
  BY <1>5 DEF InviteMember, HandlersOK, HandlerOK, CallPcs, PC, CreatePcs
<1>6. CASE UNCHANGED <<participants, members>>
  BY <1>6
<1> HIDE DEF UnusedOK
<1> QED BY <1>1, <1>2, <1>3, <1>4, <1>5, <1>6, Writers
        DEF WritesCaller, WritesParticipants, WritesMembers

LEMMA Inv1Init == Init => Inv1
BY HandlerType, CallAssumption
   DEF Init, Inv1, TypeOK, HandlersOK, HandlerOK, UnusedOK, Idle, Handler,
       Handlers, PC, CallPcs, CreatePcs, TimerStates, Statuses

LEMMA Inv1Inductive == Inv1 /\ [Next]_vars => Inv1'
BY TypeStep, HandlersStep, UnusedStep DEF Inv1

\* TypeOK, for every number of users, rooms, calls, concurrent handlers and
\* restarts.
THEOREM TypeCorrect == Spec => []TypeOK
<1>1. Inv1 /\ [Next]_vars => Inv1'
  BY Inv1Inductive
<1>2. Inv1 => TypeOK
  BY DEF Inv1
<1> QED BY Inv1Init, <1>1, <1>2, PTL DEF Spec

-----------------------------------------------------------------------------
(* Participants, member rows and userGlobalCallStatus *)

\* The program counters that owe nothing to a call's status or members.
RestPcs == {"idle", "c_peer", "i_rooms", "d_read", "d_clear", "e_post"}

\* How a step may leave a handler: as it was, at rest, or by an action of the
\* handler's own.
HandlerMoves(s) ==
  \/ req'[s] = req[s]
  \/ req[s].pc \notin NewCallPcs \cup {"a_write"} /\ req'[s].pc \in RestPcs
  \/ \E c \in Calls : CreateInsert(s, c)
  \/ CreateMember(s) \/ CreateSetSelf(s) \/ CreateRegister(s)
  \/ \E u \in Users, c \in Calls : AcceptBegin(s, u, c) \/ EndBegin(s, u, c)
  \/ AcceptMark(s) \/ AcceptMember(s) \/ AcceptNotify(s)
  \/ EndClearCallee(s) \/ EndClearMe(s)
  \/ Restart

LEMMA HandlerMovesStep ==
  TypeOK /\ [Next]_vars => \A s \in Slots : HandlerMoves(s)
<1> SUFFICES ASSUME TypeOK, [Next]_vars, NEW s \in Slots PROVE HandlerMoves(s)
  OBVIOUS
<1> USE DEF NewCallPcs, RestPcs
<1>1. ASSUME NEW t \in Slots, Continue(t) PROVE HandlerMoves(s)
  <2>1. CASE t = s
    BY <1>1, <2>1, ReturnFields, GotoFields
       DEF Continue, HandlerMoves, CreateRefused, CreateNoId,
           AcceptOffline, EndWrite, EndPost, InviteEnd, DisconnectRead,
           DisconnectClear, PC
  <2>2. CASE t # s
    <3>1. req'[s] = req[s]
      BY <1>1, <2>2
         DEF TypeOK, Begin, Return, Goto, Continue, CreateRefused, CreateNoId,
              CreateInsert, CreateMember,
             CreateSetSelf, CreateRegister, AcceptMark, AcceptMember,
             AcceptNotify, AcceptOffline, EndClearCallee, EndClearMe,
             EndWrite, EndPost, InviteEnd, DisconnectRead, DisconnectClear
    <3> QED BY <3>1 DEF HandlerMoves
  <2> QED BY <2>1, <2>2
<1>2. ASSUME NEW t \in Slots, Start(t) PROVE HandlerMoves(s)
  <2>1. CASE t = s
    <3>1. ASSUME NEW u \in Users, NEW r \in Rooms, CreateBegin(s, u, r)
          PROVE  HandlerMoves(s)
      BY <3>1, BeginFields DEF CreateBegin, Handler, HandlerMoves
    <3>2. ASSUME NEW u \in Users, NEW c \in Calls, InviteBegin(s, u, c)
          PROVE  HandlerMoves(s)
      BY <3>2, BeginFields DEF InviteBegin, Handler, HandlerMoves
    <3>3. ASSUME NEW u \in Users, Disconnect(s, u) PROVE HandlerMoves(s)
      BY <3>3, BeginFields DEF Disconnect, Handler, HandlerMoves
    <3>4. ASSUME NEW r \in Rooms, NEW v \in Users, InviteMember(s, r, v)
          PROVE  HandlerMoves(s)
      BY <3>4 DEF InviteMember, HandlerMoves
    <3>5. ASSUME NEW u \in Users, NEW c \in Calls,
                 AcceptBegin(s, u, c) \/ EndBegin(s, u, c)
          PROVE  HandlerMoves(s)
      BY <3>5 DEF HandlerMoves
    <3> QED BY <1>2, <2>1, <3>1, <3>2, <3>3, <3>4, <3>5 DEF Start
  <2>2. CASE t # s
    <3>1. req'[s] = req[s]
      BY <1>2, <2>2, BeginFields
         DEF Start, CreateBegin, AcceptBegin, EndBegin, InviteBegin,
             InviteMember, Disconnect
    <3> QED BY <3>1 DEF HandlerMoves
  <2> QED BY <2>1, <2>2
<1>3. CASE Restart
  BY <1>3 DEF HandlerMoves
<1>4. CASE UNCHANGED req
  BY <1>4 DEF HandlerMoves
<1> QED BY <1>1, <1>2, <1>3, <1>4, TimerWrites, OtherWrites
        DEF Next, OtherStep

LEMMA DocsStep == Inv1 /\ DocsOK /\ [Next]_vars => DocsOK'
<1> SUFFICES ASSUME TypeOK, HandlersOK, DocsOK, [Next]_vars, NEW s \in Slots
             PROVE  HandlerDocs(s)'
  BY DEF Inv1, DocsOK
<1>1. CallsKept /\ HandlerMoves(s)
  BY CallsKeptStep, HandlerMovesStep
<1>2. HandlerOK(s) /\ HandlerDocs(s)
  BY DEF HandlersOK, DocsOK
<1> USE <1>1, <1>2 DEF HandlerDocs, HandlerOK, NewCallPcs, CallPcs, CreatePcs,
     PC
<1>3. CASE req'[s] = req[s]
  BY <1>3 DEF CallsKept
<1>4. CASE req'[s].pc \in RestPcs
  BY <1>4 DEF RestPcs
<1>5. ASSUME NEW c \in Calls, CreateInsert(s, c) PROVE HandlerDocs(s)'
  BY <1>5, BeginFields DEF CreateInsert, InitialParticipants, Handler, TypeOK
<1>6. CASE CreateMember(s)
  BY <1>6, ReturnFields, GotoFields DEF CreateMember
<1>7. CASE CreateSetSelf(s) \/ CreateRegister(s)
  BY <1>7, ReturnFields, GotoFields DEF CreateSetSelf, CreateRegister, docs
<1>8. ASSUME NEW u \in Users, NEW c \in Calls, AcceptBegin(s, u, c)
      PROVE  HandlerDocs(s)'
  BY <1>8, BeginFields DEF AcceptBegin, Join, Handler, TypeOK
<1>9. CASE AcceptMark(s) \/ AcceptMember(s)
  <2>1. req \in [Slots -> Handlers]
    BY DEF TypeOK
  <2>2. /\ req'[s].pc = "a_write" /\ req[s].pc = "a_write"
        /\ req'[s].user = req[s].user /\ req'[s].call = req[s].call
    BY <1>9, <2>1 DEF AcceptMark, AcceptMember, Handlers
  <2> QED BY <2>2 DEF CallsKept
<1>10. CASE AcceptNotify(s)
  BY <1>10, ReturnFields, GotoFields DEF AcceptNotify
<1>11. ASSUME NEW u \in Users, NEW c \in Calls, EndBegin(s, u, c)
       PROVE  HandlerDocs(s)'
  BY <1>11, BeginFields DEF EndBegin, Handler
<1>12. CASE EndClearCallee(s) \/ EndClearMe(s)
  BY <1>12, ReturnFields, GotoFields DEF EndClearCallee, EndClearMe
<1>13. CASE Restart
  BY <1>13 DEF Restart, Idle, Handler
<1> QED BY <1>3, <1>4, <1>5, <1>6, <1>7, <1>8, <1>9, <1>10, <1>11, <1>12, <1>13
        DEF HandlerMoves

LEMMA MembersStep ==
  Inv1 /\ Inv2 /\ [Next]_vars => MembersAreParticipants'
<1> SUFFICES ASSUME Inv1, Inv2, [Next]_vars PROVE MembersAreParticipants'
  OBVIOUS
<1> USE DEF Inv1, Inv2, MembersAreParticipants, TypeOK
<1>1. ASSUME NEW s \in Slots, NEW c \in Calls, CreateInsert(s, c)
      PROVE  MembersAreParticipants'
  BY <1>1 DEF CreateInsert, UnusedOK
<1>2. ASSUME NEW s \in Slots, CreateMember(s) PROVE MembersAreParticipants'
  BY <1>2 DEF CreateMember, HandlersOK, HandlerOK, CreatePcs, DocsOK,
              HandlerDocs, NewCallPcs
<1>3. ASSUME NEW s \in Slots, NEW u \in Users, NEW c \in Calls,
             AcceptBegin(s, u, c)
      PROVE  MembersAreParticipants'
  BY <1>3 DEF AcceptBegin, Join
<1>4. ASSUME NEW s \in Slots, AcceptMember(s) PROVE MembersAreParticipants'
  BY <1>4 DEF AcceptMember, DocsOK, HandlerDocs
<1>5. ASSUME NEW s \in Slots, NEW r \in Rooms, NEW v \in Users,
             InviteMember(s, r, v)
      PROVE  MembersAreParticipants'
  BY <1>5 DEF InviteMember
<1>6. CASE UNCHANGED <<participants, members>>
  BY <1>6
<1> HIDE DEF MembersAreParticipants
<1> QED BY <1>1, <1>2, <1>3, <1>4, <1>5, <1>6, Writers
        DEF WritesCaller, WritesParticipants, WritesMembers

LEMMA BusyStep == Inv1 /\ Inv2 /\ [Next]_vars => BusyWithOwnCall'
<1> SUFFICES ASSUME Inv1, Inv2, [Next]_vars, NEW u \in Users,
                    busy'[u] # NoCall
             PROVE  /\ status'[busy'[u]] # "none"
                    /\ room'[busy'[u]] \in SingleRooms
                    /\ u \in participants'[busy'[u]]
  BY DEF BusyWithOwnCall
<1>1. CallsKept
  BY CallsKeptStep DEF Inv1
<1>2. CASE busy'[u] = busy[u]
  BY <1>1, <1>2 DEF CallsKept, Inv1, Inv2, BusyWithOwnCall, TypeOK
<1>3. ASSUME NEW s \in Slots, CreateSetSelf(s), busy'[u] # busy[u]
      PROVE  /\ u = req[s].user /\ busy'[u] = req[s].call
             /\ req[s].pc = "c_self" /\ UNCHANGED docs
  BY <1>3 DEF CreateSetSelf, Inv1, TypeOK
<1>4. ASSUME NEW s \in Slots, CreateRegister(s), busy'[u] # busy[u]
      PROVE  /\ u = Peer(req[s].room, req[s].user) /\ busy'[u] = req[s].call
             /\ req[s].pc = "c_register" /\ UNCHANGED docs
  BY <1>4 DEF CreateRegister, Inv1, TypeOK
<1>5. ASSUME NEW s \in Slots, req[s].pc \in {"c_self", "c_register"}
      PROVE  /\ status[req[s].call] # "none"
             /\ room[req[s].call] = req[s].room /\ req[s].room \in SingleRooms
             /\ req[s].user \in participants[req[s].call]
             /\ Peer(req[s].room, req[s].user) \in participants[req[s].call]
  <2>1. HandlerOK(s) /\ HandlerDocs(s)
    BY DEF Inv1, Inv2, HandlersOK, DocsOK
  <2>2. Peer(req[s].room, req[s].user) \in MembersOf[req[s].room]
    BY <1>5, <2>1, CallAssumption DEF HandlerOK, Peer
  <2> QED BY <1>5, <2>1, <2>2
          DEF HandlerOK, HandlerDocs, NewCallPcs, CallPcs, CreatePcs, PC
<1>6. CASE \E s \in Slots : CreateSetSelf(s) \/ CreateRegister(s)
  BY <1>2, <1>3, <1>4, <1>5, <1>6 DEF docs
<1>7. CASE ~\E s \in Slots : CreateSetSelf(s) \/ CreateRegister(s)
  <2> SUFFICES busy'[u] \in {busy[u], NoCall}
    BY <1>2
  <2>1. CASE \E s \in Slots :
               EndClearCallee(s) \/ EndClearMe(s) \/ DisconnectClear(s)
    BY <2>1 DEF Inv1, TypeOK, EndClearCallee, EndClearMe, DisconnectClear,
         Freed
  <2>2. CASE \E c \in Calls : TimerClearCallee(c) \/ TimerClearCaller(c)
    BY <2>2 DEF Inv1, TypeOK, TimerClearCallee, TimerClearCaller, Freed
  <2>3. CASE UNCHANGED busy
    BY <2>3
  <2> QED BY <1>7, <2>1, <2>2, <2>3, Writers DEF WritesBusy
<1> QED BY <1>6, <1>7

LEMMA Inv2Init == Init => Inv2
BY CallAssumption
   DEF Init, Inv2, DocsOK, HandlerDocs, NewCallPcs, Idle, Handler,
       MembersAreParticipants, BusyWithOwnCall

LEMMA Inv2Inductive == Inv1 /\ Inv2 /\ [Next]_vars => Inv2'
BY DocsStep, MembersStep, BusyStep DEF Inv2

\* Who has a member row is a participant, and userGlobalCallStatus names an
\* existing single call its user takes part in, however handlers interleave
\* and whenever the process is restarted.
THEOREM BusyCorrect == Spec => []OwnCalls
<1>1. Inv1 /\ [Next]_vars => Inv1'
  BY Inv1Inductive
<1>2. Inv1 /\ Inv2 /\ [Next]_vars => Inv2'
  BY Inv2Inductive
<1>3. Inv2 => OwnCalls
  BY DEF Inv2, OwnCalls
<1> QED BY Inv1Init, Inv2Init, <1>1, <1>2, <1>3, PTL DEF Spec

-----------------------------------------------------------------------------
(* Who has answered *)

\* Restarts are counted: a step that leaves none behind was not one.
LEMMA NoRestart ==
  ASSUME Inv1, [Next]_vars, restarts' = 0
  PROVE  restarts = 0 /\ ~Restart
<1>1. restarts \in Nat
  BY CallAssumption DEF Inv1, TypeOK
<1>2. ~Restart
  BY <1>1 DEF Restart
<1>3. UNCHANGED restarts
  BY <1>2, Writers
<1> QED BY <1>2, <1>3

\* Without a restart, an answered call stays answered: the handler that will
\* create the member row does create it.
LEMMA AnsweredKept ==
  ASSUME Inv1, [Next]_vars, restarts' = 0, NEW c \in Calls,
         status[c] # "none", Answered(c)
  PROVE  Answered(c)'
<1>1. CallsKept /\ \A s \in Slots : HandlerMoves(s)
  BY CallsKeptStep, HandlerMovesStep DEF Inv1
<1>2. ~Restart
  BY NoRestart
<1>3. PICK u \in Users \ {caller[c]} :
        \/ u \in members[c]
        \/ \E s \in Slots : /\ req[s].pc = "a_write" /\ req[s].mem = "todo"
                            /\ req[s].call = c /\ req[s].user = u
  BY DEF Answered
<1>4. caller'[c] = caller[c]
  BY <1>1 DEF CallsKept
<1>5. CASE u \in members[c]
  BY <1>1, <1>4, <1>5 DEF CallsKept, Answered
<1>6. ASSUME NEW s \in Slots, req[s].pc = "a_write", req[s].mem = "todo",
             req[s].call = c, req[s].user = u
      PROVE  Answered(c)'
  <2>1. CASE AcceptMember(s)
    <3>1. u \in members'[c]
      BY <1>6, <2>1 DEF AcceptMember, Inv1, TypeOK
    <3> QED BY <1>4, <3>1 DEF Answered
  <2>2. CASE AcceptMark(s) \/ req'[s] = req[s]
    <3>1. req \in [Slots -> Handlers]
      BY DEF Inv1, TypeOK
    <3>2. /\ req'[s].pc = "a_write" /\ req'[s].mem = "todo"
          /\ req'[s].call = c /\ req'[s].user = u
      BY <1>6, <2>2, <3>1 DEF AcceptMark, Handlers
    <3> QED BY <1>4, <3>2 DEF Answered
  <2> QED BY <1>1, <1>2, <1>6, <2>1, <2>2
          DEF HandlerMoves, NewCallPcs, CreateInsert, CreateMember,
              CreateSetSelf, CreateRegister, AcceptBegin, EndBegin,
              AcceptNotify, EndClearCallee, EndClearMe
<1> QED BY <1>3, <1>5, <1>6

LEMMA AnswerStep == Inv1 /\ Inv3 /\ [Next]_vars => AnswerOK'
<1> SUFFICES ASSUME Inv1, Inv3, [Next]_vars, restarts' = 0,
                    NEW s \in Slots, MustBeAnswered(s)'
             PROVE  Answered(req[s].call)'
  BY DEF AnswerOK
<1>1. HandlerMoves(s) /\ HandlerOK(s)
  BY HandlerMovesStep DEF Inv1, HandlersOK
<1>2. restarts = 0 /\ ~Restart
  BY NoRestart
<1> USE DEF MustBeAnswered
<1>3. CASE MustBeAnswered(s) /\ req'[s].call = req[s].call
  <2>1. Answered(req[s].call)
    BY <1>2, <1>3 DEF Inv3, AnswerOK
  <2>2. req[s].call \in Calls /\ status[req[s].call] # "none"
    BY <1>1, <1>3 DEF HandlerOK, CallPcs, PC, CreatePcs
  <2> QED BY <1>3, <2>1, <2>2, AnsweredKept
<1>4. CASE req'[s] = req[s]
  BY <1>3, <1>4
<1>5. CASE req'[s].pc \in RestPcs
  BY <1>5 DEF RestPcs
<1>6. CASE \E c \in Calls : CreateInsert(s, c)
  BY <1>6, BeginFields DEF Inv1, CreateInsert, Handler
<1>7. CASE CreateMember(s) \/ CreateSetSelf(s) \/ CreateRegister(s)
  BY SMTT(60), <1>7, ReturnFields, GotoFields
     DEF Inv1, CreateMember, CreateSetSelf, CreateRegister, PC, CreatePcs
<1>8. ASSUME NEW u \in Users, NEW c \in Calls, AcceptBegin(s, u, c)
      PROVE  Answered(req[s].call)'
  <2>1. CASE Acceptable(u, c)
    <3>1. req'[s] = Handler("a_write", u, NoRoom, c, status[c])
      BY <1>8, <2>1, BeginFields DEF AcceptBegin, Inv1
    <3>2. CASE status[c] = "Ring"
      <4>1. u # caller'[c]
        BY <1>8, <2>1, <3>2 DEF Acceptable, AcceptBegin
      <4> QED BY <3>1, <4>1 DEF Answered, Handler
    <3>3. CASE status[c] = "InCall"
      <4>1. Answered(c)
        BY <1>2, <3>3 DEF Inv3, InCallIsAnswered
      <4>2. Answered(c)'
        BY <3>3, <4>1, AnsweredKept
      <4> QED BY <3>1, <4>2 DEF Handler
    <3> QED BY <2>1, <3>2, <3>3 DEF Acceptable, Live
  <2>2. CASE ~Acceptable(u, c)
    BY <1>4, <1>8, <2>2 DEF AcceptBegin
  <2> QED BY <2>1, <2>2
<1>9. CASE AcceptMark(s) \/ AcceptMember(s)
  <2>1. req \in [Slots -> Handlers]
    BY DEF Inv1, TypeOK
  <2>2. req[s].pc = "a_write" /\ req'[s].call = req[s].call
    BY <1>9, <2>1 DEF AcceptMark, AcceptMember, Handlers
  <2> QED BY <1>3, <2>2
<1>10. CASE AcceptNotify(s)
  BY <1>3, <1>10, ReturnFields, GotoFields DEF Inv1, AcceptNotify, PC
<1>11. ASSUME NEW u \in Users, NEW c \in Calls, EndBegin(s, u, c)
       PROVE  Answered(req[s].call)'
  <2>1. req'[s].call = c /\ req'[s].seen = status[c]
    BY <1>11, BeginFields DEF EndBegin, Handler, Inv1
  <2>2. req'[s].pc \notin {"a_write", "a_offline"}
    BY <1>11, BeginFields DEF EndBegin, Handler, Inv1
  <2>3. status[c] = "InCall"
    BY <2>1, <2>2
  <2>4. Answered(c)
    BY <1>2, <2>3 DEF Inv3, InCallIsAnswered
  <2> QED BY <2>1, <2>3, <2>4, AnsweredKept
<1>12. CASE EndClearCallee(s) \/ EndClearMe(s)
  BY <1>3, <1>12, ReturnFields, GotoFields
     DEF Inv1, EndClearCallee, EndClearMe, PC
<1> QED BY <1>1, <1>2, <1>4, <1>5, <1>6, <1>7, <1>8, <1>9, <1>10, <1>11, <1>12
        DEF HandlerMoves

LEMMA InCallStep == Inv1 /\ Inv3 /\ [Next]_vars => InCallIsAnswered'
<1> SUFFICES ASSUME Inv1, Inv3, [Next]_vars, restarts' = 0, NEW c \in Calls,
                    status'[c] \in {"InCall", "Finished", "Offline"}
             PROVE  Answered(c)'
  BY DEF InCallIsAnswered
<1>1. restarts = 0
  BY NoRestart
<1>2. ASSUME status[c] # "none", Answered(c) PROVE Answered(c)'
  BY <1>2, AnsweredKept
<1>3. CASE status'[c] = status[c]
  BY <1>1, <1>2, <1>3 DEF Inv3, InCallIsAnswered
<1>4. ASSUME NEW s \in Slots, status'[c] # status[c],
             AcceptMark(s) \/ AcceptOffline(s) \/ EndWrite(s)
      PROVE  Answered(c)'
  <2>1. req[s].call = c
    BY <1>4 DEF AcceptMark, AcceptOffline, EndWrite, Inv1, TypeOK
  <2>2. MustBeAnswered(s)
    BY <1>4, <2>1 DEF MustBeAnswered, AcceptMark, AcceptOffline, EndWrite,
                      EndOutcome, Inv1, TypeOK
  <2>3. status[c] # "none"
    BY <2>1, <2>2 DEF Inv1, HandlersOK, HandlerOK, MustBeAnswered, CallPcs, PC,
                      CreatePcs
  <2> QED BY <1>1, <1>2, <2>1, <2>2, <2>3 DEF Inv3, AnswerOK
<1>5. ASSUME NEW s \in Slots, NEW d \in Calls, CreateInsert(s, d)
      PROVE  status'[c] = status[c]
  BY <1>5 DEF CreateInsert, Inv1, TypeOK
<1>6. ASSUME NEW d \in Calls, TimerMark(d) PROVE status'[c] = status[c]
  BY <1>6 DEF TimerMark, Inv1, TypeOK
<1> QED BY <1>3, <1>4, <1>5, <1>6, Writers DEF WritesStatus

LEMMA Inv3Init == Init => Inv3
BY DEF Init, Inv3, AnswerOK, MustBeAnswered, InCallIsAnswered, Idle, Handler

\* As long as the process is not restarted, only the acceptance of a user
\* other than the caller makes a call InCall, Finished or Offline.
THEOREM AnswerCorrect == Spec => []InCallIsAnswered
<1>1. Inv1 /\ [Next]_vars => Inv1'
  BY Inv1Inductive
<1>2. Inv1 /\ Inv3 /\ [Next]_vars => Inv3'
  BY AnswerStep, InCallStep DEF Inv3
<1>3. Inv3 => InCallIsAnswered
  BY DEF Inv3
<1> QED BY Inv1Init, Inv3Init, <1>1, <1>2, <1>3, PTL DEF Spec

-----------------------------------------------------------------------------
(* Who will time a ringing call out *)

\* Nothing but creation makes a call ring.
LEMMA RingStarts ==
  ASSUME Inv1, [Next]_vars, NEW c \in Calls, status'[c] = "Ring"
  PROVE  status[c] = "Ring" \/ \E s \in Slots : CreateInsert(s, c)
<1>1. ASSUME NEW s \in Slots, NEW d \in Calls, CreateInsert(s, d), c # d
      PROVE  status'[c] = status[c]
  BY <1>1 DEF CreateInsert, Inv1, TypeOK
<1>2. ASSUME NEW s \in Slots, AcceptMark(s) \/ AcceptOffline(s)
      PROVE  status[c] = "Ring"
  BY <1>2 DEF AcceptMark, AcceptOffline, Inv1, TypeOK
<1>3. ASSUME NEW s \in Slots, EndWrite(s) PROVE status[c] = "Ring"
  BY <1>3 DEF EndWrite, EndOutcome, Inv1, TypeOK
<1>4. ASSUME NEW d \in Calls, TimerMark(d) PROVE status[c] = "Ring"
  BY <1>4 DEF TimerMark, Inv1, TypeOK
<1> QED BY <1>1, <1>2, <1>3, <1>4, Writers DEF WritesStatus

LEMMA RingKept ==
  ASSUME Inv1, [Next]_vars, NEW c \in Calls, status[c] # "none",
         status'[c] = "Ring"
  PROVE  status[c] = "Ring"
BY RingStarts DEF CreateInsert

\* A creator either has just inserted its call or goes on with it.
LEMMA CreatorMoves ==
  ASSUME Inv1, [Next]_vars, NEW s \in Slots, req'[s].pc \in NewCallPcs
  PROVE  \/ \E c \in Calls : CreateInsert(s, c)
         \/ req[s].pc \in NewCallPcs /\ req'[s].call = req[s].call
<1>1. HandlerMoves(s)
  BY HandlerMovesStep DEF Inv1
<1> USE DEF NewCallPcs
<1>2. CASE req'[s] = req[s]
  BY <1>2
<1>3. CASE CreateMember(s) \/ CreateSetSelf(s) \/ CreateRegister(s)
  BY <1>3, ReturnFields, GotoFields
     DEF CreateMember, CreateSetSelf, CreateRegister, Inv1, PC, CreatePcs
<1>4. CASE AcceptMark(s) \/ AcceptMember(s)
  <2>1. req \in [Slots -> Handlers]
    BY DEF Inv1, TypeOK
  <2>2. req'[s].pc = "a_write"
    BY <1>4, <2>1 DEF AcceptMark, AcceptMember, Handlers
  <2> QED BY <2>2
<1>5. CASE AcceptNotify(s) \/ EndClearCallee(s) \/ EndClearMe(s)
  BY <1>5, ReturnFields, GotoFields
     DEF AcceptNotify, EndClearCallee, EndClearMe, Inv1, PC
<1>6. ASSUME NEW u \in Users, NEW c \in Calls,
             AcceptBegin(s, u, c) \/ EndBegin(s, u, c), req'[s] # req[s]
      PROVE  req'[s].pc \in {"a_write", "e_callee", "e_me"}
  BY <1>6, BeginFields DEF AcceptBegin, EndBegin, Handler, Inv1
<1>7. CASE Restart
  BY <1>7 DEF Restart, Idle, Handler
<1> QED BY <1>1, <1>2, <1>3, <1>4, <1>5, <1>6, <1>7 DEF HandlerMoves, RestPcs

LEMMA OneCreatorStep == Inv1 /\ OneCreator /\ [Next]_vars => OneCreator'
<1> SUFFICES ASSUME Inv1, OneCreator, [Next]_vars, NEW s \in Slots,
                    NEW t \in Slots, s # t, req'[s].pc \in NewCallPcs,
                    req'[t].pc \in NewCallPcs
             PROVE  req'[s].call # req'[t].call
  BY DEF OneCreator
<1>1. ASSUME NEW a \in Slots, NEW b \in Slots, a # b, NEW c \in Calls,
             CreateInsert(a, c), req'[b].pc \in NewCallPcs
      PROVE  req'[a].call # req'[b].call
  <2>1. req'[a].call = c /\ req'[b] = req[b]
    BY <1>1, BeginFields DEF CreateInsert, Handler, Inv1
  <2>2. status[c] = "none" /\ status[req[b].call] # "none"
    BY <1>1, <2>1 DEF CreateInsert, Inv1, HandlersOK, HandlerOK, NewCallPcs,
                      CallPcs, CreatePcs, PC
  <2> QED BY <2>1, <2>2
<1>2. CASE \E c \in Calls : CreateInsert(s, c) \/ CreateInsert(t, c)
  BY <1>1, <1>2
<1>3. CASE ~\E c \in Calls : CreateInsert(s, c) \/ CreateInsert(t, c)
  BY <1>3, CreatorMoves DEF OneCreator
<1> QED BY <1>2, <1>3

LEMMA CallerWaitsStep ==
  Inv1 /\ CallerWaits /\ [Next]_vars => CallerWaits'
<1> SUFFICES ASSUME Inv1, CallerWaits, [Next]_vars, NEW s \in Slots,
                    req'[s].pc = "a_write",
                    req'[s].user = caller'[req'[s].call],
                    status'[req'[s].call] = "Ring"
             PROVE  FALSE
  BY DEF CallerWaits
<1>1. CallsKept /\ HandlerMoves(s)
  BY CallsKeptStep, HandlerMovesStep DEF Inv1
<1>2. ASSUME req[s].pc = "a_write", req'[s].user = req[s].user,
             req'[s].call = req[s].call
      PROVE  FALSE
  <2>1. req[s].call \in Calls /\ status[req[s].call] # "none"
    BY <1>2 DEF Inv1, HandlersOK, HandlerOK, CallPcs, CreatePcs, PC
  <2>2. status[req[s].call] = "Ring"
    BY <1>2, <2>1, RingKept
  <2>3. caller[req[s].call] = req[s].user
    BY <1>1, <1>2, <2>1 DEF CallsKept
  <2> QED BY <1>2, <2>2, <2>3 DEF CallerWaits
<1>3. CASE AcceptMark(s) \/ AcceptMember(s)
  <2>1. req \in [Slots -> Handlers]
    BY DEF Inv1, TypeOK
  <2> QED BY <1>2, <1>3, <2>1 DEF AcceptMark, AcceptMember, Handlers
<1>4. ASSUME NEW u \in Users, NEW c \in Calls, AcceptBegin(s, u, c),
             req'[s] # req[s]
      PROVE  FALSE
  BY <1>4, BeginFields DEF AcceptBegin, Acceptable, Handler, Inv1
<1>5. ASSUME NEW c \in Calls, CreateInsert(s, c) PROVE FALSE
  BY <1>5, BeginFields DEF CreateInsert, Handler, Inv1
<1>6. ASSUME NEW u \in Users, NEW c \in Calls, EndBegin(s, u, c) PROVE FALSE
  BY <1>6, BeginFields DEF EndBegin, Handler, Inv1
<1>7. CASE \/ CreateMember(s) \/ CreateSetSelf(s) \/ CreateRegister(s)
           \/ AcceptNotify(s) \/ EndClearCallee(s) \/ EndClearMe(s)
  BY SMTT(60), <1>7, ReturnFields, GotoFields
     DEF CreateMember, CreateSetSelf, CreateRegister, AcceptNotify,
         EndClearCallee, EndClearMe, Inv1, PC, CreatePcs
<1>8. CASE Restart
  BY <1>8 DEF Restart, Idle, Handler
<1> QED BY <1>1, <1>2, <1>3, <1>4, <1>5, <1>6, <1>7, <1>8
        DEF HandlerMoves, RestPcs

LEMMA CallerIsNewStep ==
  Inv1 /\ Inv2 /\ OneCreator /\ CallerWaits /\ CallerIsNew /\ [Next]_vars
    => CallerIsNew'
<1> SUFFICES ASSUME Inv1, Inv2, OneCreator, CallerWaits, CallerIsNew,
                    [Next]_vars, NEW s \in Slots, req'[s].pc = "c_member",
                    status'[req'[s].call] = "Ring"
             PROVE  req'[s].user \notin members'[req'[s].call]
  BY DEF CallerIsNew
<1>1. CASE \E c \in Calls : CreateInsert(s, c)
  BY <1>1, BeginFields DEF CreateInsert, Handler, Inv1, UnusedOK
<1>2. CASE req'[s] = req[s]
  <2> DEFINE c == req[s].call
             u == req[s].user
  <2>1. c \in Calls /\ status[c] # "none" /\ u \in Users
    BY <1>2 DEF Inv1, HandlersOK, HandlerOK, CallPcs, CreatePcs, PC
  <2>2. status[c] = "Ring"
    BY <1>2, <2>1, RingKept
  <2>3. u \notin members[c]
    BY <1>2, <2>2 DEF CallerIsNew
  <2>4. caller[c] = u
    BY <1>2 DEF Inv2, DocsOK, HandlerDocs, NewCallPcs
  <2>5. ASSUME NEW t \in Slots, AcceptMember(t) PROVE u \notin members'[c]
    BY <2>2, <2>3, <2>4, <2>5 DEF AcceptMember, CallerWaits, Inv1, TypeOK
  <2>6. ASSUME NEW t \in Slots, CreateMember(t) PROVE u \notin members'[c]
    <3>1. t # s
      BY <1>2, <2>6, <2>1, ReturnFields, GotoFields
         DEF CreateMember, Inv1, PC, CreatePcs
    <3>2. req[t].call # c
      BY <1>2, <2>6, <3>1 DEF OneCreator, CreateMember, NewCallPcs
    <3> QED BY <2>3, <2>6, <3>2 DEF CreateMember, Inv1, TypeOK
  <2>7. ASSUME UNCHANGED members PROVE u \notin members'[c]
    BY <2>3, <2>7
  <2>8. u \notin members'[c]
    BY <2>5, <2>6, <2>7, Writers DEF WritesMembers
  <2> QED BY <1>2, <2>8
<1>3. CASE req'[s] # req[s] /\ ~\E c \in Calls : CreateInsert(s, c)
  <2>1. HandlerMoves(s)
    BY HandlerMovesStep DEF Inv1
  <2>2. CASE CreateMember(s) \/ CreateSetSelf(s) \/ CreateRegister(s)
    BY <2>2, ReturnFields, GotoFields
       DEF CreateMember, CreateSetSelf, CreateRegister, Inv1, PC, CreatePcs
  <2>3. req[s].pc \in NewCallPcs
    BY <1>3, CreatorMoves DEF NewCallPcs
  <2>4. CASE Restart
    BY <2>4 DEF Restart, Idle, Handler
  <2> QED BY <1>3, <2>1, <2>2, <2>3, <2>4
          DEF HandlerMoves, NewCallPcs, RestPcs, AcceptBegin, EndBegin,
              AcceptMark, AcceptMember, AcceptNotify, EndClearCallee,
              EndClearMe
<1> QED BY <1>1, <1>2, <1>3

LEMMA RingingStep == Inv1 /\ Inv2 /\ Inv4 /\ [Next]_vars => RingingIsTimed'
<1> SUFFICES ASSUME Inv1, Inv2, Inv4, [Next]_vars, restarts' = 0,
                    NEW c \in Calls, status'[c] = "Ring",
                    room'[c] \in SingleRooms
             PROVE  timer'[c] \in {"armed", "mark"} \/ Creating(c)'
  BY DEF RingingIsTimed
<1>0. restarts = 0 /\ ~Restart
  BY NoRestart
<1>1. CASE status[c] = "none"
  <2>1. PICK s \in Slots : CreateInsert(s, c)
    BY <1>1, RingStarts
  <2>2. req'[s].pc = "c_member" /\ req'[s].call = c
    BY <2>1, BeginFields DEF CreateInsert, Handler, Inv1
  <2> QED BY <2>2 DEF Creating
<1>2. CASE status[c] # "none"
  <2>1. status[c] = "Ring" /\ room[c] \in SingleRooms
    BY <1>2, RingKept, CallsKeptStep DEF CallsKept, Inv1
  <2>2. CASE timer[c] \in {"armed", "mark"}
    <3>1. ASSUME NEW d \in Calls, TimerStep(d)
          PROVE  timer'[c] \in {"armed", "mark"}
      BY <2>1, <2>2, <3>1
         DEF TimerStep, TimerFire, TimerMark, TimerPost, TimerClearCallee,
             TimerClearCaller, Inv1, TypeOK
    <3>2. ASSUME NEW s \in Slots, CreateRegister(s)
          PROVE  timer'[c] \in {"armed", "mark"}
      BY <2>2, <3>2 DEF CreateRegister, RegisterMissedCall, Inv1, TypeOK
    <3>3. CASE UNCHANGED timer
      BY <2>2, <3>3
    <3>4. ASSUME NEW s \in Slots, Continue(s), ~CreateRegister(s)
          PROVE  UNCHANGED timer
      BY <3>4 DEF Continue, CreateRefused, CreateNoId, CreateInsert,
                  CreateMember, CreateSetSelf, AcceptMark, AcceptMember,
                  AcceptNotify, AcceptOffline, EndClearCallee, EndClearMe,
                  EndWrite, EndPost, InviteEnd, DisconnectRead, DisconnectClear
    <3>5. ASSUME NEW s \in Slots, Start(s)
          PROVE  UNCHANGED timer
      BY <3>5 DEF Start, CreateBegin, AcceptBegin, EndBegin, InviteBegin,
                  InviteMember, Disconnect
    <3>6. CASE \/ \E u \in Users : Connect(u)
               \/ \E r \in SingleRooms, b \in BOOLEAN : SetBan(r, b)
               \/ UNCHANGED vars
      BY <3>3, <3>6 DEF Connect, SetBan, vars
    <3> QED BY <1>0, <3>1, <3>2, <3>3, <3>4, <3>5, <3>6 DEF Next
  <2>3. ASSUME NEW s \in Slots, req[s].call = c, req[s].pc \in NewCallPcs
        PROVE  timer'[c] \in {"armed", "mark"} \/ Creating(c)'
    <3>1. HandlerMoves(s)
      BY HandlerMovesStep DEF Inv1
    <3>2. CASE req'[s] = req[s]
      BY <2>3, <3>2 DEF Creating, NewCallPcs
    <3>3. CASE CreateMember(s)
      <4>1. req[s].user \notin members[c] /\ req[s].room \notin GroupRooms
        BY <2>1, <2>3, <3>3
           DEF CreateMember, Inv2, DocsOK, HandlerDocs, Inv4, RingOK,
               CallerIsNew, SingleRooms, NewCallPcs
      <4>2. req'[s].pc = "c_self" /\ req'[s].call = c
        BY <2>3, <3>3, <4>1, GotoFields DEF CreateMember, Inv1, PC, CreatePcs
      <4> QED BY <4>2 DEF Creating
    <3>4. CASE CreateSetSelf(s)
      <4>1. req'[s].pc = "c_register" /\ req'[s].call = c
        BY <2>3, <3>4, GotoFields DEF CreateSetSelf, Inv1, PC, CreatePcs
      <4> QED BY <4>1 DEF Creating
    <3>5. CASE CreateRegister(s)
      BY <2>3, <3>5 DEF CreateRegister, RegisterMissedCall, Inv1, TypeOK
    <3> QED BY <1>0, <2>3, <3>1, <3>2, <3>3, <3>4, <3>5
            DEF HandlerMoves, NewCallPcs, CreateInsert, AcceptBegin, EndBegin,
                AcceptMark, AcceptMember, AcceptNotify, EndClearCallee,
                EndClearMe
  <2> QED BY <1>0, <2>1, <2>2, <2>3
          DEF Inv4, RingingIsTimed, Creating, NewCallPcs
<1> QED BY <1>1, <1>2

LEMMA Inv4Init == Init => Inv4
BY DEF Init, Inv4, RingOK, OneCreator, CallerWaits, CallerIsNew, NewCallPcs,
       RingingIsTimed, Idle, Handler

\* As long as the process is not restarted, every ringing single call has its
\* timer, or a creation that will register it.
THEOREM RingingCorrect == Spec => []RingingIsTimed
<1>1. Inv1 /\ [Next]_vars => Inv1'
  BY Inv1Inductive
<1>2. Inv1 /\ Inv2 /\ [Next]_vars => Inv2'
  BY Inv2Inductive
<1>3. Inv1 /\ Inv2 /\ Inv4 /\ [Next]_vars => Inv4'
  BY OneCreatorStep, CallerWaitsStep, CallerIsNewStep, RingingStep
     DEF Inv4, RingOK
<1>4. Inv4 => RingingIsTimed
  BY DEF Inv4
<1> QED BY Inv1Init, Inv2Init, Inv4Init, <1>1, <1>2, <1>3, <1>4, PTL DEF Spec

-----------------------------------------------------------------------------
(* Without overlap: the lifecycle, and the callee's freedom *)

\* What a handler that is alone has read of its call still holds, and an
\* ending one has freed the callee.
Expects(s) ==
  LET pc == req[s].pc
      c == req[s].call
  IN /\ pc \in NewCallPcs => status[c] = "Ring"
     /\ pc = "a_write" => /\ status[c] \in Live
                          /\ req[s].marks = 0 => status[c] = "InCall"
     /\ pc = "a_offline" => status[c] = "InCall"
     /\ pc \in {"e_callee", "e_me", "e_write"} => status[c] = req[s].seen
     /\ pc \in {"e_me", "e_write"} /\ room[c] \in SingleRooms =>
          busy[Callee(c)] # c

TimersExpect == \A c \in Calls : timer[c] = "mark" => status[c] = "Ring"

\* The timer of a call that is over has yet to free the callee.
FreedOrTimed ==
  restarts = 0 =>
    \A c \in Calls : status[c] \in Outcomes /\ room[c] \in SingleRooms =>
                     busy[Callee(c)] # c \/ timer[c] \in {"post", "callee"}

\* At most one handler or timer is in progress.
OneAtATime ==
  /\ IsFiniteSet(ActiveSlots) /\ IsFiniteSet(ActiveTimers)
  /\ \A s, t \in ActiveSlots : s = t
  /\ \A c, d \in ActiveTimers : c = d
  /\ ActiveSlots = {} \/ ActiveTimers = {}

SerialInv ==
  OneAtATime /\ (\A s \in Slots : Expects(s)) /\ TimersExpect /\ FreedOrTimed

LEMMA AtMostOne ==
  ASSUME NEW S, NEW T, IsFiniteSet(S), IsFiniteSet(T),
         Cardinality(S) + Cardinality(T) <= 1
  PROVE  /\ \A x, y \in S : x = y
         /\ \A x, y \in T : x = y
         /\ S = {} \/ T = {}
<1>1. Cardinality(S) \in Nat /\ Cardinality(T) \in Nat
  BY FS_CardinalityType
<1>2. ASSUME NEW V, IsFiniteSet(V), NEW x \in V
      PROVE  Cardinality(V) \in Nat /\ Cardinality(V) >= 1
  <2>1. IsFiniteSet({x}) /\ Cardinality({x}) = 1
    BY FS_Singleton
  <2>2. Cardinality({x}) <= Cardinality(V)
    BY <1>2, FS_Subset
  <2> QED BY <1>2, <2>1, <2>2, FS_CardinalityType
<1>3. ASSUME NEW V, IsFiniteSet(V), NEW x \in V, NEW y \in V, x # y
      PROVE  Cardinality(V) \in Nat /\ Cardinality(V) >= 2
  <2>1. IsFiniteSet({x}) /\ Cardinality({x}) = 1
    BY FS_Singleton
  <2>2. Cardinality({x} \cup {y}) = 2
    <3>1. y \notin {x}
      BY <1>3
    <3>2. Cardinality({x} \cup {y}) = Cardinality({x}) + 1
      BY <2>1, <3>1, FS_AddElement
    <3> QED BY <2>1, <3>2
  <2>3. Cardinality({x} \cup {y}) <= Cardinality(V)
    BY <1>3, FS_Subset
  <2> QED BY <1>3, <2>2, <2>3, FS_CardinalityType
<1>4. ASSUME NEW x \in S, NEW y \in S, x # y PROVE FALSE
  BY <1>1, <1>3, <1>4
<1>5. ASSUME NEW x \in T, NEW y \in T, x # y PROVE FALSE
  BY <1>1, <1>3, <1>5
<1>6. ASSUME NEW x \in S, NEW y \in T PROVE FALSE
  <2>1. Cardinality(S) >= 1 /\ Cardinality(T) >= 1
    BY <1>2
  <2> QED BY <1>1, <2>1
<1> QED BY <1>4, <1>5, <1>6

\* A step of handler s, or of no handler, and of the timer of d or of none.
LEMMA OneAtATimeStep ==
  ASSUME OneAtATime, OneHandler', NEW x, NEW d,
         \A t \in Slots \ {x} : req'[t].pc = req[t].pc,
         \A c \in Calls \ {d} : timer'[c] \in {timer[c], "armed"}
  PROVE  OneAtATime'
<1>1. IsFiniteSet(ActiveSlots \cup {x}) /\ IsFiniteSet(ActiveTimers \cup {d})
  BY FS_AddElement DEF OneAtATime
<1>2. ActiveSlots' \subseteq ActiveSlots \cup {x}
  BY DEF ActiveSlots
<1>3. ActiveTimers' \subseteq ActiveTimers \cup {d}
  BY DEF ActiveTimers
<1>4. IsFiniteSet(ActiveSlots') /\ IsFiniteSet(ActiveTimers')
  BY <1>1, <1>2, <1>3, FS_Subset
<1>5. Cardinality(ActiveSlots') + Cardinality(ActiveTimers') <= 1
  BY DEF OneHandler
<1> QED BY <1>4, <1>5, AtMostOne DEF OneAtATime

LEMMA CalleeIsUser ==
  ASSUME TypeOK, NEW c \in Calls, room[c] \in SingleRooms
  PROVE  Callee(c) \in Users
<1>1. PICK a, b : a # b /\ MembersOf[room[c]] = {a, b}
  BY CallAssumption
<1>2. Peer(room[c], caller[c]) \in MembersOf[room[c]]
  BY <1>1 DEF Peer
<1>3. MembersOf[room[c]] \subseteq Users
  BY CallAssumption DEF SingleRooms
<1> QED BY <1>2, <1>3 DEF Callee, SingleRooms

\* The handler that goes on was alone: what it finds is what it expects.
LEMMA SerialAlone ==
  ASSUME SerialInv, NEW s \in Slots, req[s].pc # "idle", OneHandler',
         \A t \in Slots \ {s} : req'[t] = req[t],
         \A c \in Calls : timer'[c] \in {timer[c], "armed"},
         Expects(s)', FreedOrTimed'
  PROVE  SerialInv'
<1>1. /\ \A t \in Slots \ {s} : req'[t].pc = "idle"
      /\ \A c \in Calls : timer[c] # "mark"
  BY DEF SerialInv, OneAtATime, ActiveSlots, ActiveTimers
<1>2. \A t \in Slots \ {s} : Expects(t)'
  BY <1>1 DEF Expects, NewCallPcs
<1>3. TimersExpect'
  BY <1>1 DEF TimersExpect
<1>4. OneAtATime'
  BY OneAtATimeStep DEF SerialInv
<1> QED BY <1>2, <1>3, <1>4 DEF SerialInv

\* A step that changes no status, userGlobalCallStatus or timer.
LEMMA SerialQuiet ==
  ASSUME SerialInv, NEW s \in Slots, req[s].pc # "idle", OneHandler',
         \A t \in Slots \ {s} : req'[t] = req[t],
         UNCHANGED <<status, caller, room, busy, timer, restarts>>,
         \/ req'[s].pc = "idle"
         \/ /\ req'[s].call = req[s].call
            /\ \/ req[s].pc \in NewCallPcs /\ req'[s].pc \in NewCallPcs
               \/ /\ req[s].pc = "a_write" /\ req[s].marks = 0
                  /\ req'[s].pc = "a_offline"
               \/ /\ req[s].pc = "a_write" /\ req'[s].pc = "a_write"
                  /\ req'[s].marks = req[s].marks
  PROVE  SerialInv' /\ [Lifecycle!Next]_status
<1>1. Expects(s)'
  BY DEF SerialInv, Expects, NewCallPcs
<1>2. FreedOrTimed'
  BY DEF SerialInv, FreedOrTimed, Callee
<1>3. SerialInv'
  BY <1>1, <1>2, SerialAlone
<1> QED BY <1>3

\* A status is written: the lifecycle moves, or the write changes nothing.
LEMMA SerialWrite ==
  ASSUME Inv1, SerialInv, NEW s \in Slots, req[s].pc # "idle", OneHandler',
         \A t \in Slots \ {s} : req'[t] = req[t],
         UNCHANGED <<caller, room, busy, timer, restarts>>,
         req[s].call \in Calls, NEW st,
         status' = [status EXCEPT ![req[s].call] = st],
         st \in Outcomes /\ room[req[s].call] \in SingleRooms =>
           busy[Callee(req[s].call)] # req[s].call,
         Expects(s)'
  PROVE  SerialInv'
<1>1. \A c \in Calls : status'[c] = IF c = req[s].call THEN st ELSE status[c]
  BY DEF Inv1, TypeOK
<1>2. FreedOrTimed'
  BY <1>1 DEF SerialInv, FreedOrTimed, Callee
<1> QED BY <1>2, SerialAlone

\* A userGlobalCallStatus is set: to the ringing call that is being created,
\* or to nothing.
LEMMA SerialBusy ==
  ASSUME Inv1, SerialInv, NEW s \in Slots, req[s].pc # "idle", OneHandler',
         \A t \in Slots \ {s} : req'[t] = req[t],
         UNCHANGED <<status, caller, room, restarts>>,
         NEW u, NEW b, busy' = [busy EXCEPT ![u] = b],
         b = NoCall \/ (b = req[s].call /\ req[s].pc \in NewCallPcs),
         timer' = timer \/ (/\ timer' = RegisterMissedCall(req[s].call)
                            /\ req[s].pc \in NewCallPcs /\ req[s].call \in Calls),
         Expects(s)'
  PROVE  SerialInv' /\ [Lifecycle!Next]_status
<1>1. TypeOK /\ Expects(s)
  BY DEF Inv1, SerialInv
<1>2. \A v \in Users : busy'[v] \in {busy[v], b}
  BY <1>1 DEF TypeOK
<1>3. \A c \in Calls : \/ timer'[c] = timer[c]
                       \/ timer'[c] = "armed" /\ c = req[s].call /\ req[s].pc \in NewCallPcs
  BY <1>1 DEF TypeOK, RegisterMissedCall
<1>4. FreedOrTimed'
  <2> SUFFICES ASSUME restarts = 0, NEW c \in Calls, status[c] \in Outcomes,
                      room[c] \in SingleRooms
               PROVE  busy'[Callee(c)] # c \/ timer'[c] \in {"post", "callee"}
    BY DEF FreedOrTimed, Callee
  <2>1. busy[Callee(c)] # c \/ timer[c] \in {"post", "callee"}
    BY DEF SerialInv, FreedOrTimed
  <2>2. req[s].pc \in NewCallPcs => c # req[s].call
    BY <1>1 DEF Expects, Outcomes
  <2>3. b # c
    BY <2>2, CallAssumption
  <2> QED BY <1>1, <1>2, <1>3, <2>1, <2>2, <2>3, CalleeIsUser
<1>5. SerialInv'
  BY <1>3, <1>4, SerialAlone
<1> QED BY <1>5

LEMMA SerialCreate ==
  ASSUME Inv1, SerialInv, NEW s \in Slots, OneHandler',
         \/ \E c \in Calls : CreateInsert(s, c)
         \/ CreateMember(s) \/ CreateSetSelf(s) \/ CreateRegister(s)
  PROVE  SerialInv' /\ [Lifecycle!Next]_status
<1>1. TypeOK /\ Expects(s) /\ HandlerOK(s)
  BY DEF Inv1, SerialInv, HandlersOK
<1>2. ASSUME NEW c \in Calls, CreateInsert(s, c)
      PROVE  SerialInv' /\ [Lifecycle!Next]_status
  <2>1. /\ req'[s].pc = "c_member" /\ req'[s].call = c /\ req[s].pc # "idle"
        /\ \A t \in Slots \ {s} : req'[t] = req[t]
    BY <1>1, <1>2, BeginFields DEF CreateInsert, Handler
  <2>2. /\ status[c] = "none"
        /\ \A d \in Calls : status'[d] = IF d = c THEN "Ring" ELSE status[d]
        /\ \A d \in Calls \ {c} : caller'[d] = caller[d] /\ room'[d] = room[d]
        /\ UNCHANGED <<busy, timer, restarts>>
    BY <1>1, <1>2 DEF CreateInsert, TypeOK
  <2>3. Expects(s)'
    BY <2>1, <2>2 DEF Expects, NewCallPcs
  <2>4. FreedOrTimed'
    BY <2>2 DEF SerialInv, FreedOrTimed, Callee, Outcomes
  <2>5. SerialInv'
    BY <2>1, <2>2, <2>3, <2>4, SerialAlone
  <2>6. Lifecycle!Place(c)
    BY <1>2 DEF CreateInsert, Lifecycle!Place, Lifecycle!Move
  <2> QED BY <2>5, <2>6 DEF Lifecycle!Next
<1>3. CASE CreateMember(s)
  <2>1. /\ req[s].pc = "c_member" /\ UNCHANGED <<status, caller, room, busy, timer, restarts>>
        /\ Return(s) \/ Goto(s, "c_self")
    BY <1>3 DEF CreateMember
  <2>2. /\ \A t \in Slots \ {s} : req'[t] = req[t]
        /\ \/ req'[s].pc = "idle"
           \/ req'[s].pc = "c_self" /\ req'[s].call = req[s].call
    BY <1>1, <2>1, ReturnFields, GotoFields DEF PC, CreatePcs
  <2> QED BY <2>1, <2>2, SerialQuiet DEF NewCallPcs
<1>4. CASE CreateSetSelf(s)
  <2>1. /\ req[s].pc = "c_self" /\ Goto(s, "c_register")
        /\ UNCHANGED <<status, caller, room, timer, restarts>>
        /\ busy' = [busy EXCEPT ![req[s].user] = req[s].call]
    BY <1>4 DEF CreateSetSelf, docs
  <2>2. /\ \A t \in Slots \ {s} : req'[t] = req[t]
        /\ req'[s].pc = "c_register" /\ req'[s].call = req[s].call
    BY <1>1, <2>1, GotoFields DEF PC, CreatePcs
  <2>3. Expects(s)'
    BY <1>1, <2>1, <2>2 DEF Expects, NewCallPcs
  <2> QED BY <2>1, <2>2, <2>3, SerialBusy DEF NewCallPcs
<1>5. CASE CreateRegister(s)
  <2>1. /\ req[s].pc = "c_register" /\ Return(s)
        /\ UNCHANGED <<status, caller, room, restarts>>
        /\ timer' = RegisterMissedCall(req[s].call)
        /\ busy' = [busy EXCEPT ![Peer(req[s].room, req[s].user)] = req[s].call]
    BY <1>5 DEF CreateRegister, docs
  <2>2. /\ \A t \in Slots \ {s} : req'[t] = req[t]
        /\ req'[s].pc = "idle"
    BY <1>1, <2>1, ReturnFields
  <2>3. Expects(s)' /\ req[s].call \in Calls
    BY <1>1, <2>1, <2>2 DEF Expects, NewCallPcs, HandlerOK, CallPcs, PC, CreatePcs
  <2> QED BY <2>1, <2>2, <2>3, SerialBusy DEF NewCallPcs
<1> QED BY <1>2, <1>3, <1>4, <1>5

LEMMA SerialAccept ==
  ASSUME Inv1, SerialInv, NEW s \in Slots, OneHandler',
         AcceptMark(s) \/ AcceptMember(s) \/ AcceptNotify(s) \/ AcceptOffline(s)
  PROVE  SerialInv' /\ [Lifecycle!Next]_status
<1> DEFINE c == req[s].call
<1>1. /\ TypeOK /\ Expects(s) /\ req[s] \in Handlers
      /\ req[s].pc \in {"a_write", "a_offline"} => c \in Calls
  BY DEF Inv1, SerialInv, HandlersOK, HandlerOK, CallPcs, PC, TypeOK
<1>2. CASE AcceptMark(s)
  <2>1. /\ req[s].pc = "a_write" /\ UNCHANGED <<caller, room, busy, timer, restarts>>
        /\ status' = [status EXCEPT ![c] = "InCall"]
        /\ req' = [req EXCEPT ![s].marks = @ - 1]
    BY <1>2 DEF AcceptMark
  <2>2. /\ \A t \in Slots \ {s} : req'[t] = req[t]
        /\ req'[s].pc = "a_write" /\ req'[s].call = c
    BY <1>1, <2>1 DEF TypeOK, Handlers
  <2>3. status'[c] = "InCall" /\ status[c] \in Live /\ c \in Calls
    BY <1>1, <2>1 DEF TypeOK, Expects
  <2>4. Expects(s)'
    BY <2>2, <2>3 DEF Expects, NewCallPcs, Live
  <2>5. SerialInv'
    BY <2>1, <2>2, <2>3, <2>4, SerialWrite DEF Outcomes
  <2>6. status[c] = "InCall" => UNCHANGED status
    BY <1>1, <2>1 DEF TypeOK
  <2>7. status[c] = "Ring" => Lifecycle!Answer(c)
    BY <2>1 DEF Lifecycle!Answer, Lifecycle!Move
  <2> QED BY <2>3, <2>5, <2>6, <2>7 DEF Lifecycle!Next, Live
<1>3. CASE AcceptMember(s)
  <2>1. /\ req[s].pc = "a_write" /\ UNCHANGED <<status, caller, room, busy, timer, restarts>>
        /\ \E m \in {"ok", "dup"} : req' = [req EXCEPT ![s].mem = m]
    BY <1>3 DEF AcceptMember
  <2>2. /\ \A t \in Slots \ {s} : req'[t] = req[t]
        /\ req'[s].pc = "a_write" /\ req'[s].call = c /\ req'[s].marks = req[s].marks
    BY <1>1, <2>1 DEF TypeOK, Handlers
  <2> QED BY <2>1, <2>2, SerialQuiet
<1>4. CASE AcceptNotify(s)
  <2>1. /\ req[s].pc = "a_write" /\ UNCHANGED <<status, caller, room, busy, timer, restarts>>
        /\ req[s].marks = 0 /\ (Return(s) \/ Goto(s, "a_offline"))
    BY <1>4 DEF AcceptNotify, docs
  <2>2. /\ \A t \in Slots \ {s} : req'[t] = req[t]
        /\ \/ req'[s].pc = "idle"
           \/ req'[s].pc = "a_offline" /\ req'[s].call = c
    BY <1>1, <2>1, ReturnFields, GotoFields DEF PC
  <2> QED BY <2>1, <2>2, SerialQuiet
<1>5. CASE AcceptOffline(s)
  <2>1. /\ req[s].pc = "a_offline" /\ UNCHANGED <<caller, room, busy, timer, restarts>>
        /\ status' = [status EXCEPT ![c] = "Offline"] /\ Return(s)
    BY <1>5 DEF AcceptOffline
  <2>2. req'[s].pc = "idle" /\ \A t \in Slots \ {s} : req'[t] = req[t]
    BY <1>1, <2>1, ReturnFields
  <2>3. Expects(s)' /\ c \in Calls /\ status[c] = "InCall"
    BY <1>1, <2>1, <2>2 DEF Expects, NewCallPcs
  <2>4. SerialInv'
    BY <2>1, <2>2, <2>3, SerialWrite DEF Outcomes
  <2>5. Lifecycle!Drop(c)
    BY <2>1, <2>3 DEF Lifecycle!Drop, Lifecycle!Move
  <2> QED BY <2>3, <2>4, <2>5 DEF Lifecycle!Next
<1> QED BY <1>2, <1>3, <1>4, <1>5

LEMMA SerialEnd ==
  ASSUME Inv1, SerialInv, NEW s \in Slots, OneHandler',
         EndClearCallee(s) \/ EndClearMe(s) \/ EndWrite(s) \/ EndPost(s)
  PROVE  SerialInv' /\ [Lifecycle!Next]_status
<1> DEFINE c == req[s].call
<1>1. /\ TypeOK /\ Expects(s)
      /\ c \in Calls /\ status[c] # "none"
      /\ req[s].pc \in {"e_write", "e_post"} => EndOutcome(s) # "none"
  BY DEF Inv1, SerialInv, HandlersOK, HandlerOK, CallPcs, PC, EndClearCallee,
         EndClearMe, EndWrite, EndPost, CreatePcs
<1>2. CASE EndClearCallee(s)
  <2>1. /\ req[s].pc = "e_callee" /\ Goto(s, "e_me")
        /\ UNCHANGED <<status, caller, room, timer, restarts>>
        /\ busy' = [busy EXCEPT ![Callee(c)] = NoCall]
    BY <1>2 DEF EndClearCallee, Freed, docs
  <2>2. /\ \A t \in Slots \ {s} : req'[t] = req[t]
        /\ req'[s].pc = "e_me" /\ req'[s].call = c /\ req'[s].seen = req[s].seen
    BY <1>1, <2>1, GotoFields DEF PC
  <2>3. room[c] \in SingleRooms => busy'[Callee(c)] # c
    BY <1>1, <2>1, CalleeIsUser, CallAssumption DEF TypeOK
  <2>4. Expects(s)'
    BY <1>1, <2>1, <2>2, <2>3 DEF Expects, NewCallPcs, Callee
  <2> QED BY <2>1, <2>2, <2>4, SerialBusy
<1>3. CASE EndClearMe(s)
  <2>1. /\ req[s].pc = "e_me" /\ (Return(s) \/ Goto(s, "e_write"))
        /\ UNCHANGED <<status, caller, room, timer, restarts>>
        /\ busy' = [busy EXCEPT ![req[s].user] = NoCall]
    BY <1>3 DEF EndClearMe, docs
  <2>2. /\ \A t \in Slots \ {s} : req'[t] = req[t]
        /\ \/ req'[s].pc = "idle"
           \/ req'[s].pc = "e_write" /\ req'[s].call = c /\ req'[s].seen = req[s].seen
    BY <1>1, <2>1, ReturnFields, GotoFields DEF PC
  <2>3. room[c] \in SingleRooms => busy'[Callee(c)] # c
    <3>1. room[c] \in SingleRooms => busy[Callee(c)] # c /\ Callee(c) \in Users
      BY <1>1, <2>1, CalleeIsUser DEF Expects
    <3> QED BY <1>1, <2>1, <3>1, CallAssumption DEF TypeOK
  <2>4. Expects(s)'
    BY <1>1, <2>1, <2>2, <2>3 DEF Expects, NewCallPcs, Callee
  <2> QED BY <2>1, <2>2, <2>4, SerialBusy
<1>4. CASE EndWrite(s)
  <2>1. /\ req[s].pc = "e_write" /\ Goto(s, "e_post")
        /\ UNCHANGED <<caller, room, busy, timer, restarts>>
        /\ status' = [status EXCEPT ![c] = EndOutcome(s)]
    BY <1>4 DEF EndWrite
  <2>2. /\ \A t \in Slots \ {s} : req'[t] = req[t]
        /\ req'[s].pc = "e_post"
    BY <1>1, <2>1, GotoFields DEF PC
  <2>3. /\ room[c] \in SingleRooms => busy[Callee(c)] # c
        /\ status[c] = req[s].seen /\ EndOutcome(s) # "none"
    BY <1>1, <2>1 DEF Expects
  <2>4. Expects(s)'
    BY <2>2 DEF Expects, NewCallPcs
  <2>5. SerialInv'
    BY <1>1, <2>1, <2>2, <2>3, <2>4, SerialWrite
  <2>6. \/ status[c] = "Ring" /\ EndOutcome(s) \in {"Canceled", "Rejected"}
        \/ status[c] = "InCall" /\ EndOutcome(s) = "Finished"
    BY <2>3 DEF EndOutcome
  <2>7. Lifecycle!Cancel(c) \/ Lifecycle!Reject(c) \/ Lifecycle!HangUp(c)
    BY <2>1, <2>6 DEF Lifecycle!Cancel, Lifecycle!Reject, Lifecycle!HangUp, Lifecycle!Move
  <2> QED BY <1>1, <2>5, <2>7 DEF Lifecycle!Next
<1>5. CASE EndPost(s)
  <2>1. /\ req[s].pc # "idle" /\ Return(s)
        /\ UNCHANGED <<status, caller, room, busy, timer, restarts>>
    BY <1>5 DEF EndPost, docs
  <2>2. req'[s].pc = "idle" /\ \A t \in Slots \ {s} : req'[t] = req[t]
    BY <1>1, <2>1, ReturnFields
  <2> QED BY <2>1, <2>2, SerialQuiet
<1> QED BY <1>2, <1>3, <1>4, <1>5

LEMMA SerialContinue ==
  ASSUME Inv1, SerialInv, NEW s \in Slots, Continue(s), OneHandler'
  PROVE  SerialInv' /\ [Lifecycle!Next]_status
<1>1. TypeOK
  BY DEF Inv1
<1>2. CASE CreateRefused(s) \/ CreateNoId(s) \/ InviteEnd(s)
  <2>1. /\ req[s].pc # "idle" /\ Return(s)
        /\ UNCHANGED <<status, caller, room, busy, timer, restarts>>
    BY <1>2 DEF CreateRefused, CreateNoId, InviteEnd, docs
  <2>2. req'[s].pc = "idle" /\ \A t \in Slots \ {s} : req'[t] = req[t]
    BY <1>1, <2>1, ReturnFields
  <2> QED BY <2>1, <2>2, SerialQuiet
<1>3. CASE DisconnectRead(s)
  <2>1. /\ req[s].pc # "idle" /\ (Return(s) \/ Goto(s, "d_clear"))
        /\ UNCHANGED <<status, caller, room, busy, timer, restarts>>
    BY <1>3 DEF DisconnectRead, docs
  <2>2. req'[s].pc \in {"idle", "d_clear"} /\ \A t \in Slots \ {s} : req'[t] = req[t]
    BY <1>1, <2>1, ReturnFields, GotoFields DEF PC
  <2>3. Expects(s)' /\ FreedOrTimed'
    BY <2>1, <2>2 DEF Expects, NewCallPcs, SerialInv, FreedOrTimed, Callee
  <2> QED BY <2>1, <2>2, <2>3, SerialAlone
<1>4. CASE DisconnectClear(s)
  <2>1. /\ req[s].pc # "idle" /\ Return(s)
        /\ UNCHANGED <<status, caller, room, timer, restarts>>
        /\ busy' = [busy EXCEPT ![req[s].user] = NoCall]
    BY <1>4 DEF DisconnectClear, docs
  <2>2. req'[s].pc = "idle" /\ \A t \in Slots \ {s} : req'[t] = req[t]
    BY <1>1, <2>1, ReturnFields
  <2>3. Expects(s)'
    BY <2>2 DEF Expects, NewCallPcs
  <2> QED BY <2>1, <2>2, <2>3, SerialBusy
<1> QED BY <1>2, <1>3, <1>4, SerialCreate, SerialAccept, SerialEnd DEF Continue

\* A request begins with what it has read, and no call changes its status.
LEMMA SerialStart ==
  ASSUME Inv1, SerialInv, NEW s \in Slots, Start(s), OneHandler'
  PROVE  SerialInv' /\ UNCHANGED status
<1>1. /\ TypeOK /\ UNCHANGED <<status, caller, room, busy, timer, restarts>>
      /\ req[s].pc = "idle" \/ \E r \in Rooms, v \in Users : InviteMember(s, r, v)
  <2>1. UNCHANGED busy
    BY DEF Start, Disconnect, CreateBegin, AcceptBegin, EndBegin, InviteBegin, InviteMember
  <2>2. req[s].pc = "idle" \/ \E r \in Rooms, v \in Users : InviteMember(s, r, v)
    BY DEF Start, Disconnect, CreateBegin, AcceptBegin, EndBegin, InviteBegin
  <2> QED BY <2>1, <2>2, StartWrites DEF Inv1
<1>2. ASSUME NEW pc \in {"c_peer", "d_read", "i_rooms", "a_write", "e_callee", "e_me"},
             NEW u, NEW r, NEW c, NEW seen, Begin(s, Handler(pc, u, r, c, seen)),
             pc = "a_write" => status[c] \in Live,
             pc \in {"a_write", "e_callee", "e_me"} => status[c] = seen,
             pc = "e_me" => room[c] \notin SingleRooms
      PROVE  (\A t \in Slots \ {s} : req'[t] = req[t]) /\ Expects(s)'
  <2>1. /\ req'[s] = Handler(pc, u, r, c, seen)
        /\ \A t \in Slots \ {s} : req'[t] = req[t]
    BY <1>1, <1>2, BeginFields
  <2>2. /\ req'[s].pc = pc /\ req'[s].call = c /\ req'[s].seen = seen
        /\ req'[s].marks # 0
    BY <2>1 DEF Handler
  <2> QED BY <1>1, <1>2, <2>1, <2>2 DEF Expects, NewCallPcs
<1>3. (\A t \in Slots \ {s} : req'[t] = req[t]) /\ Expects(s)'
  <2>1. CASE UNCHANGED req
    BY <1>1, <2>1 DEF SerialInv, Expects, Callee
  <2>2. ASSUME NEW u \in Users, NEW r \in Rooms, Disconnect(s, u) \/ CreateBegin(s, u, r)
        PROVE  (\A t \in Slots \ {s} : req'[t] = req[t]) /\ Expects(s)'
    BY <1>2, <2>2 DEF Disconnect, CreateBegin
  <2>3. ASSUME NEW u \in Users, Disconnect(s, u)
        PROVE  (\A t \in Slots \ {s} : req'[t] = req[t]) /\ Expects(s)'
    BY <1>2, <2>3 DEF Disconnect
  <2>4. ASSUME NEW u \in Users, NEW c \in Calls, AcceptBegin(s, u, c)
        PROVE  (\A t \in Slots \ {s} : req'[t] = req[t]) /\ Expects(s)'
    BY <1>2, <2>1, <2>4 DEF AcceptBegin, Acceptable
  <2>5. ASSUME NEW u \in Users, NEW c \in Calls, EndBegin(s, u, c)
        PROVE  (\A t \in Slots \ {s} : req'[t] = req[t]) /\ Expects(s)'
    <3>1. room[c] \in GroupRooms => room[c] \notin SingleRooms
      BY DEF SingleRooms
    <3> QED BY <1>2, <2>5, <3>1 DEF EndBegin
  <2>6. ASSUME NEW u \in Users, NEW c \in Calls, InviteBegin(s, u, c)
        PROVE  (\A t \in Slots \ {s} : req'[t] = req[t]) /\ Expects(s)'
    BY <1>2, <2>6 DEF InviteBegin
  <2>7. ASSUME NEW r \in Rooms, NEW v \in Users, InviteMember(s, r, v)
        PROVE  UNCHANGED req
    BY <2>7 DEF InviteMember
  <2> QED BY <2>1, <2>2, <2>3, <2>4, <2>5, <2>6, <2>7 DEF Start
<1>4. \A t \in Slots : Expects(t)'
  BY <1>1, <1>3 DEF SerialInv, Expects, Callee
<1>5. OneAtATime'
  BY <1>1, <1>3, OneAtATimeStep DEF SerialInv
<1> QED BY <1>1, <1>4, <1>5 DEF SerialInv, TimersExpect, FreedOrTimed, Callee

\* A timer that goes on is alone, and writes to a call that still rings.
LEMMA SerialTimer ==
  ASSUME Inv1, SerialInv, NEW c \in Calls, TimerStep(c), OneHandler'
  PROVE  SerialInv' /\ [Lifecycle!Next]_status
<1>1. /\ TypeOK /\ UNCHANGED <<caller, room, req, restarts>>
      /\ \A d \in Calls \ {c} : timer'[d] = timer[d]
  <2>1. TypeOK
    BY DEF Inv1
  <2>2. \A d \in Calls \ {c} : timer'[d] = timer[d]
    BY <2>1 DEF TimerStep, TimerFire, TimerMark, TimerPost, TimerClearCallee,
                TimerClearCaller, TypeOK
  <2> QED BY <2>1, <2>2, TimerWrites
<1>2. OneAtATime'
  BY <1>1, OneAtATimeStep DEF SerialInv
<1>3. ASSUME UNCHANGED <<status, busy>>, timer'[c] = "mark" => status[c] = "Ring",
             timer[c] \in {"post", "callee"} => timer'[c] = "callee"
      PROVE  SerialInv'
  <2>1. \A s \in Slots : Expects(s)'
    BY <1>1, <1>3 DEF SerialInv, Expects, Callee
  <2>2. TimersExpect'
    BY <1>1, <1>3 DEF SerialInv, TimersExpect
  <2>3. FreedOrTimed'
    BY <1>1, <1>3 DEF SerialInv, FreedOrTimed, Callee
  <2> QED BY <1>2, <2>1, <2>2, <2>3 DEF SerialInv
\* A step of a timer that was in progress: no handler was.
<1>4. ASSUME timer[c] \in {"mark", "post", "callee", "caller"}, timer'[c] # "mark",
             FreedOrTimed'
      PROVE  SerialInv'
  <2>1. /\ \A s \in Slots : req[s].pc = "idle"
        /\ \A d \in Calls \ {c} : timer[d] # "mark"
    BY <1>4 DEF SerialInv, OneAtATime, ActiveSlots, ActiveTimers
  <2>2. \A s \in Slots : Expects(s)'
    BY <1>1, <2>1 DEF Expects, NewCallPcs
  <2>3. TimersExpect'
    BY <1>1, <1>4, <2>1 DEF TimersExpect
  <2> QED BY <1>2, <1>4, <2>2, <2>3 DEF SerialInv
<1>5. CASE TimerFire(c) \/ TimerPost(c)
  <2>1. /\ UNCHANGED <<status, busy>>
        /\ timer'[c] = "mark" => status[c] = "Ring"
        /\ timer[c] \in {"post", "callee"} => timer'[c] = "callee"
    BY <1>1, <1>5 DEF TimerFire, TimerPost, TypeOK, docs
  <2> QED BY <1>3, <2>1
<1>6. CASE TimerMark(c)
  <2>1. /\ timer[c] = "mark" /\ timer'[c] = "post" /\ UNCHANGED busy
        /\ status' = [status EXCEPT ![c] = "Timeout"] /\ status[c] = "Ring"
        /\ \A d \in Calls \ {c} : status'[d] = status[d]
    BY <1>1, <1>6 DEF TimerMark, TypeOK, SerialInv, TimersExpect
  <2>2. FreedOrTimed'
    BY <1>1, <2>1 DEF SerialInv, FreedOrTimed, Callee
  <2>3. Lifecycle!Expire(c)
    BY <2>1 DEF Lifecycle!Expire, Lifecycle!Move
  <2>4. SerialInv'
    BY <1>4, <2>1, <2>2
  <2> QED BY <2>3, <2>4 DEF Lifecycle!Next
<1>7. ASSUME NEW u, busy' = [busy EXCEPT ![u] = NoCall], UNCHANGED status,
             \/ timer[c] = "callee" /\ timer'[c] = "caller" /\ u = Callee(c)
             \/ timer[c] = "caller" /\ timer'[c] = "done"
      PROVE  SerialInv'
  <2>1. \A v \in Users : busy'[v] \in {busy[v], NoCall} /\ (v = u => busy'[v] = NoCall)
    BY <1>1, <1>7 DEF TypeOK
  <2>2. FreedOrTimed'
    <3> SUFFICES ASSUME restarts = 0, NEW d \in Calls, status[d] \in Outcomes,
                        room[d] \in SingleRooms
                 PROVE  busy'[Callee(d)] # d \/ timer'[d] \in {"post", "callee"}
      BY <1>1, <1>7 DEF FreedOrTimed, Callee
    <3>1. busy[Callee(d)] # d \/ timer[d] \in {"post", "callee"}
      BY DEF SerialInv, FreedOrTimed
    <3>2. Callee(d) \in Users /\ NoCall # d
      BY <1>1, CalleeIsUser, CallAssumption
    <3> QED BY <1>1, <1>7, <2>1, <3>1, <3>2
  <2> QED BY <1>4, <1>7, <2>2
<1>8. CASE TimerClearCallee(c) \/ TimerClearCaller(c)
  <2>1. UNCHANGED status
    BY <1>8 DEF TimerClearCallee, TimerClearCaller, docs
  <2>2. CASE TimerClearCallee(c)
    BY <1>1, <1>7, <2>1, <2>2 DEF TimerClearCallee, Freed, TypeOK
  <2>3. CASE TimerClearCaller(c)
    BY <1>1, <1>7, <2>1, <2>3 DEF TimerClearCaller, TypeOK
  <2> QED BY <1>8, <2>1, <2>2, <2>3
<1> QED
  <2>1. TimerFire(c) \/ TimerPost(c) => UNCHANGED status
    BY DEF TimerFire, TimerPost, docs
  <2> QED BY <1>5, <1>6, <1>8, <2>1 DEF TimerStep

LEMMA SerialStep ==
  ASSUME Inv1, SerialInv, [SerialNext]_vars
  PROVE  SerialInv' /\ [Lifecycle!Next]_status
<1>1. CASE Restart
  <2>1. /\ UNCHANGED <<status, caller, room, busy>> /\ restarts' # 0
        /\ \A s \in Slots : req'[s].pc = "idle"
        /\ \A c \in Calls : timer'[c] \in {"none", "done"}
    BY <1>1 DEF Restart, docs, Idle, Handler, Inv1, TypeOK
  <2>2. ActiveSlots' = {} /\ ActiveTimers' = {}
    BY <2>1 DEF ActiveSlots, ActiveTimers
  <2>3. OneAtATime'
    BY <2>2, FS_EmptySet DEF OneAtATime
  <2>4. (\A s \in Slots : Expects(s)') /\ TimersExpect' /\ FreedOrTimed'
    BY <2>1 DEF Expects, NewCallPcs, TimersExpect, FreedOrTimed
  <2> QED BY <2>1, <2>3, <2>4 DEF SerialInv
<1>2. CASE OtherStep /\ ~Restart
  <2>1. UNCHANGED <<status, caller, room, busy, timer, req, restarts>>
    BY <1>2, OtherWrites DEF docs
  <2>2. OneAtATime'
    BY <2>1 DEF SerialInv, OneAtATime, ActiveSlots, ActiveTimers
  <2>3. (\A s \in Slots : Expects(s)') /\ TimersExpect' /\ FreedOrTimed'
    BY <2>1 DEF SerialInv, Expects, TimersExpect, FreedOrTimed, Callee
  <2> QED BY <2>1, <2>2, <2>3 DEF SerialInv
<1>3. CASE SerialNext /\ ~OtherStep
  BY <1>3, SerialContinue, SerialStart, SerialTimer DEF SerialNext, Next, OtherStep
<1> QED BY <1>1, <1>2, <1>3 DEF OtherStep

LEMMA SerialInit == Init => SerialInv /\ Lifecycle!Init
<1> SUFFICES ASSUME Init PROVE SerialInv /\ Lifecycle!Init
  OBVIOUS
<1>1. ActiveSlots = {} /\ ActiveTimers = {}
  BY DEF Init, ActiveSlots, ActiveTimers, Idle, Handler
<1>2. OneAtATime
  BY <1>1, FS_EmptySet DEF OneAtATime
<1>3. (\A s \in Slots : Expects(s)) /\ TimersExpect /\ FreedOrTimed
  BY DEF Init, Expects, NewCallPcs, TimersExpect, FreedOrTimed, Outcomes, Idle, Handler
<1> QED BY <1>2, <1>3 DEF SerialInv, Init, Lifecycle!Init

\* Without overlap, and until the process is restarted, nobody who was called
\* is left marked as being in a call that is over, for any number of users and
\* of group and single rooms.
THEOREM FreedCorrect == SerialSpec => []CalleeIsFreed
<1>1. [SerialNext]_vars => [Next]_vars
  BY DEF SerialNext
<1>2. Inv1 /\ SerialInv /\ [SerialNext]_vars => SerialInv'
  BY SerialStep
<1>3. SerialInv => CalleeIsFreed
  BY DEF SerialInv, FreedOrTimed, CalleeIsFreed, Quiet, ActiveTimers
<1> QED BY Inv1Init, Inv1Inductive, SerialInit, <1>1, <1>2, <1>3, PTL DEF SerialSpec

\* Without overlap the call service implements the lifecycle its comments
\* describe: restarts, group calls, invitations and bans included.
THEOREM LifecycleImplemented == SerialSpec => ImplementsLifecycle
<1>1. [SerialNext]_vars => [Next]_vars
  BY DEF SerialNext
<1>2. Inv1 /\ SerialInv /\ [SerialNext]_vars => SerialInv' /\ [Lifecycle!Next]_status
  BY SerialStep
<1> QED
  BY Inv1Init, Inv1Inductive, SerialInit, <1>1, <1>2, PTL
     DEF SerialSpec, ImplementsLifecycle, Lifecycle!Spec
=============================================================================
