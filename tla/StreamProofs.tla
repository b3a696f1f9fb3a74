---------------------------- MODULE StreamProofs ----------------------------
(***************************************************************************)
(* Theorems about a live stream, for any number of viewers, participants,  *)
(* messages, requests and handlers in progress.                            *)
(*                                                                         *)
(* First what one step does to a handler (StartMoves, ContinueMoves) and   *)
(* which steps write which document (ContinueWrites); each invariant needs *)
(* only the few cases that touch it.                                       *)
(***************************************************************************)
EXTENDS Stream, Sums, FiniteSetTheorems, TLAPS

\* The handlers that work on a participant they have read.
RowPcs == {"join_revive", "off_save", "ban_save", "ban_list", "off_count", "cohost_save"}

JoinPcs == {"join_wallet", "join_charge", "join_credit", "join_gate", "join_find",
            "join_create", "join_revive", "join_count"}

HandlerOK(s) ==
  /\ req[s].pc # "idle" => req[s].user \in Users
  /\ req[s].pc \in JoinPcs \cup {"ban_save", "ban_list", "ask_find", "ask_create"} =>
       req[s].user \in Viewers
  /\ req[s].pc = "answer" => /\ req[s].ask \in Asks
                             /\ ask[req[s].ask].status # "none"
  /\ req[s].pc = "pin_find" => req[s].message \in Messages
  /\ req[s].pc \in RowPcs => req[s].row \in Rows /\ row[req[s].row].user = req[s].user

HandlersOK == \A s \in Slots : HandlerOK(s)

\* An id that is not in use has nothing in it.
UnusedOK ==
  /\ \A p \in Rows : row[p].user = NoUser => row[p] = Absent
  /\ \A a \in Asks : ask[a].status # "none" => ask[a].user \in Users

Inv1 == TypeOK /\ HandlersOK /\ UnusedOK

-----------------------------------------------------------------------------
(* What a step does to a handler *)

LEMMA ForType ==
  ASSUME NEW pc \in PC, NEW u \in Users \cup {NoUser}
  PROVE  /\ For(pc, u) \in Handlers
         /\ For(pc, u).pc = pc /\ For(pc, u).user = u /\ For(pc, u).flag = FALSE
         /\ For(pc, u).role = "viewer"
BY DEF For, Handlers, Roles

LEMMA IdleType == Idle \in Handlers /\ Idle.pc = "idle" /\ Idle.user = NoUser
BY DEF Idle, For, Handlers, PC, Roles

\* Field updates of a typed handler.
LEMMA SetPc ==
  ASSUME NEW h \in Handlers, NEW pc \in PC, NEW n, n = [h EXCEPT !.pc = pc]
  PROVE  /\ n \in Handlers /\ n.pc = pc /\ n.user = h.user
         /\ n.row = h.row /\ n.role = h.role /\ n.flag = h.flag
BY DEF Handlers

LEMMA SetFlag ==
  ASSUME NEW h \in Handlers, NEW b \in BOOLEAN, NEW n, n = [h EXCEPT !.flag = b]
  PROVE  n \in Handlers /\ n.pc = h.pc /\ n.user = h.user /\ n.flag = b
BY DEF Handlers

LEMMA SetPcFlag ==
  ASSUME NEW h \in Handlers, NEW pc \in PC, NEW b \in BOOLEAN, NEW n,
         n = [h EXCEPT !.pc = pc, !.flag = b]
  PROVE  n \in Handlers /\ n.pc = pc /\ n.user = h.user
BY DEF Handlers

LEMMA SetPin ==
  ASSUME NEW h \in Handlers, NEW m \in Messages, NEW p \in Messages \cup {NoMessage},
         NEW n, n = [h EXCEPT !.message = m, !.pin = p]
  PROVE  n \in Handlers /\ n.pc = h.pc /\ n.user = h.user
BY DEF Handlers

LEMMA SetAsk ==
  ASSUME NEW h \in Handlers, NEW a \in Asks, NEW n, n = [h EXCEPT !.ask = a]
  PROVE  n \in Handlers /\ n.pc = h.pc /\ n.user = h.user /\ n.ask = a
BY DEF Handlers

LEMMA WithRowFields ==
  ASSUME TypeOK, NEW pc \in PC, NEW u \in Users, NEW p \in Rows
  PROVE  LET n == WithRow(pc, u, p)
         IN /\ n \in Handlers /\ n.pc = pc /\ n.user = u /\ n.row = p
            /\ n.role = row[p].role /\ n.flag = row[p].active
<1> DEFINE ro == row[p].role
           ac == row[p].active
           h == For(pc, u)
<1>1. ro \in Roles /\ ac \in BOOLEAN
  BY DEF TypeOK
<1>2. /\ [h EXCEPT !.row = p, !.role = ro, !.flag = ac] \in Handlers
      /\ [h EXCEPT !.row = p, !.role = ro, !.flag = ac].pc = pc
      /\ [h EXCEPT !.row = p, !.role = ro, !.flag = ac].user = u
      /\ [h EXCEPT !.row = p, !.role = ro, !.flag = ac].row = p
      /\ [h EXCEPT !.row = p, !.role = ro, !.flag = ac].role = ro
      /\ [h EXCEPT !.row = p, !.role = ro, !.flag = ac].flag = ac
  <2> HIDE DEF ro, ac
  <2> QED BY <1>1 DEF For, Handlers
<1> QED BY <1>2 DEF WithRow

\* Replacing the record of handler s.
LEMMA PutFields ==
  ASSUME TypeOK, NEW s \in Slots, NEW h \in Handlers, req' = [req EXCEPT ![s] = h]
  PROVE  /\ req' \in [Slots -> Handlers]
         /\ req'[s] = h /\ \A t \in Slots \ {s} : req'[t] = req[t]
BY DEF TypeOK

\* Where a handler goes when it does not end.
Flow(pc, next) ==
  \/ pc = "end_save" /\ next = "end_clear"
  \/ pc = "join_wallet" /\ next = "join_charge"
  \/ pc = "join_charge" /\ next = "join_credit"
  \/ pc = "join_credit" /\ next = "join_gate"
  \/ pc = "join_gate" /\ next = "join_find"
  \/ pc = "join_find" /\ next \in {"join_create", "join_revive"}
  \/ pc \in {"join_create", "join_revive"} /\ next = "join_count"
  \/ pc \in {"off_save", "ban_list", "cohost_save"} /\ next = "off_count"
  \/ pc = "ban_save" /\ next = "ban_list"
  \/ pc = "message_check" /\ next = "message_create"
  \/ pc = "message_create" /\ next = "gift"
  \/ pc = "pin_find" /\ next = "pin_clear"
  \/ pc = "pin_clear" /\ next = "pin_set"
  \/ pc = "pin_set" /\ next = "pin_note"
  \/ pc = "unpin_find" /\ next = "unpin_set"
  \/ pc = "unpin_set" /\ next = "unpin_note"
  \/ pc = "ask_find" /\ next = "ask_create"

\* Handler s goes from its program counter to the next, or ends.
Moves(s) ==
  /\ req[s].pc # "idle"
  /\ req' \in [Slots -> Handlers]
  /\ \A t \in Slots \ {s} : req'[t] = req[t]
  /\ UNCHANGED <<scene, overlapped, restarts>>
  /\ req'[s].pc # "idle" =>
       /\ Flow(req[s].pc, req'[s].pc)
       /\ req'[s].user = IF req'[s].pc = "end_clear" THEN Host ELSE req[s].user
       /\ req'[s].pc \in {"ban_list", "off_count"} =>
            req'[s].row = req[s].row /\ req'[s].role = req[s].role

LEMMA Ends ==
  ASSUME TypeOK, NEW s \in Slots, req[s].pc # "idle", Return(s), UNCHANGED scene
  PROVE  Moves(s) /\ req'[s].pc = "idle"
<1>1. req' = [req EXCEPT ![s] = Idle] /\ UNCHANGED <<overlapped, restarts>>
  BY DEF Return, Resume, process
<1>2. req' \in [Slots -> Handlers] /\ req'[s] = Idle /\ \A t \in Slots \ {s} : req'[t] = req[t]
  BY <1>1, IdleType, PutFields
<1> QED BY <1>1, <1>2, IdleType DEF Moves

LEMMA GoesOn ==
  ASSUME TypeOK, NEW s \in Slots, NEW next \in PC, Flow(req[s].pc, next),
         next # "end_clear", Goto(s, next), UNCHANGED scene
  PROVE  Moves(s) /\ req'[s].pc = next
<1> DEFINE h == [req[s] EXCEPT !.pc = next]
<1>1. req[s] \in Handlers
  BY DEF TypeOK
<1>2. /\ h \in Handlers /\ h.pc = next /\ h.user = req[s].user
      /\ h.row = req[s].row /\ h.role = req[s].role
  BY <1>1, SetPc
<1>3. req' = [req EXCEPT ![s] = h] /\ UNCHANGED <<overlapped, restarts>>
  BY DEF Goto, Resume, process
<1> HIDE DEF h
<1>4. req' \in [Slots -> Handlers] /\ req'[s] = h /\ \A t \in Slots \ {s} : req'[t] = req[t]
  BY <1>2, <1>3, PutFields
<1>5. req[s].pc # "idle"
  BY DEF Flow
<1> QED BY <1>2, <1>3, <1>4, <1>5 DEF Moves

\* A new record for the same user, or for the host that ends the stream.
LEMMA BeginsNext ==
  ASSUME TypeOK, NEW s \in Slots, NEW h \in Handlers, Resume(s, h), UNCHANGED scene,
         Flow(req[s].pc, h.pc), h.pc \notin {"ban_list", "off_count"},
         h.user = IF h.pc = "end_clear" THEN Host ELSE req[s].user
  PROVE  Moves(s) /\ req'[s] = h
<1>1. req' = [req EXCEPT ![s] = h] /\ UNCHANGED <<overlapped, restarts>>
  BY DEF Resume, process
<1>2. req' \in [Slots -> Handlers] /\ req'[s] = h /\ \A t \in Slots \ {s} : req'[t] = req[t]
  BY <1>1, PutFields
<1>3. req[s].pc # "idle"
  BY DEF Flow
<1> QED BY <1>1, <1>2, <1>3 DEF Moves

LEMMA UserTyped ==
  ASSUME TypeOK, HandlersOK, NEW s \in Slots
  PROVE  req[s] \in Handlers /\ (req[s].pc # "idle" => req[s].user \in Users)
BY DEF TypeOK, HandlersOK, HandlerOK

\* Every step of a handler in progress moves it along.
LEMMA ContinueMoves ==
  ASSUME TypeOK, HandlersOK, NEW s \in Slots, Continue(s)
  PROVE  Moves(s)
<1> DEFINE u == req[s].user
<1> USE DEF documents
<1>1. CASE \/ CreateHost(s) \/ StartSave(s) \/ EndClear(s) \/ RecordSave(s) \/ DeleteOne(s)
           \/ JoinCount(s) \/ OffCount(s) \/ NoRowId(s) \/ MessageNoId(s) \/ Gift(s)
           \/ GiftAborted(s) \/ PinNote(s) \/ UnpinNote(s) \/ LikeWrite(s) \/ AskNoId(s)
           \/ AskCreate(s) \/ (\E st \in {"approved", "denied"} : Answer(s, st))
  <2>1. req[s].pc # "idle" /\ Return(s) /\ UNCHANGED scene
    BY <1>1 DEF CreateHost, StartSave, SaveStatus, EndClear, RecordSave, DeleteOne, JoinCount,
       OffCount, Counted, NoRowId, MessageNoId, Gift, Pay, GiftAborted, PinNote, UnpinNote,
       NotePin, LikeWrite, AskNoId, AskCreate, Answer, Proceed, Return
  <2> QED BY <2>1, Ends
<1>2. CASE JoinCreate(s) \/ PinClear(s) \/ PinSet(s) \/ UnpinSet(s) \/ CohostSave(s)
  <2>1. UNCHANGED scene /\ \E next \in PC : /\ next # "end_clear" /\ Goto(s, next)
                                            /\ Flow(req[s].pc, next)
    BY <1>2 DEF JoinCreate, PinClear, PinSet, UnpinSet, SetPinned, CohostSave, Flow, PC
  <2> QED BY <2>1, GoesOn
\* The steps that end the handler, or begin a new part for the same user.
<1>3. ASSUME req[s].pc # "idle", UNCHANGED scene,
             Return(s) \/ \E next \in PC : /\ Flow(req[s].pc, next)
                                           /\ next \notin {"ban_list", "off_count", "end_clear"}
                                           /\ Resume(s, For(next, u))
      PROVE  Moves(s)
  <2>1. ASSUME NEW next \in PC, Flow(req[s].pc, next), Resume(s, For(next, u)),
               next \notin {"ban_list", "off_count", "end_clear"}
        PROVE  Moves(s)
    <3> DEFINE h == For(next, u)
    <3>1. h \in Handlers /\ h.pc = next /\ h.user = u
      BY ZenonT(60), <1>3, UserTyped, ForType
    <3> HIDE DEF h
    <3>2. Resume(s, h)
      BY <2>1 DEF h
    <3> QED BY <1>3, <2>1, <3>1, <3>2, BeginsNext
  <2> QED BY <1>3, <2>1, Ends
<1>4. CASE \/ JoinWallet(s) \/ JoinCharge(s) \/ JoinCredit(s) \/ JoinGate(s)
           \/ JoinRevive(s) \/ MessageCreate(s) \/ AskFind(s)
  <2>1. UNCHANGED scene /\ req[s].pc # "idle"
    BY <1>4 DEF JoinWallet, JoinCharge, JoinCredit, Pay, JoinGate, JoinRevive, MessageCreate,
                AskFind, Proceed
  <2>2. Return(s) \/ \E next \in PC : /\ Flow(req[s].pc, next)
                                      /\ next \notin {"ban_list", "off_count", "end_clear"}
                                      /\ Resume(s, For(next, u))
    BY <1>4 DEF JoinWallet, JoinCharge, JoinCredit, Pay, JoinGate, JoinRevive, MessageCreate,
                AskFind, Proceed, Return, Flow, PC
  <2> QED BY <1>3, <2>1, <2>2
\* The steps that end the handler, or move it with what it has read.
<1>5. ASSUME req[s].pc # "idle", UNCHANGED scene,
             Return(s) \/ \E next \in PC : /\ Flow(req[s].pc, next) /\ next # "end_clear"
                                           /\ Goto(s, next)
      PROVE  Moves(s)
  BY <1>5, Ends, GoesOn
<1>6. CASE OffSave(s) \/ BanSave(s) \/ BanList(s) \/ MessageCheck(s)
  <2>1. UNCHANGED scene /\ req[s].pc # "idle"
    BY <1>6 DEF OffSave, BanSave, SaveRow, BanList, MessageCheck, Proceed
  <2>2. Return(s) \/ \E next \in PC : /\ Flow(req[s].pc, next) /\ next # "end_clear"
                                      /\ Goto(s, next)
    BY <1>6 DEF OffSave, BanSave, SaveRow, BanList, MessageCheck, Proceed, CountOff, Return,
                Goto, Flow, PC
  <2> QED BY <1>5, <2>1, <2>2
<1>7. CASE EndSave(s)
  <2>1. UNCHANGED scene /\ req[s].pc = "end_save"
        /\ (Return(s) \/ Resume(s, For("end_clear", Host)))
    BY <1>7 DEF EndSave, SaveStatus
  <2>2. For("end_clear", Host) \in Handlers
        /\ For("end_clear", Host).pc = "end_clear" /\ For("end_clear", Host).user = Host
    BY DEF For, Handlers, PC, Users, Roles
  <2> QED BY <2>1, <2>2, Ends, BeginsNext DEF Flow
<1>8. CASE JoinFind(s)
  <2>1. UNCHANGED scene /\ req[s].pc = "join_find" /\ u \in Users
    BY <1>8, UserTyped DEF JoinFind, Proceed
  <2>2. CASE RowsOf(u) = {}
    BY <1>3, <1>8, <2>1, <2>2 DEF JoinFind, Proceed, Flow, PC
  <2>3. ASSUME NEW p \in RowsOf(u), Resume(s, WithRow("join_revive", u, p)) PROVE Moves(s)
    <3> DEFINE h == WithRow("join_revive", u, p)
    <3>1. h \in Handlers /\ h.pc = "join_revive" /\ h.user = u
      BY <2>1, WithRowFields DEF PC, RowsOf
    <3> HIDE DEF h
    <3>2. Resume(s, h)
      BY <2>3 DEF h
    <3> QED BY <2>1, <3>1, <3>2, BeginsNext DEF Flow
  <2> QED BY <1>8, <2>2, <2>3 DEF JoinFind, Proceed
<1> DEFINE Read(next, b) == [req[s] EXCEPT !.pc = next, !.flag = b]
<1>9. ASSUME NEW next \in {"pin_clear", "unpin_set"}, NEW b \in BOOLEAN,
             Resume(s, Read(next, b)), UNCHANGED scene, Flow(req[s].pc, next)
      PROVE  Moves(s)
  <2> DEFINE h == Read(next, b)
  <2>1. req[s] \in Handlers /\ next \in PC
    BY UserTyped DEF PC
  <2>2. h \in Handlers /\ h.pc = next /\ h.user = u
    BY <2>1 DEF Handlers
  <2> HIDE DEF Read
  <2> QED BY <1>9, <2>2, BeginsNext
<1>10. CASE PinFind(s)
  <2> DEFINE b == message[req[s].message].pinned
  <2>1. UNCHANGED scene /\ req[s].pc = "pin_find" /\ b \in BOOLEAN
    BY <1>10 DEF PinFind, Proceed, HandlersOK, HandlerOK, TypeOK
  <2>2. Return(s) \/ Resume(s, Read("pin_clear", b))
    BY <1>10 DEF PinFind, Proceed, Return
  <2> HIDE DEF b, Read
  <2> QED BY <1>9, <2>1, <2>2, Ends DEF Flow
<1>11. CASE UnpinFind(s)
  <2>1. /\ UNCHANGED scene /\ req[s].pc = "unpin_find"
        /\ Return(s) \/ Resume(s, Read("unpin_set", TRUE))
    BY <1>11 DEF UnpinFind, Proceed, Return
  <2> HIDE DEF Read
  <2> QED BY <1>9, <2>1, Ends DEF Flow
<1> QED BY <1>1, <1>2, <1>4, <1>6, <1>7, <1>8, <1>10, <1>11 DEF Continue

\* What handler s has read when it begins.
Reads(s) ==
  LET h == req'[s]
      pc == h.pc
      joining == pc \in {"join_wallet", "join_gate"}
  IN /\ h.user \in Users
     /\ pc \in {"create_host", "start_save", "end_save", "record_save", "delete", "join_wallet",
                "join_gate", "off_save", "ban_save", "cohost_save", "message_check",
                "gift_abort", "pin_find", "unpin_find", "like", "ask_find", "answer"}
     /\ pc = "create_host" => status = "none" /\ h.user = Host
     /\ pc = "start_save" => status = "scheduled"
     /\ pc = "end_save" => status = "live"
     /\ pc = "record_save" => status = "ended"
     /\ joining => status = "live" /\ h.user \in Viewers \ banned
     /\ pc = "join_gate" => scene.kind.type # "paid"
     /\ pc \in {"off_save", "ban_save", "cohost_save"} =>
          /\ h.row \in Rows /\ h.flag = TRUE /\ row[h.row].active
          /\ row[h.row].user = h.user /\ row[h.row].role = h.role
     /\ pc = "ban_save" => h.user # Host
     /\ pc = "cohost_save" => h.role = "viewer"
     /\ pc = "like" => (h.flag <=> h.user \in likedBy)
     /\ pc = "ask_find" => h.user \in Viewers
     /\ pc = "answer" => h.ask \in Asks /\ ask[h.ask].status = "pending"
     /\ pc = "pin_find" => h.message \in Messages

Begins(s) ==
  /\ req[s].pc = "idle"
  /\ req' \in [Slots -> Handlers]
  /\ \A t \in Slots \ {s} : req'[t] = req[t]
  /\ UNCHANGED <<scene, viewerCount, likedBy, likesCount, banned, pinnedId, row, message,
                 ask, balance, granted, restarts>>
  /\ overlapped' = (overlapped \/ InProgress \ {s} # {})
  /\ status' = IF req'[s].pc = "create_host" THEN "scheduled" ELSE status

LEMMA BeginFields ==
  ASSUME TypeOK, NEW s \in Slots, NEW h \in Handlers, Begin(s, h), req[s].pc = "idle",
         UNCHANGED <<scene, counters, banned, pinnedId, others, granted>>,
         status' = IF h.pc = "create_host" THEN "scheduled" ELSE status
  PROVE  Begins(s) /\ req'[s] = h
<1>1. req' = [req EXCEPT ![s] = h]
  BY DEF Begin
<1>2. req' \in [Slots -> Handlers] /\ req'[s] = h /\ \A t \in Slots \ {s} : req'[t] = req[t]
  BY <1>1, PutFields
<1>3. restarts' = restarts /\ overlapped' = (overlapped \/ InProgress \ {s} # {})
  BY DEF Begin
<1>4. UNCHANGED <<scene, viewerCount, likedBy, likesCount, banned, pinnedId, row, message,
                  ask, balance, granted>>
  BY DEF counters, others
<1> QED BY <1>2, <1>3, <1>4 DEF Begins

LEMMA StartMoves ==
  ASSUME TypeOK, NEW s \in Slots, Start(s)
  PROVE  Begins(s) /\ Reads(s)
<1> DEFINE Plain == UNCHANGED <<scene, counters, banned, pinnedId, others, granted>>
<1>1. ASSUME NEW pc \in PC, pc # "idle", NEW u \in Users, Begin(s, For(pc, u)), Plain,
             req[s].pc = "idle", status' = IF pc = "create_host" THEN "scheduled" ELSE status
      PROVE  Begins(s) /\ req'[s].pc = pc /\ req'[s].user = u
  <2> DEFINE h == For(pc, u)
  <2>1. h \in Handlers /\ h.pc = pc /\ h.user = u
    BY ForType
  <2>2. Begin(s, h)
    BY <1>1
  <2> HIDE DEF h
  <2> QED BY <1>1, <2>1, <2>2, BeginFields
<1>2. CASE HostStart(s)
  <2>1. CASE CreateInsert(s)
    <3>1. req[s].pc = "idle" /\ status = "none" /\ status' = "scheduled" /\ Plain
          /\ Begin(s, For("create_host", Host))
      BY <2>1 DEF CreateInsert
    <3>2. Begins(s) /\ req'[s].pc = "create_host" /\ req'[s].user = Host
      BY <1>1, <3>1 DEF PC, Users
    <3> QED BY <3>1, <3>2 DEF Reads, Users
  <2>2. ASSUME NEW pc \in {"start_save", "end_save", "record_save"}, NEW st,
               HostBegin(s, st, pc)
        PROVE  Begins(s) /\ req'[s].pc = pc /\ req'[s].user = Host /\ status = st
    <3>1. req[s].pc = "idle" /\ status = st /\ UNCHANGED status /\ Plain
          /\ Begin(s, For(pc, Host))
      BY <2>2 DEF HostBegin, documents, streamDoc
    <3> QED BY <1>1, <3>1 DEF PC, Users
  <2>3. CASE StartBegin(s)
    BY <2>2, <2>3 DEF StartBegin, Reads, Users
  <2>4. CASE EndBegin(s)
    BY <2>2, <2>4 DEF EndBegin, Reads, Users
  <2>5. CASE RecordBegin(s)
    BY <2>2, <2>5 DEF RecordBegin, Reads, Users
  <2> QED BY <1>2, <2>1, <2>3, <2>4, <2>5 DEF HostStart
<1> DEFINE Same == Plain /\ UNCHANGED status
<1>3. ASSUME NEW u \in Viewers, JoinBegin(s, u) PROVE Begins(s) /\ Reads(s)
  <2>1. /\ req[s].pc = "idle" /\ Same /\ status = "live" /\ u \notin banned
        /\ Begin(s, For(IF Charged(scene.kind) THEN "join_wallet" ELSE "join_gate", u))
    BY <1>3 DEF JoinBegin, Free, Refused, documents, streamDoc
  <2>2. CASE Charged(scene.kind)
    <3>1. Begin(s, For("join_wallet", u))
      BY <2>1, <2>2
    <3>2. Begins(s) /\ req'[s].pc = "join_wallet" /\ req'[s].user = u
      BY <1>1, <2>1, <3>1 DEF PC, Users
    <3> QED BY <2>1, <3>2 DEF Reads, Users
  <2>3. CASE ~Charged(scene.kind)
    <3>1. Begin(s, For("join_gate", u)) /\ scene.kind.type # "paid"
      BY <2>1, <2>3 DEF Charged
    <3>2. Begins(s) /\ req'[s].pc = "join_gate" /\ req'[s].user = u
      BY <1>1, <2>1, <3>1 DEF PC, Users
    <3> QED BY <2>1, <3>1, <3>2 DEF Reads, Users
  <2> QED BY <2>2, <2>3
<1>4. ASSUME NEW u \in Users, NEW p \in Rows, NEW pc \in {"off_save", "ban_save", "cohost_save"},
             req[s].pc = "idle", row[p].user = u, row[p].active,
             Begin(s, WithRow(pc, u, p)), Same, pc = "ban_save" => u # Host,
             pc = "cohost_save" => row[p].role = "viewer"
      PROVE  Begins(s) /\ Reads(s)
  <2> DEFINE h == WithRow(pc, u, p)
  <2>1. /\ h \in Handlers /\ h.pc = pc /\ h.user = u /\ h.row = p
        /\ h.role = row[p].role /\ h.flag = row[p].active
    BY WithRowFields DEF PC
  <2>2. Begin(s, h)
    BY <1>4
  <2> HIDE DEF h
  <2>3. Begins(s) /\ req'[s] = h
    BY <1>4, <2>1, <2>2, BeginFields
  <2>4. row[p].active = TRUE
    BY <1>4 DEF TypeOK
  <2> QED BY <1>4, <2>1, <2>3, <2>4 DEF Reads
<1>5. ASSUME NEW u \in Users, NEW p \in Rows,
             \/ LeaveBegin(s, u, p) \/ RemoveBegin(s, u, p) \/ BanBegin(s, u, p)
             \/ CohostBegin(s, u, p)
      PROVE  Begins(s) /\ Reads(s)
  <2>1. CASE LeaveBegin(s, u, p) \/ RemoveBegin(s, u, p)
    BY <1>4, <2>1 DEF LeaveBegin, RemoveBegin, ReadRow, Free, documents, streamDoc
  <2>2. CASE BanBegin(s, u, p)
    BY <1>4, <2>2 DEF BanBegin, ReadRow, Free, documents, streamDoc
  <2>3. CASE CohostBegin(s, u, p)
    BY <1>4, <2>3 DEF CohostBegin, ReadRow, Free, documents, streamDoc
  <2> QED BY <1>5, <2>1, <2>2, <2>3
\* A handler that begins with one more field.
<1>6. ASSUME NEW h \in Handlers, req[s].pc = "idle", Begin(s, h), Same, h.user \in Users,
             \/ h.pc \in {"message_check", "gift_abort", "delete", "unpin_find"}
             \/ h.pc = "pin_find" /\ h.message \in Messages
             \/ h.pc = "like" /\ (h.flag <=> h.user \in likedBy)
             \/ h.pc = "ask_find" /\ h.user \in Viewers
             \/ h.pc = "answer" /\ h.ask \in Asks /\ ask[h.ask].status = "pending"
      PROVE  Begins(s) /\ Reads(s)
  <2>1. Begins(s) /\ req'[s] = h
    BY <1>6, BeginFields
  <2> QED BY <1>6, <2>1 DEF Reads
<1>7. ASSUME NEW pc \in {"message_check", "gift_abort", "delete", "ask_find"}, NEW u \in Users,
             req[s].pc = "idle", Begin(s, For(pc, u)), Same,
             pc = "ask_find" => u \in Viewers
      PROVE  Begins(s) /\ Reads(s)
  <2> DEFINE h == For(pc, u)
  <2>1. h \in Handlers /\ h.pc = pc /\ h.user = u
    BY DEF For, Handlers, PC, Roles
  <2>2. Begin(s, h)
    BY <1>7
  <2> HIDE DEF h
  <2> QED BY <1>6, <1>7, <2>1, <2>2
<1>8. ASSUME NEW u \in Users, NEW gift \in BOOLEAN, MessageBegin(s, u, gift)
      PROVE  Begins(s) /\ Reads(s)
  <2> DEFINE h == [For("message_check", u) EXCEPT !.flag = gift]
  <2>1. h \in Handlers /\ h.pc = "message_check" /\ h.user = u
    BY DEF For, Handlers, PC, Roles
  <2>2. Begin(s, h) /\ req[s].pc = "idle" /\ Same
    BY <1>8 DEF MessageBegin, Free, documents, streamDoc
  <2> HIDE DEF h
  <2> QED BY <1>6, <2>1, <2>2
<1>9. ASSUME NEW m \in Messages, NEW pc \in {"pin_find", "unpin_find"}, PinBegin(s, m, pc)
      PROVE  Begins(s) /\ Reads(s)
  <2> DEFINE h == [For(pc, Host) EXCEPT !.message = m, !.pin = pinnedId]
  <2>1. /\ h \in Handlers /\ h.pc = pc /\ h.user = Host /\ h.message = m
    BY DEF For, Handlers, PC, Roles, TypeOK, Users
  <2>2. Begin(s, h) /\ req[s].pc = "idle" /\ Same
    BY <1>9 DEF PinBegin, Free, documents, streamDoc
  <2>3. Host \in Users
    BY DEF Users
  <2> HIDE DEF h
  <2> QED BY <1>6, <2>1, <2>2, <2>3
<1>10. ASSUME NEW u \in Users, LikeBegin(s, u) PROVE Begins(s) /\ Reads(s)
  <2> DEFINE b == u \in likedBy
             h == [For("like", u) EXCEPT !.flag = b]
  <2>1. h \in Handlers /\ h.pc = "like" /\ h.user = u /\ (h.flag <=> u \in likedBy)
    <3>1. b \in BOOLEAN /\ (b <=> u \in likedBy)
      OBVIOUS
    <3> HIDE DEF b
    <3>2. h \in Handlers /\ h.pc = "like" /\ h.user = u /\ h.flag = b
      BY <3>1 DEF For, Handlers, PC, Roles
    <3> QED BY <3>1, <3>2
  <2>2. Begin(s, h) /\ req[s].pc = "idle" /\ Same
    BY <1>10 DEF LikeBegin, Free, documents, streamDoc
  <2> HIDE DEF h
  <2> QED BY <1>6, <2>1, <2>2
<1>11. ASSUME NEW a \in Asks, AnswerBegin(s, a) PROVE Begins(s) /\ Reads(s)
  <2> DEFINE h == [For("answer", Host) EXCEPT !.ask = a]
  <2>1. h \in Handlers /\ h.pc = "answer" /\ h.user = Host /\ h.ask = a
    BY DEF For, Handlers, PC, Roles, Users
  <2>2. Begin(s, h) /\ req[s].pc = "idle" /\ Same /\ ask[a].status = "pending"
    BY <1>11 DEF AnswerBegin, Free, documents, streamDoc
  <2>3. Host \in Users
    BY DEF Users
  <2> HIDE DEF h
  <2> QED BY <1>6, <2>1, <2>2, <2>3
<1>12. CASE DeleteBegin(s)
  <2>1. Begin(s, For("delete", Host)) /\ req[s].pc = "idle" /\ Same /\ Host \in Users
    BY <1>12 DEF DeleteBegin, Free, documents, streamDoc, Users
  <2> QED BY <1>7, <2>1
<1>13. ASSUME NEW u \in Viewers, SendGift(s, u) \/ AskBegin(s, u) PROVE Begins(s) /\ Reads(s)
  BY <1>7, <1>13 DEF SendGift, AskBegin, Free, documents, streamDoc, Users
<1> QED
  BY <1>2, <1>3, <1>5, <1>8, <1>9, <1>10, <1>11, <1>12, <1>13
     DEF Start, ViewerStart, PinStart, RemovalStart, GiftStart, CohostStart, LikeStart, AskStart

-----------------------------------------------------------------------------
(* Who writes what *)

WritesRow(s) == \/ CreateHost(s) \/ EndClear(s) \/ JoinCreate(s) \/ JoinRevive(s)
                \/ OffSave(s) \/ BanSave(s) \/ CohostSave(s)
WritesStatus(s) == StartSave(s) \/ EndSave(s) \/ RecordSave(s) \/ DeleteOne(s)
WritesMessage(s) == MessageCreate(s) \/ PinClear(s) \/ PinSet(s) \/ UnpinSet(s)
WritesAsk(s) == AskCreate(s) \/ \E st \in {"approved", "denied"} : Answer(s, st)

LEMMA ContinueWrites ==
  ASSUME NEW s \in Slots, Continue(s)
  PROVE  /\ WritesRow(s) \/ UNCHANGED row
         /\ WritesStatus(s) \/ UNCHANGED status
         /\ JoinCount(s) \/ OffCount(s) \/ UNCHANGED viewerCount
         /\ BanList(s) \/ UNCHANGED banned
         /\ JoinCharge(s) \/ JoinCredit(s) \/ Gift(s) \/ UNCHANGED balance
         /\ WritesMessage(s) \/ UNCHANGED message
         /\ PinNote(s) \/ UnpinNote(s) \/ UNCHANGED pinnedId
         /\ LikeWrite(s) \/ UNCHANGED <<likedBy, likesCount>>
         /\ WritesAsk(s) \/ UNCHANGED <<ask, granted>>
<1> USE DEF documents, streamDoc, counters, others
<1>1. CASE WritesRow(s)
  BY <1>1 DEF WritesRow, CreateHost, EndClear, JoinCreate, JoinRevive, OffSave, BanSave, SaveRow,
              CohostSave
<1>2. CASE WritesStatus(s)
  BY <1>2 DEF WritesStatus, StartSave, EndSave, RecordSave, SaveStatus, DeleteOne
<1>3. CASE JoinCount(s) \/ OffCount(s) \/ BanList(s) \/ LikeWrite(s) \/ PinNote(s) \/ UnpinNote(s)
  BY <1>3 DEF JoinCount, OffCount, Counted, BanList, LikeWrite, PinNote, UnpinNote, NotePin
<1>4. CASE JoinCharge(s) \/ JoinCredit(s) \/ Gift(s)
  BY <1>4 DEF JoinCharge, JoinCredit, Gift, Pay
<1>5. CASE WritesMessage(s)
  BY <1>5 DEF WritesMessage, MessageCreate, PinClear, PinSet, UnpinSet, SetPinned
<1>6. CASE WritesAsk(s)
  BY <1>6 DEF WritesAsk, AskCreate, Answer
<1>7. CASE \/ JoinWallet(s) \/ JoinGate(s) \/ JoinFind(s) \/ NoRowId(s) \/ MessageCheck(s)
           \/ MessageNoId(s) \/ GiftAborted(s) \/ PinFind(s) \/ UnpinFind(s) \/ AskFind(s)
           \/ AskNoId(s)
  <2>1. UNCHANGED documents
    BY <1>7 DEF JoinWallet, JoinGate, JoinFind, NoRowId, MessageCheck, MessageNoId, GiftAborted,
                PinFind, UnpinFind, AskFind, AskNoId, Proceed
  <2> QED BY <2>1
<1> QED BY <1>1, <1>2, <1>3, <1>4, <1>5, <1>6, <1>7
        DEF Continue, WritesRow, WritesStatus, WritesMessage, WritesAsk

RowType == [Rows -> [user : Users \cup {NoUser}, role : Roles, active : BOOLEAN]]

\* A participant is created with an id that was not in use.
Inserted(u, role) ==
  \E p \in Rows :
    /\ row[p].user = NoUser
    /\ row'[p].user = u /\ row'[p].role = role /\ row'[p].active = TRUE
    /\ \A q \in Rows \ {p} : row'[q] = row[q]

LEMMA NewRowFields ==
  ASSUME TypeOK, UnusedOK, NEW u \in Users, NEW role \in Roles, NewRow(u, role)
  PROVE  row' \in RowType /\ Inserted(u, role)
<1> DEFINE p == Fresh(row, Absent)
           new == [user |-> u, role |-> role, active |-> TRUE]
<1>1. PICK q \in Rows : row[q].user = NoUser
  BY DEF NewRow, RowsOf
<1>2. row[q] = Absent /\ DOMAIN row = Rows
  BY <1>1 DEF UnusedOK, TypeOK
<1>3. p \in Rows /\ row[p] = Absent
  BY <1>2 DEF Fresh
<1>4. row' = [row EXCEPT ![p] = new]
  BY DEF NewRow
<1>5. new \in [user : Users \cup {NoUser}, role : Roles, active : BOOLEAN]
  OBVIOUS
<1> HIDE DEF p, new
<1>6. row[p].user = NoUser
  BY <1>3 DEF Absent
<1>7. /\ row'[p] = new /\ \A r \in Rows \ {p} : row'[r] = row[r]
      /\ row' \in RowType
  BY <1>3, <1>4, <1>5 DEF TypeOK, RowType
<1> QED BY <1>3, <1>6, <1>7 DEF new, Inserted

\* The steps that change participants that are there.
Updated(s) ==
  LET h == req[s]
  IN /\ h.pc \in {"end_clear", "join_revive", "off_save", "ban_save", "cohost_save"}
     /\ \A p \in Rows :
          /\ row'[p].user = row[p].user
          /\ row'[p].role = IF h.pc = "cohost_save" /\ p = h.row THEN "co_host" ELSE row[p].role
          /\ h.pc = "end_clear" => row'[p].active = FALSE
          /\ h.pc = "cohost_save" => row'[p].active = row[p].active
          /\ h.pc \in {"join_revive", "off_save", "ban_save"} =>
               row'[p].active = IF p = h.row /\ h.flag # (h.pc = "join_revive")
                                  THEN h.pc = "join_revive" ELSE row[p].active

LEMMA RowFields ==
  ASSUME TypeOK, HandlersOK, UnusedOK, NEW s \in Slots, WritesRow(s)
  PROVE  /\ row' \in RowType
         /\ \/ req[s].pc = "create_host" /\ Inserted(Host, "streamer")
            \/ req[s].pc = "join_create" /\ Inserted(req[s].user, "viewer")
            \/ Updated(s)
<1> DEFINE T == [user : Users \cup {NoUser}, role : Roles, active : BOOLEAN]
           h == req[s]
<1>1. row \in [Rows -> T] /\ h \in Handlers /\ (h.pc # "idle" => h.user \in Users)
  BY UserTyped DEF TypeOK
<1>2. CASE CreateHost(s)
  <2>1. h.pc = "create_host" /\ NewRow(Host, "streamer")
    BY <1>2 DEF CreateHost
  <2>2. Host \in Users /\ "streamer" \in Roles
    BY DEF Users, Roles
  <2> QED BY <2>1, <2>2, NewRowFields
<1>3. CASE JoinCreate(s)
  <2>1. h.pc = "join_create" /\ NewRow(h.user, "viewer") /\ h.user \in Users
    BY <1>1, <1>3 DEF JoinCreate
  <2>2. "viewer" \in Roles
    BY DEF Roles
  <2> QED BY <2>1, <2>2, NewRowFields
<1>4. CASE EndClear(s)
  <2>1. h.pc = "end_clear" /\ row' = [p \in Rows |-> [row[p] EXCEPT !.active = FALSE]]
    BY <1>4 DEF EndClear, ClearRows
  <2>2. ASSUME NEW p \in Rows
        PROVE  /\ row'[p] \in T /\ row'[p].user = row[p].user /\ row'[p].role = row[p].role
               /\ row'[p].active = FALSE
    <3>1. row[p] \in T
      BY <1>1
    <3> QED BY <2>1, <3>1
  <2>3. row' \in [Rows -> T]
    BY <2>1, <2>2
  <2> QED BY <2>1, <2>2, <2>3 DEF Updated, RowType
<1>5. ASSUME NEW b \in BOOLEAN, SetActive(s, b),
             h.pc \in {"join_revive", "off_save", "ban_save"},
             b = (h.pc = "join_revive")
      PROVE  /\ row' \in [Rows -> T]
             /\ \A p \in Rows :
                  /\ row'[p].user = row[p].user /\ row'[p].role = row[p].role
                  /\ row'[p].active = IF p = h.row /\ h.flag # b THEN b ELSE row[p].active
  <2>1. h.flag \in BOOLEAN
    BY <1>1 DEF Handlers
  <2>2. CASE h.flag = b
    BY <1>1, <1>5, <2>2 DEF SetActive
  <2>3. CASE h.flag # b
    <3> DEFINE x == h.row
    <3>1. row' = [row EXCEPT ![x].active = b]
      BY <1>5, <2>3 DEF SetActive
    <3> HIDE DEF x, h
    <3>2. \A p \in Rows : /\ row'[p] \in T
                          /\ row'[p].user = row[p].user /\ row'[p].role = row[p].role
                          /\ row'[p].active = IF p = x THEN b ELSE row[p].active
      <4> TAKE p \in Rows
      <4>1. row[p] \in T
        BY <1>1
      <4> QED BY <1>1, <3>1, <4>1
    <3>3. row' \in [Rows -> T]
      BY <1>1, <3>1, <3>2
    <3> QED BY <2>3, <3>2, <3>3 DEF x
  <2> QED BY <2>2, <2>3
<1>6. CASE JoinRevive(s)
  <2>1. h.pc = "join_revive" /\ SetActive(s, TRUE)
    BY <1>6 DEF JoinRevive
  <2> QED BY <1>5, <2>1 DEF Updated, RowType
<1>7. CASE OffSave(s) \/ BanSave(s)
  <2>1. h.pc \in {"off_save", "ban_save"} /\ SetActive(s, FALSE)
    BY <1>7 DEF OffSave, BanSave, SaveRow
  <2> QED BY <1>5, <2>1 DEF Updated, RowType
<1>8. CASE CohostSave(s)
  <2> DEFINE x == h.row
  <2>1. h.pc = "cohost_save" /\ row' = [row EXCEPT ![x].role = "co_host"]
    BY <1>8 DEF CohostSave
  <2>2. \A p \in Rows : /\ row'[p] \in T
                        /\ row'[p].user = row[p].user /\ row'[p].active = row[p].active
                        /\ row'[p].role = IF p = x THEN "co_host" ELSE row[p].role
    <3> TAKE p \in Rows
    <3>1. row[p] \in T
      BY <1>1
    <3> HIDE DEF x, h
    <3> QED BY <1>1, <2>1, <3>1 DEF Roles
  <2>3. row' \in [Rows -> T]
    <3> HIDE DEF x, h
    <3> QED BY <1>1, <2>1, <2>2
  <2> QED BY <2>1, <2>2, <2>3 DEF Updated, RowType
<1> QED BY <1>2, <1>3, <1>4, <1>6, <1>7, <1>8 DEF WritesRow

-----------------------------------------------------------------------------
(* Types *)

AskType == [Asks -> [user : Users \cup {NoUser},
                     status : {"none", "pending", "approved", "denied"}]]

\* What a step does to the join requests.
LEMMA AskFields ==
  ASSUME TypeOK, HandlersOK, UnusedOK, NEW s \in Slots, WritesAsk(s)
  PROVE  /\ ask' \in AskType
         /\ \/ /\ req[s].pc = "ask_create" /\ granted' = granted
               /\ \E a \in Asks :
                    /\ ask[a].status = "none"
                    /\ ask'[a].user = req[s].user /\ ask'[a].status = "pending"
                    /\ \A b \in Asks \ {a} : ask'[b] = ask[b]
            \/ \E a \in Asks, st \in {"approved", "denied"} :
                 /\ req[s].pc = "answer" /\ a = req[s].ask
                 /\ ask'[a].user = ask[a].user /\ ask'[a].status = st
                 /\ \A b \in Asks \ {a} : ask'[b] = ask[b]
                 /\ granted' = IF st = "approved" THEN granted \cup {ask[a].user} ELSE granted
<1> DEFINE T == [user : Users \cup {NoUser}, status : {"none", "pending", "approved", "denied"}]
<1>1. ask \in [Asks -> T]
  BY DEF TypeOK
<1>2. CASE AskCreate(s)
  <2> DEFINE a == Fresh(ask, NoRequest)
             u == req[s].user
             new == [user |-> u, status |-> "pending"]
  <2>1. /\ req[s].pc = "ask_create" /\ \E b \in Asks : ask[b] = NoRequest
        /\ ask' = [ask EXCEPT ![a] = new] /\ granted' = granted
    BY <1>2 DEF AskCreate
  <2>2. u \in Users
    BY <2>1, UserTyped
  <2>3. a \in Asks /\ ask[a] = NoRequest
    BY <1>1, <2>1 DEF Fresh
  <2>4. new \in T /\ new.user = u /\ new.status = "pending"
    BY <2>2
  <2> HIDE DEF a, new, u
  <2>5. /\ ask' \in [Asks -> T] /\ ask'[a] = new /\ \A b \in Asks \ {a} : ask'[b] = ask[b]
    BY <1>1, <2>1, <2>3, <2>4
  <2>6. ask[a].status = "none"
    BY <2>3 DEF NoRequest
  <2> QED BY <2>1, <2>3, <2>4, <2>5, <2>6 DEF u, AskType
<1>3. ASSUME NEW st \in {"approved", "denied"}, Answer(s, st)
      PROVE  /\ ask' \in AskType
             /\ \E a \in Asks :
                  /\ req[s].pc = "answer" /\ a = req[s].ask
                  /\ ask'[a].user = ask[a].user /\ ask'[a].status = st
                  /\ \A b \in Asks \ {a} : ask'[b] = ask[b]
                  /\ granted' = IF st = "approved" THEN granted \cup {ask[a].user} ELSE granted
  <2> DEFINE a == req[s].ask
  <2>1. /\ req[s].pc = "answer" /\ ask' = [ask EXCEPT ![a].status = st]
        /\ granted' = IF st = "approved" THEN granted \cup {ask[a].user} ELSE granted
    BY <1>3 DEF Answer
  <2>2. a \in Asks
    BY <2>1 DEF HandlersOK, HandlerOK
  <2>3. /\ ask' \in [Asks -> T]
        /\ ask'[a].user = ask[a].user /\ ask'[a].status = st
        /\ \A b \in Asks \ {a} : ask'[b] = ask[b]
    <3> HIDE DEF a
    <3>1. ask[a] \in T
      BY <1>1, <2>2
    <3>2. /\ [ask[a] EXCEPT !.status = st] \in T
          /\ [ask[a] EXCEPT !.status = st].user = ask[a].user
          /\ [ask[a] EXCEPT !.status = st].status = st
      BY <3>1
    <3> QED BY <1>1, <2>1, <2>2, <3>2
  <2> QED BY <2>1, <2>2, <2>3 DEF AskType
<1> QED BY <1>2, <1>3 DEF WritesAsk

LEMMA MessageType ==
  ASSUME TypeOK, NEW s \in Slots, WritesMessage(s)
  PROVE  message' \in [Messages -> [sent : BOOLEAN, gift : BOOLEAN, pinned : BOOLEAN]]
<1> DEFINE T == [sent : BOOLEAN, gift : BOOLEAN, pinned : BOOLEAN]
<1>1. message \in [Messages -> T] /\ req[s].flag \in BOOLEAN
  BY DEF TypeOK, Handlers
<1>2. CASE MessageCreate(s)
  <2> DEFINE b == req[s].flag
             m == Fresh(message, Unsent)
  <2>1. message' = [message EXCEPT ![m] = [sent |-> TRUE, gift |-> b, pinned |-> FALSE]]
    BY <1>2 DEF MessageCreate
  <2>2. b \in BOOLEAN
    BY <1>1
  <2> HIDE DEF m, b
  <2> QED BY <1>1, <2>1, <2>2
<1>3. CASE PinClear(s)
  <2>1. message' = [m \in Messages |-> [message[m] EXCEPT !.pinned = FALSE]]
    BY <1>3 DEF PinClear, SetPinned, AllUnpinned
  <2>2. \A m \in Messages : [message[m] EXCEPT !.pinned = FALSE] \in T
    <3> TAKE m \in Messages
    <3>1. message[m] \in T
      BY <1>1
    <3> QED BY <3>1
  <2> QED BY <2>1, <2>2
<1>4. ASSUME NEW on \in BOOLEAN, message' = Pinned(s, on) PROVE message' \in [Messages -> T]
  <2> DEFINE m == req[s].message
  <2>1. message' = message \/ message' = [message EXCEPT ![m].pinned = on]
    BY <1>4 DEF Pinned
  <2> HIDE DEF m
  <2>2. m \in Messages => [message[m] EXCEPT !.pinned = on] \in T
    <3>1. m \in Messages => message[m] \in T
      BY <1>1
    <3> QED BY <3>1
  <2> QED BY <1>1, <2>1, <2>2
<1>5. CASE PinSet(s) \/ UnpinSet(s)
  BY <1>4, <1>5 DEF PinSet, UnpinSet, SetPinned
<1> QED BY <1>2, <1>3, <1>5 DEF WritesMessage

\* What a step does to the status of the stream.
LEMMA StatusFields ==
  ASSUME TypeOK, NEW s \in Slots, Continue(s)
  PROVE  \/ UNCHANGED status
         \/ req[s].pc = "start_save" /\ status' = "live"
         \/ req[s].pc = "end_save" /\ status' = "ended" /\ req'[s].pc = "end_clear"
         \/ req[s].pc = "record_save" /\ status' = "recorded"
         \/ req[s].pc = "delete" /\ status' = "deleted"
<1>1. CASE EndSave(s)
  <2>1. req[s].pc = "end_save"
        /\ (UNCHANGED status \/ (status' = "ended" /\ Resume(s, For("end_clear", Host))))
    BY <1>1 DEF EndSave, SaveStatus
  <2>2. ASSUME Resume(s, For("end_clear", Host)) PROVE req'[s].pc = "end_clear"
    <3>1. req' = [req EXCEPT ![s] = For("end_clear", Host)] /\ req \in [Slots -> Handlers]
      BY <2>2 DEF Resume, TypeOK
    <3>2. For("end_clear", Host).pc = "end_clear"
      BY DEF For
    <3> QED BY <3>1, <3>2
  <2> QED BY <2>1, <2>2
<1>2. CASE StartSave(s) \/ RecordSave(s) \/ DeleteOne(s)
  BY <1>2 DEF StartSave, RecordSave, SaveStatus, DeleteOne
<1> QED BY <1>1, <1>2, ContinueWrites DEF WritesStatus

\* What a step does to the balances, of which the host's may grow.
LEMMA BalanceFields ==
  ASSUME TypeOK, HandlersOK, NEW s \in Slots, Continue(s)
  PROVE  /\ balance' \in [Users -> Int]
         /\ IF req[s].pc = "join_charge"
              THEN /\ balance'[req[s].user] = balance[req[s].user] - Price
                   /\ \A u \in Users \ {req[s].user} : balance'[u] = balance[u]
                   /\ req'[s].pc = "join_credit" /\ req'[s].user = req[s].user
              ELSE \A u \in Viewers : balance'[u] = balance[u]
<1>1. /\ balance \in [Users -> Int] /\ Host \in Users /\ Host \notin Viewers
      /\ Price \in Int /\ GiftPrice \in Int
  BY StreamAssumption DEF TypeOK, Users
<1>2. ASSUME NEW u \in Users, NEW n \in Int, balance' = [balance EXCEPT ![u] = @ + n]
      PROVE  /\ balance' \in [Users -> Int] /\ balance'[u] = balance[u] + n
             /\ \A v \in Users \ {u} : balance'[v] = balance[v]
  BY <1>1, <1>2
<1>3. CASE JoinCharge(s)
  <2> DEFINE u == req[s].user
  <2>1. /\ req[s].pc = "join_charge" /\ balance' = [balance EXCEPT ![u] = @ + (-Price)]
        /\ Resume(s, For("join_credit", u))
    BY <1>3 DEF JoinCharge, Pay
  <2>2. u \in Users
    BY <2>1, UserTyped
  <2>3. For("join_credit", u) \in Handlers /\ For("join_credit", u).pc = "join_credit"
        /\ For("join_credit", u).user = u
    <3>1. "join_credit" \in PC /\ u \in Users \cup {NoUser}
      BY <2>2 DEF PC
    <3> HIDE DEF u
    <3> QED BY <3>1, ForType
  <2>4. req'[s] = For("join_credit", u)
    BY <2>1, <2>3, PutFields DEF Resume
  <2>5. -Price \in Int
    BY <1>1
  <2>6. /\ balance' \in [Users -> Int] /\ balance'[u] = balance[u] + (-Price)
        /\ \A v \in Users \ {u} : balance'[v] = balance[v]
    BY <1>2, <2>1, <2>2, <2>5
  <2>7. balance[u] + (-Price) = balance[u] - Price
    BY <1>1, <2>2
  <2> QED BY <2>1, <2>3, <2>4, <2>6, <2>7
<1>4. CASE JoinCredit(s) \/ Gift(s)
  <2>1. /\ req[s].pc # "join_charge"
        /\ \E n \in {Price, GiftPrice} : balance' = [balance EXCEPT ![Host] = @ + n]
    BY <1>4 DEF JoinCredit, Gift, Pay
  <2>2. PICK n \in {Price, GiftPrice} : balance' = [balance EXCEPT ![Host] = @ + n]
    BY <2>1
  <2>3. n \in Int
    BY <1>1
  <2>4. /\ balance' \in [Users -> Int]
        /\ \A v \in Users \ {Host} : balance'[v] = balance[v]
    BY <1>1, <1>2, <2>2, <2>3
  <2> QED BY <1>1, <2>1, <2>4 DEF Users
<1>5. CASE UNCHANGED balance /\ ~JoinCharge(s)
  <2>1. ASSUME req[s].pc = "join_charge" PROVE FALSE
    BY <1>5, <2>1 DEF Continue, CreateHost, StartSave, EndSave, SaveStatus, EndClear, RecordSave,
       DeleteOne, JoinWallet, JoinCredit, Pay, JoinGate, JoinFind, NoRowId, JoinCreate, JoinRevive,
       JoinCount, Counted, OffSave, BanSave, SaveRow, BanList, OffCount, CohostSave, MessageCheck,
       MessageNoId, MessageCreate, Gift, GiftAborted, PinFind, PinClear, PinSet, SetPinned,
       PinNote, NotePin, UnpinFind, UnpinSet, UnpinNote, LikeWrite, AskFind, AskNoId, AskCreate,
       Answer
  <2> QED BY <1>1, <1>5, <2>1
<1> QED BY <1>3, <1>4, <1>5, ContinueWrites

\* What a step does to the two counters and to the lists beside them.
LEMMA CounterFields ==
  ASSUME TypeOK, HandlersOK, NEW s \in Slots, Continue(s)
  PROVE  /\ \/ viewerCount' = viewerCount
            \/ req[s].pc = "join_count" /\ viewerCount' = viewerCount + 1
            \/ req[s].pc = "off_count" /\ viewerCount' = viewerCount - 1
         /\ \/ banned' = banned
            \/ req[s].pc = "ban_list" /\ banned' = banned \cup {req[s].user}
         /\ \/ likedBy' = likedBy /\ likesCount' = likesCount
            \/ /\ req[s].pc = "like"
               /\ IF req[s].flag THEN /\ likedBy' = likedBy \ {req[s].user}
                                      /\ likesCount' = likesCount - 1
                                 ELSE /\ likedBy' = likedBy \cup {req[s].user}
                                      /\ likesCount' = likesCount + 1
<1>1. viewerCount \in Int /\ likesCount \in Int
  BY DEF TypeOK
<1>2. \/ viewerCount' = viewerCount
      \/ req[s].pc = "join_count" /\ viewerCount' = viewerCount + 1
      \/ req[s].pc = "off_count" /\ viewerCount' = viewerCount - 1
  BY <1>1, ContinueWrites DEF JoinCount, OffCount, Counted
<1>3. banned' = banned \/ (req[s].pc = "ban_list" /\ banned' = banned \cup {req[s].user})
  BY ContinueWrites DEF BanList
<1>4. \/ likedBy' = likedBy /\ likesCount' = likesCount
      \/ /\ req[s].pc = "like"
         /\ IF req[s].flag THEN likedBy' = likedBy \ {req[s].user} /\ likesCount' = likesCount - 1
                           ELSE /\ likedBy' = likedBy \cup {req[s].user}
                                /\ likesCount' = likesCount + 1
  BY <1>1, ContinueWrites DEF LikeWrite, Likes
<1> QED BY <1>2, <1>3, <1>4

-----------------------------------------------------------------------------
(* The types, the handlers and the unused ids *)

LEMMA Inv1Init == ASSUME Init PROVE Inv1
<1> DEFINE T == [user : Users \cup {NoUser}, role : Roles, active : BOOLEAN]
<1>1. /\ Idle \in Handlers /\ Idle.pc = "idle" /\ scene.restarts \in Nat
      /\ NoUser \notin Users /\ Wallet \in [Users -> Int]
  BY IdleType, StreamAssumption DEF Init
<1>2. Absent \in T /\ Absent.user = NoUser
  BY DEF Absent, Roles
<1>3. row \in [Rows -> T]
  BY <1>2 DEF Init
<1>4. message \in [Messages -> [sent : BOOLEAN, gift : BOOLEAN, pinned : BOOLEAN]]
  BY DEF Init, Unsent
<1>5. NoRequest \in [user : Users \cup {NoUser}, status : {"none", "pending", "approved", "denied"}]
      /\ NoRequest.status = "none"
  BY DEF NoRequest
<1>6. ask \in [Asks -> [user : Users \cup {NoUser},
                        status : {"none", "pending", "approved", "denied"}]]
  BY <1>5 DEF Init
<1>7. TypeOK
  <2>1. restarts \in 0..scene.restarts
    BY <1>1 DEF Init
  <2>2. req \in [Slots -> Handlers]
    BY <1>1 DEF Init
  <2>3. /\ scene \in Scenes /\ viewerCount \in Int /\ likesCount \in Int /\ banned \subseteq Users
        /\ status \in {"none", "scheduled", "live", "ended", "recorded", "deleted"}
        /\ likedBy \subseteq Users /\ pinnedId \in Messages \cup {NoMessage}
        /\ granted \subseteq Users
    <3>1. /\ scene \in Scenes /\ viewerCount = 0 /\ likesCount = 0 /\ banned = {}
          /\ status = "none" /\ likedBy = {} /\ pinnedId = NoMessage
          /\ granted = {}
      BY DEF Init
    <3> QED BY <3>1
  <2>4. balance \in [Users -> Int]
    BY <1>1 DEF Init
  <2>5. overlapped \in BOOLEAN
    BY DEF Init
  <2> QED BY <1>3, <1>4, <1>6, <2>1, <2>2, <2>3, <2>4, <2>5 DEF TypeOK
<1>8. HandlersOK
  BY <1>1 DEF Init, HandlersOK, HandlerOK, JoinPcs, RowPcs
<1>9. UnusedOK
  BY <1>5 DEF Init, UnusedOK
<1> QED BY <1>7, <1>8, <1>9 DEF Inv1

LEMMA TypeStep == ASSUME Inv1, [Next]_vars PROVE TypeOK'
<1> USE DEF Inv1
<1>1. CASE UNCHANGED vars
  BY <1>1 DEF vars, documents, streamDoc, counters, others, process, TypeOK
<1>2. CASE Restart
  <2>1. restarts + 1 \in 0..scene.restarts
    <3>1. scene.restarts \in Nat
      BY StreamAssumption DEF TypeOK
    <3> QED BY <1>2, <3>1 DEF Restart, TypeOK
  <2>2. req' \in [Slots -> Handlers] /\ overlapped' \in BOOLEAN
    BY <1>2, IdleType DEF Restart, TypeOK
  <2>3. UNCHANGED <<scene, status, viewerCount, banned, likedBy, likesCount, pinnedId, row,
                    message, ask, balance, granted>>
    BY <1>2 DEF Restart, documents, streamDoc, counters, others
  <2> QED BY <1>2, <2>1, <2>2, <2>3 DEF Restart, TypeOK
<1>3. ASSUME NEW s \in Slots, Start(s) PROVE TypeOK'
  <2>1. Begins(s)
    BY <1>3, StartMoves
  <2> QED BY <2>1 DEF Begins, TypeOK
<1>4. ASSUME NEW s \in Slots, Continue(s) PROVE TypeOK'
  <2>1. Moves(s)
    BY <1>4, ContinueMoves
  <2>2. scene' \in Scenes /\ req' \in [Slots -> Handlers] /\ overlapped' \in BOOLEAN
        /\ restarts' \in 0..scene'.restarts
    BY <2>1 DEF Moves, TypeOK
  <2>3. status' \in {"none", "scheduled", "live", "ended", "recorded", "deleted"}
    BY <1>4, StatusFields DEF TypeOK
  <2>4. req[s].pc \in {"ban_list", "like"} => req[s].user \in Users
    BY UserTyped
  <2>5. viewerCount' \in Int /\ likesCount' \in Int /\ banned' \subseteq Users
        /\ likedBy' \subseteq Users
    BY <1>4, <2>4, CounterFields DEF TypeOK
  <2>6. pinnedId' \in Messages \cup {NoMessage}
    <3>1. req[s].message \in Messages \cup {NoMessage}
      BY DEF TypeOK, Handlers
    <3> QED BY <1>4, <3>1, ContinueWrites DEF PinNote, UnpinNote, NotePin, TypeOK
  <2>7. row' \in [Rows -> [user : Users \cup {NoUser}, role : Roles, active : BOOLEAN]]
    BY <1>4, ContinueWrites, RowFields DEF RowType, TypeOK
  <2>8. message' \in [Messages -> [sent : BOOLEAN, gift : BOOLEAN, pinned : BOOLEAN]]
    BY <1>4, ContinueWrites, MessageType DEF TypeOK
  <2>9. ask' \in AskType /\ granted' \subseteq Users
    <3>1. CASE WritesAsk(s)
      <4>1. ask' \in AskType
        BY <3>1, AskFields
      <4>2. granted' = granted \/ \E a \in Asks : granted' = granted \cup {ask[a].user}
                                               /\ ask[a].status # "none"
        BY <3>1, AskFields DEF HandlersOK, HandlerOK
      <4> QED BY <4>1, <4>2 DEF UnusedOK, TypeOK
    <3> QED BY <1>4, <3>1, ContinueWrites DEF AskType, TypeOK
  <2>10. balance' \in [Users -> Int]
    BY <1>4, BalanceFields
  <2> QED BY <2>2, <2>3, <2>5, <2>6, <2>7, <2>8, <2>9, <2>10 DEF TypeOK, AskType
<1> QED BY <1>1, <1>2, <1>3, <1>4 DEF Next

\* The join requests and the participants keep what they are, but for one new.
LEMMA KeepsAsks ==
  ASSUME TypeOK, HandlersOK, UnusedOK, NEW s \in Slots, Continue(s)
  PROVE  \A a \in Asks : ask[a].status # "none" =>
           ask'[a].status # "none" /\ ask'[a].user = ask[a].user
BY ContinueWrites, AskFields

LEMMA KeepsUsers ==
  ASSUME TypeOK, HandlersOK, UnusedOK, NEW s \in Slots, Continue(s)
  PROVE  \A p \in Rows : row[p].user # NoUser => row'[p].user = row[p].user
<1>1. CASE WritesRow(s)
  BY <1>1, RowFields DEF Inserted, Updated
<1> QED BY <1>1, ContinueWrites

\* What joinLiveStream has found of the user's participants.
LEMMA Found ==
  ASSUME TypeOK, HandlersOK, NEW s \in Slots, Continue(s)
  PROVE  /\ req'[s].pc = "join_create" => RowsOf(req[s].user) = {} /\ UNCHANGED row
         /\ req'[s].pc = "join_revive" =>
              /\ UNCHANGED documents
              /\ req'[s].row \in RowsOf(req[s].user)
              /\ req'[s].role = row[req'[s].row].role /\ req'[s].flag = row[req'[s].row].active
<1> SUFFICES ASSUME req'[s].pc \in {"join_create", "join_revive"}
             PROVE  /\ req'[s].pc = "join_create" => RowsOf(req[s].user) = {} /\ UNCHANGED row
                    /\ req'[s].pc = "join_revive" =>
                         /\ UNCHANGED documents
                         /\ req'[s].row \in RowsOf(req[s].user)
                         /\ req'[s].role = row[req'[s].row].role
                         /\ req'[s].flag = row[req'[s].row].active
  OBVIOUS
<1> DEFINE u == req[s].user
<1>1. req[s].pc = "join_find" /\ u \in Users
  <2>1. Moves(s)
    BY ContinueMoves
  <2> QED BY <2>1, UserTyped DEF Moves, Flow
<1>2. JoinFind(s)
  BY <1>1 DEF Continue, CreateHost, StartSave, EndSave, SaveStatus, EndClear, RecordSave,
     DeleteOne, JoinWallet, JoinCharge, JoinCredit, Pay, JoinGate, NoRowId, JoinCreate, JoinRevive,
     JoinCount, Counted, OffSave, BanSave, SaveRow, BanList, OffCount, CohostSave, MessageCheck,
     MessageNoId, MessageCreate, Gift, GiftAborted, PinFind, PinClear, PinSet, SetPinned,
     PinNote, NotePin, UnpinFind, UnpinSet, UnpinNote, LikeWrite, AskFind, AskNoId, AskCreate,
     Answer
<1>3. UNCHANGED documents /\ UNCHANGED row
  BY <1>2 DEF JoinFind, Proceed, documents, others
<1>4. ASSUME NEW p \in RowsOf(u), Resume(s, WithRow("join_revive", u, p))
      PROVE  /\ req'[s].pc = "join_revive" /\ req'[s].row = p
             /\ req'[s].role = row[p].role /\ req'[s].flag = row[p].active
  <2> DEFINE h == WithRow("join_revive", u, p)
  <2>1. "join_revive" \in PC /\ p \in Rows
    BY DEF PC, RowsOf
  <2>2. h \in Handlers /\ h.pc = "join_revive" /\ h.row = p /\ h.role = row[p].role
        /\ h.flag = row[p].active
    BY <1>1, <2>1, WithRowFields
  <2>3. req' = [req EXCEPT ![s] = h]
    BY <1>4 DEF Resume
  <2> HIDE DEF h
  <2>4. req'[s] = h
    BY <2>2, <2>3, PutFields
  <2> QED BY <2>2, <2>4
<1>5. CASE RowsOf(u) = {}
  <2>1. Resume(s, For("join_create", u))
    BY <1>2, <1>5 DEF JoinFind, Proceed
  <2>2. "join_create" \in PC /\ u \in Users \cup {NoUser}
    BY <1>1 DEF PC
  <2>3. For("join_create", u) \in Handlers /\ For("join_create", u).pc = "join_create"
    BY <2>2, ForType
  <2>4. req'[s] = For("join_create", u)
    BY <2>1, <2>3, PutFields DEF Resume
  <2> QED BY <1>3, <1>5, <2>3, <2>4
<1>6. CASE RowsOf(u) # {}
  <2>1. PICK p \in RowsOf(u) : Resume(s, WithRow("join_revive", u, p))
    BY <1>2, <1>6 DEF JoinFind, Proceed
  <2>2. /\ req'[s].pc = "join_revive" /\ req'[s].row = p
        /\ req'[s].role = row[p].role /\ req'[s].flag = row[p].active
    BY <1>4, <2>1
  <2> QED BY <1>3, <2>2
<1> QED BY <1>5, <1>6

LEMMA HandlersStep == ASSUME Inv1, [Next]_vars PROVE HandlersOK'
<1> USE DEF Inv1
<1>1. CASE UNCHANGED vars
  BY <1>1 DEF vars, documents, others, HandlersOK, HandlerOK
<1>2. CASE Restart
  BY <1>2, IdleType DEF Restart, HandlersOK, HandlerOK, JoinPcs, RowPcs
<1>3. ASSUME NEW s \in Slots, Start(s) PROVE HandlersOK'
  <2>1. Begins(s) /\ Reads(s)
    BY <1>3, StartMoves
  <2>2. HandlerOK(s)'
    <3>1. req'[s].pc = "answer" => req'[s].ask \in Asks /\ ask'[req'[s].ask].status # "none"
      BY <2>1 DEF Begins, Reads
    <3>2. req'[s].pc \in RowPcs => req'[s].row \in Rows /\ row'[req'[s].row].user = req'[s].user
      BY <2>1 DEF Begins, Reads, RowPcs
    <3>3. Users = Viewers \cup {Host}
      BY DEF Users
    <3> QED BY <2>1, <3>1, <3>2, <3>3 DEF Reads, HandlerOK, JoinPcs
  <2>3. ASSUME NEW t \in Slots \ {s} PROVE HandlerOK(t)'
    BY <2>1 DEF Begins, HandlersOK, HandlerOK
  <2> QED BY <2>2, <2>3 DEF HandlersOK
<1>4. ASSUME NEW s \in Slots, Continue(s) PROVE HandlersOK'
  <2>1. Moves(s)
    BY <1>4, ContinueMoves
  <2> DEFINE Reading(t) == req[t].pc \in RowPcs =>
                             req[t].row \in Rows /\ row[req[t].row].user = req[t].user
  <2>2. HandlerOK(s)'
    <3>1. CASE req'[s].pc = "idle"
      BY <3>1 DEF HandlerOK, JoinPcs, RowPcs
    <3>2. CASE req'[s].pc # "idle"
      <4>1. /\ Flow(req[s].pc, req'[s].pc)
            /\ req'[s].user = IF req'[s].pc = "end_clear" THEN Host ELSE req[s].user
            /\ req'[s].pc \in {"ban_list", "off_count"} => req'[s].row = req[s].row
        BY <2>1, <3>2 DEF Moves
      <4>2. req[s].pc # "idle" /\ HandlerOK(s)
        BY <2>1 DEF Moves, HandlersOK
      <4>3. Reading(s)'
        <5>1. CASE req'[s].pc \in {"ban_list", "off_count"}
          <6>1. req[s].pc \in RowPcs
            BY <4>1, <5>1 DEF Flow, RowPcs
          <6>2. /\ req[s].row \in Rows /\ row[req[s].row].user = req[s].user
                /\ req[s].user # NoUser
            BY <4>2, <6>1, StreamAssumption DEF HandlerOK
          <6> QED BY <1>4, <4>1, <5>1, <6>2, KeepsUsers
        <5>2. CASE req'[s].pc = "join_revive"
          BY <1>4, <4>1, <5>2, Found DEF documents, others, RowsOf
        <5>3. CASE req'[s].pc \notin {"ban_list", "off_count", "join_revive"}
          BY <4>1, <5>3 DEF Flow, RowPcs
        <5> QED BY <5>1, <5>2, <5>3
      <4> QED BY <4>1, <4>2, <4>3 DEF Flow, HandlerOK, JoinPcs, Users
    <3> QED BY <3>1, <3>2
  <2>3. ASSUME NEW t \in Slots \ {s} PROVE HandlerOK(t)'
    <3>1. req'[t] = req[t] /\ HandlerOK(t)
      BY <2>1 DEF Moves, HandlersOK
    <3>2. Reading(t)'
      BY <1>4, <3>1, KeepsUsers, StreamAssumption DEF HandlerOK, RowPcs
    <3> QED BY <1>4, <3>1, <3>2, KeepsAsks DEF HandlerOK
  <2> QED BY <2>2, <2>3 DEF HandlersOK
<1> QED BY <1>1, <1>2, <1>3, <1>4 DEF Next

LEMMA UnusedStep == ASSUME Inv1, [Next]_vars PROVE UnusedOK'
<1> USE DEF Inv1
<1>1. CASE UNCHANGED <<row, ask>>
  BY <1>1 DEF UnusedOK
<1>2. ASSUME NEW s \in Slots, Continue(s) PROVE UnusedOK'
  <2>1. ASSUME NEW p \in Rows, row'[p].user = NoUser PROVE row'[p] = Absent
    <3>1. CASE UNCHANGED row
      BY <2>1, <3>1 DEF UnusedOK
    <3>2. ASSUME NEW u \in Users, NEW role, Inserted(u, role) PROVE row'[p] = Absent
      <4>1. row'[p] = row[p]
        BY <2>1, <3>2, StreamAssumption DEF Inserted
      <4> QED BY <2>1, <4>1 DEF UnusedOK
    <3>3. CASE Updated(s) /\ row' \in RowType
      <4>1. row'[p].user = row[p].user /\ row[p] = Absent
        BY <2>1, <3>3 DEF Updated, UnusedOK
      <4>2. req[s].pc = "end_clear" \/ p # req[s].row
        BY <2>1, <3>3, <4>1, StreamAssumption DEF Updated, HandlersOK, HandlerOK, RowPcs
      <4>3. row'[p].active = FALSE /\ row'[p].role = "viewer"
        BY <3>3, <4>1, <4>2 DEF Updated, Absent
      <4>4. row'[p] \in [user : Users \cup {NoUser}, role : Roles, active : BOOLEAN]
        BY <3>3 DEF RowType
      <4> QED BY <2>1, <4>3, <4>4 DEF Absent
    <3>4. CASE WritesRow(s)
      <4>1. Host \in Users /\ (req[s].pc = "join_create" => req[s].user \in Users)
        BY UserTyped DEF Users
      <4> QED BY <3>2, <3>3, <3>4, <4>1, RowFields
    <3> QED BY <1>2, <3>1, <3>4, ContinueWrites
  <2>2. ASSUME NEW a \in Asks, ask'[a].status # "none" PROVE ask'[a].user \in Users
    <3>1. CASE UNCHANGED ask
      BY <2>2, <3>1 DEF UnusedOK
    <3>2. CASE WritesAsk(s)
      <4>1. req[s].pc = "ask_create" => req[s].user \in Users
        BY UserTyped
      <4>2. req[s].pc = "answer" => req[s].ask \in Asks /\ ask[req[s].ask].status # "none"
        BY DEF HandlersOK, HandlerOK
      <4> QED BY <2>2, <3>2, <4>1, <4>2, AskFields DEF UnusedOK
    <3> QED BY <1>2, <3>1, <3>2, ContinueWrites
  <2> QED BY <2>1, <2>2 DEF UnusedOK
<1>3. CASE Restart \/ UNCHANGED vars
  BY <1>1, <1>3 DEF Restart, vars, documents, others
<1>4. ASSUME NEW s \in Slots, Start(s) PROVE UnusedOK'
  BY <1>1, <1>4, StartMoves DEF Begins
<1> QED BY <1>2, <1>3, <1>4 DEF Next

LEMMA Inv1Step == Inv1 /\ [Next]_vars => Inv1'
BY TypeStep, HandlersStep, UnusedStep DEF Inv1

LEMMA Inv1Always == Spec => []Inv1
BY Inv1Init, Inv1Step, PTL DEF Spec

\* TypeOK of every run: whatever the users and the host ask for, in any order
\* and cut off anywhere, every document and every handler has its type.
THEOREM TypeCorrect == Spec => []TypeOK
<1>1. Inv1 => TypeOK
  BY DEF Inv1
<1> QED BY <1>1, Inv1Always, PTL

-----------------------------------------------------------------------------
(* The host's approval *)

Asking == scene.kind.approval /\ ~scene.kind.isPrivate

\* The approval in the database is one that was given, and a user who was let
\* past it had it: what a handler holds after it looked stays true.
GrantedOK ==
  Asking =>
    /\ \A a \in Asks : ask[a].status = "approved" => ask[a].user \in granted
    /\ \A s \in Slots : req[s].pc \in {"join_find", "join_create"} => req[s].user \in granted
    /\ \A p \in Rows : row[p].user \in Viewers => row[p].user \in granted

LEMMA GrantedGrows ==
  ASSUME TypeOK, HandlersOK, UnusedOK, NEW s \in Slots, Continue(s)
  PROVE  granted \subseteq granted'
BY ContinueWrites, AskFields

\* Only the gate leads on to the participants.
LEMMA Gate ==
  ASSUME TypeOK, HandlersOK, NEW s \in Slots, Continue(s), req'[s].pc = "join_find", Asking
  PROVE  Approved(req[s].user) /\ UNCHANGED <<ask, granted, row>>
<1>1. req[s].pc = "join_gate"
  <2>1. Moves(s)
    BY ContinueMoves
  <2> QED BY <2>1 DEF Moves, Flow
<1>2. JoinGate(s)
  BY <1>1 DEF Continue, CreateHost, StartSave, EndSave, SaveStatus, EndClear, RecordSave,
     DeleteOne, JoinWallet, JoinCharge, JoinCredit, Pay, JoinFind, NoRowId, JoinCreate, JoinRevive,
     JoinCount, Counted, OffSave, BanSave, SaveRow, BanList, OffCount, CohostSave, MessageCheck,
     MessageNoId, MessageCreate, Gift, GiftAborted, PinFind, PinClear, PinSet, SetPinned,
     PinNote, NotePin, UnpinFind, UnpinSet, UnpinNote, LikeWrite, AskFind, AskNoId, AskCreate,
     Answer
<1>3. ASSUME ~Approved(req[s].user) PROVE FALSE
  <2>1. Resume(s, Idle)
    BY <1>2, <1>3 DEF JoinGate, Proceed, Asking
  <2>2. req'[s] = Idle
    BY <2>1, IdleType, PutFields DEF Resume
  <2> QED BY <2>2, IdleType
<1> QED BY <1>2, <1>3 DEF JoinGate, Proceed, documents, others

LEMMA GrantedInit == ASSUME Init PROVE GrantedOK
<1>1. Idle.pc = "idle" /\ Absent.user = NoUser /\ NoRequest.status = "none" /\ NoUser \notin Viewers
  BY IdleType, StreamAssumption DEF Absent, NoRequest, Users
<1> QED BY <1>1 DEF Init, GrantedOK

LEMMA GrantedStep == ASSUME Inv1, GrantedOK, [Next]_vars PROVE GrantedOK'
<1> USE DEF Inv1
<1>1. CASE Restart \/ UNCHANGED vars
  <2>1. UNCHANGED <<scene, ask, row, granted>>
        /\ \A t \in Slots : req'[t].pc = "idle" \/ req'[t] = req[t]
    BY <1>1, IdleType DEF Restart, vars, documents, others
  <2> QED BY <2>1 DEF GrantedOK, Asking
<1>2. ASSUME NEW s \in Slots, Start(s) PROVE GrantedOK'
  <2>1. Begins(s) /\ Reads(s)
    BY <1>2, StartMoves
  <2> QED BY <2>1 DEF Begins, Reads, GrantedOK, Asking
<1>3. ASSUME NEW s \in Slots, Continue(s), Asking' PROVE GrantedOK'
  <2>1. Moves(s) /\ Asking /\ granted \subseteq granted'
    BY <1>3, ContinueMoves, GrantedGrows DEF Moves, Asking
  <2>2. ASSUME NEW a \in Asks, ask'[a].status = "approved" PROVE ask'[a].user \in granted'
    <3>1. CASE UNCHANGED ask
      BY <2>1, <2>2, <3>1 DEF GrantedOK
    <3>2. CASE WritesAsk(s)
      BY <2>1, <2>2, <3>2, AskFields DEF GrantedOK
    <3> QED BY <1>3, <3>1, <3>2, ContinueWrites
  <2>3. ASSUME NEW t \in Slots, req'[t].pc \in {"join_find", "join_create"}
        PROVE  req'[t].user \in granted'
    <3>1. CASE t # s
      BY <2>1, <2>3, <3>1 DEF Moves, GrantedOK
    <3>2. CASE t = s /\ req'[s].pc = "join_create"
      <4>1. req[s].pc = "join_find" /\ req'[s].user = req[s].user
        BY <2>1, <3>2 DEF Moves, Flow
      <4> QED BY <2>1, <3>2, <4>1 DEF GrantedOK
    <3>3. CASE t = s /\ req'[s].pc = "join_find"
      <4>1. req'[s].user = req[s].user
        BY <2>1, <3>3 DEF Moves
      <4>2. PICK a \in Asks : ask[a] = [user |-> req[s].user, status |-> "approved"]
        BY <1>3, <2>1, <3>3, Gate DEF Approved
      <4>3. ask[a].user = req[s].user /\ ask[a].status = "approved"
        BY <4>2
      <4> QED BY <2>1, <3>3, <4>1, <4>3 DEF GrantedOK
    <3> QED BY <2>3, <3>1, <3>2, <3>3
  <2>4. ASSUME NEW p \in Rows, row'[p].user \in Viewers PROVE row'[p].user \in granted'
    <3>1. CASE UNCHANGED row
      BY <2>1, <2>4, <3>1 DEF GrantedOK
    <3>2. CASE WritesRow(s)
      <4>1. CASE Updated(s)
        BY <2>1, <2>4, <4>1 DEF GrantedOK, Updated
      <4>2. CASE Inserted(Host, "streamer")
        BY <2>1, <2>4, <4>2, StreamAssumption DEF GrantedOK, Inserted
      <4>3. CASE req[s].pc = "join_create" /\ Inserted(req[s].user, "viewer")
        BY <2>1, <2>4, <4>3 DEF GrantedOK, Inserted
      <4> QED BY <3>2, <4>1, <4>2, <4>3, RowFields
    <3> QED BY <1>3, <3>1, <3>2, ContinueWrites
  <2> QED BY <2>2, <2>3, <2>4 DEF GrantedOK
<1>4. ASSUME NEW s \in Slots, Continue(s) PROVE GrantedOK'
  BY <1>3, <1>4 DEF GrantedOK
<1> QED BY <1>1, <1>2, <1>4 DEF Next

\* Who has a participant of a stream that asks for approval was granted it,
\* whatever happens between the host's answer, the look at it and the join.
THEOREM ApprovalRespected == Spec => []ApprovedOnly
<1>1. Init => GrantedOK
  BY GrantedInit
<1>2. Inv1 /\ GrantedOK /\ [Next]_vars => GrantedOK'
  BY GrantedStep
<1>3. GrantedOK => ApprovedOnly
  BY DEF GrantedOK, ApprovedOnly, Asking
<1> QED BY <1>1, <1>2, <1>3, Inv1Always, PTL DEF Spec

-----------------------------------------------------------------------------
(* Paid entry *)

\* Between the charge and the participant it pays for.
PaidPcs == {"join_credit", "join_gate", "join_find", "join_create"}
Pending(u) == {t \in Slots : req[t].pc \in PaidPcs /\ req[t].user = u}

Places(u) == Cardinality(RowsOf(u)) + Cardinality(Pending(u))

\* What a viewer has paid covers the participants he has and those to come.
PaidOK ==
  scene.kind.type = "paid" =>
    \A u \in Viewers : /\ IsFiniteSet(RowsOf(u)) /\ IsFiniteSet(Pending(u))
                       /\ Wallet[u] - balance[u] >= Price * Places(u)

LEMMA Tariff ==
  ASSUME NEW k \in Nat, NEW n \in Nat, Price \in Nat
  PROVE  /\ Price * k \in Int /\ k <= n => Price * k <= Price * n
         /\ Price * (n + 1) = Price * n + Price
<1>1. Price * k \in Int /\ Price * (n + 1) = Price * n + Price
  OBVIOUS
<1>2. ASSUME k <= n PROVE Price * k <= Price * n
  <2>1. n - k \in Nat /\ Price * (n - k) >= 0 /\ Price * (n - k) = Price * n - Price * k
    BY <1>2
  <2>2. Price * n \in Int
    OBVIOUS
  <2> QED BY <1>1, <2>1, <2>2
<1> QED BY <1>1, <1>2

\* A place is made by the charge alone; then it only changes its kind.
LEMMA PlacesStep ==
  ASSUME Inv1, NEW s \in Slots, Continue(s), NEW u \in Viewers,
         IsFiniteSet(RowsOf(u)), IsFiniteSet(Pending(u))
  PROVE  /\ IsFiniteSet(RowsOf(u)') /\ IsFiniteSet(Pending(u)')
         /\ Places(u) \in Nat /\ Places(u)' \in Nat
         /\ Places(u)' <= Places(u) + (IF req[s].pc = "join_charge" /\ req[s].user = u
                                         THEN 1 ELSE 0)
<1> DEFINE R == RowsOf(u)
           P == Pending(u)
           creates == req[s].pc = "join_create" /\ req[s].user = u
           charges == req[s].pc = "join_charge" /\ req[s].user = u
<1>1. Moves(s) /\ TypeOK /\ HandlersOK /\ UnusedOK /\ u # Host /\ u # NoUser
  BY ContinueMoves, StreamAssumption DEF Inv1, Users
<1>2. R' = R \/ (creates /\ \E p \in Rows : p \notin R /\ R' = R \cup {p})
  <2>1. CASE UNCHANGED row
    BY <2>1 DEF RowsOf
  <2>2. CASE Updated(s)
    BY <2>2 DEF RowsOf, Updated
  <2>3. ASSUME NEW v, NEW role, Inserted(v, role)
        PROVE  R' = R \/ (v = u /\ \E p \in Rows : p \notin R /\ R' = R \cup {p})
    <3>1. PICK p \in Rows : /\ row[p].user = NoUser /\ row'[p].user = v
                            /\ \A q \in Rows \ {p} : row'[q] = row[q]
      BY <2>3 DEF Inserted
    <3>2. p \notin R
      BY <1>1, <3>1 DEF RowsOf
    <3>3. CASE v # u
      BY <3>1, <3>2, <3>3 DEF RowsOf
    <3>4. CASE v = u
      <4>1. R' = R \cup {p}
        BY <3>1, <3>4 DEF RowsOf
      <4> QED BY <3>2, <3>4, <4>1
    <3> QED BY <3>3, <3>4
  <2>4. CASE WritesRow(s)
    <3>1. \/ Updated(s) \/ Inserted(Host, "streamer")
          \/ req[s].pc = "join_create" /\ Inserted(req[s].user, "viewer")
      BY <1>1, <2>4, RowFields
    <3> QED BY <1>1, <2>2, <2>3, <3>1
  <2> QED BY <2>1, <2>4, ContinueWrites
<1>3. \A t \in Slots \ {s} : t \in P' <=> t \in P
  BY <1>1 DEF Moves, Pending
<1>4. s \in P' => s \in P \/ charges
  BY <1>1 DEF Moves, Flow, Pending, PaidPcs
<1>5. creates => s \in P /\ s \notin P'
  BY <1>1 DEF Moves, Flow, Pending, PaidPcs
<1>6. P \subseteq Slots /\ P' \subseteq Slots
  BY DEF Pending
<1> HIDE DEF R, P
<1>7. Cardinality(R) \in Nat /\ Cardinality(P) \in Nat
  BY FS_CardinalityType DEF R, P
<1>8. /\ IsFiniteSet(R') /\ Cardinality(R') \in Nat
      /\ Cardinality(R') <= Cardinality(R) + (IF creates THEN 1 ELSE 0)
  <2>1. IsFiniteSet(R)
    BY DEF R
  <2>2. ASSUME NEW p \in Rows, p \notin R, R' = R \cup {p}
        PROVE  IsFiniteSet(R') /\ Cardinality(R') = Cardinality(R) + 1
    BY <2>1, <2>2, FS_AddElement
  <2> QED BY <1>2, <1>7, <2>1, <2>2
<1>9. /\ IsFiniteSet(P') /\ Cardinality(P') \in Nat
      /\ Cardinality(P') <= Cardinality(P) + (IF charges THEN 1 ELSE 0)
      /\ creates => Cardinality(P') = Cardinality(P) - 1
  <2>1. IsFiniteSet(P)
    BY DEF P
  <2>2. CASE creates
    <3>1. P' = P \ {s} /\ s \in P
      BY <1>3, <1>5, <1>6, <2>2
    <3>2. IsFiniteSet(P') /\ Cardinality(P') = Cardinality(P) - 1
      BY <2>1, <3>1, FS_RemoveElement
    <3> QED BY <1>7, <3>2, FS_CardinalityType
  <2>3. CASE ~creates /\ (s \notin P' \/ s \in P)
    <3>1. P' \subseteq P
      BY <1>3, <1>6, <2>3
    <3>2. IsFiniteSet(P') /\ Cardinality(P') <= Cardinality(P)
      BY <2>1, <3>1, FS_Subset
    <3> QED BY <1>7, <2>3, <3>2, FS_CardinalityType
  <2>4. CASE ~creates /\ s \in P' /\ s \notin P
    <3>1. P' = P \cup {s} /\ charges
      BY <1>3, <1>4, <1>6, <2>4
    <3>2. IsFiniteSet(P') /\ Cardinality(P') = Cardinality(P) + 1
      BY <2>1, <2>4, <3>1, FS_AddElement
    <3> QED BY <1>7, <2>4, <3>1, <3>2
  <2> QED BY <2>2, <2>3, <2>4
<1>10. ~(creates /\ charges)
  OBVIOUS
<1>11. Places(u) = Cardinality(R) + Cardinality(P)
       /\ Places(u)' = Cardinality(R') + Cardinality(P')
  BY DEF Places, R, P
<1> HIDE DEF creates, charges
<1>12. /\ IsFiniteSet(R') /\ IsFiniteSet(P')
       /\ Places(u) \in Nat /\ Places(u)' \in Nat
       /\ Places(u)' <= Places(u) + (IF charges THEN 1 ELSE 0)
  BY <1>7, <1>8, <1>9, <1>10, <1>11
<1> QED BY <1>12 DEF R, P, charges

LEMMA PaidInit == ASSUME Init PROVE PaidOK
<1> SUFFICES ASSUME NEW u \in Viewers
             PROVE  /\ IsFiniteSet(RowsOf(u)) /\ IsFiniteSet(Pending(u))
                    /\ Wallet[u] - balance[u] >= Price * Places(u)
  BY DEF PaidOK
<1>1. /\ Idle.pc = "idle" /\ Absent.user = NoUser /\ u # NoUser
      /\ Wallet[u] \in Int /\ Price \in Nat
  BY IdleType, StreamAssumption DEF Absent, Users
<1>2. RowsOf(u) = {} /\ Pending(u) = {}
  BY <1>1 DEF Init, RowsOf, Pending, PaidPcs
<1>3. Places(u) = 0 /\ IsFiniteSet({})
  BY <1>2, FS_EmptySet DEF Places
<1>4. Wallet[u] - balance[u] = 0
  BY <1>1 DEF Init
<1> QED BY <1>1, <1>2, <1>3, <1>4

LEMMA PaidStep == ASSUME Inv1, PaidOK, [Next]_vars PROVE PaidOK'
<1> SUFFICES ASSUME scene'.kind.type = "paid", NEW u \in Viewers
             PROVE  /\ IsFiniteSet(RowsOf(u)') /\ IsFiniteSet(Pending(u)')
                    /\ Wallet[u] - balance'[u] >= Price * Places(u)'
  BY DEF PaidOK
<1>1. Inv1'
  BY Inv1Step
<1>2. /\ Price \in Nat /\ Wallet[u] \in Int /\ balance[u] \in Int /\ balance'[u] \in Int
  BY <1>1, StreamAssumption DEF Inv1, TypeOK, Users
\* It is enough that the handlers on their way to a participant are no more.
<1>3. ASSUME UNCHANGED <<scene, row, balance>>, Pending(u)' \subseteq Pending(u)
      PROVE  /\ IsFiniteSet(RowsOf(u)') /\ IsFiniteSet(Pending(u)')
             /\ Wallet[u] - balance'[u] >= Price * Places(u)'
  <2>1. /\ IsFiniteSet(RowsOf(u)) /\ IsFiniteSet(Pending(u)) /\ RowsOf(u)' = RowsOf(u)
        /\ Wallet[u] - balance[u] >= Price * Places(u) /\ balance'[u] = balance[u]
    BY <1>3 DEF PaidOK, RowsOf
  <2>2. /\ IsFiniteSet(Pending(u)') /\ Cardinality(Pending(u)') <= Cardinality(Pending(u))
        /\ Cardinality(Pending(u)) \in Nat /\ Cardinality(Pending(u)') \in Nat
        /\ Cardinality(RowsOf(u)) \in Nat
    BY <1>3, <2>1, FS_Subset, FS_CardinalityType
  <2>3. Places(u) \in Nat /\ Places(u)' \in Nat /\ Places(u)' <= Places(u)
    <3>1. Places(u)' = Cardinality(RowsOf(u)) + Cardinality(Pending(u)')
      BY <2>1 DEF Places
    <3> QED BY <2>2, <3>1 DEF Places
  <2>4. Price * Places(u)' <= Price * Places(u) /\ Price * Places(u) \in Int
        /\ Price * Places(u)' \in Int
    BY <1>2, <2>3, Tariff
  <2> QED BY <1>2, <2>1, <2>2, <2>4
<1>4. CASE Restart \/ UNCHANGED vars
  <2>1. UNCHANGED <<scene, row, balance>>
        /\ \A t \in Slots : req'[t].pc = "idle" \/ req'[t] = req[t]
    BY <1>4, IdleType DEF Restart, vars, documents, others
  <2>2. Pending(u)' \subseteq Pending(u)
    BY <2>1 DEF Pending, PaidPcs
  <2> QED BY <1>3, <2>1, <2>2
<1>5. ASSUME NEW s \in Slots, Start(s) PROVE UNCHANGED <<scene, row, balance>>
                                             /\ Pending(u)' \subseteq Pending(u)
  <2>1. Begins(s) /\ Reads(s)
    BY <1>5, StartMoves DEF Inv1
  <2>2. scene' = scene /\ \A t \in Slots \ {s} : req'[t] = req[t]
    BY <2>1 DEF Begins
  <2>3. req'[s].pc \notin PaidPcs
    BY <2>1, <2>2 DEF Reads, PaidPcs
  <2> QED BY <2>1, <2>2, <2>3 DEF Begins, Pending
<1>6. ASSUME NEW s \in Slots, Continue(s)
      PROVE  /\ IsFiniteSet(RowsOf(u)') /\ IsFiniteSet(Pending(u)')
             /\ Wallet[u] - balance'[u] >= Price * Places(u)'
  <2>1. scene' = scene
    BY <1>6, ContinueMoves DEF Inv1, Moves
  <2>2. /\ IsFiniteSet(RowsOf(u)) /\ IsFiniteSet(Pending(u))
        /\ Wallet[u] - balance[u] >= Price * Places(u)
    BY <2>1 DEF PaidOK
  <2> DEFINE charges == req[s].pc = "join_charge" /\ req[s].user = u
  <2>3. /\ IsFiniteSet(RowsOf(u)') /\ IsFiniteSet(Pending(u)')
        /\ Places(u) \in Nat /\ Places(u)' \in Nat
        /\ Places(u)' <= Places(u) + (IF charges THEN 1 ELSE 0)
    BY <1>6, <2>2, PlacesStep
  <2>4. balance'[u] = IF charges THEN balance[u] - Price ELSE balance[u]
    BY <1>6, BalanceFields DEF Inv1, Users
  <2>5. CASE charges
    <3>1. Places(u)' <= Places(u) + 1 /\ balance'[u] = balance[u] - Price
      BY <2>3, <2>4, <2>5
    <3>2. /\ Price * Places(u)' <= Price * (Places(u) + 1)
          /\ Price * (Places(u) + 1) = Price * Places(u) + Price
          /\ Price * Places(u) \in Int /\ Price * Places(u)' \in Int
      <4>1. Places(u) + 1 \in Nat
        BY <2>3
      <4> QED BY <1>2, <2>3, <3>1, <4>1, Tariff
    <3> QED BY <1>2, <2>2, <2>3, <3>1, <3>2
  <2>6. CASE ~charges
    <3>1. Places(u)' <= Places(u) /\ balance'[u] = balance[u]
      BY <2>3, <2>4, <2>6
    <3>2. /\ Price * Places(u)' <= Price * Places(u)
          /\ Price * Places(u) \in Int /\ Price * Places(u)' \in Int
      BY <1>2, <2>3, <3>1, Tariff
    <3> QED BY <1>2, <2>2, <2>3, <3>1, <3>2
  <2> QED BY <2>5, <2>6
<1> QED BY <1>3, <1>4, <1>5, <1>6 DEF Next

\* Nobody is in a paid stream unpaid: a viewer's balance has gone down by the
\* price of every participant he has, however joins overlap or are cut off.
THEOREM EntryPaid == Spec => []EntryIsPaid
<1>1. Init => PaidOK
  BY PaidInit
<1>2. Inv1 /\ PaidOK /\ [Next]_vars => PaidOK'
  BY PaidStep
<1>3. Inv1 /\ PaidOK => EntryIsPaid
  <2> SUFFICES ASSUME Inv1, PaidOK, scene.kind.type = "paid", NEW u \in Viewers
               PROVE  Wallet[u] - balance[u] >= Price * Cardinality(RowsOf(u))
    BY DEF EntryIsPaid
  <2>1. /\ IsFiniteSet(RowsOf(u)) /\ IsFiniteSet(Pending(u))
        /\ Wallet[u] - balance[u] >= Price * Places(u)
        /\ Price \in Nat /\ Wallet[u] \in Int /\ balance[u] \in Int
    BY StreamAssumption DEF PaidOK, Inv1, TypeOK, Users
  <2>2. /\ Cardinality(RowsOf(u)) \in Nat /\ Places(u) \in Nat
        /\ Cardinality(RowsOf(u)) <= Places(u)
    BY <2>1, FS_CardinalityType DEF Places
  <2>3. /\ Price * Cardinality(RowsOf(u)) <= Price * Places(u)
        /\ Price * Cardinality(RowsOf(u)) \in Int /\ Price * Places(u) \in Int
    BY <2>1, <2>2, Tariff
  <2> QED BY <2>1, <2>3
<1> QED BY <1>1, <1>2, <1>3, Inv1Always, PTL DEF Spec

-----------------------------------------------------------------------------
(* One request after the other *)

Watching == {p \in Rows : row[p].active /\ row[p].role = "viewer"}

\* What the documents agree on between any two steps.
Base ==
  /\ banned \subseteq Viewers
  /\ \A p, q \in Rows : row[p].user \in Viewers /\ row[q].user = row[p].user => p = q
  /\ \A p \in Rows : row[p].active => status # "none" /\ row[p].user \notin banned
  /\ IsFiniteSet(Watching) /\ IsFiniteSet(likedBy) /\ likesCount = Cardinality(likedBy)

\* What a lone handler has read is still so when it writes.
Expects(s) ==
  LET h == req[s]
      pc == h.pc
  IN /\ pc \in {"create_host", "start_save"} => status = "scheduled"
     /\ pc = "end_save" => status = "live"
     /\ pc \in {"record_save", "end_clear"} => status = "ended"
     /\ pc \in JoinPcs => status = "live" /\ h.user \notin banned
     /\ pc = "join_create" => RowsOf(h.user) = {}
     /\ pc \in {"join_revive", "off_save", "ban_save", "cohost_save"} =>
          row[h.row].role = h.role /\ row[h.row].active = h.flag
     /\ pc \in {"off_save", "ban_save", "cohost_save"} => h.flag = TRUE
     /\ pc = "cohost_save" => h.role = "viewer"
     /\ pc \in {"off_save", "ban_save", "ban_list", "off_count", "cohost_save"} => status # "none"
     /\ pc = "ban_list" => \A p \in RowsOf(h.user) : ~row[p].active
     /\ pc = "like" => (h.flag <=> h.user \in likedBy)

\* What the handler has still to add to viewerCount.
Due(s) == IF req[s].pc = "join_count" THEN 1
          ELSE IF req[s].pc = "off_count" \/ (req[s].pc = "ban_list" /\ req[s].role = "viewer")
          THEN -1 ELSE 0

\* The count, and the end of the stream, but for what is still to be done.
Rest(due, ending) ==
  /\ status \in {"none", "scheduled", "live"} => viewerCount + due >= Cardinality(Watching)
  /\ status \in {"ended", "recorded"} /\ ~ending => \A p \in Rows : ~row[p].active

SerialOK ==
  ~overlapped =>
    /\ Base
    /\ InProgress = {} => Rest(0, FALSE)
    /\ \A s \in InProgress : /\ InProgress = {s}
                             /\ Expects(s)
                             /\ Rest(Due(s), req[s].pc = "end_clear")

\* Which step a program counter stands for.
LEMMA ActionAt ==
  ASSUME NEW s \in Slots, Continue(s)
  PROVE  /\ req[s].pc = "end_save" => EndSave(s)
         /\ req[s].pc = "end_clear" => EndClear(s)
         /\ req[s].pc = "join_create" => JoinCreate(s) \/ NoRowId(s)
         /\ req[s].pc = "join_revive" => JoinRevive(s)
         /\ req[s].pc = "join_count" => JoinCount(s)
         /\ req[s].pc = "off_save" => OffSave(s)
         /\ req[s].pc = "ban_save" => BanSave(s)
         /\ req[s].pc = "ban_list" => BanList(s)
         /\ req[s].pc = "off_count" => OffCount(s)
         /\ req[s].pc = "cohost_save" => CohostSave(s)
         /\ req[s].pc = "like" => LikeWrite(s)
BY DEF Continue, CreateHost, StartSave, EndSave, SaveStatus, EndClear, RecordSave,
   DeleteOne, JoinWallet, JoinCharge, JoinCredit, Pay, JoinGate, JoinFind, NoRowId, JoinCreate,
   JoinRevive, JoinCount, Counted, OffSave, BanSave, SaveRow, BanList, OffCount, CohostSave,
   MessageCheck, MessageNoId, MessageCreate, Gift, GiftAborted, PinFind, PinClear, PinSet,
   SetPinned, PinNote, NotePin, UnpinFind, UnpinSet, UnpinNote, LikeWrite, AskFind, AskNoId,
   AskCreate, Answer

\* The program counter a handler record leaves.
LEMMA PutPc ==
  ASSUME TypeOK, NEW s \in Slots
  PROVE  /\ Return(s) => req'[s].pc = "idle"
         /\ \A next \in PC : Goto(s, next) => req'[s].pc = next
         /\ \A next \in PC : Resume(s, For(next, req[s].user)) => req'[s].pc = next
         /\ Resume(s, For("end_clear", Host)) => req'[s].pc = "end_clear"
<1>1. req \in [Slots -> Handlers] /\ req[s] \in Handlers
  BY DEF TypeOK
<1>2. Return(s) => req'[s].pc = "idle"
  BY <1>1, IdleType DEF Return, Resume
<1>3. ASSUME NEW next \in PC, Goto(s, next) PROVE req'[s].pc = next
  <2> DEFINE h == [req[s] EXCEPT !.pc = next]
  <2>1. h.pc = next /\ req' = [req EXCEPT ![s] = h]
    BY <1>1, <1>3, SetPc DEF Goto, Resume
  <2> HIDE DEF h
  <2> QED BY <1>1, <2>1
<1>4. ASSUME NEW next, NEW u, Resume(s, For(next, u)) PROVE req'[s].pc = next
  <2>1. For(next, u).pc = next /\ req' = [req EXCEPT ![s] = For(next, u)]
    BY <1>4 DEF Resume, For
  <2> QED BY <1>1, <2>1
<1> QED BY <1>2, <1>3, <1>4

\* Where the steps that move the count lead.
LEMMA Nexts ==
  ASSUME TypeOK, HandlersOK, NEW s \in Slots, Continue(s)
  PROVE  /\ req[s].pc = "end_save" /\ Exists => status' = "ended" /\ req'[s].pc = "end_clear"
         /\ req[s].pc = "join_create" => row' = row \/ req'[s].pc = "join_count"
         /\ req[s].pc = "join_revive" =>
              req'[s].pc = IF req[s].role = "viewer" THEN "join_count" ELSE "idle"
         /\ req[s].pc = "off_save" =>
              req'[s].pc = IF req[s].role = "viewer" THEN "off_count" ELSE "idle"
         /\ req[s].pc = "ban_save" => req'[s].pc = "ban_list"
         /\ req[s].pc = "ban_list" /\ Exists =>
              req'[s].pc = IF req[s].role = "viewer" THEN "off_count" ELSE "idle"
         /\ req[s].pc = "cohost_save" => req'[s].pc = "off_count"
         /\ req[s].pc = "join_count" /\ Exists => viewerCount' = viewerCount + 1
         /\ req[s].pc = "off_count" /\ Exists => viewerCount' = viewerCount - 1
<1>1. {"end_clear", "join_count", "off_count", "ban_list", "idle"} \subseteq PC
  BY DEF PC
<1>2. req[s].pc = "end_save" /\ Exists => status' = "ended" /\ req'[s].pc = "end_clear"
  BY ActionAt, PutPc DEF EndSave, SaveStatus
<1>3. req[s].pc = "join_create" => row' = row \/ req'[s].pc = "join_count"
  BY <1>1, ActionAt, PutPc DEF JoinCreate, NoRowId, Proceed, documents, others
<1>4. req[s].pc = "join_revive" =>
        req'[s].pc = IF req[s].role = "viewer" THEN "join_count" ELSE "idle"
  BY <1>1, ActionAt, PutPc DEF JoinRevive, Return
\* CountOff leads to the counter if the participant was a viewer.
<1>5. ASSUME Resume(s, CountOff(s))
      PROVE  req'[s].pc = IF req[s].role = "viewer" THEN "off_count" ELSE "idle"
  BY <1>1, <1>5, PutPc DEF CountOff, Goto, Return
<1>6. req[s].pc = "off_save" =>
        req'[s].pc = IF req[s].role = "viewer" THEN "off_count" ELSE "idle"
  BY <1>5, ActionAt DEF OffSave, SaveRow
<1>7. req[s].pc = "ban_save" => req'[s].pc = "ban_list"
  BY <1>1, ActionAt, PutPc DEF BanSave, SaveRow, Goto
<1>8. req[s].pc = "ban_list" /\ Exists =>
        req'[s].pc = IF req[s].role = "viewer" THEN "off_count" ELSE "idle"
  BY <1>5, ActionAt DEF BanList
<1>9. req[s].pc = "cohost_save" => req'[s].pc = "off_count"
  BY <1>1, ActionAt, PutPc DEF CohostSave
<1>10. /\ req[s].pc = "join_count" /\ Exists => viewerCount' = viewerCount + 1
       /\ req[s].pc = "off_count" /\ Exists => viewerCount' = viewerCount - 1
  <2>1. viewerCount \in Int /\ viewerCount + (-1) = viewerCount - 1
    BY DEF TypeOK
  <2> QED BY <2>1, ActionAt DEF JoinCount, OffCount, Counted
<1> QED BY <1>2, <1>3, <1>4, <1>6, <1>7, <1>8, <1>9, <1>10

\* How the step changes the number of active viewers, at most.
Change(s) ==
  IF \/ req[s].pc = "join_create" /\ row' # row
     \/ req[s].pc = "join_revive" /\ req[s].role = "viewer" THEN 1
  ELSE IF \/ req[s].pc \in {"off_save", "ban_save"} /\ req[s].role = "viewer"
          \/ req[s].pc = "cohost_save" THEN -1 ELSE 0

\* The participants that a step leaves as they are.
LEMMA RowStays ==
  ASSUME Inv1, NEW s \in Slots, Continue(s),
         req[s].pc \notin {"create_host", "join_create", "join_revive", "off_save", "ban_save",
                           "cohost_save", "end_clear"}
  PROVE  UNCHANGED row
<1>1. ~WritesRow(s)
  BY DEF WritesRow, CreateHost, EndClear, JoinCreate, JoinRevive, OffSave, BanSave, SaveRow,
         CohostSave
<1> QED BY <1>1, ContinueWrites

LEMMA Updates ==
  ASSUME Inv1, NEW s \in Slots, Continue(s),
         req[s].pc \in {"join_revive", "off_save", "ban_save", "cohost_save", "end_clear"}
  PROVE  Updated(s)
<1>1. WritesRow(s)
  BY ActionAt DEF WritesRow
<1> QED BY <1>1, RowFields DEF Inv1

LEMMA Inserts ==
  ASSUME Inv1, NEW s \in Slots, Continue(s), req[s].pc \in {"create_host", "join_create"}
  PROVE  \/ UNCHANGED row
         \/ req[s].pc = "create_host" /\ Inserted(Host, "streamer")
         \/ req[s].pc = "join_create" /\ Inserted(req[s].user, "viewer")
BY ContinueWrites, RowFields DEF Inv1, Updated

LEMMA InsertedIsNew ==
  ASSUME Inv1, NEW u, NEW role, Inserted(u, role)
  PROVE  row' # row
<1>1. PICK p \in Rows : row[p].user = NoUser /\ row'[p].active = TRUE
  BY DEF Inserted
<1>2. row[p] = Absent
  BY <1>1 DEF Inv1, UnusedOK
<1>3. row[p].active = FALSE
  BY <1>2 DEF Absent
<1> QED BY <1>1, <1>3

LEMMA Watchers ==
  ASSUME Inv1, Base, NEW s \in Slots, Continue(s), Expects(s)
  PROVE  /\ IsFiniteSet(Watching') /\ Cardinality(Watching) \in Nat
         /\ Cardinality(Watching') \in Nat
         /\ Cardinality(Watching') <= Cardinality(Watching) + Change(s)
<1> DEFINE W == Watching
           x == req[s].row
<1>1. IsFiniteSet(W) /\ Cardinality(W) \in Nat
  BY FS_CardinalityType DEF Base
\* Sets that grow by one, lose one, or do not grow.
<1>2. ASSUME W' \subseteq W PROVE IsFiniteSet(W') /\ Cardinality(W') \in Nat
                                  /\ Cardinality(W') <= Cardinality(W)
  BY <1>1, <1>2, FS_Subset, FS_CardinalityType
<1>3. ASSUME NEW p, W' \subseteq W \cup {p}
      PROVE  IsFiniteSet(W') /\ Cardinality(W') \in Nat
             /\ Cardinality(W') <= Cardinality(W) + 1
  <2> HIDE DEF W
  <2>1. IsFiniteSet(W \cup {p}) /\ Cardinality(W \cup {p}) <= Cardinality(W) + 1
    <3>1. /\ IsFiniteSet(W \cup {p})
          /\ Cardinality(W \cup {p}) = IF p \in W THEN Cardinality(W) ELSE Cardinality(W) + 1
      BY <1>1, FS_AddElement
    <3> QED BY <1>1, <3>1
  <2>2. IsFiniteSet(W') /\ Cardinality(W') <= Cardinality(W \cup {p})
    BY <1>3, <2>1, FS_Subset
  <2>3. Cardinality(W') \in Nat /\ Cardinality(W \cup {p}) \in Nat
    BY <2>1, <2>2, FS_CardinalityType
  <2> QED BY <1>1, <2>1, <2>2, <2>3
<1>4. ASSUME NEW p \in W, W' \subseteq W \ {p}
      PROVE  IsFiniteSet(W') /\ Cardinality(W') \in Nat
             /\ Cardinality(W') <= Cardinality(W) - 1
  <2>1. IsFiniteSet(W \ {p}) /\ Cardinality(W \ {p}) = Cardinality(W) - 1
    BY <1>1, FS_RemoveElement
  <2>2. IsFiniteSet(W') /\ Cardinality(W') <= Cardinality(W \ {p})
    BY <1>4, <2>1, FS_Subset
  <2>3. Cardinality(W') \in Nat
    BY <2>2, FS_CardinalityType
  <2> QED BY <2>1, <2>2, <2>3
<1>5. CASE UNCHANGED row /\ Change(s) = 0
  <2>1. W' \subseteq W
    BY <1>5 DEF Watching
  <2> QED BY <1>1, <1>2, <1>5, <2>1
<1>6. ASSUME NEW u, NEW role, Inserted(u, role)
      PROVE  /\ \E p \in Rows : W' \subseteq W \cup {p} /\ row' # row
             /\ role # "viewer" => W' \subseteq W
  <2>1. PICK p \in Rows : /\ row[p].user = NoUser
                          /\ row'[p].role = role /\ row'[p].active = TRUE
                          /\ \A q \in Rows \ {p} : row'[q] = row[q]
    BY <1>6 DEF Inserted
  <2>2. row' # row
    BY <1>6, InsertedIsNew
  <2> QED BY <2>1, <2>2 DEF Watching
<1>7. CASE req[s].pc \in {"create_host", "join_create"}
  <2>1. CASE UNCHANGED row
    <3>1. Change(s) = 0
      BY <1>7, <2>1 DEF Change
    <3> QED BY <1>5, <2>1, <3>1
  <2>2. CASE req[s].pc = "create_host" /\ Inserted(Host, "streamer")
    <3>1. Change(s) = 0 /\ W' \subseteq W
      BY <1>6, <2>2 DEF Change
    <3> QED BY <1>1, <1>2, <3>1
  <2>3. CASE req[s].pc = "join_create" /\ Inserted(req[s].user, "viewer")
    <3>1. PICK p \in Rows : W' \subseteq W \cup {p} /\ row' # row
      BY <1>6, <2>3
    <3>2. Change(s) = 1
      BY <2>3, <3>1 DEF Change
    <3> QED BY <1>1, <1>3, <3>1, <3>2
  <2> QED BY <1>7, <2>1, <2>2, <2>3, Inserts
<1>8. CASE req[s].pc \in {"join_revive", "off_save", "ban_save", "cohost_save"}
  <2>1. /\ Updated(s) /\ x \in Rows
        /\ row[x].role = req[s].role /\ row[x].active = req[s].flag
        /\ req[s].pc # "join_revive" => req[s].flag = TRUE
        /\ req[s].pc = "cohost_save" => req[s].role = "viewer"
    BY <1>8, Updates DEF Expects, Inv1, HandlersOK, HandlerOK, RowPcs
  <2>2. \A p \in Rows \ {x} : row'[p].active = row[p].active /\ row'[p].role = row[p].role
    BY <1>8, <2>1 DEF Updated
  <2>3. CASE req[s].pc = "join_revive"
    <3>1. row'[x].role = req[s].role
      BY <2>1, <2>3 DEF Updated
    <3>2. CASE req[s].role = "viewer"
      <4>1. W' \subseteq W \cup {x} /\ Change(s) = 1
        BY <2>2, <2>3, <3>2 DEF Watching, Change
      <4> QED BY <1>1, <1>3, <4>1
    <3>3. CASE req[s].role # "viewer"
      <4>1. W' \subseteq W /\ Change(s) = 0
        BY <2>2, <2>3, <3>1, <3>3 DEF Watching, Change
      <4> QED BY <1>1, <1>2, <4>1
    <3> QED BY <3>2, <3>3
  <2>4. CASE req[s].pc \in {"off_save", "ban_save"}
    <3>1. row'[x].active = FALSE
      BY <2>1, <2>4 DEF Updated
    <3>2. CASE req[s].role = "viewer"
      <4>1. x \in W /\ W' \subseteq W \ {x} /\ Change(s) = -1
        BY <2>1, <2>2, <2>4, <3>1, <3>2 DEF Watching, Change
      <4> QED BY <1>1, <1>4, <4>1
    <3>3. CASE req[s].role # "viewer"
      <4>1. W' \subseteq W /\ Change(s) = 0
        BY <2>2, <2>4, <3>1, <3>3 DEF Watching, Change
      <4> QED BY <1>1, <1>2, <4>1
    <3> QED BY <3>2, <3>3
  <2>5. CASE req[s].pc = "cohost_save"
    <3>1. row'[x].role = "co_host"
      BY <2>1, <2>5 DEF Updated
    <3>2. x \in W /\ W' \subseteq W \ {x} /\ Change(s) = -1
      BY <2>1, <2>2, <2>5, <3>1 DEF Watching, Change
    <3> QED BY <1>1, <1>4, <3>2
  <2> QED BY <1>8, <2>3, <2>4, <2>5
<1>9. CASE req[s].pc = "end_clear"
  <2>1. W' = {} /\ Change(s) = 0
    BY <1>9, Updates DEF Updated, Watching, Change
  <2> QED BY <1>1, <1>2, <2>1
<1>10. CASE req[s].pc \notin {"create_host", "join_create", "join_revive", "off_save",
                              "ban_save", "cohost_save", "end_clear"}
  <2>1. UNCHANGED row /\ Change(s) = 0
    BY <1>10, RowStays DEF Change
  <2> QED BY <1>5, <2>1
<1> QED BY <1>7, <1>8, <1>9, <1>10

\* What the handler has to add to the count makes up for the change.
LEMMA DueStep ==
  ASSUME Inv1, NEW s \in Slots, Continue(s), Expects(s),
         status' \in {"none", "scheduled", "live"}
  PROVE  /\ status \in {"none", "scheduled", "live"}
         /\ viewerCount' + Due(s)' = viewerCount + Due(s) + Change(s)
<1>1. TypeOK /\ HandlersOK /\ Moves(s) /\ viewerCount \in Int
  BY ContinueMoves DEF Inv1, TypeOK
<1>2. status \in {"none", "scheduled", "live"}
  BY <1>1, StatusFields DEF Expects, TypeOK
<1>3. status # "none" => Exists
  BY <1>2 DEF Exists
<1>4. /\ req[s].pc \notin {"join_count", "off_count"} => viewerCount' = viewerCount
      /\ req[s].pc = "join_count" => viewerCount' = viewerCount + 1
      /\ req[s].pc = "off_count" => viewerCount' = viewerCount - 1
  BY <1>1, <1>3, CounterFields, Nexts DEF Expects, JoinPcs
<1>5. Due(s)' = IF req'[s].pc = "join_count" THEN 1
                ELSE IF \/ req'[s].pc = "off_count"
                        \/ req'[s].pc = "ban_list" /\ req'[s].role = "viewer" THEN -1 ELSE 0
  BY DEF Due
<1>6. CASE req[s].pc = "join_create"
  <2>1. CASE JoinCreate(s)
    <3>1. req'[s].pc = "join_count"
      BY <1>1, <2>1, PutPc DEF JoinCreate, PC
    <3>2. row' # row
      <4>1. NewRow(req[s].user, "viewer") /\ req[s].user \in Users /\ "viewer" \in Roles
        BY <1>1, <1>6, <2>1, UserTyped DEF JoinCreate, Roles
      <4> QED BY <4>1, NewRowFields, InsertedIsNew DEF Inv1
    <3> QED BY <1>1, <1>2, <1>4, <1>5, <1>6, <3>1, <3>2 DEF Due, Change
  <2>2. CASE NoRowId(s)
    <3>1. req'[s].pc = "idle" /\ row' = row
      BY <1>1, <2>2, PutPc DEF NoRowId, Proceed, Return, documents, others
    <3> QED BY <1>1, <1>2, <1>4, <1>5, <1>6, <3>1 DEF Due, Change
  <2> QED BY <1>6, <2>1, <2>2, ActionAt
<1>7. CASE req[s].pc \in {"join_revive", "off_save", "ban_save", "cohost_save"}
  <2>1. req'[s].pc = "ban_list" => req'[s].role = req[s].role
    BY <1>1 DEF Moves
  <2> QED BY <1>1, <1>2, <1>4, <1>5, <1>7, <2>1, Nexts DEF Due, Change, Expects
<1>8. CASE req[s].pc = "ban_list"
  <2>1. Exists
    BY <1>3, <1>8 DEF Expects
  <2> QED BY <1>1, <1>2, <1>4, <1>5, <1>8, <2>1, Nexts DEF Due, Change
<1>9. CASE req[s].pc \notin {"join_create", "join_revive", "off_save", "ban_save", "cohost_save",
                             "ban_list"}
  <2>1. req'[s].pc \notin {"join_count", "off_count", "ban_list"}
    BY <1>1, <1>9 DEF Moves, Flow
  <2> QED BY <1>1, <1>2, <1>4, <1>5, <1>9, <2>1 DEF Due, Change
<1> QED BY <1>6, <1>7, <1>8, <1>9

\* Where the status goes, given what the handler expects.
LEMMA StatusMoves ==
  ASSUME Inv1, NEW s \in Slots, Continue(s), Expects(s)
  PROVE  /\ req[s].pc \notin {"start_save", "end_save", "record_save", "delete"} => status' = status
         /\ status # "none" => status' # "none"
         /\ req[s].pc = "end_save" => status' = "ended" /\ req'[s].pc = "end_clear"
<1>1. req[s].pc = "end_save" => Exists
  BY DEF Expects, Exists
<1> QED BY <1>1, StatusFields, Nexts DEF Inv1

LEMMA BaseContinue ==
  ASSUME Inv1, Base, NEW s \in Slots, Continue(s), Expects(s)
  PROVE  Base'
<1> DEFINE h == req[s]
<1>1. TypeOK /\ HandlersOK /\ UnusedOK /\ NoUser \notin Viewers /\ Host \notin Viewers
  BY StreamAssumption DEF Inv1, Users
<1>2. banned' \subseteq Viewers
  <2>1. h.pc = "ban_list" => h.user \in Viewers
    BY <1>1 DEF HandlersOK, HandlerOK
  <2> QED BY <1>1, <2>1, CounterFields DEF Base
<1>3. CASE h.pc \in {"create_host", "join_create"}
  <2>1. status' = status /\ status # "none" /\ banned' = banned
    BY <1>1, <1>3, StatusMoves, CounterFields DEF Expects, JoinPcs
  <2>2. ASSUME NEW u, NEW role, Inserted(u, role), u \notin banned,
               u \in Viewers => RowsOf(u) = {}
        PROVE  /\ \A p, q \in Rows :
                    row'[p].user \in Viewers /\ row'[q].user = row'[p].user => p = q
               /\ \A p \in Rows : row'[p].active => status' # "none" /\ row'[p].user \notin banned'
    <3>1. PICK r \in Rows : row'[r].user = u /\ \A q \in Rows \ {r} : row'[q] = row[q]
      BY <2>2 DEF Inserted
    <3>2. ASSUME u \in Viewers, NEW q \in Rows, row'[q].user = u PROVE q = r
      BY <2>2, <3>1, <3>2 DEF RowsOf
    <3>3. \A p, q \in Rows : row'[p].user \in Viewers /\ row'[q].user = row'[p].user => p = q
      BY <3>1, <3>2 DEF Base
    <3> QED BY <2>1, <2>2, <3>1, <3>3 DEF Base
  <2>4. /\ \A p, q \in Rows : row'[p].user \in Viewers /\ row'[q].user = row'[p].user => p = q
        /\ \A p \in Rows : row'[p].active => status' # "none" /\ row'[p].user \notin banned'
    <3>1. CASE UNCHANGED row
      BY <2>1, <3>1 DEF Base
    <3>2. CASE h.pc = "create_host" /\ Inserted(Host, "streamer")
      BY <1>1, <2>2, <3>2 DEF Base
    <3>3. CASE h.pc = "join_create" /\ Inserted(h.user, "viewer")
      BY <2>2, <3>3 DEF Expects, JoinPcs
    <3> QED BY <1>3, <3>1, <3>2, <3>3, Inserts
  <2>5. likedBy' = likedBy /\ likesCount' = likesCount
    BY <1>1, <1>3, CounterFields
  <2> QED BY <1>2, <2>4, <2>5, Watchers DEF Base
<1>4. CASE h.pc \notin {"create_host", "join_create"}
  <2>1. /\ \A p \in Rows : row'[p].user = row[p].user
        /\ \A p \in Rows : row'[p].active => \/ row[p].active
                                             \/ h.pc = "join_revive" /\ p = h.row
    <3>1. CASE UNCHANGED row
      BY <3>1
    <3>2. CASE Updated(s)
      <4>1. ASSUME NEW p \in Rows, row'[p].active, ~row[p].active
            PROVE  h.pc = "join_revive" /\ p = h.row
        BY <3>2, <4>1 DEF Updated
      <4> QED BY <3>2, <4>1 DEF Updated
    <3> QED BY <1>4, <3>1, <3>2, RowStays, Updates
  <2>2. ASSUME NEW p \in Rows, row'[p].active
        PROVE  status' # "none" /\ row'[p].user \notin banned'
    <3>1. status # "none" /\ row[p].user \notin banned
      <4>1. CASE row[p].active
        BY <4>1 DEF Base
      <4>2. CASE h.pc = "join_revive" /\ p = h.row
        <5>1. row[p].user = h.user
          BY <1>1, <4>2 DEF HandlersOK, HandlerOK, RowPcs
        <5> QED BY <4>2, <5>1 DEF Expects, JoinPcs
      <4> QED BY <2>1, <2>2, <4>1, <4>2
    <3>2. CASE h.pc = "ban_list"
      <4>1. row' = row /\ \A q \in RowsOf(h.user) : ~row[q].active
        BY <3>2, RowStays DEF Expects
      <4>2. row[p].user # h.user
        BY <2>2, <4>1 DEF RowsOf
      <4> QED BY <1>1, <2>1, <3>1, <4>2, CounterFields, StatusMoves
    <3>3. CASE h.pc # "ban_list"
      BY <1>1, <2>1, <3>1, <3>3, CounterFields, StatusMoves
    <3> QED BY <3>2, <3>3
  <2>3. IsFiniteSet(likedBy') /\ likesCount' = Cardinality(likedBy')
    <3>1. IsFiniteSet(likedBy) /\ likesCount = Cardinality(likedBy)
      BY DEF Base
    <3>2. CASE likedBy' = likedBy /\ likesCount' = likesCount
      BY <3>1, <3>2
    <3>3. CASE /\ h.pc = "like" /\ h.flag
               /\ likedBy' = likedBy \ {h.user} /\ likesCount' = likesCount - 1
      <4>1. h.user \in likedBy
        BY <3>3 DEF Expects
      <4> QED BY <3>1, <3>3, <4>1, FS_RemoveElement
    <3>4. CASE /\ h.pc = "like" /\ ~h.flag
               /\ likedBy' = likedBy \cup {h.user} /\ likesCount' = likesCount + 1
      <4>1. h.user \notin likedBy
        BY <3>4 DEF Expects
      <4> QED BY <3>1, <3>4, <4>1, FS_AddElement
    <3> QED BY <1>1, <3>2, <3>3, <3>4, CounterFields
  <2>4. \A p, q \in Rows : row'[p].user \in Viewers /\ row'[q].user = row'[p].user => p = q
    BY <2>1 DEF Base
  <2> QED BY <1>2, <2>2, <2>3, <2>4, Watchers DEF Base
<1> QED BY <1>3, <1>4

LEMMA ExpectsContinue ==
  ASSUME Inv1, Base, NEW s \in Slots, Continue(s), Expects(s), req'[s].pc # "idle"
  PROVE  Expects(s)'
<1> DEFINE h == req[s]
           n == req'[s]
<1>1. /\ TypeOK /\ HandlersOK /\ Flow(h.pc, n.pc)
      /\ n.user = IF n.pc = "end_clear" THEN Host ELSE h.user
  BY ContinueMoves DEF Inv1, Moves
<1>2. CASE n.pc = "end_clear"
  <2>1. status' = "ended"
    BY <1>1, <1>2, StatusMoves DEF Flow
  <2> QED BY <1>2, <2>1 DEF Expects, JoinPcs
<1>3. CASE n.pc \in JoinPcs
  <2>1. /\ h.pc \in JoinPcs \ {"join_count"} /\ n.user = h.user
        /\ status' = status /\ banned' = banned
    BY <1>1, <1>3, StatusMoves, CounterFields DEF Flow, JoinPcs
  <2>2. status' = "live" /\ n.user \notin banned'
    BY <2>1 DEF Expects
  <2>3. n.pc = "join_create" => \A p \in Rows : row'[p].user # n.user
    BY <1>1, <2>1, Found DEF RowsOf
  <2>4. n.pc = "join_revive" => row'[n.row].role = n.role /\ row'[n.row].active = n.flag
    BY <1>1, Found DEF documents, others
  <2> QED BY <1>3, <2>2, <2>3, <2>4 DEF Expects, JoinPcs, RowsOf
<1>4. CASE n.pc = "ban_list"
  <2>1. h.pc = "ban_save" /\ n.user = h.user
    BY <1>1, <1>4 DEF Flow
  <2>2. Updated(s) /\ h.flag = TRUE /\ status' # "none" /\ h.user \in Viewers
        /\ h.row \in Rows /\ row[h.row].user = h.user
    BY <1>1, <2>1, Updates, StatusMoves DEF Expects, HandlersOK, HandlerOK, RowPcs
  <2>3. ASSUME NEW p \in Rows, row'[p].user = n.user PROVE ~row'[p].active
    <3>1. row'[p].user = h.user /\ row'[p].user = row[p].user
      BY <2>1, <2>2, <2>3 DEF Updated
    <3>2. p = h.row
      BY <2>2, <3>1 DEF Base
    <3> QED BY <2>1, <2>2, <3>1, <3>2 DEF Updated
  <2> QED BY <1>4, <2>2, <2>3 DEF Expects, JoinPcs, RowsOf
<1>5. CASE n.pc = "off_count"
  <2>1. h.pc \in {"off_save", "ban_list", "cohost_save"}
    BY <1>1, <1>5 DEF Flow
  <2>2. status' # "none"
    BY <2>1, StatusMoves DEF Expects
  <2> QED BY <1>5, <2>2 DEF Expects, JoinPcs
<1>6. CASE n.pc \notin JoinPcs \cup {"end_clear", "ban_list", "off_count"}
  BY <1>1, <1>6 DEF Flow, Expects, JoinPcs
<1> QED BY <1>2, <1>3, <1>4, <1>5, <1>6

LEMMA RestContinue ==
  ASSUME Inv1, Base, NEW s \in Slots, Continue(s), Expects(s),
         Rest(Due(s), req[s].pc = "end_clear")
  PROVE  Rest(Due(s), req[s].pc = "end_clear")'
<1>1. TypeOK /\ HandlersOK /\ viewerCount \in Int /\ viewerCount' \in Int
      /\ Due(s) \in Int /\ Due(s)' \in Int /\ Change(s) \in Int
  BY Inv1Step DEF Inv1, TypeOK, Due, Change, Next
<1>2. ASSUME status' \in {"none", "scheduled", "live"}
      PROVE  viewerCount' + Due(s)' >= Cardinality(Watching')
  <2>1. /\ viewerCount + Due(s) >= Cardinality(Watching)
        /\ viewerCount' + Due(s)' = viewerCount + Due(s) + Change(s)
    BY <1>2, DueStep DEF Rest
  <2>2. /\ Cardinality(Watching) \in Nat /\ Cardinality(Watching') \in Nat
        /\ Cardinality(Watching') <= Cardinality(Watching) + Change(s)
    BY Watchers
  <2> QED BY <1>1, <2>1, <2>2
<1>3. ASSUME status' \in {"ended", "recorded"}, req'[s].pc # "end_clear", NEW p \in Rows
      PROVE  ~row'[p].active
  <2>1. CASE req[s].pc = "end_clear"
    BY <2>1, Updates DEF Updated
  <2>2. CASE req[s].pc # "end_clear"
    <3>1. status \in {"ended", "recorded"} /\ req[s].pc # "end_save"
      BY <1>1, <1>3, StatusFields, StatusMoves DEF Expects
    <3>2. \A q \in Rows : ~row[q].active
      BY <2>2, <3>1 DEF Rest
    <3>3. req[s].pc \notin {"create_host", "join_create", "join_revive"}
      BY <3>1 DEF Expects, JoinPcs
    <3>4. CASE UNCHANGED row
      BY <3>2, <3>4
    <3>5. CASE Updated(s)
      <4>1. req[s].pc \in {"off_save", "ban_save", "cohost_save"}
        BY <2>2, <3>3, <3>5 DEF Updated
      <4> QED BY <3>2, <3>5, <4>1 DEF Updated
    <3> QED BY <2>2, <3>3, <3>4, <3>5, RowStays, Updates
  <2> QED BY <2>1, <2>2
<1> QED BY <1>2, <1>3 DEF Rest

LEMMA SerialStart ==
  ASSUME Inv1, Base, Rest(0, FALSE), InProgress = {}, NEW s \in Slots, Start(s)
  PROVE  Base' /\ Expects(s)' /\ Rest(Due(s), req[s].pc = "end_clear")' /\ InProgress' = {s}
<1> DEFINE n == req'[s]
<1>1. Begins(s) /\ Reads(s)
  BY StartMoves DEF Inv1
<1>2. /\ UNCHANGED <<viewerCount, likedBy, likesCount, banned, row>>
      /\ \A t \in Slots \ {s} : req'[t] = req[t]
      /\ status' = status \/ (status = "none" /\ status' = "scheduled")
      /\ n.pc # "create_host" => status' = status
      /\ n.pc = "create_host" => status' = "scheduled"
  BY <1>1 DEF Begins, Reads
<1>3. Base'
  BY <1>2 DEF Base, Watching
<1>4. Due(s)' = 0 /\ n.pc # "end_clear" /\ n.pc # "idle"
  BY <1>1 DEF Reads, Due
<1>5. Rest(Due(s), req[s].pc = "end_clear")'
  BY <1>2, <1>4 DEF Rest, Watching
<1>6. InProgress' = {s}
  BY <1>2, <1>4 DEF InProgress
<1>7. Expects(s)'
  <2>1. n.pc \in {"off_save", "ban_save", "cohost_save"} =>
          /\ row'[n.row].role = n.role /\ row'[n.row].active = n.flag /\ n.flag = TRUE
          /\ status' # "none"
    BY <1>1, <1>2 DEF Reads, Base
  <2>2. n.pc \in JoinPcs => /\ n.pc \in {"join_wallet", "join_gate"}
                            /\ status' = "live" /\ n.user \notin banned'
    BY <1>1, <1>2 DEF Reads, JoinPcs
  <2>3. /\ n.pc \in {"create_host", "start_save"} => status' = "scheduled"
        /\ n.pc = "end_save" => status' = "live"
        /\ n.pc = "record_save" => status' = "ended"
        /\ n.pc = "cohost_save" => n.role = "viewer"
        /\ n.pc = "like" => (n.flag <=> n.user \in likedBy')
        /\ n.pc \notin {"join_create", "join_revive", "ban_list", "off_count", "end_clear"}
    BY <1>1, <1>2 DEF Reads
  <2> QED BY <2>1, <2>2, <2>3 DEF Expects
<1> QED BY <1>3, <1>5, <1>6, <1>7

LEMMA SerialInit == ASSUME Init PROVE SerialOK
<1>1. InProgress = {}
  BY IdleType DEF Init, InProgress
<1>2. \A p \in Rows : row[p].active = FALSE /\ row[p].user = NoUser
  BY DEF Init, Absent
<1>3. Watching = {} /\ NoUser \notin Viewers
  BY <1>2, StreamAssumption DEF Watching, Users
<1>4. likedBy = {} /\ likesCount = 0 /\ banned = {} /\ viewerCount = 0 /\ status = "none"
  BY DEF Init
<1>5. IsFiniteSet({}) /\ Cardinality({}) = 0
  BY FS_EmptySet
<1>6. Base
  BY <1>2, <1>3, <1>4, <1>5 DEF Base
<1>7. Rest(0, FALSE)
  BY <1>3, <1>4, <1>5 DEF Rest
<1> QED BY <1>1, <1>6, <1>7 DEF SerialOK

LEMMA SerialStep == ASSUME Inv1, SerialOK, [Next]_vars PROVE SerialOK'
<1>1. CASE UNCHANGED vars
  <2>1. UNCHANGED <<status, viewerCount, banned, likedBy, likesCount, row, req, overlapped>>
    BY <1>1 DEF vars, documents, streamDoc, counters, others, process
  <2>2. (Base <=> Base') /\ Watching' = Watching /\ InProgress' = InProgress
    BY <2>1 DEF Base, Watching, InProgress
  <2>3. Rest(0, FALSE) => Rest(0, FALSE)'
    BY <2>1, <2>2 DEF Rest
  <2>4. ASSUME NEW s \in Slots, Expects(s), Rest(Due(s), req[s].pc = "end_clear")
        PROVE  Expects(s)' /\ Rest(Due(s), req[s].pc = "end_clear")'
    <3>1. Expects(s)'
      BY <2>1, <2>4 DEF Expects, RowsOf
    <3>2. Due(s)' = Due(s)
      BY <2>1 DEF Due
    <3> QED BY <2>1, <2>2, <2>4, <3>1, <3>2 DEF Rest
  <2>5. InProgress \subseteq Slots
    BY DEF InProgress
  <2> QED BY <2>1, <2>2, <2>3, <2>4, <2>5 DEF SerialOK
<1>2. CASE Restart
  <2>1. UNCHANGED <<status, viewerCount, banned, likedBy, likesCount, row>>
    BY <1>2 DEF Restart, documents, streamDoc, counters, others
  <2>2. InProgress' = {} /\ (~overlapped' => ~overlapped /\ InProgress = {})
    BY <1>2, IdleType DEF Restart, InProgress
  <2> QED BY <2>1, <2>2 DEF SerialOK, Base, Watching, Rest
<1>3. ASSUME NEW s \in Slots, Start(s), ~overlapped' PROVE SerialOK'
  <2>1. Begins(s)
    BY <1>3, StartMoves DEF Inv1
  <2>2. ~overlapped /\ InProgress = {}
    BY <1>3, <2>1 DEF Begins, InProgress
  <2>3. Base' /\ Expects(s)' /\ Rest(Due(s), req[s].pc = "end_clear")' /\ InProgress' = {s}
    BY <1>3, <2>2, SerialStart DEF SerialOK
  <2> QED BY <2>3 DEF SerialOK
<1>4. ASSUME NEW s \in Slots, Continue(s), ~overlapped' PROVE SerialOK'
  <2>1. Moves(s)
    BY <1>4, ContinueMoves DEF Inv1
  <2>2. ~overlapped /\ s \in InProgress
    BY <1>4, <2>1 DEF Moves, InProgress
  <2>3. Base /\ InProgress = {s} /\ Expects(s) /\ Rest(Due(s), req[s].pc = "end_clear")
    BY <2>2 DEF SerialOK
  <2>4. Base' /\ Rest(Due(s), req[s].pc = "end_clear")'
    BY <1>4, <2>3, BaseContinue, RestContinue
  <2>5. \A t \in Slots \ {s} : req'[t].pc = "idle"
    BY <2>1, <2>3 DEF Moves, InProgress
  <2>6. CASE req'[s].pc = "idle"
    <3>1. InProgress' = {} /\ Due(s)' = 0
      BY <2>5, <2>6 DEF InProgress, Due
    <3>2. Rest(0, FALSE)'
      BY <2>4, <2>6, <3>1 DEF Rest
    <3> QED BY <2>4, <3>1, <3>2 DEF SerialOK
  <2>7. CASE req'[s].pc # "idle"
    <3>1. InProgress' = {s}
      BY <2>5, <2>7 DEF InProgress
    <3>2. Expects(s)'
      BY <1>4, <2>3, <2>7, ExpectsContinue
    <3> QED BY <2>4, <3>1, <3>2 DEF SerialOK
  <2> QED BY <2>6, <2>7
<1>5. CASE overlapped'
  BY <1>5 DEF SerialOK
<1> QED BY <1>1, <1>2, <1>3, <1>4, <1>5 DEF Next

LEMMA SerialAlways == Spec => []SerialOK
BY Inv1Always, SerialInit, SerialStep, PTL DEF Spec

\* Requests that do not overlap keep the counters: the count of a live stream
\* covers its active viewers, and that of the likes is the number of users.
THEOREM CountersCorrect == Spec => []CountersAgree
<1>1. Inv1 /\ SerialOK => CountersAgree
  <2> SUFFICES ASSUME Inv1, SerialOK, Undisturbed PROVE CountersAgree
    BY DEF CountersAgree
  <2>1. Base /\ Rest(0, FALSE) /\ viewerCount \in Int
    BY DEF SerialOK, Undisturbed, Inv1, TypeOK
  <2> QED BY <2>1 DEF Base, Rest, CountersAgree, Watching
<1> QED BY <1>1, Inv1Always, SerialAlways, PTL

\* Requests that do not overlap leave nobody in a stream that is over, and let
\* nobody back in whom the host has banned.
THEOREM BansHold == Spec => []OnlyTheAllowed
<1>1. SerialOK => OnlyTheAllowed
  BY DEF SerialOK, Undisturbed, OnlyTheAllowed, Base, Rest
<1> QED BY <1>1, SerialAlways, PTL

-----------------------------------------------------------------------------
(* Credits *)

\* Handlers that have still to credit the host with an entry that was charged, or
\* with a gift message that was stored.
Crediting == {t \in Slots : req[t].pc = "join_credit"}
Giving == {t \in Slots : req[t].pc = "gift"}
GiftMessages == {m \in Messages : message[m].gift}

\* All balances, with what is to be credited, are what there was and the gifts.
MoneyOK ==
  /\ IsFiniteSet(Crediting) /\ IsFiniteSet(Giving) /\ IsFiniteSet(GiftMessages)
  /\ SumOf(balance, Users) + Price * Cardinality(Crediting) + GiftPrice * Cardinality(Giving)
       <= SumOf(Wallet, Users) + GiftPrice * Cardinality(GiftMessages)

\* One member comes or goes.
LEMMA OneMember ==
  ASSUME NEW A, NEW B, IsFiniteSet(A), NEW e, \A x : x # e => (x \in A <=> x \in B)
  PROVE  /\ IsFiniteSet(B) /\ Cardinality(A) \in Nat /\ Cardinality(B) \in Nat
         /\ Cardinality(B) = Cardinality(A) + (IF e \in B THEN 1 ELSE 0) - (IF e \in A THEN 1 ELSE 0)
<1>1. Cardinality(A) \in Nat
  BY FS_CardinalityType
<1>2. CASE e \in A <=> e \in B
  <2>1. A = B
    BY <1>2
  <2> QED BY <1>1, <2>1
<1>3. CASE e \in B /\ e \notin A
  <2>1. B = A \cup {e}
    BY <1>3
  <2>2. IsFiniteSet(B) /\ Cardinality(B) = Cardinality(A) + 1
    BY <1>3, <2>1, FS_AddElement
  <2> QED BY <1>1, <1>3, <2>2
<1>4. CASE e \in A /\ e \notin B
  <2>1. B = A \ {e}
    BY <1>4
  <2>2. IsFiniteSet(B) /\ Cardinality(B) = Cardinality(A) - 1
    BY <1>4, <2>1, FS_RemoveElement
  <2>3. Cardinality(B) \in Nat
    BY <2>2, FS_CardinalityType
  <2> QED BY <1>1, <1>4, <2>2, <2>3
<1> QED BY <1>2, <1>3, <1>4

\* The account of one step: what is charged, credited and given.
LEMMA Account ==
  ASSUME NEW p \in Nat, NEW g \in Nat, NEW b \in Int, NEW w \in Int,
         NEW c \in Nat, NEW d \in Nat, NEW n \in Nat, b + p * c + g * d <= w + g * n
  PROVE  /\ \A k \in Nat : p * k \in Nat /\ g * k \in Nat
         /\ (b - p) + p * (c + 1) + g * d <= w + g * n
         /\ \A k \in Nat : c = k + 1 => (b + p) + p * k + g * d <= w + g * n
         /\ \A k \in Nat : d = k + 1 => (b + g) + p * c + g * k <= w + g * n
         /\ b + p * c + g * (d + 1) <= w + g * (n + 1)
         /\ \A k \in Nat : k >= n => b + p * c + g * d <= w + g * k
         /\ \A i, j \in Nat : i <= c /\ j <= d => b + p * i + g * j <= w + g * n
<1>1. \A k \in Nat : p * k \in Nat /\ g * k \in Nat
  OBVIOUS
<1>2. \A k \in Nat : p * (k + 1) = p * k + p /\ g * (k + 1) = g * k + g
  OBVIOUS
<1>3. \A i, j \in Nat : i <= j => p * i <= p * j /\ g * i <= g * j
  <2> TAKE i, j \in Nat
  <2> HAVE i <= j
  <2>1. /\ j - i \in Nat /\ p * (j - i) >= 0 /\ g * (j - i) >= 0
        /\ p * (j - i) = p * j - p * i /\ g * (j - i) = g * j - g * i
    OBVIOUS
  <2> QED BY <1>1, <2>1
<1>4. (b - p) + p * (c + 1) + g * d <= w + g * n
  BY <1>1, <1>2
<1>5. \A k \in Nat : c = k + 1 => (b + p) + p * k + g * d <= w + g * n
  BY <1>1, <1>2
<1>6. \A k \in Nat : d = k + 1 => (b + g) + p * c + g * k <= w + g * n
  BY <1>1, <1>2
<1>7. b + p * c + g * (d + 1) <= w + g * (n + 1)
  BY <1>1, <1>2
<1>8. \A k \in Nat : k >= n => b + p * c + g * d <= w + g * k
  BY <1>1, <1>3
<1>9. \A i, j \in Nat : i <= c /\ j <= d => b + p * i + g * j <= w + g * n
  BY <1>1, <1>3
<1> QED BY <1>1, <1>4, <1>5, <1>6, <1>7, <1>8, <1>9

\* A message that was not sent has nothing in it, and only what was sent is pinned.
MessagesOK ==
  /\ \A m \in Messages : ~message[m].sent => message[m] = Unsent
  /\ \A t \in Slots : req[t].pc \in {"pin_clear", "pin_set"} =>
       req[t].message \in Messages /\ message[req[t].message].sent

LEMMA PayActionAt ==
  ASSUME NEW s \in Slots, Continue(s)
  PROVE  /\ req[s].pc = "join_charge" => JoinCharge(s)
         /\ req[s].pc = "join_credit" => JoinCredit(s)
         /\ req[s].pc = "gift" => Gift(s)
         /\ req[s].pc = "message_create" => MessageCreate(s) \/ MessageNoId(s)
         /\ req[s].pc = "pin_find" => PinFind(s)
         /\ req[s].pc = "pin_clear" => PinClear(s)
         /\ req[s].pc = "pin_set" => PinSet(s)
         /\ req[s].pc = "unpin_set" => UnpinSet(s)
BY DEF Continue, CreateHost, StartSave, EndSave, SaveStatus, EndClear, RecordSave,
   DeleteOne, JoinWallet, JoinCharge, JoinCredit, Pay, JoinGate, JoinFind, NoRowId, JoinCreate,
   JoinRevive, JoinCount, Counted, OffSave, BanSave, SaveRow, BanList, OffCount, CohostSave,
   MessageCheck, MessageNoId, MessageCreate, Gift, GiftAborted, PinFind, PinClear, PinSet,
   SetPinned, PinNote, NotePin, UnpinFind, UnpinSet, UnpinNote, LikeWrite, AskFind, AskNoId,
   AskCreate, Answer

\* What a step does to the messages: a gift is a message more.
LEMMA MessageFields ==
  ASSUME TypeOK, HandlersOK, MessagesOK, NEW s \in Slots, Continue(s)
  PROVE  /\ \A m \in Messages : message[m].sent => message'[m].sent
         /\ \A m \in Messages : ~message'[m].sent => message'[m] = Unsent
         /\ \/ GiftMessages' = GiftMessages /\ req'[s].pc # "gift"
            \/ /\ req[s].pc = "message_create"
               /\ \E m \in Messages : m \notin GiftMessages /\ GiftMessages' = GiftMessages \cup {m}
<1> DEFINE T == [sent : BOOLEAN, gift : BOOLEAN, pinned : BOOLEAN]
<1>1. message \in [Messages -> T] /\ req[s] \in Handlers
  BY DEF TypeOK
<1>2. Unsent = [sent |-> FALSE, gift |-> FALSE, pinned |-> FALSE] /\ Unsent \in T
  BY DEF Unsent
<1>3. \A m \in Messages : message[m] \in T
  BY <1>1
<1>4. CASE MessageCreate(s)
  <2> DEFINE e == Fresh(message, Unsent)
             n == [sent |-> TRUE, gift |-> req[s].flag, pinned |-> FALSE]
  <2>1. /\ message' = [message EXCEPT ![e] = n] /\ req[s].pc = "message_create"
        /\ Resume(s, IF req[s].flag THEN For("gift", req[s].user) ELSE Idle)
        /\ \E m \in Messages : ~message[m].sent
    BY <1>4 DEF MessageCreate
  <2>2. PICK m0 \in Messages : message[m0] = Unsent
    BY <2>1 DEF MessagesOK
  <2>3. e \in Messages /\ message[e] = Unsent
    <3>1. DOMAIN message = Messages
      BY <1>1
    <3> QED BY <2>2, <3>1 DEF Fresh
  <2>4. n.sent = TRUE /\ n.gift = req[s].flag /\ req[s].flag \in BOOLEAN
    BY <1>1 DEF Handlers
  <2> HIDE DEF e, n
  <2>5. message'[e] = n /\ \A m \in Messages \ {e} : message'[m] = message[m]
    BY <1>1, <2>1, <2>3
  <2>6. e \notin GiftMessages
    BY <1>2, <2>3 DEF GiftMessages
  <2>7. CASE req[s].flag
    <3>1. GiftMessages' = GiftMessages \cup {e}
      BY <2>3, <2>4, <2>5, <2>7 DEF GiftMessages
    <3> QED BY <2>1, <2>3, <2>4, <2>5, <2>6, <3>1 DEF MessagesOK
  <2>8. CASE ~req[s].flag
    <3>1. GiftMessages' = GiftMessages
      BY <2>3, <2>4, <2>5, <2>6, <2>8 DEF GiftMessages
    <3>2. req'[s].pc = "idle"
      BY <2>1, <2>8, PutPc DEF Return
    <3> QED BY <2>3, <2>4, <2>5, <3>1, <3>2 DEF MessagesOK
  <2> QED BY <2>4, <2>7, <2>8
\* The other steps leave what was sent, and what is a gift, as it is.
<1>5. ASSUME message' \in [Messages -> T], \A m \in Messages : message'[m].sent = message[m].sent
                                                 /\ message'[m].gift = message[m].gift,
             \A m \in Messages : ~message[m].sent => message'[m] = Unsent,
             ~MessageCreate(s)
      PROVE  /\ \A m \in Messages : message[m].sent => message'[m].sent
             /\ \A m \in Messages : ~message'[m].sent => message'[m] = Unsent
             /\ GiftMessages' = GiftMessages /\ req'[s].pc # "gift"
  <2>1. GiftMessages' = GiftMessages
    BY <1>5 DEF GiftMessages
  <2>2. req'[s].pc = "gift" => req[s].pc = "message_create"
    BY ContinueMoves DEF Moves, Flow
  <2>3. req[s].pc = "message_create" => req'[s].pc = "idle"
    BY <1>5, PayActionAt, PutPc DEF MessageNoId, Proceed, Return
  <2> QED BY <1>5, <2>1, <2>2, <2>3
<1>6. CASE UNCHANGED message /\ ~MessageCreate(s)
  <2>1. message' = message
    BY <1>6
  <2> QED BY <1>1, <1>5, <1>6, <2>1 DEF MessagesOK
<1>7. CASE PinClear(s)
  <2>1. message' = [m \in Messages |-> [message[m] EXCEPT !.pinned = FALSE]]
    BY <1>7 DEF PinClear, SetPinned, AllUnpinned
  <2>2. ~MessageCreate(s)
    BY <1>7 DEF PinClear, SetPinned, MessageCreate
  <2>3. \A m \in Messages :
          LET n == [message[m] EXCEPT !.pinned = FALSE]
          IN n \in T /\ n.sent = message[m].sent /\ n.gift = message[m].gift
             /\ (message[m] = Unsent => n = Unsent)
    BY <1>2, <1>3
  <2>4. message' \in [Messages -> T]
    BY <2>1, <2>3
  <2>5. \A m \in Messages : message'[m].sent = message[m].sent /\ message'[m].gift = message[m].gift
    BY <2>1, <2>3
  <2>6. \A m \in Messages : ~message[m].sent => message'[m] = Unsent
    BY <2>1, <2>3 DEF MessagesOK
  <2> QED BY <1>5, <2>2, <2>4, <2>5, <2>6
<1>8. ASSUME NEW on \in BOOLEAN, message' = Pinned(s, on), ~MessageCreate(s),
             on => message[req[s].message].sent
      PROVE  /\ \A m \in Messages : message[m].sent => message'[m].sent
             /\ \A m \in Messages : ~message'[m].sent => message'[m] = Unsent
             /\ GiftMessages' = GiftMessages /\ req'[s].pc # "gift"
  <2> DEFINE e == req[s].message
             n == [message[e] EXCEPT !.pinned = on]
  <2>1. message' = message \/ message' = [message EXCEPT ![e] = n]
    BY <1>8 DEF Pinned
  <2>2. e \in Messages => /\ n \in T /\ n.sent = message[e].sent /\ n.gift = message[e].gift
                          /\ (message[e] = Unsent /\ ~on => n = Unsent)
    BY <1>2, <1>3
  <2>3. on => message[e].sent
    BY <1>8
  <2> HIDE DEF e, n
  <2>4. message' \in [Messages -> T]
    BY <1>1, <2>1, <2>2
  <2>5. \A m \in Messages : message'[m].sent = message[m].sent /\ message'[m].gift = message[m].gift
    BY <1>1, <2>1, <2>2
  <2>6. \A m \in Messages : ~message[m].sent => message'[m] = Unsent
    BY ZenonT(60), <1>1, <1>2, <1>8, <2>1, <2>2, <2>3 DEF MessagesOK
  <2> QED BY <1>5, <1>8, <2>4, <2>5, <2>6
<1>9. CASE PinSet(s)
  <2>1. message' = Pinned(s, TRUE) /\ req[s].pc = "pin_set"
    BY <1>9 DEF PinSet, SetPinned
  <2>2. message[req[s].message].sent /\ ~MessageCreate(s)
    BY <2>1 DEF MessagesOK, MessageCreate
  <2> QED BY <1>8, <2>1, <2>2
<1>10. CASE UnpinSet(s)
  <2>1. message' = Pinned(s, FALSE) /\ ~MessageCreate(s)
    BY <1>10 DEF UnpinSet, SetPinned, MessageCreate
  <2> QED BY <1>8, <2>1
<1> QED BY <1>4, <1>6, <1>7, <1>9, <1>10, ContinueWrites DEF WritesMessage

\* A handler that pins a message has found it sent.
LEMMA MessagesStep ==
  ASSUME Inv1, MessagesOK, [Next]_vars
  PROVE  MessagesOK'
<1>1. ASSUME UNCHANGED message,
             \A t \in Slots : \/ req'[t] = req[t]
                              \/ req'[t].pc \notin {"pin_clear", "pin_set"}
      PROVE  MessagesOK'
  BY <1>1 DEF MessagesOK
<1>2. CASE Restart \/ UNCHANGED vars
  <2>1. UNCHANGED message /\ \A t \in Slots : req'[t].pc = "idle" \/ req'[t] = req[t]
    BY <1>2, IdleType DEF Restart, vars, documents, others
  <2> QED BY <1>1, <2>1
<1>3. ASSUME NEW s \in Slots, Start(s) PROVE MessagesOK'
  <2>1. Begins(s) /\ Reads(s)
    BY <1>3, StartMoves DEF Inv1
  <2>2. req'[s].pc \notin {"pin_clear", "pin_set"}
    BY <2>1 DEF Reads
  <2> QED BY <1>1, <2>1, <2>2 DEF Begins
<1>4. ASSUME NEW s \in Slots, Continue(s) PROVE MessagesOK'
  <2>1. Moves(s) /\ TypeOK /\ HandlersOK
    BY <1>4, ContinueMoves DEF Inv1
  <2>2. /\ \A m \in Messages : message[m].sent => message'[m].sent
        /\ \A m \in Messages : ~message'[m].sent => message'[m] = Unsent
    BY <1>4, <2>1, MessageFields
  <2>3. ASSUME req'[s].pc \in {"pin_clear", "pin_set"}
        PROVE  req'[s].message \in Messages /\ message'[req'[s].message].sent
    <3>1. \/ req[s].pc = "pin_find" /\ req'[s].pc = "pin_clear"
          \/ req[s].pc = "pin_clear" /\ req'[s].pc = "pin_set"
      BY <2>1, <2>3 DEF Moves, Flow
    <3>2. req \in [Slots -> Handlers] /\ req[s] \in Handlers
      BY <2>1 DEF TypeOK
    <3>3. CASE req[s].pc = "pin_find"
      <4> DEFINE h == [req[s] EXCEPT !.pc = "pin_clear", !.flag = message[req[s].message].pinned]
      <4>1. /\ req[s].message \in Messages
            /\ Proceed(s, IF message[req[s].message].sent THEN h ELSE Idle)
        BY <1>4, <2>1, <3>3, PayActionAt DEF PinFind, HandlersOK, HandlerOK
      <4>2. message[req[s].message].sent
        <5>1. ASSUME ~message[req[s].message].sent PROVE req'[s].pc = "idle"
          BY <2>1, <4>1, <5>1, PutPc DEF Proceed, Return
        <5> QED BY <2>3, <5>1
      <4>3. h.message = req[s].message
        BY <3>2 DEF Handlers
      <4>4. req'[s] = h /\ message' = message
        <5>1. req' = [req EXCEPT ![s] = h] /\ message' = message
          BY <4>1, <4>2 DEF Proceed, Resume, documents, others
        <5> HIDE DEF h
        <5> QED BY <3>2, <5>1
      <4> HIDE DEF h
      <4> QED BY <4>1, <4>2, <4>3, <4>4
    <3>4. CASE req[s].pc = "pin_clear"
      <4> DEFINE h == [req[s] EXCEPT !.pc = "pin_set"]
      <4>1. Goto(s, "pin_set")
        BY <1>4, <3>4, PayActionAt DEF PinClear, SetPinned
      <4>2. h.message = req[s].message
        BY <3>2 DEF Handlers
      <4>3. req'[s] = h
        <5>1. req' = [req EXCEPT ![s] = h]
          BY <4>1 DEF Goto, Resume
        <5> HIDE DEF h
        <5> QED BY <3>2, <5>1
      <4> HIDE DEF h
      <4>4. req[s].message \in Messages /\ message[req[s].message].sent
        BY <3>4 DEF MessagesOK
      <4> QED BY <2>2, <4>2, <4>3, <4>4
    <3> QED BY <3>1, <3>3, <3>4
  <2>4. \A t \in Slots \ {s} : req'[t] = req[t]
    BY <2>1 DEF Moves
  <2> QED BY <2>2, <2>3, <2>4 DEF MessagesOK
<1> QED BY <1>2, <1>3, <1>4 DEF Next

LEMMA MoneyStep ==
  ASSUME Inv1, MessagesOK, MoneyOK, [Next]_vars
  PROVE  MoneyOK'
<1>1. /\ Price \in Nat /\ GiftPrice \in Nat /\ balance \in [Users -> Int] /\ Wallet \in [Users -> Int]
      /\ IsFiniteSet(Users) /\ Host \in Users /\ Viewers \subseteq Users
  <2>1. IsFiniteSet(Viewers \cup {Host})
    BY StreamAssumption, FS_AddElement
  <2> QED BY <2>1, StreamAssumption DEF Inv1, TypeOK, Users
<1> DEFINE B == SumOf(balance, Users)
           W == SumOf(Wallet, Users)
           c == Cardinality(Crediting)
           d == Cardinality(Giving)
           n == Cardinality(GiftMessages)
<1>2. B \in Int /\ W \in Int
  BY <1>1, SumType
<1>3. c \in Nat /\ d \in Nat /\ n \in Nat
  BY FS_CardinalityType DEF MoneyOK
<1>4. B + Price * c + GiftPrice * d <= W + GiftPrice * n
  BY DEF MoneyOK
<1>5. ASSUME UNCHANGED <<balance, message>>, Crediting' \subseteq Crediting, Giving' \subseteq Giving
      PROVE  MoneyOK'
  <2>1. IsFiniteSet(Crediting') /\ Cardinality(Crediting') \in Nat /\ Cardinality(Crediting') <= c
    BY <1>5, FS_Subset, FS_CardinalityType DEF MoneyOK
  <2>2. IsFiniteSet(Giving') /\ Cardinality(Giving') \in Nat /\ Cardinality(Giving') <= d
    BY <1>5, FS_Subset, FS_CardinalityType DEF MoneyOK
  <2>3. GiftMessages' = GiftMessages /\ SumOf(balance, Users)' = B
    BY <1>5 DEF GiftMessages
  <2> DEFINE i == Cardinality(Crediting')
             j == Cardinality(Giving')
  <2>4. B + Price * i + GiftPrice * j <= W + GiftPrice * n
    <3> HIDE DEF B, W, c, d, n, i, j
    <3>1. i \in Nat /\ j \in Nat /\ i <= c /\ j <= d
      BY <2>1, <2>2 DEF i, j
    <3> QED BY <1>1, <1>2, <1>3, <1>4, <3>1, Account
  <2> QED BY <2>1, <2>2, <2>3, <2>4 DEF MoneyOK
<1>6. CASE Restart \/ UNCHANGED vars
  <2>1. UNCHANGED <<balance, message>> /\ \A t \in Slots : req'[t].pc = "idle" \/ req'[t] = req[t]
    BY <1>6, IdleType DEF Restart, vars, documents, others
  <2>2. Crediting' \subseteq Crediting /\ Giving' \subseteq Giving
    BY <2>1 DEF Crediting, Giving
  <2> QED BY <1>5, <2>1, <2>2
<1>7. ASSUME NEW s \in Slots, Start(s) PROVE MoneyOK'
  <2>1. Begins(s) /\ Reads(s)
    BY <1>7, StartMoves DEF Inv1
  <2>2. req'[s].pc \notin {"join_credit", "gift"}
    BY <2>1 DEF Reads
  <2>3. Crediting' \subseteq Crediting /\ Giving' \subseteq Giving /\ UNCHANGED <<balance, message>>
    BY <2>1, <2>2 DEF Crediting, Giving, Begins
  <2> QED BY <1>5, <2>3
<1>8. ASSUME NEW s \in Slots, Continue(s) PROVE MoneyOK'
  <2>1. Moves(s) /\ TypeOK /\ HandlersOK
    BY <1>8, ContinueMoves DEF Inv1
  <2>2. /\ \A t : t # s => (t \in Crediting <=> t \in Crediting')
        /\ \A t : t # s => (t \in Giving <=> t \in Giving')
    BY <2>1 DEF Moves, Crediting, Giving
  <2> DEFINE C == Crediting'
             D == Giving'
  <2>3. /\ IsFiniteSet(C) /\ Cardinality(C) \in Nat
        /\ Cardinality(C) = c + (IF s \in C THEN 1 ELSE 0) - (IF s \in Crediting THEN 1 ELSE 0)
    <3>1. \A t : t # s => (t \in Crediting <=> t \in C)
      BY <2>2
    <3>2. IsFiniteSet(Crediting)
      BY DEF MoneyOK
    <3> HIDE DEF C
    <3> QED BY <3>1, <3>2, OneMember
  <2>4. /\ IsFiniteSet(D) /\ Cardinality(D) \in Nat
        /\ Cardinality(D) = d + (IF s \in D THEN 1 ELSE 0) - (IF s \in Giving THEN 1 ELSE 0)
    <3>1. \A t : t # s => (t \in Giving <=> t \in D)
      BY <2>2
    <3>2. IsFiniteSet(Giving)
      BY DEF MoneyOK
    <3> HIDE DEF D
    <3> QED BY <3>1, <3>2, OneMember
  <2>5. /\ s \in C <=> req'[s].pc = "join_credit"
        /\ s \in Crediting <=> req[s].pc = "join_credit"
        /\ s \in D <=> req'[s].pc = "gift"
        /\ s \in Giving <=> req[s].pc = "gift"
    BY DEF Crediting, Giving
  <2>6. /\ req'[s].pc = "join_credit" => req[s].pc = "join_charge"
        /\ req'[s].pc = "gift" => req[s].pc = "message_create"
    BY <2>1 DEF Moves, Flow
  <2>7. /\ \/ GiftMessages' = GiftMessages /\ req'[s].pc # "gift"
           \/ /\ req[s].pc = "message_create"
              /\ \E m \in Messages : m \notin GiftMessages /\ GiftMessages' = GiftMessages \cup {m}
    BY <1>8, <2>1, MessageFields
  <2>8. IsFiniteSet(GiftMessages')
        /\ (req[s].pc # "message_create" => Cardinality(GiftMessages') = n)
        /\ Cardinality(GiftMessages') \in {n, n + 1}
        /\ (req'[s].pc = "gift" => Cardinality(GiftMessages') = n + 1)
    <3>1. ASSUME NEW m, m \notin GiftMessages, GiftMessages' = GiftMessages \cup {m}
          PROVE  IsFiniteSet(GiftMessages') /\ Cardinality(GiftMessages') = n + 1
      BY <3>1, FS_AddElement DEF MoneyOK
    <3>2. CASE GiftMessages' = GiftMessages /\ req'[s].pc # "gift"
      BY <3>2 DEF MoneyOK
    <3>3. CASE /\ req[s].pc = "message_create"
               /\ \E m \in Messages : m \notin GiftMessages /\ GiftMessages' = GiftMessages \cup {m}
      <4>1. IsFiniteSet(GiftMessages') /\ Cardinality(GiftMessages') = n + 1
        BY <3>1, <3>3
      <4> HIDE DEF n
      <4> QED BY <3>3, <4>1
    <3> QED BY <2>7, <3>2, <3>3
  <2> DEFINE B2 == SumOf(balance', Users)
             i == Cardinality(C)
             j == Cardinality(D)
             k == Cardinality(GiftMessages')
  <2>9. SUFFICES B2 + Price * i + GiftPrice * j <= W + GiftPrice * k
    BY <2>3, <2>4, <2>8 DEF MoneyOK
  <2>10. ASSUME NEW u \in Users, NEW a \in Int, balance' = [balance EXCEPT ![u] = @ + a]
         PROVE  B2 = B + a
    <3>1. /\ \A v \in Users : balance[v] \in Int
          /\ \A v \in Users \ {u} : balance'[v] = balance[v]
          /\ balance'[u] = balance[u] + a /\ balance'[u] \in Int
      BY <1>1, <2>10
    <3>2. B2 = B - balance[u] + balance'[u]
      <4> HIDE DEF B, B2
      <4>1. \A v \in Users : balance[v] \in Int
        BY <3>1
      <4>2. \A v \in Users \ {u} : balance'[v] = balance[v]
        BY <3>1
      <4> QED BY <1>1, <3>1, <4>1, <4>2, SumChange DEF B, B2
    <3> HIDE DEF B, B2
    <3> QED BY <1>2, <3>1, <3>2
  <2>11. CASE req[s].pc = "join_charge"
    <3>1. JoinCharge(s) /\ req[s].user \in Users /\ req'[s].pc = "join_credit"
      BY <1>8, <2>1, <2>11, PayActionAt, BalanceFields, UserTyped
    <3>2. balance' = [balance EXCEPT ![req[s].user] = @ + (-Price)]
      BY <3>1 DEF JoinCharge, Pay
    <3>3. B2 = B + (-Price)
      <4>1. -Price \in Int
        BY <1>1
      <4> HIDE DEF B, B2
      <4> QED BY <2>10, <3>1, <3>2, <4>1
    <3>4. i = c + 1 /\ j = d /\ k = n
      <4> HIDE DEF C, D, c, d, n
      <4> QED BY <1>3, <2>3, <2>4, <2>5, <2>8, <2>11, <3>1
    <3>5. (B - Price) + Price * (c + 1) + GiftPrice * d <= W + GiftPrice * n
      <4> HIDE DEF B, W, c, d, n
      <4> QED BY <1>1, <1>2, <1>3, <1>4, Account
    <3>6. B2 = B - Price
      <4> HIDE DEF B, B2
      <4> QED BY <1>1, <1>2, <3>3
    <3> HIDE DEF B, B2, W, c, d, n, i, j, k
    <3> QED BY <3>4, <3>5, <3>6
  <2>12. CASE req[s].pc = "join_credit"
    <3>1. balance' = [balance EXCEPT ![Host] = @ + Price]
      BY <1>8, <2>12, PayActionAt DEF JoinCredit, Pay
    <3>2. B2 = B + Price
      <4>1. Price \in Int
        BY <1>1
      <4> HIDE DEF B, B2
      <4> QED BY <1>1, <2>10, <3>1, <4>1
    <3>3. c = i + 1 /\ j = d /\ k = n /\ i \in Nat
      <4> HIDE DEF C, D, c, d, n
      <4> QED BY <1>3, <2>3, <2>4, <2>5, <2>6, <2>8, <2>12
    <3>4. (B + Price) + Price * i + GiftPrice * d <= W + GiftPrice * n
      <4> HIDE DEF B, W, c, d, n, i
      <4> QED BY <1>1, <1>2, <1>3, <1>4, <3>3, Account
    <3> HIDE DEF B, B2, W, c, d, n, i, j, k
    <3> QED BY <3>2, <3>3, <3>4
  <2>13. CASE req[s].pc = "gift"
    <3>1. balance' = [balance EXCEPT ![Host] = @ + GiftPrice]
      BY <1>8, <2>13, PayActionAt DEF Gift, Pay
    <3>2. B2 = B + GiftPrice
      <4>1. GiftPrice \in Int
        BY <1>1
      <4> HIDE DEF B, B2
      <4> QED BY <1>1, <2>10, <3>1, <4>1
    <3>3. d = j + 1 /\ i = c /\ k = n /\ j \in Nat
      <4> HIDE DEF C, D, c, d, n
      <4> QED BY <1>3, <2>3, <2>4, <2>5, <2>6, <2>8, <2>13
    <3>4. (B + GiftPrice) + Price * c + GiftPrice * j <= W + GiftPrice * n
      <4> HIDE DEF B, W, c, d, n, j
      <4> QED BY <1>1, <1>2, <1>3, <1>4, <3>3, Account
    <3> HIDE DEF B, B2, W, c, d, n, i, j, k
    <3> QED BY <3>2, <3>3, <3>4
  <2>14. CASE req[s].pc \notin {"join_charge", "join_credit", "gift"}
    <3>1. balance' = balance
      <4>1. ~JoinCharge(s) /\ ~JoinCredit(s) /\ ~Gift(s)
        BY <2>14 DEF JoinCharge, JoinCredit, Gift, Pay
      <4> QED BY <1>8, <4>1, ContinueWrites
    <3>2. B2 = B
      BY <3>1
    <3>3. \/ i = c /\ k \in Nat /\ j = d /\ k >= n
          \/ j = d + 1 /\ k = n + 1 /\ i = c
      <4> HIDE DEF C, D, c, d, n
      <4> QED BY <1>3, <2>3, <2>4, <2>5, <2>6, <2>8, <2>14
    <3>4. CASE i = c /\ k \in Nat /\ j = d /\ k >= n
      <4>1. B + Price * c + GiftPrice * d <= W + GiftPrice * k
        <5> HIDE DEF B, W, c, d, n, k
        <5> QED BY <1>1, <1>2, <1>3, <1>4, <3>4, Account
      <4> HIDE DEF B, B2, W, c, d, n, i, j, k
      <4> QED BY <3>2, <3>4, <4>1
    <3>5. CASE j = d + 1 /\ k = n + 1 /\ i = c
      <4>1. B + Price * c + GiftPrice * (d + 1) <= W + GiftPrice * (n + 1)
        <5> HIDE DEF B, W, c, d, n
        <5> QED BY <1>1, <1>2, <1>3, <1>4, Account
      <4> HIDE DEF B, B2, W, c, d, n, i, j, k
      <4> QED BY <3>2, <3>5, <4>1
    <3> QED BY <3>3, <3>4, <3>5
  <2> QED BY <2>11, <2>12, <2>13, <2>14
<1> QED BY <1>6, <1>7, <1>8 DEF Next

\* Joining moves money and does not make it: whatever overlaps and wherever the
\* process ends, the balances together are what they were and the gifts.
THEOREM CreditsCharged == Spec => []CreditsAreCharged
<1>1. Init => MessagesOK /\ MoneyOK
  <2> SUFFICES ASSUME Init PROVE MessagesOK /\ MoneyOK
    OBVIOUS
  <2>1. Idle.pc = "idle" /\ Unsent.gift = FALSE /\ Unsent.sent = FALSE
    BY IdleType DEF Unsent
  <2>2. Crediting = {} /\ Giving = {} /\ GiftMessages = {}
    BY <2>1 DEF Init, Crediting, Giving, GiftMessages
  <2>3. IsFiniteSet({}) /\ Cardinality({}) = 0
    BY FS_EmptySet
  <2>4. balance = Wallet /\ Price \in Nat /\ GiftPrice \in Nat
    BY StreamAssumption DEF Init
  <2>5. SumOf(Wallet, Users) \in Int
    <3>1. IsFiniteSet(Users) /\ \A u \in Users : Wallet[u] \in Int
      BY StreamAssumption, FS_AddElement DEF Users
    <3> QED BY <3>1, SumType
  <2>6. MoneyOK
    BY <2>2, <2>3, <2>4, <2>5 DEF MoneyOK
  <2>7. MessagesOK
    BY <2>1 DEF Init, MessagesOK
  <2> QED BY <2>6, <2>7
<1>2. Inv1 /\ MessagesOK /\ MoneyOK /\ [Next]_vars => MessagesOK' /\ MoneyOK'
  BY MessagesStep, MoneyStep
<1>3. Inv1 /\ MoneyOK => CreditsAreCharged
  <2> SUFFICES ASSUME Inv1, MoneyOK PROVE CreditsAreCharged
    OBVIOUS
  <2> DEFINE B == SumOf(balance, Users)
             W == SumOf(Wallet, Users)
             c == Cardinality(Crediting)
             d == Cardinality(Giving)
             n == Cardinality(GiftMessages)
  <2>1. /\ Price \in Nat /\ GiftPrice \in Nat /\ balance \in [Users -> Int]
        /\ Wallet \in [Users -> Int] /\ IsFiniteSet(Users)
    BY StreamAssumption, FS_AddElement DEF Inv1, TypeOK, Users
  <2>2. B \in Int /\ W \in Int
    BY <2>1, SumType
  <2>3. c \in Nat /\ d \in Nat /\ n \in Nat
    BY FS_CardinalityType DEF MoneyOK
  <2>4. B + Price * c + GiftPrice * d <= W + GiftPrice * n
    BY DEF MoneyOK
  <2>5. B <= W + GiftPrice * n
    <3> HIDE DEF B, W, c, d, n
    <3>1. B + Price * 0 + GiftPrice * 0 <= W + GiftPrice * n
      BY <2>1, <2>2, <2>3, <2>4, Account
    <3>2. Price * 0 = 0 /\ GiftPrice * 0 = 0 /\ GiftPrice * n \in Nat
      BY <2>1, <2>3, Account, <2>2, <2>4
    <3> QED BY <2>2, <3>1, <3>2
  <2> QED BY <2>5 DEF CreditsAreCharged, SumOf, Gifts, GiftMessages
<1> QED BY <1>1, <1>2, <1>3, Inv1Always, PTL DEF Spec
=============================================================================
