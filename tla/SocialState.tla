----------------------------- MODULE SocialState -----------------------------
(***************************************************************************)
(* What communities, channels, stories and the market have in common: the  *)
(* handlers in progress on one process.  They share no document; each part *)
(* is a module of its own, Social puts them together.                      *)
(***************************************************************************)
EXTENDS Integers, FiniteSets

CONSTANTS
  Users,
  Scenes,   \* the requests of a behaviour, their number and that of restarts
  Slots,    \* handlers that may be in progress at once
  NoUser

ASSUME SocialAssumption ==
  /\ Scenes \subseteq [menu : SUBSET STRING, limit : Nat, restarts : Nat]
  /\ NoUser \notin Users

VARIABLES
  scene,
  req,        \* handlers in progress
  begun,      \* number of requests so far
  overlapped, \* history: two handlers were in progress at once
  restarts    \* number of restarts so far

process == <<begun, overlapped, restarts>>
social == <<scene, req, process>>

\* What a handler keeps across an await: the user, another user or document,
\* a word, and what it has read.
Idle == [pc |-> "idle", user |-> NoUser, other |-> NoUser, id |-> 0, word |-> "none",
         seen |-> {}, number |-> 0, flag |-> FALSE]
Call(pc, u) == [Idle EXCEPT !.pc = pc, !.user = u]

SocialInit ==
  /\ scene \in Scenes
  /\ req = [s \in Slots |-> Idle]
  /\ begun = 0 /\ overlapped = FALSE /\ restarts = 0

InProgress == {s \in Slots : req[s].pc # "idle"}
Quiet == InProgress = {}

\* Handlers are alike: the next one takes a slot chosen for it.
Free(s, request) ==
  /\ request \in scene.menu /\ begun < scene.limit
  /\ InProgress # Slots /\ s = CHOOSE t \in Slots \ InProgress : TRUE

Counted ==
  /\ begun' = begun + 1
  /\ overlapped' = (overlapped \/ ~Quiet)
  /\ UNCHANGED <<scene, restarts>>

Begin(s, h) == req' = [req EXCEPT ![s] = h] /\ Counted

\* A request that is answered by one database operation needs no slot.
AtOnce(request) == request \in scene.menu /\ begun < scene.limit /\ Counted /\ UNCHANGED req

At(s, pc) == req[s].pc = pc
Resume(s, h) == req' = [req EXCEPT ![s] = h] /\ UNCHANGED <<scene, process>>
Goto(s, pc) == Resume(s, [req[s] EXCEPT !.pc = pc])
Return(s) == Resume(s, Idle)

\* The process ends and starts anew: the handlers in progress are gone.
Restart ==
  /\ restarts < scene.restarts
  /\ restarts' = restarts + 1
  /\ req' = [s \in Slots |-> Idle]
  /\ UNCHANGED <<scene, begun, overlapped>>

Undisturbed == ~overlapped /\ restarts = 0 /\ Quiet
=============================================================================
