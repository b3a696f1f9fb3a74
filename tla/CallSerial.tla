----------------------------- MODULE CallSerial -----------------------------
(***************************************************************************)
(* The call service when handlers do not overlap: a request, a timer or a  *)
(* disconnection is handled to its end before the next one begins.         *)
(***************************************************************************)
EXTENDS Call

ActiveSlots == {s \in Slots : req[s].pc # "idle"}
ActiveTimers == {c \in Calls : timer[c] \in {"mark", "post", "callee", "caller"}}

OneHandler == Cardinality(ActiveSlots) + Cardinality(ActiveTimers) <= 1
Quiet == ActiveSlots = {} /\ ActiveTimers = {}

SerialNext == Next /\ OneHandler'
SerialSpec == Init /\ [][SerialNext]_vars

Lifecycle == INSTANCE CallLifecycle WITH life <- status

\* Without overlap the call service implements the lifecycle its comments
\* describe.
ImplementsLifecycle == Lifecycle!Spec

\* Without overlap and restarts, a user who was called is not left marked as
\* being in a call that was canceled, rejected, finished or timed out.
CalleeIsFreed ==
  Quiet /\ restarts = 0 =>
    \A c \in Calls : status[c] \in Outcomes /\ room[c] \in SingleRooms =>
                     busy[Callee(c)] # c
=============================================================================
