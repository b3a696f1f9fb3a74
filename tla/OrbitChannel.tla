----------------------------- MODULE OrbitChannel -----------------------------
(***************************************************************************)
(* OrbitChannelService and its gateway: channels with an owner, members    *)
(* and broadcasts, each in a collection of its own.  The owner is no       *)
(* member unless the owner joins; nobody can leave: the route hands        *)
(* leaveChannel the id of the user for the user, and reading its _id fails.*)
(***************************************************************************)
EXTENDS SocialState

CONSTANTS MaxChannels, MaxBroadcasts  \* bounds

ASSUME OrbitChannelAssumption == MaxChannels \in Nat \ {0} /\ MaxBroadcasts \in Nat

VARIABLES
  channel,     \* the document of a channel, by id
  channels,    \* number of channels created
  member,      \* ChannelMember: <<channel, user>>, unique
  message,     \* ChannelMessage, by id
  listening    \* who has joined the socket room of a channel

orbitVars == <<channel, channels, member, message, listening>>
orbitUsers == <<member, listening>>

ChannelIds == 1..MaxChannels
BroadcastIds == 1..MaxBroadcasts

NoChannel == [ownerId |-> NoUser, edited |-> FALSE, image |-> FALSE]
NoBroadcast == [channelId |-> 0, senderId |-> NoUser]

OrbitInit ==
  /\ channel = [c \in ChannelIds |-> NoChannel] /\ channels = 0
  /\ member = {} /\ message = [m \in BroadcastIds |-> NoBroadcast]
  /\ listening = {}

ChannelHere(c) == c \in ChannelIds /\ channel[c].ownerId # NoUser
Unused == {m \in BroadcastIds : message[m] = NoBroadcast}

CreateChannel(u) ==
  /\ AtOnce("channel") /\ channels < MaxChannels
  /\ channels' = channels + 1
  /\ channel' = [channel EXCEPT ![channels + 1].ownerId = u]
  /\ UNCHANGED <<orbitUsers, message>>

\* The channel and the membership are looked up.
JoinChannel(s, u, c) ==
  /\ Free(s, "joinChannel") /\ ChannelHere(c) /\ <<c, u>> \notin member
  /\ Begin(s, [Call("insertMember", u) EXCEPT !.id = c])
  /\ UNCHANGED orbitVars

\* A second membership is refused by the index.
InsertMember(s) ==
  /\ At(s, "insertMember")
  /\ member' = member \cup {<<req[s].id, req[s].user>>}
  /\ Return(s)
  /\ UNCHANGED <<channel, channels, message, listening>>

\* A handler of the owner that has found the channel.
ByOwner(s, request, pc, u, c) ==
  /\ Free(s, request) /\ ChannelHere(c) /\ channel[c].ownerId = u
  /\ Begin(s, [Call(pc, u) EXCEPT !.id = c])
  /\ UNCHANGED orbitVars

\* With or without a file.  The schema requires a content: a file alone is
\* uploaded and then refused.  Who listens is sent the message.
SendBroadcastMessage(s, u, c) == ByOwner(s, "broadcast", "insertBroadcast", u, c)

InsertBroadcast(s) ==
  /\ At(s, "insertBroadcast") /\ Unused # {}
  /\ LET m == CHOOSE i \in Unused : TRUE
     IN message' = [message EXCEPT ![m] = [channelId |-> req[s].id, senderId |-> req[s].user]]
  /\ Return(s)
  /\ UNCHANGED <<channel, channels, member, listening>>

\* updateChannel and updateChannelImage: a channel that is gone is not changed.
UpdateChannel(s, u, c) == ByOwner(s, "editChannel", "setChannel", u, c)
UpdateChannelImage(s, u, c) == ByOwner(s, "channelImage", "setChannelImage", u, c)

SetChannel(s) ==
  /\ At(s, "setChannel") \/ At(s, "setChannelImage")
  /\ channel' = IF ~ChannelHere(req[s].id) THEN channel
                ELSE IF At(s, "setChannel") THEN [channel EXCEPT ![req[s].id].edited = TRUE]
                ELSE [channel EXCEPT ![req[s].id].image = TRUE]
  /\ Return(s)
  /\ UNCHANGED <<orbitUsers, channels, message>>

DeleteChannel(s, u, c) == ByOwner(s, "deleteChannel", "removeChannel", u, c)

RemoveChannel(s) ==
  /\ At(s, "removeChannel")
  /\ channel' = [channel EXCEPT ![req[s].id] = NoChannel]
  /\ Goto(s, "removeMembers")
  /\ UNCHANGED <<orbitUsers, channels, message>>

\* Mutant: the members of a deleted channel are kept.
RemoveNoMembers(s) ==
  /\ At(s, "removeMembers")
  /\ Goto(s, "removeBroadcasts")
  /\ UNCHANGED orbitVars

RemoveMembers(s) ==
  /\ At(s, "removeMembers")
  /\ member' = {m \in member : m[1] # req[s].id}
  /\ Goto(s, "removeBroadcasts")
  /\ UNCHANGED <<channel, channels, message, listening>>

RemoveBroadcasts(s) ==
  /\ At(s, "removeBroadcasts")
  /\ message' = [m \in BroadcastIds |->
                   IF message[m].channelId = req[s].id THEN NoBroadcast ELSE message[m]]
  /\ Return(s)
  /\ UNCHANGED <<orbitUsers, channel, channels>>

\* The gateway asks nobody whether they are members, or whether there is such a
\* channel.
HandleJoinChannel(u, c) ==
  /\ AtOnce("listen") /\ listening' = listening \cup {<<c, u>>}
  /\ UNCHANGED <<channel, channels, member, message>>

HandleLeaveChannel(u, c) ==
  /\ AtOnce("listen") /\ listening' = listening \ {<<c, u>>}
  /\ UNCHANGED <<channel, channels, member, message>>

OrbitContinue(s) ==
  \/ InsertMember(s) \/ InsertBroadcast(s) \/ SetChannel(s)
  \/ RemoveChannel(s) \/ RemoveMembers(s) \/ RemoveBroadcasts(s)

OrbitStart(s) ==
  \E u \in Users, c \in ChannelIds :
    \/ JoinChannel(s, u, c) \/ SendBroadcastMessage(s, u, c)
    \/ UpdateChannel(s, u, c) \/ UpdateChannelImage(s, u, c) \/ DeleteChannel(s, u, c)

OrbitAtOnce ==
  \E u \in Users :
    \/ CreateChannel(u)
    \/ \E c \in ChannelIds : HandleJoinChannel(u, c) \/ HandleLeaveChannel(u, c)
=============================================================================
