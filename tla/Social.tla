-------------------------------- MODULE Social --------------------------------
(***************************************************************************)
(* Communities, channels, stories and the market on one process.  A step   *)
(* of one leaves the documents of the others alone.                        *)
(***************************************************************************)
EXTENDS Community, OrbitChannel, Stories, Market, Files

vars == <<social, communityVars, orbitVars, storiesVars, marketVars, filesVars>>

Init == SocialInit /\ CommunityInit /\ OrbitInit /\ StoriesInit /\ MarketInit /\ FilesInit

OrbitNext == OrbitAtOnce \/ \E s \in Slots : OrbitContinue(s) \/ OrbitStart(s)

StoriesNext ==
  \/ StoriesAtOnce
  \/ \E s \in Slots : StoriesContinue(s) \/ StoriesStart(s)
  \/ \E t \in StoryIds : ExpireStory(t)

MarketNext ==
  \/ MarketAtOnce \/ ListingDue \/ HandleExpiration
  \/ \E s \in Slots : MarketContinue(s) \/ MarketStart(s)

FilesNext == FilesAtOnce \/ \E s \in Slots : FilesContinue(s) \/ FilesStart(s)

\* Sockets are disconnected and are in no room any more.
Crash ==
  /\ Restart /\ listening' = {}
  /\ UNCHANGED <<communityVars, channel, channels, member, message, storiesVars, marketVars, filesVars>>

Next ==
  \/ CommunityStep /\ UNCHANGED <<orbitVars, storiesVars, marketVars, filesVars>>
  \/ OrbitNext /\ UNCHANGED <<communityVars, storiesVars, marketVars, filesVars>>
  \/ StoriesNext /\ UNCHANGED <<communityVars, orbitVars, marketVars, filesVars>>
  \/ MarketNext /\ UNCHANGED <<communityVars, orbitVars, storiesVars, filesVars>>
  \/ FilesNext /\ UNCHANGED <<communityVars, orbitVars, storiesVars, marketVars>>
  \/ Crash

Spec == Init /\ [][Next]_vars

-----------------------------------------------------------------------------

\* The type of every variable.
TypeOK ==
  /\ scene \in Scenes /\ begun \in 0..scene.limit /\ restarts \in 0..scene.restarts
  /\ overlapped \in BOOLEAN /\ doubled \in BOOLEAN /\ exceeded \in BOOLEAN
  /\ dropped \subseteq 0..(community.seats - 1)
  /\ \A s \in Slots : req[s].user \in Users \cup {NoUser} /\ req[s].other \in Users \cup {NoUser}
                      /\ req[s].id \in Nat /\ req[s].number \in Nat /\ req[s].flag \in BOOLEAN
  /\ community.members \subseteq
       [id : 0..(community.seats - 1), user : Users, role : Roles, status : Statuses]
  /\ \A m, n \in community.members : m.id = n.id => m = n
  /\ community.version \in Nat /\ community.maxMembers \in Limits \cup {0}
  /\ community.groups \subseteq Groups
  /\ channel \in [ChannelIds -> [ownerId : Users \cup {NoUser}, edited : BOOLEAN, image : BOOLEAN]]
  /\ member \cup listening \subseteq ChannelIds \X Users
  /\ message \in [BroadcastIds -> [channelId : {0} \cup ChannelIds, senderId : Users \cup {NoUser}]]
  /\ story \in [StoryIds -> [here : BOOLEAN, userId : Users \cup {NoUser}, views : SUBSET Users,
                             somePeople : SUBSET Users, expired : BOOLEAN]]
  /\ attachment \in [StoryIds -> [here : BOOLEAN, likes : SUBSET Users, reply : Nat]]
  /\ memory \in [StoryIds -> [Users -> Nat]] /\ told \in [StoryIds -> [Users -> Nat]]
  /\ listing \in [status : ListingStatus, hide : BOOLEAN, isExpired : BOOLEAN,
                  due : BOOLEAN, edited : BOOLEAN]
  /\ engagement \in [Users -> [here : BOOLEAN, isLiked : BOOLEAN, contacted : BOOLEAN]]
  /\ review \in [Users -> Ratings \cup {0}] /\ application \in [Users -> Nat]
  /\ record \in [RecordIds -> [here : BOOLEAN, sId : Users \cup {NoUser}, direct : BOOLEAN,
                               url : 0..MaxFiles, thumb : BOOLEAN, fileSize : Sizes \cup {0},
                               attached : BOOLEAN, dltAt : BOOLEAN]]
  /\ disk \cup refused \subseteq 1..keys /\ keys <= MaxFiles
  /\ profile.licence \in {"none", "pending", "approved"} /\ reports \in Nat

\* Whatever overlaps, the owner is not in the audience of a story, and what is
\* broadcast in a channel is its owner's.  Without overlap nobody is who banned
\* or was banned by the owner when the story was made, and nothing is kept twice;
\* when no restart has cut a handler off, a story has its attachment and nothing
\* is left of the channels that were deleted.
PostsAreWhole ==
  /\ \A t \in StoryIds : story[t].userId \notin story[t].somePeople
  /\ \A m \in BroadcastIds :
       ChannelHere(message[m].channelId) =>
         message[m].senderId = channel[message[m].channelId].ownerId
  /\ ~overlapped =>
       \A t \in StoryIds : /\ story[t].somePeople \cap banned[t] = {}
                           /\ \A u \in Users : memory[t][u] <= 1
  /\ Undisturbed =>
       /\ \A t \in StoryIds : story[t].here => attachment[t].here
       /\ \A c \in {m[1] : m \in member} : ChannelHere(c)
       /\ \A m \in BroadcastIds : message[m] # NoBroadcast => ChannelHere(message[m].channelId)

\* Without overlap and without a restart the market counts right: each opening of
\* the listing or the book, each rating, one application for a user and a job.
\* Unless the seller publishes or shows a listing anew, it is marked as expired
\* exactly while its status says so, so that it can be renewed and expires again.
MarketAgrees ==
  Undisturbed =>
    /\ views = opened
    /\ profile.average \in {<<0, 0>>, Average}
    /\ \A u \in Users : application[u] <= 1
    /\ Posted /\ scene.menu \cap {"publish", "hide"} = {} =>
         (listing.isExpired <=> listing.status = "expired")

\* Whatever overlaps and wherever the process ends, only a message whose file is
\* gone is told so, and without overlap nobody uploads more than the limit.  Without
\* overlap and without a restart a file on disk is that of a message, or of one
\* that was refused; only the messages that forward a file deleted by its owner
\* have lost theirs, and users are shown all files they have uploaded.
FilesAgree ==
  /\ \A m \in RecordIds : record[m].here /\ ~record[m].attached => record[m].url \notin disk
  /\ ~overlapped =>
       \A u \in Users :
         LET Size(m) == record[m].fileSize
         IN MapThenSumSet(Size, {m \in RecordIds : record[m].direct /\ Counts(m, u)}) <= MaxStorage
  /\ Undisturbed =>
       /\ disk \subseteq refused \cup UNION {FilesOf(m) : m \in {n \in RecordIds : record[n].here}}
       /\ \A m \in RecordIds :
            HereWithFile(m) =>
              \/ FilesOf(m) \subseteq disk
              \/ \E n \in RecordIds : /\ ~record[n].here /\ record[n].direct
                                      /\ record[n].url = record[m].url
       /\ \A u \in Users : UserFiles(u) = {m \in RecordIds : record[m].direct /\ Counts(m, u)}
=============================================================================
