------------------------------- MODULE Stories -------------------------------
(***************************************************************************)
(* UserStoryService and MemoryController: a story, its attachment with the *)
(* likes and replies, the memory kept of it, and the messages that likes   *)
(* and replies send to the owner.                                          *)
(***************************************************************************)
EXTENDS SocialState

CONSTANT MaxStories  \* bound

ASSUME StoriesAssumption == MaxStories \in Nat \ {0}

VARIABLES
  story,       \* the document of a story, by id
  stories,     \* number of stories begun
  attachment,  \* its story_attachment
  memory,      \* number of memory documents of a story, by user
  ban,         \* <<banner, target>>
  told,        \* messages about a story in the room with its owner, by user
  alone,       \* users with half a room with themselves
  banned       \* history: who banned or was banned by the owner at the creation

storiesVars == <<story, stories, attachment, memory, ban, told, alone, banned>>

StoryIds == 1..MaxStories
Privacies == {"Public", "SomePeople", "MyContactsExcept"}

\* expired: expireAt is over.  A removed story is not here any more.
NoStory == [here |-> FALSE, userId |-> NoUser, somePeople |-> {}, views |-> {}, expired |-> FALSE]
NoAttachment == [here |-> FALSE, likes |-> {}, reply |-> 0]

StoriesInit ==
  /\ story = [t \in StoryIds |-> NoStory] /\ stories = 0
  /\ attachment = [t \in StoryIds |-> NoAttachment]
  /\ memory = [t \in StoryIds |-> [u \in Users |-> 0]]
  /\ ban = {} /\ told = [t \in StoryIds |-> [u \in Users |-> 0]]
  /\ alone = {} /\ banned = [t \in StoryIds |-> {}]

\* getMyBlockTheyAndMe
Blocked(u) == {v \in Users : <<u, v>> \in ban \/ <<v, u>> \in ban}

\* Mutant: only the bans of the owner count.
AudienceOfMyBans(u, privacy, people) ==
  LET mine == {v \in Users : <<u, v>> \in ban} \cup {u}
  IN IF privacy = "SomePeople" THEN people \ mine ELSE Users \ mine

\* Who sees a new story: everybody, the people chosen, or everybody but them.
Audience(u, privacy, people) ==
  CASE privacy = "Public" -> Users \ (Blocked(u) \cup {u})
    [] privacy = "SomePeople" -> people \ (Blocked(u) \cup {u})
    [] privacy = "MyContactsExcept" -> Users \ (Blocked(u) \cup people \cup {u})

-----------------------------------------------------------------------------
(* Creation and removal *)

\* Bans and users are read, files uploaded.
CreateStory(s, u, privacy, people) ==
  /\ Free(s, "story") /\ stories < MaxStories
  /\ stories' = stories + 1
  /\ Begin(s, [Call("insertStory", u) EXCEPT !.id = stories + 1,
                                             !.seen = Audience(u, privacy, people)])
  /\ UNCHANGED <<story, attachment, memory, ban, told, alone, banned>>

InsertStory(s) ==
  LET t == req[s].id IN
  /\ At(s, "insertStory")
  /\ story' = [story EXCEPT ![t] = [NoStory EXCEPT !.here = TRUE, !.userId = req[s].user,
                                                   !.somePeople = req[s].seen]]
  /\ banned' = [banned EXCEPT ![t] = Blocked(req[s].user)]
  /\ Goto(s, "insertAttachment")
  /\ UNCHANGED <<stories, attachment, memory, ban, told, alone>>

\* Mutant: stories begin without an attachment.
InsertNoAttachment(s) ==
  /\ At(s, "insertAttachment")
  /\ Goto(s, "insertMemory")
  /\ UNCHANGED storiesVars

InsertAttachment(s) ==
  /\ At(s, "insertAttachment")
  /\ attachment' = [attachment EXCEPT ![req[s].id].here = TRUE]
  /\ Goto(s, "insertMemory")
  /\ UNCHANGED <<story, stories, memory, ban, told, alone, banned>>

Remember(s) ==
  /\ memory' = [memory EXCEPT ![req[s].id][req[s].user] = @ + 1]
  /\ Return(s)
  /\ UNCHANGED <<story, stories, attachment, ban, told, alone, banned>>

\* Saved by the creation, or at the request of a user (MemoryController.create).
InsertMemory(s) == At(s, "insertMemory") /\ Remember(s)

KeepMemory(s, u, t) ==
  /\ Free(s, "memory") /\ story[t].here /\ memory[t][u] = 0
  /\ Begin(s, [Call("insertMemory", u) EXCEPT !.id = t])
  /\ UNCHANGED storiesVars

\* By the id of the memory or of the story: one document.
RemoveMemory(u, t) ==
  /\ AtOnce("memory") /\ memory[t][u] > 0
  /\ memory' = [memory EXCEPT ![t][u] = @ - 1]
  /\ UNCHANGED <<story, stories, attachment, ban, told, alone, banned>>

RemoveStart(s, u, t) ==
  /\ Free(s, "removeStory") /\ story[t].here /\ story[t].userId = u
  /\ Begin(s, [Call("removeStory", u) EXCEPT !.id = t])
  /\ UNCHANGED storiesVars

\* The administrator removes anybody's.
DeleteStory(s, t) ==
  /\ Free(s, "removeStory") /\ story[t].here
  /\ Begin(s, [Call("removeStory", story[t].userId) EXCEPT !.id = t])
  /\ UNCHANGED storiesVars

\* The attachment and the memories stay.
RemoveStory(s) ==
  /\ At(s, "removeStory")
  /\ story' = [story EXCEPT ![req[s].id].here = FALSE]
  /\ Return(s)
  /\ UNCHANGED <<stories, attachment, memory, ban, told, alone, banned>>

\* One update: of anyone who knows the id but the owner.
AddView(u, t) ==
  /\ AtOnce("view") /\ story[t].here /\ story[t].userId # u
  /\ story' = [story EXCEPT ![t].views = @ \cup {u}]
  /\ UNCHANGED <<stories, attachment, memory, ban, told, alone, banned>>

-----------------------------------------------------------------------------
(* Likes and replies *)

\* reactToStory: whether the story is liked is read, then changed.
ReactToStory(s, u, t) ==
  /\ Free(s, "react") /\ attachment[t].here
  /\ Begin(s, [Call("toggleLike", u) EXCEPT !.id = t, !.flag = u \notin attachment[t].likes])
  /\ UNCHANGED storiesVars

\* An unlike sends nothing, a like goes on to the story.
ToggleLike(s) ==
  LET u == req[s].user
      t == req[s].id
  IN /\ At(s, "toggleLike")
     /\ attachment' = [attachment EXCEPT
          ![t].likes = IF req[s].flag THEN @ \cup {u} ELSE @ \ {u}]
     /\ Goto(s, IF req[s].flag THEN "findOwner" ELSE "findUnliked")
     /\ UNCHANGED <<story, stories, memory, ban, told, alone, banned>>

\* replyToStory: the reply is stored first.
ReplyToStory(s, u, t) ==
  /\ Free(s, "reply") /\ attachment[t].here
  /\ attachment' = [attachment EXCEPT ![t].reply = @ + 1]
  /\ Begin(s, [Call("findOwner", u) EXCEPT !.id = t, !.word = "reply"])
  /\ UNCHANGED <<story, stories, memory, ban, told, alone, banned>>

\* The request fails if the story is gone; the like or the reply stays.
FindOwner(s) ==
  /\ At(s, "findOwner") \/ At(s, "findUnliked")
  /\ IF At(s, "findOwner") /\ story[req[s].id].here
     THEN Goto(s, IF req[s].word = "reply" THEN "enter" ELSE "tell")
     ELSE Return(s)
  /\ UNCHANGED storiesVars

\* In the room with the owner, unless one has banned the other (see Chat).  What
\* the owner likes or answers is sent too, as an id is compared with its string:
\* the first time the room with oneself is left with one member and no message.
Tell(s) ==
  LET u == req[s].user
      t == req[s].id
      own == story[t].userId = u
  IN /\ At(s, "tell")
     /\ told' = IF story[t].userId \in Blocked(u) \/ (own /\ u \notin alone) THEN told
                ELSE [told EXCEPT ![t][u] = @ + 1]
     /\ alone' = IF own THEN alone \cup {u} ELSE alone
     /\ Return(s)
     /\ UNCHANGED <<story, stories, attachment, memory, ban, banned>>

\* A reply enters the room, waits half a second and is sent in spite of what has
\* become of the story since; a ban of that time refuses it.
EnterRoom(s) ==
  LET u == req[s].user
      own == story[req[s].id].userId = u
  IN /\ At(s, "enter")
     /\ IF own /\ u \notin alone THEN Return(s) ELSE Goto(s, "tellReply")
     /\ alone' = IF own THEN alone \cup {u} ELSE alone
     /\ UNCHANGED <<story, stories, attachment, memory, ban, told, banned>>

TellReply(s) ==
  LET u == req[s].user
      t == req[s].id
  IN /\ At(s, "tellReply")
     /\ told' = IF story[t].userId \in Blocked(u) THEN told ELSE [told EXCEPT ![t][u] = @ + 1]
     /\ Return(s)
     /\ UNCHANGED <<story, stories, attachment, memory, ban, alone, banned>>

-----------------------------------------------------------------------------

\* createBan and unBan, see ChatRooms.
Ban(u, v) ==
  /\ AtOnce("ban") /\ u # v
  /\ ban' = IF <<u, v>> \in ban THEN ban \ {<<u, v>>} ELSE ban \cup {<<u, v>>}
  /\ UNCHANGED <<story, stories, attachment, memory, told, alone, banned>>

\* 24 hours have passed.
ExpireStory(t) ==
  /\ story[t].here /\ ~story[t].expired
  /\ story' = [story EXCEPT ![t].expired = TRUE]
  /\ UNCHANGED <<social, stories, attachment, memory, ban, told, alone, banned>>

StoriesContinue(s) ==
  \/ InsertStory(s) \/ InsertAttachment(s) \/ InsertMemory(s) \/ RemoveStory(s)
  \/ ToggleLike(s) \/ FindOwner(s) \/ Tell(s) \/ EnterRoom(s) \/ TellReply(s)

StoriesStart(s) ==
  \/ \E t \in StoryIds : DeleteStory(s, t)
  \/ \E u \in Users :
    \/ \E privacy \in Privacies, people \in SUBSET Users : CreateStory(s, u, privacy, people)
    \/ \E t \in StoryIds : \/ KeepMemory(s, u, t) \/ RemoveStart(s, u, t)
                           \/ ReactToStory(s, u, t) \/ ReplyToStory(s, u, t)

StoriesAtOnce ==
  \E u \in Users :
    \/ \E t \in StoryIds : RemoveMemory(u, t) \/ AddView(u, t)
    \/ \E v \in Users : Ban(u, v)
=============================================================================
