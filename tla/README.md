# Verification of orbit-backend

orbit-backend is the NestJS server of a chat application that has grown calls,
live streams, taxi rides, a marketplace and a wallet. It keeps its state in
MongoDB, talks to phones and browsers over HTTP and Socket.IO, and runs as one
Node.js process. These modules specify its stateful parts in TLA+; TLC checks
them on small instances, and TLAPS proves some of it for every instance.

Contents: 1 how the program runs and how that is modelled; 2 inventory of the
components; 3 the modules; 4 the runs and their bounds; 5 fairness; 6 proofs;
7 what the models show about the code; 8 what is not modelled; 9 plan.
Paths below are relative to `src/src/`.

## 1. The execution model

Every request is an `async` function that runs to its next `await` without
interruption. Almost every `await` is one MongoDB operation, atomic for one
document. Two operations open a transaction (the creation of an ad and
`sendGift`), arrays of Mongoose documents carry a version check (section 3,
`Community`), and there are few unique indexes. The modules therefore share one
shape:

* a handler in progress holds a slot of `req`: a record with its program counter
  `pc` and the values it has read so far. `Slots` bounds how many overlap.
* a handler begins with one action (`...Begin`, `...Start` or the name of the
  method): the reads and refusals up to the first write that others could notice.
  One action follows for every later database operation, in the order of the
  code. `Continue` collects the steps of handlers in progress, `Start`
  and the operators named for controllers the requests as the routes let them in.
  An operation that is one atomic update needs no slot (`AtOnce`).
* a Mongoose `save()` writes the fields changed in the copy that was read
  earlier; a field set to the value it was read with is not written. `$inc`,
  `$addToSet`, `updateMany` act on the document as it is.
* documents are functions from ids to fields. A finite set of ids is the bound: a
  handler that would need one more is dropped by an action of its own
  (`...NoId`), or is not started.
* a restart ends the process between any two steps: handlers, timers, sockets
  and codes kept in memory are gone, documents are not.
* users do as they please: any request in any order from any user that the
  controllers let through.

The larger modules have a constant `Scenes`: for each behaviour, where it starts,
which requests clients make in it (`menu`), how many (`limit`) and how many
restarts there are. One module and one run with dozens of operations stay
checkable because a scene mixes the operations that touch the same documents.

Reads that cannot change the outcome, notifications, formatting, encryption and
the content of files are left out. Fares, prices and rewards are taken from small
sets.

## 2. Inventory

| component | state | operations | hard behaviour | what makes it correct | where |
|---|---|---|---|---|---|
| Calls (`chat/call_modules`) | `call_history`, `meet_member`, `user.userGlobalCallStatus`, ring timers in memory | create, accept, end/cancel/reject, invite, timeout | timer against accept and cancel; a marker in another document; timers lost with the process | a live call was answered by somebody else, a ringing one is timed, markers name one's own call, outcomes are posted | `Call` |
| Rides (`ride/rides`) | `ride`, `user.balance`, `user.ridePoints` | request, accept, start, complete, cancel, redeem | stale copies saved; four saves without a transaction; an unawaited search | one lifecycle, one active ride a user, money before marks | `Ride` |
| Live streams (`api/live_stream`) | stream, participants, messages, join requests, `user.balance` | create … delete, join/leave, remove, ban, co-host, message/pin, like, ask/answer | counters beside the documents they count; a charge in the middle of a join | nobody enters unapproved or unpaid; counters and bans are consistent | `Stream` |
| Top-ups (`mpessa`, `google-pay`) | transactions, `user.balance` | push, callback, card payment | callbacks that anybody may send, repeat and overlap; credit and mark are two writes | told of before credited, credited before marked, once without overlap | `Wallet` |
| Verification, ads, plans (`api/verification`, `api/ad_system`, `api/transactions`, `api/subscription-plan`) | applications, ads, the log, `user.balance` | apply, approve, reject, buy | charge, log and document are separate | charges are logged, wallets agree with documents | `Wallet` |
| Rooms and membership (`chat/channel`, `room_member`, `group_*`, `broadcast_*`) | settings, a room_member per user and room, group members with roles, copies of titles | create, add, kick, leave, promote, rename, delete | two documents for one membership, and a socket; two creations of one room | the documents and the sockets of a room agree | `ChatRooms`, `ChatGroups` |
| Messages (`chat/message`, message channel) | messages with delivery, read, deletion, vote and reaction marks | send, mark, delete, react, vote, read | retries; bulk marks beside new messages; a deleted room that comes back | stored once, shown again, counted as read only if seen | `ChatMessages` |
| Scheduled messages (`scheduling.service.ts`) | documents polled by a job of every minute | none: no request reaches the scheduling (section 8) | – | – | not modelled |
| Bans, chat requests | a document per ordered pair | ban, unban, ask, answer | sockets follow bans | who hears of a room is a member | `ChatRooms` |
| Socket gateway, presence (`chat/socket_io`) | sockets and their rooms | connect, disconnect, join, deliver | rooms of sockets beside documents | see rooms | `Chat*`, `Call`, `OrbitChannel` |
| Authentication (`api/auth`, `user_device`) | codes, devices, tokens | register, log in, codes, second factor, log out | codes in memory and in one shared field; logout beside login | a logged-out device never returns, codes work once | `AccountSessions` |
| Users, profiles (`api/profile`, user administration) | `user`, copies of name and image in rooms | edit, password, devices, ban, roles | four collections for one name | copies follow | `AccountProfile`, `Wallet` |
| Communities (`community`) | one document with an array of members | add, join, approve, remove, settings | whole arrays saved as they were read | nobody is lost, an administrator remains | `Community` |
| Orbit channels (`orbit-channel`) | channels, members, broadcasts, socket rooms | create, join, broadcast, delete | deletion in three steps | nothing is left over | `OrbitChannel` |
| Stories, memories (`api/stories`) | story, attachment, memory | create, view, like, reply, remove | three documents; an audience read before | whole when undisturbed, shown to the right people | `Stories` |
| Marketplace, jobs (`marketplace`, `jobs`) | listing, engagement, reviews, applications | post, edit, renew, expire, review, apply | counts saved absolutely; a mark beside a status | counts agree, mark and status agree | `Market` |
| Files (`user_files`, `file_uploader`) | files on disk, messages that name them | upload, attach, forward, delete, clean up | two stores that change one after the other | no message loses a file that is there | `Files` |
| Offers and bookings; catalogues of gifts, categories and music; drivers, vehicles, tickets; administration; external services | – | single-document edits | none to speak of | – | not modelled (section 8) |

`PROJECT.json` has the same list with source files, and the places where the
code is hard to test ("hazards").

## 3. The modules

**`Call`** (`chat/call_modules/call/call.service.ts` and what it calls).
`status`, `caller`, `room`, `participants` are fields of `call_history`;
`members[c]` the `meet_member` rows, unique by index; `busy[u]` is
`userGlobalCallStatus.callId`; `timer[c]` the entry of the SchedulerRegistry
and, once it has fired, where `_timeoutRing` is; `log[c]` the outcomes posted as
messages; `online`, `banned` what the socket gateway and the bans contribute.
`createCall` is `CreateBegin` … `CreateRegister`; `acceptCall` is `AcceptBegin`,
then `AcceptMark` and `AcceptMember` in any order (a `Promise.all`), then
`AcceptNotify` and `AcceptOffline`; `endCallV2` with its variants is `EndBegin` …
`EndPost`; `inviteToCall` is `InviteBegin`, `InviteMember` for the other members
of the rooms named, one by one, `InviteEnd`; `_timeoutRing` is `TimerFire` …
`TimerClearCaller`; the hook of a disconnecting phone is `Disconnect` …
`DisconnectClear`. *`CallLifecycle`* is the abstract specification: what the
comments promise of one call's status. *`CallSerial`* restricts `Call` to one
handler or fired timer at a time and instantiates the lifecycle
(`life <- status`). *`CallProofs`* holds the theorems.

**`Ride`** (`ride/rides/rides.service.ts`). `status`, `rider`, `driver`, `method`,
`estimate`, `fare`, `redeemed` are fields of a ride, `balance` and `points` of a
user. `charges`, `payouts` and `awards` are history variables that count how often
the code has moved money for a ride. *`RideLifecycle`*, *`RideSerial`*,
*`RideProofs`* as above; `RideSerial` also states what wallets ought to be from
the rides.

**`Stream`** (`api/live_stream/live_stream.service.ts`), for one stream. `row` are
the participants (a user may come to have several), `message` the messages, `ask`
the join requests; `viewerCount`, `likedBy`, `likesCount`, `pinnedId`, `banned` are
fields of the stream. `granted` (users once approved) and `overlapped` (whether
handlers ever overlapped or were cut off) are history variables. *`StreamProofs`*
has its theorems.

**`Wallet`** (M-Pesa, Google Pay, gifts and adjustments of the profile, ads,
badges, plans, books, and the settlement of a ride on the same wallets).
`payment[t]` is the document of a top-up, `asked` the ids the providers have given
out, `told[t]` (a history variable) what the server has heard of a payment. The
callback of M-Pesa has no guard and its body is believed, so `Callback` takes any
result and any amount of `Amounts` at any time and as often as it likes; whether
anything was paid is not part of the model, because the code does not ask.
`CardCharge` is what the server makes of Stripe's answer. `log` is the transaction log.
Some of these operations use `$inc`, some save a balance computed from a copy,
`createAd` runs in a transaction (`AdCommit` or `AdAbort`). *`WalletProofs`* has
its theorems.

**`ChatState`, `ChatRooms`, `ChatGroups`, `ChatMessages`, `Chat`**. `ChatState`
declares the documents of the collections (`setting`, `member`,
`role`, `copies`, `message`, `bans`, …), the sockets (`online`, `joined`) and the
helpers the services share. `ChatRooms` has the rooms of two, bans, chat requests
and connections; `ChatGroups` groups and broadcasts, where one request makes many
writes one member at a time; `ChatMessages` sending with all its checks,
marks, deletion, delivery and reading.
`later` are the `createMessage` calls nobody awaits, `apart` (a history variable) the
users whose sockets and documents of a room the code lets differ: who left by the
socket first, who was left out of a new group, and who was in a deleted one. `Chat`
composes them, names the routes of each controller and states the properties;
`ChatInvariants` has the inductive invariants of the chat, and *`ChatProofs`* its
theorems, which are about them: that proof is too long for one file with both.

**`AccountState`, `AccountSessions`, `AccountProfile`, `Account`**. `user` and
`device` are documents, `otp` the `global.tempOtpStorage` of the process, `tokens`
and `refreshes` everything that was ever handed out: `Verified` and `Refreshable`
say which of them the guard accepts. `copy` holds the name and image of a user in
the four collections that repeat them. *`AccountProofs`* has the theorems about
`Account`, which composes the others.

**`SocialState`, `Community`, `OrbitChannel`, `Stories`, `Market`, `Files`,
`Social`**. Five components that share handlers and restarts and no documents.
`Community` models the version rules of Mongoose: a push is not checked and moves
the version on, an array that was replaced is saved only if the version is the one
read (`Saved`, `Unsaved`). `Stories` waits the half second of a reply between the
room and the message. `Files` has the keys on disk beside the messages that name
them. `CommunitySpec` is a behaviour of communities only. `Social` composes all five.
*`SocialProofs`* has the theorems about `CommunitySpec` and about `Social`.

**`Sums`** has what the proofs need to know of sums over finite sets
(`MapThenSumSet`), and nothing of the code.

`MCCall`, `MCRide`, `MCStream`, `MCWallet`, `MCChat`, `MCAccount`, `MCSocial` give
the constants their small values. Operators that no specification uses (`PROJECT.json` lists them as
mutants) are plausible mistakes that the properties are tried against.

## 4. The runs

| run | instance | shows |
|---|---|---|
| Call | two phones with a single room and a group, one call, two handlers, a restart | `TypeOK`; `OwnCalls`; without a restart `InCallIsAnswered`, `RingingIsTimed` |
| CallSerial | three users in a star of two single rooms, one who takes no calls from the centre, two calls, one handler at a time | `ImplementsLifecycle` (refinement), `CalleeIsFreed` |
| CallLive | the same star, one call, bans, fair | `RingResolves`, `OutcomePosted` |
| CallTimeout (violation) | two users, one call, one handler beside the timer | `TimeoutOnlyRinging` is violated |
| Ride | a rider and a driver (who may ride, too), one ride, two handlers, a restart, two payment methods | `TypeOK`, `SettledBeforeMarked` |
| RideSerial | the same users, two rides, all payment methods, fares that change between estimate and completion | `ImplementsLifecycle` (refinement), `OneActiveRide`, `WalletsMatchRides` |
| RideActive (violation) | two overlapping handlers | `OneActiveRide` is violated |
| Stream | a host, two viewers, one of them subscribed, three participants, two messages, two join requests, two handlers, eight scenes | with overlap and restarts `ApprovedOnly`, `EntryIsPaid`, `CreditsAreCharged`; without overlap `CountersAgree`, `OnlyTheAllowed` |
| Wallet | two users, two payments, two ads, callbacks of two amounts, two handlers, nine scenes, fair | with overlap and restarts `TopUpsAreBacked`, `ChargesAreLogged`; without overlap `LedgerAgrees`; `CreditIsMarked` (liveness) |
| Chat | three users, three rooms, two local ids, two handlers, 24 scenes of two or three requests | with overlap and restarts `NothingTwice`; without `RoomsAreWhole`, `ListenersAreMembers`, `ReadIsSeen`, `ShownAgain` |
| Account | two users, two handsets, four devices, three codes, two handlers, twelve scenes of up to four requests | with overlap and restarts `LoggedOutStaysOut`, the first half of `CodesWorkOnce`; without overlap its second half and `ProfileIsCopied` |
| Social | three users, two handlers, seventeen scenes of up to five requests | with overlap and restarts `MembersStay` and parts of `PostsAreWhole` and `FilesAgree`; without overlap the rest and `MarketAgrees` |

Every property says in its comment what holds whatever overlaps and what is
claimed of executions without overlap. "Without overlap" properties say what the
operations compose to when they run one after the other, over any sequence. They
need many steps of several users to break (see the mutants in `PROJECT.json`).
Section 7 lists what overlap does to them.

Why these bounds. A race in this code needs two handlers and a document both
use, so two slots with one call, ride, stream or community meet every pairwise
race; a third handler adds no new pair. One restart can fall between any two
steps; scenes have one where something must survive it. Two calls or rides are
needed where a marker or an active ride must be told from another one; the three
users of the star are the smallest set in which a third user calls somebody in a
call. Three participant ids let one viewer get two documents beside the host's.
Three users let a community of a limit of two fill up, a group lose a member and
keep two, and a third user be outside of an audience. Three rooms are a broadcast
and its two single rooms. Three codes are one that is used, one that replaces it
and one more; four devices are one handset logged in twice on two users. Three
messages and four keys let a file be uploaded, forwarded, deleted and one more be
put, against a limit of two. The number of requests in a scene (two to five) is
the length of the shortest sequence in which all of its menu meets. Amounts are
chosen so that no two sums are easily confused (`MCPrice`), so that confusing two of
them changes a wallet. The amounts of callbacks are one that is not the amount asked and
one below zero; `MaxCredits` ends the callbacks of a payment that was credited twice,
and `topups` of a scene says how many payments are begun. `MaxCount` bounds the counters of a stream, which rejoining
drives up without end; it refuses a further join, never a step of a handler in
progress.

Symmetry is used on slots, and on users and calls only where no constant tells
them apart, and never in a run that checks liveness. Deadlock is checked for calls
and rides; a scene whose requests are used up, or whose stream is deleted, ends,
so the other runs do not check it.

## 5. Fairness

`FairSpec` of `Call` and `Wallet` asks for weak fairness of `Continue(s)`
for every slot: Node's event loop resumes a handler when its database operation is
done. `Call` adds `TimerStep(c)` for every call, since a timer fires when it is
due. Nothing in the code can keep any of these waiting. Requests,
sockets, bans, callbacks of providers and restarts are up to the users and the
operator and have no fairness. `InviteMember`, which the handler of an
invitation repeats for the rooms the client has named, has none either;
`InviteEnd` remains enabled throughout, so that the fair `Continue` ends it.

The three liveness properties need the process to live: a ring timer does not
survive a restart (`RingResolves`, `OutcomePosted`), nor does the handler that
would mark a payment (`CreditIsMarked`). `CreditIsMarked` also sets apart payments the
server was told the failure of: a late failure may overwrite the mark.

## 6. Proofs

TLAPS proves the following for any sets of users, rooms, calls, rides, payments,
devices and handlers, for any limits and any number of restarts, from the
assumptions on the constants that the component's modules name
(`CallAssumption`, `RideAssumption`, `StreamAssumption`, `WalletAssumption`,
`ChatAssumption`, `AccountAssumption`, `SocialAssumption`, `CommunityAssumption`,
`OrbitChannelAssumption`, `StoriesAssumption`, `MarketAssumption`,
`FilesAssumption`). They say that the constants have their types, that the
placeholders are no members, and little else:

* a single room has two different members (calls); rider and driver of the wallets
  differ, and so do the two users of a chat that starts with a room;
* wallets start at no less than zero (`Wallet0 \in [Users -> Nat]`, without which
  nobody who spends only what there is need stay above it);
* an instance has a handset, and room for one device of each user who is
  registered at the start;
* the viewers of a stream, and the users, rooms and handlers of a chat, are finite,
  because a sum or a count runs over them; a chat has two rooms at least and a
  handler. Everything else may be infinite.

| theorem | statement |
|---|---|
| `CallProofs!TypeCorrect` | `Spec => []TypeOK` |
| `CallProofs!BusyCorrect` | `Spec => []OwnCalls` |
| `CallProofs!AnswerCorrect` | `Spec => []InCallIsAnswered` |
| `CallProofs!RingingCorrect` | `Spec => []RingingIsTimed` |
| `CallProofs!FreedCorrect` | `SerialSpec => []CalleeIsFreed` |
| `CallProofs!LifecycleImplemented` | `SerialSpec => ImplementsLifecycle` (refinement) |
| `RideProofs!TypeCorrect` | `Spec => []TypeOK` |
| `RideProofs!SettledCorrect` | `Spec => []SettledBeforeMarked` |
| `RideProofs!OneActiveCorrect` | `SerialSpec => []OneActiveRide` |
| `RideProofs!LifecycleImplemented` | `SerialSpec => ImplementsLifecycle` (refinement) |
| `RideProofs!WalletsCorrect` | `SerialSpec => []WalletsMatchRides` |
| `StreamProofs!TypeCorrect` | `Spec => []TypeOK` |
| `StreamProofs!ApprovalRespected` | `Spec => []ApprovedOnly` |
| `StreamProofs!EntryPaid` | `Spec => []EntryIsPaid` |
| `StreamProofs!CountersCorrect` | `Spec => []CountersAgree` |
| `StreamProofs!BansHold` | `Spec => []OnlyTheAllowed` |
| `StreamProofs!CreditsCharged` | `Spec => []CreditsAreCharged` |
| `WalletProofs!TypeCorrect` | `Spec => []TypeOK` |
| `WalletProofs!TopUpsBacked` | `Spec => []TopUpsAreBacked` |
| `WalletProofs!ChargesLogged` | `Spec => []ChargesAreLogged` |
| `WalletProofs!WalletsAgree` | `Spec => []LedgerAgrees` |
| `ChatProofs!ChatTypeOK` | `Spec => []TypeOK` |
| `ChatProofs!ChatNothingTwice` | `Spec => []NothingTwice` |
| `ChatProofs!ChatReadIsSeen` | `Spec => []ReadIsSeen` |
| `ChatProofs!ChatShownAgain` | `Spec => []ShownAgain` |
| `ChatProofs!ChatRoomsAreWhole` | `Spec => []RoomsAreWhole` |
| `AccountProofs!TypeCorrect` | `Spec => []TypeOK` |
| `AccountProofs!CodesCorrect` | `Spec => []CodesWorkOnce` |
| `AccountProofs!LoggedOutCorrect` | `Spec => []LoggedOutStaysOut` |
| `AccountProofs!CopiesCorrect` | `Spec => []ProfileIsCopied` |
| `SocialProofs!CommunityMembersStay` | `CommunitySpec => []MembersStay` |
| `SocialProofs!SocialTypeOK` | `Spec => []TypeOK` |
| `SocialProofs!SocialMembersStay` | `Spec => []MembersStay` |
| `SocialProofs!SocialPosts` | `Spec => []PostsAreWhole` |
| `SocialProofs!SocialMarket` | `Spec => []MarketAgrees` |
| `SocialProofs!SocialFiles` | `Spec => []FilesAgree` |

None of these invariants is inductive: a handler that has read something acts on
it some steps later, so an induction needs what handlers in progress still know.
The inductive invariants are built in layers, each preserved given the ones below.

* Calls. `Inv1`: types, a handler in progress has its user, room and call, an
  unused id has no participants (`TypeOK`, `HandlersOK`, `UnusedOK`). `Inv2`: a
  creation works on its own call with the room's members as participants, an
  accepting user is one (`DocsOK`). `Inv3`: who is about to write InCall,
  Finished or Offline has an answered call (`AnswerOK`). `Inv4`: a call has one
  creator, and its caller becomes a member of it by the creation only while it
  rings (`RingOK`), without which a refused member row could end the creation
  before the timer is armed.
* Rides. `Inv1`: types, handlers, and a ride in use has a rider and an estimate
  (`UsedOK`). `Inv2`: what each handler has charged, paid or awarded before it
  saves the mark (`HandlersSettled`). `RidesKept` is the lemma both rest on: no
  step takes back what was recorded, so knowledge of a handler stays true while
  others run.
* Calls and rides, serially. `SerialInv`: one handler (or fired timer) is in
  progress at most, and what it has read of its call or ride still holds
  (`Expects`, `TimersExpect`). That is what a save without a comparison lacks when
  handlers overlap; with it, each write of a status is a transition of the
  abstract lifecycle and every other step a stutter. `FreedOrTimed` adds that the
  timer of a call that is over has yet to free the callee. `Expects` of
  `requestRide` is that its user has no active ride, from which `OneActiveRide`.
* What wallets ought to be, serially. `WalletsMatchRides` speaks of states in which
  nothing is in progress. `Ledger` holds in between, too: a wallet is what the
  rides say (`Booked`, `Scored`) and what the one handler has moved that its ride
  does not say yet (`Ahead`, `PointsAhead`), and the balances and points it will
  save are those it has read (`Knows`).
* Streams. `Inv1`: types, handlers, unused ids. `GrantedOK`: an approval in the
  database was given, and a viewer who was let past the gate has one; `granted`
  only grows, so a denial in between changes nothing. `PaidOK` counts *places*: the
  participants of a viewer and the joins that were charged and have yet to find
  or create one. Only the charge adds a place; the rest of a join turns it into a
  participant or gives it up. `SerialOK`, while nothing has overlapped:
  `viewerCount` with what the lone handler still owes it (`Due`) covers the active
  viewers, and the handler's copies are current (`Expects`). `MoneyOK`, the
  one invariant here that adds up balances: with what handlers have still to
  credit (`Crediting`, `Giving`) they come to no more than there was at first and
  what gift messages are worth.
* Wallets. `Backed`: what a handler knows of its payment (`Knows`: the amount it is
  about to credit is one the server was told of, the amount it is about to write was
  credited), that a payment being created or charged to a card has one handler
  (`OneOwner`), and that every payment has an id a provider has given out (`Asked`).
  It holds whatever overlaps and whatever callbacks say, because what was told and
  what was credited only grow. `Logged`: the
  log covers the ads, the badges and a badge about to be charged (`Owes`). `Ledger`,
  while nothing has overlapped: the wallet of a user is what the documents say
  (`Due`) and what the lone handler has moved that they do not say yet
  (`Flight`), and what it has checked still holds (`Certain`). `FewPayments`
  keeps the counts finite when `Payments` is not.
* Accounts. `Inv1`: types, handlers, and bounds: ids of devices and codes are
  handed out in order, and no document, token or handler has one that was not
  (`Bounds`), so that none returns once it is gone. Whatever overlaps: devices
  belong to registered users and who was logged out is no device (`OwnersOK`);
  who is marked as having entered a code has (`ProvedOK`); a code yet to come has
  changed nothing (`FreshOK`). While nothing has overlapped, a handler is alone
  and: a handset has one device, and whoever creates one has found none
  (`DevicesOK`); the code kept for a user is unused, kept for nobody else and the
  last that was mailed, unless one is stored and not mailed or the reverse
  (`CodesOK`); each copy of a name or image agrees with that of the user, or is
  among those the handler has yet to write (`CopiesOK`). Each of these was
  checked by TLC on the instance of `MCAccount` before it was proved.
* Chat. `Inv1` (`Typed`, `LastSeen`, `Handling`): types, and what a handler at each
  point of the code keeps; entries of a user in a group are bounded by the
  handlers (`RolesBounded`), which is what `TypeOK` says of their number. `Grows` is
  all that any step does to messages: it adds some at the end, none with a
  local id that is taken, keeps sender, room and id of the others, and gives
  nobody a second vote. From it `OneEach`, whatever overlaps. While nothing has
  overlapped (`Serial`: one handler, and `later` waits for it): who has read a room has seen its messages or is about to
  (`SeenWhenRead`), who has deleted a room is shown nothing of it or is about to be
  (`HiddenWhenDeleted`), and what the handler has checked of both still holds
  (`AtWork`). Together these are `InSight`.
  `RoomsFit` is what rooms are while a request runs: with `h` the only handler in
  progress, every room is `Whole` but those `h` is writing (`Unfinished`, one room
  or none, by the point of the code), every copy of a broadcast is `Owned`, two users
  share one room, and `Part` says of each point of the code how far the room in
  work has come: who has a member row and who a role, what the settings say, and
  that what was checked before the first write still holds. A step is then an
  argument about one room, as all others stay the `Same`. TLC checked `RoomsFit`
  on nine wide scenes of the three users before it was proved.
* Communities, channels, stories, market, files. Each part has its own invariant,
  and a frame argument joins them: a step of one part touches handlers at its own
  points of the code only (`Touches`), so it spares those of the others
  (`Spares`), whose documents it does not write.
  *Communities*: `removeMember` saves an array it has read several steps before.
  Entries have distinct ids below `seats`, and one entry a user unless one was
  added twice (`CommunityTyped`). A handler about to save has an array with an
  administrator left and, unless the version has moved on, with the entries of the
  document; the check of a lone adder still holds (`HandlersRight`, `Alone`).
  *Channels*: who broadcasts owns the channel (`ByTheOwner`); what is left of a
  deleted channel is about to be removed (`NothingLeft` with `Leaving`, `Fading`).
  *Stories*: an id that is not given out has no documents (`Unbegun`), a handler
  knows its audience (`StoriesHandler`), and a story without an attachment has a
  handler about to insert one (`Attaching`).
  *Market*: a view is counted or about to be (`Opening`), the average is that of
  the reviews or about to be (`Rating`), and a renewal knows whether the listing
  has expired (`MarketHandler`).
  *Files*: keys are handed out in order and used once (`NewKeys`, `Separate`); what is
  stored, with what is about to be, is within the limit while a user is
  alone (`Within`); a record has its file on disk unless it is a forward of a direct
  upload that was deleted (`LostFile`) or is being deleted itself (`Kept`,
  `Deleting`).

Three of these properties add up amounts (`WalletsMatchRides`, `CreditsAreCharged`,
`FilesAgree`). A fold is an induction over a set, and the library's induction
theorems cannot be used (their argument is an operator). `Sums` gets by with the one fact
that strict inclusion is well founded on finite sets: of the finite sets without a
property there is a smallest (`Minimal`), and taking one element from it gives a
smaller one that has the property. So a sum is an integer, does not depend on
the order, and changes by what one summand changes.

The large modules have frame lemmas, so that a preservation proof looks at the steps
that can disturb it and at nothing else: which steps write which variable
(`Writers`, `StartKeeps`, `ContinueWrites`), how a handler's record changes when it
begins, goes on and ends (`BeginFields`, `Moves`, `Reads`), and in `AccountProofs`
what a step may do to each document (`UserWrites`, `DeviceWrites`, `CopyWrites`,
`CodeWrites`, `OtpWrites` for handlers, `OnceWrites` for requests of one operation,
`Elapses` for time and restarts). Every later lemma of that module uses those five
summaries in place of the four dozen actions.

Only model-checked, and why:

* the liveness properties (`RingResolves`, `OutcomePosted`, `CreditIsMarked`) and the
  fairness they need: beyond the prover.
* `Chat!ListenersAreMembers`: it would need, on top of `RoomsFit`, which sockets lag
  behind the member rows at each point of the code (who is about to join or to leave),
  and that is not written down as a proof yet.

## 7. What the models show about the code

Two runs exhibit a disagreement between the code and its own words:

* CallTimeout: `_timeoutRing` says "Only handle if the call is still 'Ring'"
  (`call.service.ts:568`); it looks, awaits, and writes Timeout over a call that
  was accepted or cancelled meanwhile.
* RideActive: "You already have an active ride request." (`rides.service.ts:71`) is
  refused by a search before the insertion, so two overlapping requests pass.

Further behaviour of the code met while modelling. The models have it (a
property that holds is stated so that it allows for it) or leave it out as said:

Calls (`call.service.ts`)
* `acceptCall` writes InCall on a status read several awaits earlier
  (391, 436-442): an accept can revive a call that was cancelled in between.
  Hence the lifecycle is claimed without overlap only.
* `endCallV2` clears the markers of the callee and of whoever hangs up
  (633-634). When the callee hangs up the caller stays marked and is
  unreachable from other rooms (120). `CalleeIsFreed` claims the callee only.
* an accept that finds its caller offline writes Offline where the comment at 459
  speaks of Timeout.
* ring timers are in memory (185-189): after a restart a call may ring for ever.
* both users are marked busy after the call is visible (143): a hang-up that runs in
  between clears the markers first and is overwritten, so a user stays marked with an
  ended call. `OwnCalls` allows for it.

Rides (`rides.service.ts`)
* two drivers can both accept (114-127) and a cancellation can overwrite a ride
  that was started meanwhile (356): no status is compared when it is saved.
* `redeemPoints` can run twice (546-553), giving the points twice.
* `startRide` compares the commission with `undefined`, because the guard loads the
  user without its balance (179; `api/auth/auth.service.ts:844-853`): nothing
  refuses a start, and a balance may go below zero.
* a driver may accept a ride of their own; `completeRide` then saves one wallet from
  two copies, and the second undoes the first (213-237). `WalletsMatchRides`
  leaves such users out.
* the driver search asks for the status `online`, which no profile has, so it ends
  by writing Pending over whatever the ride has become (160); a scheduled ride is
  made pending at once, and one whose search was lost with the process can be
  neither accepted nor cancelled.
* wallets are saved as absolute balances, over any top-up or gift in between.

Live streams (`live_stream.service.ts`)
* `sendGift` (82-164) always aborts: `UserService.findByIdAndUpdate`
  (`api/user_modules/user/user.service.ts:396-398`) wraps the options it is
  given as `{session}`. The model has the request and its abort. Gift messages
  (741-748) credit the host with nobody charged; `CreditsAreCharged` allows for
  them.
* joining charges before it looks at approval and participant (481, 508) and
  charges and counts again when an active viewer rejoins (549).
* overlapping joins create two participants for one user (520), of which a ban
  or a departure turns off one; overlapping likes drift from `likedBy` (1155);
  two answers can turn an approval into a denial (1316-1326); a late start can
  revive an ended stream (377).
* pinning the pinned message unpins it (928-941): all pins are cleared and the
  `save()` of the copy read as pinned writes nothing.
* `deleteSavedStream` deletes a stream of any status (1379); any active viewer may
  accept to be co-host, because no invitation is recorded. `DELETE
  live-stream/:id` looks for a property of a string and finds no stream
  (`live_stream.controller.ts:305-309`).

Wallets (`Wallet`)
* the callback of M-Pesa is a route without a guard (`mpessa/mpesa.controller.ts:70-75`)
  that believes the result and the amount of its body (`mpessa/mpesa.service.ts:115`,
  `128-137`) and compares neither with the request nor with the provider. No property
  says that only what was paid is credited, because the code does not see to it:
  `TopUpsAreBacked` is about what the server was told, and a callback of a negative
  amount may take a wallet below zero (`LedgerAgrees` allows for it).
* "CRITICAL: Prevent processing the same transaction twice" (`mpessa/mpesa.service.ts:108`)
  is a status read before the credit and written after it: two overlapping callbacks
  both credit the wallet, and so does a callback after a crash between credit and mark.
  A confirmation that arrives before the transaction is stored is lost (67-83); a
  failure that overlaps a success may overwrite its mark.
* a card payment that fails after the charge is marked FAILED
  (`google-pay/google-pay.service.ts:105-121`).
* two claims of one gift credit it twice, a crash in between loses it
  (`api/profile/profile.service.ts:818-838`).
* books, plans and rides save absolute balances and so undo a concurrent `$inc`
  (`jobs/jobs.service.ts:273`, `profile.service.ts:138`, `rides.service.ts:237`).
  A plan is sold whatever the balance and never renewed (126-132).
* a rejected applicant for the badge can never apply again: the application is
  unique for the user.

Chat (`chat`)
* two users who create their room at once make two, because the index covers one
  direction (`channel.service.ts:225`); a crash between settings and members
  leaves a pair that can never talk.
* a vote checks no membership; edit, pin and delete do not check that the message is
  in the room; two reactions at once lose one.
* the first ban check of `createMessage` compares fields it has not selected, and
  never bites; the second one does.
* broadcasts reach a user who has banned the sender, do not bring deleted rooms
  back, and lose the one-time and disappearing marks. Their copies are
  stored by parallel saves (one step in the model).
* `leave` is announced by a call nobody awaits, usually refused because the member
  is gone. It takes the socket out of the room first: a request to leave that is
  refused after it (a room of two; a message that is not let through) leaves a
  member who hears nothing until the next connection. `createGroupChat` lets the
  sockets of users it leaves out listen (`ListenersAreMembers` sets both apart);
  `unBan` brings sockets back while the other ban stands.
* scheduling a message does not work: `scheduledAt` (`send.message.dto.ts:83`) has no
  decorator of class-validator, so the whitelist of the global `ValidationPipe`
  (`main.ts:115-123`) strips it, the branch at `message.channel.controller.ts:74` is
  never taken and the message is sent at once.
* "Leave all members from socket rooms", says `deleteGroup` (`group.channel.service.ts:467`),
  but it hands each member over as an ObjectId (470), which is looked for among strings
  (`socket_io.service.ts:101`) and never found: the members of a deleted group listen in
  its socket room until they connect anew. `ListenersAreMembers` sets them apart.
* an admin can remove the creator of a group or make a superAdmin; the
  administrator's deletion of a group (`admin_panel.service.ts:437`) leaves room
  members; deletion leaves statuses; a rename of a broadcast leaves `bName`.

Accounts (`api/auth`, `api/profile`)
* the second factor is entered behind the guard that needs a session
  (`auth.controller.ts:225`): with it on and no session left nobody gets in. Generating
  a secret while it is on replaces the confirmed one.
* a social login hands out a token for a handset without a document, which the
  guard refuses.
* links and numbers share a field; two resets with one code at once both pass;
  a login that overlaps a registration of the same email can be logged out by it; two logins at
  once make two documents for a handset; a reset logs nobody out; `deleteDevice`
  does not ask whose the device is.
* `verifyOtpRegister` writes back its copy over a newer code. The roles of a user
  are saved as they were read.
* `updateMyImage` changes the copies in the rooms of two and `userImages`, so
  those in groups stay old; `PATCH /password` is declared twice, so
  `profile.updatePassword` is unreachable; a deleted or banned account is let in by
  the social logins, and a ban leaves sockets open.

Communities, channels, stories, market, files
* two additions at once exceed `maxMembers` or add a member twice
  (`community.service.ts:206`); then the last administrator can be removed.
  `removeMember` counts administrators that are not active; `updateMemberStatus` can
  leave no active one; a status changed while a removal is saved is lost.
* leaving a channel always fails: the route passes an id for the user
  (`orbit-channel.controller.ts:89-93`). A broadcast of a file alone fails its
  validation after the upload; joining beside a deletion leaves an orphan.
* removing a story leaves its attachment and memories; reactions to it then change
  the attachment and fail. A view does not look at the audience, bans after the
  creation do not hide a story. Liking one's own story does make a
  message (`user_story.service.ts:409-410` compares an id with a string).
* publishing an expired listing makes it active and leaves it marked as expired, so
  that it never expires again (`listing.service.ts:232`): `MarketAgrees` excludes
  it. Impressions are lost under overlap; two first engagements may make two
  documents (atomic in the model). A breeder's approval may approve a licence that
  was submitted after it was looked at.
* a message refused after its upload, or a crash between put and insert, leaves a file
  nobody refers to; a forward shares the file, and loses it with the original; two
  uploads at once may exceed the limit, which attachments count for but do not
  have.

## 8. What is not modelled

* Calls: soft deletion of the history, notifications, the media tokens of Agora.
  The privacy setting of a callee is a constant.
* Rides: price and reward settings, vehicles, the fare formula, and ratings:
  `rateRide` passes the user for the id (`rides.controller.ts:115-123`), so it is
  always refused.
* Streams: `maxViewers` and `recordingViews`, `updateStreamFilter` and
  `inviteCoHost` (they change nothing another operation reads), who may create.
* Wallet: prices and plans an administrator edits are constants; loyalty points
  buy nothing.
* Scheduled messages: no request can store one (section 7), so neither the storing
  (`message.service.ts:54-64`) nor the job of every minute
  (`scheduling.service.ts:22-55`) has anything to do.
* Chat: the content of messages, replies and mentions, descriptions, extra data, the
  list of former members, `admin@admin.com` that every group contains silently,
  typing and presence lists. Read receipts are on.
* Accounts: passwords are what was typed and not hashes; tokens do not expire;
  providers are external. Family members, searches, last-seen dates are left out.
* Market: saved searches and search history are notes nobody reads back; `TOP_SELLER`
  depends on a count that never changes. `OfferService` has no route; the
  controller of bookings has no guard, so `req.user` is undefined and every request
  fails. Jobs, books and comments are posted by single inserts.
* Files: a put or an unlink that fails. Images of profiles, covers and ads are put
  by the same function and never deleted.
* Drivers, vehicles, support tickets, music, the catalogues of gifts and
  categories, dashboards and reports of the administrator: single-document edits
  and reads, on which no other part depends but by the constants named above.
* Merged steps: `Call!CreateInsert` reads the marker of the peer (`call.service.ts:98`,
  `118`) with the insertion (193), `AccountSessions!KeepOtp` mails a code and stores it at
  once. No property depends on what could come in between. The token of a social login
  (`SocialToken`) names a device 0, which has no document, where the code names the
  handset, which has none either.
* External services, mail, push, storage, moderation, encryption and start-up
  scripts keep no state of the program.

## 9. Plan

What remains, in this order:

1. `Chat!ListenersAreMembers` as a theorem, by the argument of `RoomsFit`: of all rooms
   but the one the lone handler works on it holds as it stands.
2. An abstract specification of a room of the chat, as a set of listeners and a sequence
   of messages, that `Chat` implements without overlap, model-checked first.
3. The components of section 8 that are single-document edits, should they grow
   operations that touch each other's documents.
