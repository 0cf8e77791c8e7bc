# Relaywave: a TLA+ model of the chat service

Relaywave is a chat application: a Flutter client, a FastAPI backend that runs as
several interchangeable processes (pods), PostgreSQL for what must last and Redis
Pub/Sub for what must reach the sockets of other processes. This directory holds TLA+
modules of its concurrent core, the configurations that model-check them, and
theorems about them with proofs that TLAPS checks. Paths below are relative to
the repository; `PROJECT.json` maps every definition to the lines it models.

    tlc -workers 2 -config RoomOneProcess.cfg MCRoom.tla
    tlapm RoomSocketProofs.tla

## 1. The system

| Component (source) | State | Operations | What makes it correct |
|---|---|---|---|
| Room socket, `backend/app/api/routes/ws.py` | per connection: where its handler is suspended | accept, authenticate, check membership, register, subscribe, announce, receive loop (store, then publish), `finally` cleanup | every exit cleans up; stored before published |
| Registry, `backend/app/ws/manager.py` | per process: `_rooms[room_id]`, a dict of sockets | `connect` (is first?), `disconnect` (is last?), `broadcast` | first and last are reported so that somebody subscribes and somebody unsubscribes; each socket is tried |
| Broadcaster, `backend/app/ws/broadcaster.py` | per process: `_pubsubs`, `_tasks`; one listener task per room | `subscribe`, `unsubscribe`, `publish`, `_listen`, `_reconnect` | one listener per occupied room and process, none for an empty room |
| Redis, `backend/app/core/redis.py` | channel, subscriptions | push to active subscriptions; a client retry repeats PUBLISH | nothing is guaranteed to a subscription that is not active |
| History and room routes, `routes/rooms.py` | `rooms`, `room_members`, `messages` | create, list, look up, join, history page | a page is the oldest rows above a cursor; DM rooms are closed to others |
| Friends, `routes/friends.py` | one `user_relationship` row per pair, a DM room and its memberships | send, accept, decline, remove, block, unblock | legal transitions, one DM room per pair, a block is kept |
| Auth, `routes/auth.py` | `users`, `refresh_tokens` | register, login, refresh (rotation), logout | a refresh token is used once; logout ends a session |
| Room names, `core/slug.py`, migration `b1e2c3d4a5f2` | none (pure) | canonical slug, validation, plan of unique names | a name is unique, and only a DM room has a DM's name |
| Rate limit, `core/rate_limit.py` | counter with expiry in Redis | increment and compare | at most N calls in a window |
| Chat client, `mobile/.../chat_bloc.dart`, `ws_chat_repository_impl.dart` | list of messages, cursor, connection, outbox, timer | connect, reconnect, backfill, receive, send, flush, close | one list without gaps or repetitions; the link comes back; nothing the user wrote is forgotten |
| Message cache, `message_cache.dart`, `app_database.dart` | rows by message id | save, read the latest page, read the cursor | idempotent save |
| Session, `auth_repository_impl.dart`, `token_storage.dart` | stored tokens | login, restore, refresh, logout | a usable session survives a restart |
| Rooms list, `rooms_bloc.dart`, `rooms_pane.dart`, `room_cache.dart` | the bloc's list, the cached rows | load (cache, then server), create, join by id or name, refresh | it comes to rest; what was accepted is shown; it is the signed-in account's |
| Friends bloc, room info cubit | lists | refresh after each call | the screen ends with the latest answer |

**How they interact.** The handler of a socket registers itself with the manager of
its process; the first socket of a room has the broadcaster subscribe. A message
frame is inserted and committed, then published to the room's Redis channel. Each
process's listener reads the channel and calls the manager's `broadcast`, which
awaits one `send_text` per local socket. The client shows what the socket brings,
asks the history endpoint for what is above its cursor on every connect, and keeps
both in its cache.

**What is hard.** All of the server's state is changed by coroutines that are
suspended inside their operations: `subscribe` between its check and its assignment,
`broadcast` inside an iteration over the dict that others change, a handler between
commit and publication. Calls to Redis and PostgreSQL raise; connections and
processes die. Ids are drawn before the commit, so the order of ids, of commits and
of publications are three orders. In the client, bloc handlers run concurrently:
connects overlap with one another, with backfills that nobody awaits, and with a
timer. The list of hazards, each at its line, is `PROJECT.json` "hazards".

## 2. Modules

    RelayTypes <- ConnectionManager <- RoomBroadcaster <- RoomSocket <- RoomSafety <- MCRoom
                                                              ^             ^
                                             BestEffortRoom --|-------------'  (refinement)
                                                   |          |
                                                   |     RoomSocketProofs <- RoomOrderProofs
                                                   |
                                                   '--> ChatClient <- ChatSafety <- ChatProofs

    FriendPair (refinement) --> FriendSafety <- FriendProofs
                 Friendship <-------'

    AuthTokens <- Session <- SessionSafety <- SessionRaces <- MCSession
                                  ^                ^
                             SessionProofs <- SignInProofs

    RoomNames <- RoomTable <- RoomsClient <- RoomsSafety <- MCRooms
                     ^                            ^
                 NamesProofs <--------------- RoomsProofs

(`A <- B`: B extends A.)

An action is the code between two awaits of one coroutine: asyncio and Dart's event
loop switch only there, so finer steps do not exist and coarser ones would hide
interleavings.

### The server's fan-out

* **RelayTypes**: processes, connections (each lives once and has a fixed process
  and user), payloads. One room is followed. Every dictionary of `app/ws/` is keyed
  by `room_id`, no operation touches two keys, so rooms do not interfere.
* **ConnectionManager**: `reg` is the room's entry of `_rooms` per process. `bcast`
  makes the suspended iteration of `broadcast` explicit: the payload, the dict's keys
  when the iteration began (`snap`), what it has yielded (`seen`), failed sends
  (`dead`). A Python dict iterator raises `RuntimeError` if the size changed, and if it
  finds an entry more than it expected; `IterationFails` says so, and the payload is
  skipped for the sockets that remain. The order of iteration is left open.
  Sends arrive only on a connection that is alive; a send to a lost one may raise or
  may return.
* **RoomBroadcaster**: `pubsubs` and `tasks` are `_pubsubs` and `_tasks`; a listener
  is named by the connection whose `subscribe` made it, so two listeners of a process
  would be two values. `link` is its subscription as Redis sees it ("sent": the
  SUBSCRIBE command is on its way), `inbox` what Redis pushed and it did not read.
  `log` is the order of message publications on the channel. `StopListening` is the
  synchronous head of `unsubscribe` with the effect of the cancellation: none of the
  task's `except` clauses swallows `CancelledError`, so the task does nothing more.
* **RoomSocket**: `room_websocket`, one action per stretch, composed with the two
  modules before it and the messages table. Every awaited call has an action for its
  return and one for its exception; `Finally` is the `finally` block up to its first
  await; `Crash` ends a process without it. `SubscribeFail` and `JoinFail` are the
  two exceptions that the code raises before its `try`.
* **BestEffortRoom**: what the README promises by "best-effort delivery": stored,
  then published, one order, each socket a subsequence. It is the abstraction that
  `RoomSocket` implements and the server that `ChatClient` is composed with.

### The chat client

* **ChatClient**: `chat_bloc.dart` with its connection, cache and history requests.
  Every call of `_connect()` is an attempt `k` with a phase (closing the old
  connection, reading the cache, dialing, open, done), a channel, a first-frame flag
  and a backfill. A second call does not stop the first, as in the code: `conn` is the
  shared field `_connection` that they overwrite and set to null. The server is
  `INSTANCE BestEffortRoom WITH Socket <- Attempt`, so a client sees any subsequence
  of the room's publications, repetitions of a message included, and commits in any
  order of ids.
* A history page is `Page(after)`, the oldest `PageLimit` rows above the cursor.
  `Reopen` closes the screen and opens it again: a new bloc with the same cache.
* `astray` is a history variable: two `_connect()` of this bloc crossed, or a page that
  came after the room was refused revived it. After either the flags of the bloc need
  not describe its connection (section 3, "Reservations").

### Friends, blocks and DM rooms

* **FriendPair**: what `user_relationship.py` and `friends.py` promise of two users:
  a pair whose transitions are atomic and take the memberships of its DM room along.
* **Friendship**: the six endpoints as concurrent transactions at READ COMMITTED.
  A request reads the pair's row (one action, with the early returns, which change
  nothing and are no action), deletes memberships where it has to (`Sever`), and
  flushes and commits (`...Commits`). The row that was read is kept in `job[h].seen`
  and what is decided by it is stale if it changed. Only accept reads FOR UPDATE
  (`RowLocked`); an uncommitted DELETE of memberships locks them (`MembersLocked`).
  `Abort` ends a transaction at any await. `raced` is a history variable: some request
  changed something after the row that it had read was changed by another.

### Sessions

* **AuthTokens**: rows of `refresh_tokens` (`tokens`), one per pair of access and refresh
  token; a token is its row's number. `ReadRow` is `refresh` or `logout` up to the test of
  `revoked_at`, `RefreshCommits` and `LogoutCommits` what follows: nothing locks the row in
  between. `call[c]` is a call of a client that takes one answer at a time; a client
  that hangs up (`HangUp`) is served all the same. `session` of a row is a history: the
  login that the pair descends from. `raced` and `ended` are histories too. `TokensSpec`
  has clients that present any token in any order.
* **Session**: AuthBloc, AuthRepositoryImpl and SecureTokenStorage over AuthTokens. A
  handler of the bloc (`task[t]`) makes the calls of `Caller` t, and several run at
  once. `disk` is the key store, whose two keys are written and deleted one after the
  other, `mem` the copy in memory, `screen` and `user` the bloc's state. `Close` ends the
  process at any await, with requests left at the server; `Lose` loses a call or its
  answer; `StoreFails` is an exception of the key store, which `_onLogout` does not
  catch. `mishaps` records that the two keys were left from two pairs, or that a
  logout was cut off or doubled; the properties say which of them they allow for.
* **SessionRaces**: Session with one more history, the sessions of which the app hung up on a
  refresh or a logout before the answer (`hungUp`). The server's reads of a token are not
  locked; `OnlyUnheardFork` says that this harms the app only through such calls.

### Rooms, names and the rooms list

* **RoomNames**: `core/slug.py` as operators. A text is a sequence of runs, of letters
  and digits or of anything else ("-"); a slug is what is left of it, and what matters of
  a slug is whether it is empty, too long, a number, or starts with `dm-`. `Planned` is
  the renaming that the migration applies to the rooms that it finds: a recursive
  function over them, as `Canonical` is one over the runs.
* **RoomTable**: `rooms` and `room_memberships` under the routes of `rooms.py`, with what
  accepting and ending a friendship does to the DM room (`Befriend`, `Part`). A handler is
  one transaction whose reads nothing can make stale but an insertion, and that is caught
  by the unique name or the primary key; so it is one action. The initial table is a
  migrated one.
* **RoomsClient**: `rooms_bloc.dart` over that server. The bloc lives as long as the app
  and its handlers run concurrently: `job[j]` is the handler of an event, with the call
  that it awaits, the account whose token its request carries, the list it falls back on
  (`base`) and its answer. `list` is the bloc's state, `cache` the rows of the device's
  rooms table. `Login`, `Logout`, `ClearCaches` and `Restart` are what a session does to
  them: logout deletes the tokens, then the caches, and no handler notices. `Fail` loses
  a call before or after the server acted on it.

## 3. What is checked

All runs set `CHECK_DEADLOCK FALSE`: each model ends when its connections, attempts,
rows or logins are used up, as the program may always stop being used.

| Run | Instance | Shows |
|---|---|---|
| `room_one_process` | 3 connections of one process, 1 message, 1 lost subscription, 1 crash; symmetric connections | `SingleListener`, `ListenerWhileOccupied`, `ReleasedWhenUnused`, `TypeOK` |
| `room_two_processes` | one user with a connection on each of 2 processes, 2 messages, 1 typing event, 1 repeated PUBLISH and 1 crash | `RefinesBestEffort`: the fan-out implements `BestEffortRoom`; `InOrder`, `NoOwnTyping` |
| `room_live` | a connection on each of 2 processes, 1 message, 1 lost subscription, 1 crash | `HandlersFinish`, `ListenerRecovers`, `SoleSocketIsServed` |
| `chat_history` | 3 attempts, 2 messages, pages of 2, 1 fault, 1 reopened screen | `NoDuplicateRow`, `BackfilledIsShown`, `ShownStays` |
| `chat_link` | 4 attempts, 2 faults, 1 tap on Retry, 2 messages to send | `BannerIsHonest`, `QueuedOnce`, `OnlineHasLink`, `SentInOrder`, `Reconnects`, `OutboxIsSent`, `TypeOK` |
| `friend_races` | 2 requests at a time of either user, 3 rows in succession | `OpenToFriends`, `FriendsHaveRoom`, `NoCircularWait`, `AtomicUnlessRaced` (each change is a step of `FriendPair`, the one asked for), `FriendsByConsent`, `RequestsFinish`, `TypeOK` |
| `session` | 2 accounts, 2 handlers, logins while there are fewer than 2 pairs, 1 expired access token, 2 lost calls or store failures; symmetric | `OneLivePerSession`, `LogoutEndsSession`, `OnlyUnheardFork`, `SignedInIsUsable`, `SignedOutStays`, `TypeOK` |
| `rooms_list` | 3 handlers, 2 logins of 2 accounts on the device, 1 failed call or restart, 2 requests of a third account, an old room named as a DM | `NamesAreSound`, `DmRoomIsClosed`, `Settled`, `OwnRooms`, `AcceptedIsShown`, `NothingVanishes`, `TypeOK` |
| `blocked_dm` | 2 requests at a time, 1 row | violates `BlockedIsFrozen` |
| `dark_room` | 2 connections of one process | violates `NoDarkRoom` |
| `skipped_socket` | 2 connections of one process, presence payloads | violates `BroadcastReachesAll` |
| `lost_history` | 2 attempts, 2 messages, pages of 3, 1 fault | violates `MissedIsBackfilled` |

**Bounds.** `MaxMsg`, `MaxTyping`, `MaxDrop`, `MaxRepeat` and `MaxCrash` bound inserted
rows, typing frames, lost subscriptions, repeated PUBLISHes and crashes of a run;
`MaxAttempt`, `MaxLog`, `MaxSend`, `MaxFault`, `MaxRetry`, `MaxReopen` bound connects,
publications, composed messages, faults, taps and reopened screens. Three connections
are what it takes for a broadcast to be under way to one while a second leaves and a
third arrives, and for one socket to leave, another to be last and a third to be first.
Presence events, which every join and leave publishes, keep the listeners busy
besides the counted messages. Two messages give every disagreement between the orders
of ids, commits and publications; with a repeated PUBLISH the channel has three positions
for `InOrder`. That a second listener of a process would repeat them is excluded by
`SingleListener`, in the run with three connections of one process. Three attempts suffice for two overlapping connects after a
first one; the fourth of `chat_link` is for a Retry beside the timer (`chat_history` has no
Retry: that two crossed connects keep one row of each message is `OneRowEach`, section 4). Two requests at a
time suffice for every race about a pair, as each race is between one read and one
write; `MaxId = 3` lets a pair be made anew twice under a request that holds its first
row. In `session`, `MaxLogin` bounds the pairs after which nobody logs in (refreshes may
issue more), so that a second account can follow the first on one device; two
handlers are a logout beside another, or beside a login; two faults are a lost
answer and a failed store. The instance with `MaxLogin = 3` and one fault was
checked too; it takes longer than a run should. In `rooms_list`, three handlers (`MaxJob`)
are a create and a join beside the load of the pane, or a handler of the old account beside
two of the new one; `MaxFault` counts failed calls and restarts together, `MaxLogin` the
sign-ins, `MaxOther` the requests of the accounts in `Peer`. `Typed` is a valid name and one
in the reserved prefix, `TypedId` an id that is no room's at first and later that of a
group or of the DM. `MaxNumeral` and `MaxLength` stand for all numbers and for 100
characters; `Texts` has the names that collide with one another's suffixes, with `room-`
prefixes and with the reserved prefix, and `NamesAreSound` plans every table of up to
three of them. The theorems of section 4 hold without these bounds.

**Fairness.** `RoomSafety!Fairness` is weak fairness, per connection, of a handler's
step once its awaited call can return or raise, of its listener, and of Redis
executing a command that it was sent: the event loop runs every ready task, calls
have timeouts, and `_reconnect` retries for as long as it takes. Nothing is assumed
of peers, frames, faults or crashes. `SoleSocketIsServed` is stated for a process with
one connection to the room, and `room_live` has no other instance: with two, the broken
iteration of `skipped_socket` may skip it. `ChatSafety!Fairness` is weak fairness of
each attempt's handler, of a request that is under way and of an armed timer. That a frame
comes is not assumed: the server promises none (its first one is the socket's own join
event, which takes the way over Redis and is lost with it), and an open connection that
stays silent is not replaced. So `Reconnects` and `OutboxIsSent` go as far as the code does,
to an open connection that waits for its first frame; both are cut off when
the instance has no attempt left. `FriendSafety!Fairness` is strong fairness of each request's next step,
because PostgreSQL grants a lock in the order of requests for it and a statement that
waits gets it if it is free again and again; under it `RequestsFinish` says that no
two requests block each other for ever. Nothing is assumed of the app or of time in
`session`, which has safety only.

**Findings.** The four violated properties are sentences of the repository that the
code does not keep.

1. `dark_room`: `room_websocket` registers the socket (`ws.py:142`) and subscribes
   (`ws.py:144`) before its `try`. If that first `subscribe` raises, the registration stays,
   no later socket is first, and the room stays without a listener on that process.
   (`ListenerWhileOccupied` is what does hold: only such a failed socket excuses it.)
2. `skipped_socket`: `broadcast` awaits inside an iteration over the live dict
   (`manager.py:73`). A connect or disconnect during a send makes the iteration raise,
   and the sockets that remain miss the payload. The client's backfill repairs
   messages at its next connect, not before.
3. `lost_history`: the client's cursor is the highest id it holds. A message with a
   lower id that commits later is below it, and no request asks for it.
4. `blocked_dm`: `block_user` reads the row without a lock (`friends.py:469`) and decides
   by that copy whether to sever (`friends.py:482`). An accept that commits in between
   opens the DM; the block then leaves it open, and the memberships that stay make
   every later accept of the pair fail on their primary key.

**Reservations.** Some properties hold up to a race that the code leaves open, and
name it: `raced` in `Friendship` (a request writes after its row changed) and in
`AuthTokens` (two calls had read the same live row: two refreshes of one token fork the
session, and a logout beside a refresh does not end it, as `auth.py:183-185` concedes for
reuse), `mishaps` in `Session` (a kill between the two keys leaves the tokens of two
pairs; the second of two logouts can clear the keys of the login in between). What
holds without reservation is `FriendsByConsent`, `FriendsHaveRoom`, `NoCircularWait`, and
`OnlyUnheardFork`, which says for the app when `raced` comes true: of the two calls, one is
a refresh or a logout that the app hung up on, by ending or by losing its answer.

Others name what the client gets wrong and promise the rest:

* `astray` (`ChatClient`): when a timer and a Retry overlap, the second `_connect()` closes
  the first one's connection after it was replaced, and sets the shared field to null;
  the room is then shown as connected over a dead link, or over none, with no timer
  armed, until something else fails. A page that arrives after `ChatFailed`
  (`chat_bloc.dart:126`) does the same: a connected room without a link.
* `Silent` (`ChatSafety`): a connection is reported, and the outbox flushed, by its first
  frame (`ws_chat_repository_impl.dart:93`), not when it opens. A reconnect to a process without
  an active listener (finding 1, a lost subscription, a SUBSCRIBE that the join event
  overtakes) is open and silent: the banner and the outbox stay until some frame comes,
  no timer is armed, and what the user writes meanwhile goes out before what waits.
* `mixed` (`RoomsClient`): a handler that is in flight when logout clears the caches emits,
  and a load saves, what the old account was answered; a session that ends
  without a logout (a restart with tokens that are refused) leaves its rows to the next. So
  `auth_repository_impl.dart:70-71` ("never briefly flashes the previous account's data")
  holds for a logout of an idle app, and from the moment the pane's load starts: for
  one frame after a login the bloc still has the old account's list.
* `lone` (`RoomsClient`): a handler that fails beside another one restores the list it
  started from, and drops what the other one added, until the next load. A join whose
  refresh and detail request both fail ends with an error although it took place.

## 4. What is proved

Every theorem holds for all values of the constants: any finite set of connections,
any processes and users, any bounds. Assumptions: `ConnAssumption` (connections are
finite and have a process and a user), `NoneAssumption` (`None` is not a connection),
`BoundsAssumption` (`MaxMsg` is a natural number), `PairAssumption` (there is a user,
and `None` is neither user nor row), `NoneIsNobody` (`None` is no account),
`FaultsAssumption` (`MaxFault` is a natural number), `LimitAssumption` and
`SizeAssumption` (a page has a row, a client connects at least once, `MaxMsg` is a natural number),
`AccountAssumption`, `LegacyAssumption` and `UserAssumption` (the two users of the DM are different accounts, an
old room has a text and a creator, the device's users and the others have accounts, typed
names are texts and typed ids numbers), `TextsAssumption` and `WordAssumption` (texts are sequences
of strings, "dm" and "room" are strings) and `NumeralAssumption`: up to `MaxNumeral`, different
numbers are written differently, and as none of the words that mean something in a name.
`MaxNumeral` is any number from 3 on, and it is the one bound that the theorems about rooms
keep: the ids of the DM's users and the number of old rooms do not exceed it.

*RoomSocketProofs*

* `TypeCorrect`: `[]TypeOK`, by `TypeInv == TypeOK /\ SendingHasBroadcast`. The second
  part is needed because a listener that is "sending" continues the iteration in
  `bcast[l]`, which must be one and not `None`.
* `OneListenerPerProcess`, `RoomHasListener`, `RoomIsReleased`: `SingleListener`,
  `ListenerWhileOccupied` and `ReleasedWhenUnused`, by the inductive invariant `ListenerInv`.
  None of the three is inductive. What they need is what the code relies on without
  saying: a socket that is "subscribing" is the only one of its process to do so and
  there is no listener before it ends (`SubscriberAlone`, `NoListenerBefore`), a
  registered socket belongs to the process it is registered with and its handler has
  its cleanup ahead of it or failed (`RegistryMembers`), and a task that is recorded is
  running (`TasksRun`). The invariant says why the window in `subscribe` between
  `if room_id in self._pubsubs` and the assignment is harmless: only a first socket
  enters it, and a second one is not first while the first is registered.

* `TypingSparesAuthor`: `[]NoOwnTyping`, which is inductive under `TypeInv`: only listeners send,
  and each step of an iteration passes over the author's sockets.

*RoomOrderProofs*

* `DeliveredInOrder`: `[]InOrder`, by `OrderInv`: for each listener, the positions in its
  inbox increase and exceed that of the broadcast under way, which exceeds or equals
  everything its process's sockets were sent (equal only for sockets it has seen).
* `ImplementsBestEffort`: `Spec => BestEffort!Spec`. Each action maps to a step of
  `BestEffortRoom` or a stutter: `Commit` to `Persist`, `PublishMessage` and
  `PublishRepeat` to `Publish`, a send to `Deliver`. `HeldInv` supplies that a handler
  at its publication holds an id that is stored, and one at its commit an id that is in
  range.

*FriendProofs*, by the inductive invariant `FriendInv`: `FriendTypes`, `DmFollowsFriendship`,
`FriendsHaveTheirRoom`, `NoDeadlock`, `ConsentIsNeeded` and `ChangesAreAtomic` (`TypeOK`,
`OpenToFriends`, `FriendsHaveRoom`, `NoCircularWait`, `FriendsByConsent`, `AtomicUnlessRaced`), for
any number of concurrent requests and rows. The invariant has what the code relies on:
an accept's copy of the row is the row, because it holds the lock (`AcceptHolds`); a
severed DM had members and one request holds them (`SeverHolds`); the row of an id only
goes forward from pending to accepted to blocked (`Forward`), so one who wants the row
locked by an accept has not severed. `NoDeadlock` follows: an accept locks a row that is
pending, a severing request read it accepted.

*SessionProofs*, of the server alone: `RotationIsSafe`, types, `OneLivePerSession` and `LogoutEndsSession` of
`TokensSpec`, by `TokensInv`: a call at its commit has found its row, sessions are numbers
of rows that exist (so a login's is new, and has not ended), and the two properties
themselves, which are inductive together: a refresh in time replaces the only live
row of its session.

*SessionProofs*, of the app over it: `AppIsClient`, `Spec => TokensSpec`: the app over the server implements the
server with arbitrary clients. The identity on the server's variables is the
mapping; the invariant needed is that every key the app holds, in memory, on disk or in a
handler, is one the server gave out (`AppFits`). `SessionTypes` follows for the app, and so do
`RotationIsSafe`'s properties, each with the exception `raced`.

*SignInProofs*, for any handlers of the bloc and any faults. `BaseInv` ties each handler's
phase to the call it awaits (`PhaseFits`) and gives a check the app to itself
(`ScreenFits`): it runs on the splash screen only, where nothing can be tapped.

* `SignedOut`: `SignedOutStays`, by `LeftInv`. Unless the keys of two pairs were left behind,
  the key store's session is one that nobody left, both of its keys belong to it
  (`DiskFits`), and a check holds its keys in memory (`CheckFits`). A login can write in
  the middle of a logout, so what it carries is a session that nobody left, and that
  neither the key store nor another login has (`LoginFits`): a logout that removes the
  key store's session removes nobody else's.
* `SignedInUsable`: `[]SignedInIsUsable`, by `UseInv`. A refresh whose answer was lost may still be
  served, so the pair in the key store need not be live: it is *sound*, live with
  nobody about to revoke it (`Firm`), or its access token has expired and only refreshes
  are about to revoke it. `/me` accepts a sound pair only if it is firm, and one that
  it refuses is exchanged or removed, so a check signs in with a firm pair. All other
  steps keep every pair firm or sound (`Mild`): the server revokes only what somebody
  presented, and a new pair was presented by nobody.

* `ForksAreUnheard`: `TracedSpec => []OnlyUnheardFork`, which is not a corollary of
  `RotationIsSafe`: it says when `raced` can become true. By `RaceInv`: a call that somebody
  still waits for belongs to a handler at that phase (`Owned`); a refresh is made by a check only,
  which has the app to itself, so whatever else is under way was hung up on (`hungUp`
  has its session); and a logout that has read its row finds it live, or its session
  ended, since only a refresh or another logout revokes it.

*ChatProofs*, by the inductive invariant `ChatInv`:

* `OneRowEach` and `RowsStay`: `[]NoDuplicateRow` and `ShownStays`. The rows are kept as a
  sequence (`RowsOnce`), and a merge sorts a set, which `SortedProperties` shows to lose and
  repeat nothing.
* `BackfillIsShown`: `[]BackfilledIsShown`, by `PagesFit`: what was due was stored when the page was
  asked for, so it is in the answer or beyond its last row (`PageIsLowest`), and the merge
  shows the whole answer.
* `NothingForgotten`: `[]QueuedOnce`, by `ContentsOnce`: the outbox and what was given to a sink
  are disjoint, without repetition, and together everything composed.
* `HonestBanner`, `ConnectedMeansLink`, `OrderIsKept`: `[]BannerIsHonest`, `[]OnlineHasLink`,
  `SentInOrder`. They need what the bloc takes for granted (`KnowsItsLink`): unless two
  connects crossed, at most one is on its way, the one channel that is open is
  `_connection`, and `_connection` is null while another is opened. `CallsFit` carries the
  order of the phases of one call across all calls, crossed ones included.

* `ServerIsBestEffort`: `Spec => Server!Spec`. With `ImplementsBestEffort` the two sides meet in
  one specification: the fan-out is proved to keep `BestEffortRoom`, and all that the client's
  theorems take of the sockets is that promise (and, of the history endpoint, `Page`).

*NamesProofs*: `PlannerIsSound`, that `plan_room_name_dedup` keeps its promises (`SoundPlan`) for every
table of any texts. `PlanSteps` and `SlugSteps` show that the recursive functions exist, by
the least number for which they would not; `PlanIs` that a row's name is the first free
one after the names before it, and `PlanIsOnly` that nothing else is such a plan. A free suffix
exists because there is one more candidate than names taken, and candidates differ
(`FirstFreeIs`, the pigeonhole principle). What is left are case distinctions over the base:
it is numeric or reserved for no slug (`Bases`), a suffix makes it neither (`NameIsSound`),
but for the slug `dm` asked for twice (`ReservedOnlyTwice`), and names that are not reserved
are their own slugs and bases, so that planning again gives them back (`PlanIsStable`).

*RoomsProofs*, for any accounts, names, old rooms, events, faults and logins:

* `RoomsTyped`: `[]TypeOK`, from the types in `SpinInv`: a room's name is the slug of a text that
  somebody typed, one that the planner gave, or the DM's (`AnyName`).
* `ListSettles`: `[]Settled`, by `SpinInv`: while the list is loading there is a load that has
  shown nothing yet, and while it is busy there is a create or a join.
* `DmStaysClosed`, `RoomsAreOwn`: `[]DmRoomIsClosed` and `[]OwnRooms`, by `RoomsInv`. `JobsInv` is
  what each handler may show once it goes on: its answer and what it falls back on are
  rooms that exist (`JobFits`), those of the account of its requests (`JobIsMine`), and,
  unless an account left rooms behind, those of the account that is signed in
  (`JobIsOurs`). It survives what other devices do because rooms are only added, and
  memberships of groups too (`Grows`).
* `AcceptedShown`, `NothingIsLost`: `AcceptedIsShown` and `NothingVanishes`, by the same invariant
  and `EndsAlone`: a handler returns only by its own step.
* `RenamesHold`: `[]NamesAreSound`, from `PlannerIsSound` and `Grows`: the old rooms keep their names, and
  names are unique.

`OldRoomsRenamed` is what these theorems take from `NamesProofs`: no two old rooms were given one
name, and none the DM's.

Every safety property, action property and refinement that a passing run checks is a theorem for
all values of the constants. Only model-checked are the liveness properties: they need
fairness and ENABLED, which this prover does not handle.

## 5. Abstractions, and what is not modelled

* Payloads are reduced to their type, the author of a typing event and the position
  of a message's publication; contents, users' names and validation are left out.
  An invalid frame changes nothing and is not an action.
* Delays (backoff, polling timeouts) are abstracted: a retry happens at some time.
* The checks of the handshake (token, ticket, room membership) are one nondeterministic
  outcome, `Reject` or `Register`.
* In the client, cache writes do not fail, the two cache reads of `_connect` are one
  step (nothing between them matters to what they return but a save, whose effect on
  the cursor a later read shows), and a channel whose bloc was closed is not followed
  further. Typing and presence sets are display state without a promise: the client
  calls its online count an estimate. The shift in the backoff (`chat_bloc.dart:149`,
  `1 << attempt`) wraps after 31 or 62 failures in a row, and the delay is then one second
  again; delays are not modelled.
* `RoomsClient` has no titles, no order of rows and no capacity: a room is its id. The
  typed names are runs, so `int.tryParse` (`rooms_bloc.dart:86`), which also reads `0x10` and
  `-5` as ids, is the test for a number. Cache rows are never deleted but by logout, as in
  the code: a severed DM is shown by the next load until the server's answer arrives,
  and a created or joined room is cached only by a later load.
* `RoomNames` has what the planner does with rows that exist. Two of its edges are not
  properties, since the code does not keep them: two rows named "DM" make the second one
  `dm-2`, in the reserved prefix, and a suffix may exceed the column's 100 characters
  (neither is the name of a DM room, which is what `NamesAreSound` claims). Running `backend/scripts/dedup_room_names.py --apply` again once DM rooms exist would rename these.
* One pair of users is followed in `Friendship`: no request touches another pair's rows.
  Resolving the username and the throttle come before the transaction and are left out.
* In `AuthTokens`, a wrong password and a token that is malformed, foreign or of the wrong
  type change nothing and have no action; a refresh token that expires is not
  modelled (7 days; it is refused as a revoked one is). Registration changes no token.
* `Session` has one installation with its own key store; a second instance on the same
  Linux keyring, which `token_storage.dart` speaks of, is left out. Of the two
  caches that `logout` clears after the keys, the rooms cache is in `RoomsClient`; the
  messages cache of `ChatClient` does not see a logout.
* Not modelled: the friends bloc and the room info cubit, which keep nothing between two
  refreshes; the rate limit, one atomic increment; registration, one insertion under a
  unique index; widgets, routing, password hashing and JWT, settings, the other migrations,
  deployment and load scripts. `mobile/web/drift_worker.js` is the compiled worker of the
  drift package, third-party output without a line of this program's logic; the
  program is its Python and Dart code. The reasons are in `PROJECT.json` "components".

## 6. Plan

Done: the fan-out, the chat client, `Friendship`, `AuthTokens` with `Session`, room names, routes
and the rooms list, and the proofs of section 4. Left, in this order:

1. **DM sockets**: `RoomSocket`'s single membership check (`ws.py:132`) composed with
   `Friendship`: what a user who was removed or blocked can still read and write.
2. The friends bloc's four parallel answers; the messages cache beside a logout.
3. Liveness of the session: the splash screen ends, a login ends.
