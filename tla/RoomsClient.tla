----------------------------- MODULE RoomsClient -----------------------------
(* mobile/lib/features/rooms: the rooms list of one device, that is RoomBloc  *)
(* (rooms_bloc.dart), which lives as long as the app does, its Drift cache    *)
(* (room_cache.dart), the pane that adds its events (rooms_pane.dart), and    *)
(* what signing in, signing out and a restart do to them                      *)
(* (auth_repository_impl.dart); the server is RoomTable.                      *)
(*                                                                            *)
(* Handlers run concurrently: job j is the handler of one event. A job waits  *)
(* for one call at a time; a request carries the token that is stored when    *)
(* it is sent.                                                                *)
EXTENDS RoomTable

CONSTANTS
  User,       \* the accounts that sign in on this device
  Peer,       \* the accounts that use other devices
  Typed,      \* the names that users type
  TypedId,    \* the room ids that users type
  MaxJob,     \* bound: events of the bloc
  MaxFault,   \* bound: calls that fail, and times the app is killed and started again
  MaxLogin,   \* bound: times a user signs in
  MaxOther    \* bound: requests that other devices make

ASSUME UserAssumption ==
  /\ User \subseteq Account /\ Peer \subseteq Account
  /\ Typed \subseteq Seq(STRING) /\ TypedId \subseteq Nat

Job == 1..MaxJob

VARIABLES
  token,   \* the account whose tokens are stored
  screen,  \* "login", "rooms", or "leaving" while logout() runs
  list,    \* the bloc's state
  cache,   \* ids in the device's rooms table
  job,     \* job[j]
  mixed,   \* rooms of another account may be in the list or the cache, see Logout
  spent    \* how much of each bound is used

clientVars == <<token, screen, list, cache, job, mixed>>
vars == <<tableVars, clientVars, spent>>

Reply   == [ok : BOOLEAN, rooms : SUBSET Nat]
Waiting == [ok |-> FALSE, rooms |-> {0}]

(* "kind" is the event, "text" the name typed for it; "call" what is awaited  *)
(* ("none": no event yet, "over": the handler has returned); "who" the token  *)
(* of the request; "base" the rooms to fall back on (for a load: those that   *)
(* the cache gave); "room" the id that was created, found or typed. Of a      *)
(* create or a join, "first" is the account of all its requests, if they had  *)
(* one, and "lone" that no other handler has run beside it.                   *)
NoJob == [kind |-> "load", call |-> "none", who |-> NoOne, text |-> <<>>,
          base |-> {}, room |-> 0, reply |-> Waiting, first |-> NoOne, lone |-> TRUE]
Over  == [NoJob EXCEPT !.call = "over"]

TypeOK ==
  /\ TableTypeOK
  /\ token \in User \cup {NoOne}
  /\ screen \in {"login", "rooms", "leaving"}
  /\ list \in [phase : {"initial", "loading", "loaded", "failed"}, shown : SUBSET Nat,
               busy : BOOLEAN, error : BOOLEAN]
  /\ cache \in SUBSET Nat
  /\ \A j \in Job :
       /\ job[j].kind \in {"load", "create", "join", "find"}
       /\ job[j].call \in {"none", "cache", "list", "create", "find", "join", "get", "over"}
       /\ job[j].who \in User \cup {NoOne} /\ job[j].first \in User \cup {NoOne}
       /\ job[j].base \in SUBSET Nat /\ job[j].room \in Nat
       /\ job[j].reply \in Reply /\ job[j].lone \in BOOLEAN
  /\ mixed \in BOOLEAN
  /\ spent \in [{"fault", "login", "other"} -> Nat]

Init ==
  /\ TableInit
  /\ token = NoOne /\ screen = "login"
  /\ list = [phase |-> "initial", shown |-> {}, busy |-> FALSE, error |-> FALSE]
  /\ cache = {}
  /\ job = [j \in Job |-> NoJob]
  /\ mixed = FALSE
  /\ spent = [b \in {"fault", "login", "other"} |-> 0]

Spend(b, max) == spent[b] < max /\ spent' = [spent EXCEPT ![b] = @ + 1]
Unused(j)     == job[j].call = "none" /\ \A i \in Job : i < j => job[i].call # "none"
Runs(j)       == job[j].call \notin {"none", "over"}

-------------------------------------------------------------------------------
(* What handlers do between two awaits: emit, then call or return.            *)
Loading      == [phase |-> "loading", shown |-> {}, busy |-> FALSE, error |-> FALSE]
LoadFailed   == [phase |-> "failed", shown |-> {}, busy |-> FALSE, error |-> FALSE]
Loaded(ids)  == [phase |-> "loaded", shown |-> ids, busy |-> FALSE, error |-> FALSE]
Submitting(ids) == [phase |-> "loaded", shown |-> ids, busy |-> TRUE, error |-> FALSE]
Failed(ids)  == [phase |-> "loaded", shown |-> ids, busy |-> FALSE, error |-> TRUE]
Emit(state)  == list' = state

Await(j, call, room) ==
  job' = [job EXCEPT ![j].call = call, ![j].room = room, ![j].who = token, ![j].reply = Waiting,
                     ![j].first = IF @ = token THEN token ELSE NoOne]
Return(j) == job' = [job EXCEPT ![j] = Over]

(* A handler starts beside those that run.                                    *)
Begin(j, new) ==
  job' = [i \in Job |-> IF i = j THEN new
                        ELSE [job[i] EXCEPT !.lone = @ /\ ~(Runs(i) /\ job[i].kind # "load")]]

(* _onLoad up to its first await: the cache reads what is saved when it is    *)
(* asked; a read that raises counts as an empty one.                          *)
StartLoad(j) ==
  /\ Unused(j)
  /\ Emit(Loading)
  /\ \E read \in {cache, {}} : Begin(j, [NoJob EXCEPT !.call = "cache", !.reply = Given(read)])

RetryLoad(j) ==
  /\ screen \in {"rooms", "leaving"} /\ list.phase = "failed"
  /\ StartLoad(j)
  /\ UNCHANGED <<tableVars, token, screen, cache, mixed, spent>>

(* The pane is left for another screen and built again.                       *)
OpenPane(j) ==
  /\ screen = "rooms"
  /\ StartLoad(j)
  /\ UNCHANGED <<tableVars, token, screen, cache, mixed, spent>>

(* _onCreate and _onJoin: the list that is shown now is what a failure will   *)
(* show again.                                                                *)
StartSubmit(j, kind, text, id) ==
  /\ Emit(Submitting(list.shown))
  /\ Begin(j, [NoJob EXCEPT !.kind = kind, !.call = kind, !.who = token, !.text = text,
                            !.room = id, !.base = list.shown, !.first = token,
                            !.lone = \A i \in Job : ~Runs(i)])

Submit(j) ==
  /\ Unused(j)
  /\ screen \in {"rooms", "leaving"}
  /\ \/ \E text \in Typed : StartSubmit(j, "create", text, 0)
     \/ \E id \in TypedId : StartSubmit(j, "join", <<>>, id)
     \/ \E text \in Typed : ~IsDigit(text) /\ StartSubmit(j, "find", text, 0)
  /\ UNCHANGED <<tableVars, token, screen, cache, mixed, spent>>

-------------------------------------------------------------------------------
(* The server and the network.                                                *)
Served(j, reply) ==
  LET who == job[j].who
  IN  IF who = NoOne THEN reply = Refused /\ UNCHANGED tableVars
      ELSE \/ job[j].call = "list"   /\ ListRooms(who, reply)
           \/ job[j].call = "create" /\ CreateRoom(who, job[j].text, reply)
           \/ job[j].call = "find"   /\ FindRoom(who, job[j].text, reply)
           \/ job[j].call = "join"   /\ JoinRoom(who, job[j].room, reply)
           \/ job[j].call = "get"    /\ GetRoom(who, job[j].room, reply)

Serve(j) ==
  /\ Runs(j) /\ job[j].call # "cache" /\ job[j].reply = Waiting
  /\ \E reply \in {Refused} \cup {Given(ids) : ids \in SUBSET (1..(Len(rooms) + 1))} :
       Served(j, reply) /\ job' = [job EXCEPT ![j].reply = reply]
  /\ UNCHANGED <<token, screen, list, cache, mixed, spent>>

(* A call fails before or after the server has acted on it.                   *)
Fail(j) ==
  /\ Runs(j) /\ job[j].call # "cache" /\ job[j].reply # Refused
  /\ job' = [job EXCEPT ![j].reply = Refused]
  /\ Spend("fault", MaxFault)
  /\ UNCHANGED <<tableVars, token, screen, list, cache, mixed>>

-------------------------------------------------------------------------------
(* The handler goes on.                                                       *)
Answered(j, call) == job[j].call = call /\ job[j].reply # Waiting
Ok(j)   == job[j].reply.ok
Got(j)  == job[j].reply.rooms
TheRoom(j) == CHOOSE r \in Got(j) : TRUE

CacheRead(j) ==
  /\ Answered(j, "cache")
  /\ IF Got(j) = {} THEN UNCHANGED list ELSE Emit(Loaded(Got(j)))
  /\ job' = [job EXCEPT ![j].call = "list", ![j].base = Got(j), ![j].who = token,
                        ![j].reply = Waiting]
  /\ UNCHANGED cache

(* Mutant: a failure is shown only over a cached list.                        *)
FailureNotShown(j) ==
  /\ Answered(j, "list") /\ job[j].kind = "load"
  /\ IF Ok(j) THEN Emit(Loaded(Got(j))) /\ cache' = cache \cup Got(j)
     ELSE /\ IF job[j].base = {} THEN UNCHANGED list ELSE Emit(LoadFailed)
          /\ UNCHANGED cache
  /\ Return(j)

(* A load's answer: saveAll() adds and replaces rows and never deletes one.   *)
LoadAnswered(j) ==
  /\ Answered(j, "list") /\ job[j].kind = "load"
  /\ IF Ok(j) THEN Emit(Loaded(Got(j))) /\ cache' = cache \cup Got(j)
     ELSE /\ IF job[j].base # {} THEN UNCHANGED list ELSE Emit(LoadFailed)
          /\ UNCHANGED cache
  /\ Return(j)

(* Mutant: an error empties the list.                                         *)
RefusalOnly(j) ==
  /\ \E call \in {"create", "find", "join", "get"} : Answered(j, call)
  /\ ~Ok(j)
  /\ Emit(Failed({}))
  /\ Return(j)
  /\ UNCHANGED cache

(* createRoom(), getRoomByName(), joinRoom(): an error ends the handler with  *)
(* the list it started from.                                                  *)
Refusal(j) ==
  /\ \E call \in {"create", "find", "join", "get"} : Answered(j, call)
  /\ ~Ok(j)
  /\ Emit(Failed(job[j].base))
  /\ Return(j)
  /\ UNCHANGED cache

Accepted(j) ==
  /\ Ok(j)
  /\ \/ Answered(j, "create") /\ Await(j, "list", TheRoom(j))
     \/ Answered(j, "find")   /\ Await(j, "join", TheRoom(j))
     \/ Answered(j, "join")   /\ Await(j, "list", job[j].room)
  /\ UNCHANGED <<list, cache>>

(* Mutant: without a fresh list the new room is not shown.                    *)
RefreshOrBase(j) ==
  /\ Answered(j, "list") /\ job[j].kind # "load"
  /\ Emit(Loaded(IF Ok(j) THEN Got(j) ELSE job[j].base))
  /\ Return(j)
  /\ UNCHANGED cache

(* _refreshedRooms() and _refreshedRoomsOrFetch(): the list again, or else    *)
(* the room added to the base, which after a join by id is asked for first.   *)
(* Neither saves to the cache.                                                *)
Refreshed(j) ==
  /\ Answered(j, "list") /\ job[j].kind # "load"
  /\ IF ~Ok(j) /\ job[j].kind = "join"
     THEN Await(j, "get", job[j].room) /\ UNCHANGED list
     ELSE /\ Emit(Loaded(IF Ok(j) THEN Got(j) ELSE job[j].base \cup {job[j].room}))
          /\ Return(j)
  /\ UNCHANGED cache

Fetched(j) ==
  /\ Answered(j, "get") /\ Ok(j)
  /\ Emit(Loaded(job[j].base \cup {job[j].room}))
  /\ Return(j)
  /\ UNCHANGED cache

Resume(j) ==
  /\ \/ CacheRead(j) \/ LoadAnswered(j) \/ Refusal(j) \/ Accepted(j) \/ Refreshed(j) \/ Fetched(j)
  /\ UNCHANGED <<tableVars, token, screen, mixed, spent>>

-------------------------------------------------------------------------------
(* The session. The bloc and its handlers do not notice it.                   *)

(* The pane is built and loads. Until then the bloc still has its old state.  *)
Login(j) ==
  /\ screen = "login"
  /\ Spend("login", MaxLogin)
  /\ token' \in User
  /\ screen' = "rooms"
  /\ StartLoad(j)
  /\ UNCHANGED <<tableVars, cache, mixed>>

(* logout(): the tokens first; then the caches, and the login screen.         *)
Logout ==
  /\ screen = "rooms"
  /\ screen' = "leaving"
  /\ token' = NoOne
  /\ UNCHANGED <<tableVars, list, cache, job, mixed, spent>>

(* Mutant: the caches are kept.                                               *)
KeepCache ==
  /\ screen = "leaving"
  /\ screen' = "login"
  /\ mixed' = \E j \in Job : Runs(j)
  /\ UNCHANGED <<tableVars, token, list, cache, job, spent>>

(* A handler that still runs will emit, and a load will save, what the        *)
(* account that leaves was answered, or be answered for the next one.         *)
ClearCaches ==
  /\ screen = "leaving"
  /\ screen' = "login"
  /\ cache' = {}
  /\ mixed' = \E j \in Job : Runs(j)
  /\ UNCHANGED <<tableVars, token, list, job, spent>>

(* The app is killed and starts again: the session is restored, or it ends    *)
(* at the login screen with the tokens cleared or not, and with the cache.    *)
Ended(i) == IF job[i].call = "none" THEN NoJob ELSE Over

Restart(j) ==
  /\ Spend("fault", MaxFault)
  /\ \/ /\ token # NoOne /\ screen' = "rooms"
        /\ Unused(j)
        /\ Emit(Loading)
        /\ \E read \in {cache, {}} :
             job' = [i \in Job |-> IF i = j
                                   THEN [NoJob EXCEPT !.call = "cache", !.reply = Given(read)]
                                   ELSE Ended(i)]
        /\ UNCHANGED <<token, mixed>>
     \/ /\ screen' = "login" /\ token' \in {token, NoOne}
        /\ Emit([Loading EXCEPT !.phase = "initial"])
        /\ job' = [i \in Job |-> Ended(i)]
        /\ mixed' = (mixed \/ cache # {})
  /\ UNCHANGED <<tableVars, cache>>

(* Other devices.                                                             *)
Other ==
  /\ Spend("other", MaxOther)
  /\ \/ Befriend \/ Part
     \/ \E a \in Peer : \/ \E text \in Typed : CreateRoom(a, text, Given({Len(rooms) + 1}))
                        \/ \E id \in TypedId : JoinRoom(a, id, Given({id}))
  /\ UNCHANGED clientVars

Next ==
  \/ \E j \in Job : RetryLoad(j) \/ OpenPane(j) \/ Submit(j) \/ Serve(j) \/ Fail(j) \/ Resume(j)
  \/ \E j \in Job : Login(j) \/ Restart(j)
  \/ Logout \/ ClearCaches \/ Other

Spec == Init /\ [][Next]_vars
===============================================================================
