------------------------------ MODULE ChatClient ------------------------------
(* mobile/lib/features/chat/presentation/chat_bloc.dart: one ChatBloc after   *)
(* another for one room, with the connection (ws_chat_repository_impl.dart),  *)
(* the message cache, and the history endpoint it backfills from. The server  *)
(* side of the sockets is BestEffortRoom, which RoomSocket implements.        *)
(*                                                                            *)
(* Handlers of a bloc run concurrently, so every call of _connect() is a      *)
(* process: attempt k owns a connection, an emitter and a backfill, which all *)
(* carry its number. Typing and presence frames count for what they do to     *)
(* this state: the first frame of any kind reports the connection.            *)
EXTENDS Naturals, Sequences, FiniteSets

CONSTANTS
  MaxAttempt,  \* bound: calls of _connect()
  MaxMsg,      \* bound: ids of the messages table
  MaxLog,      \* bound: publications
  PageLimit,   \* rows of a history page and of a cache read (100 in the code)
  MaxSend,     \* bound: messages that the user composes
  MaxFault,    \* bound: lost connections and failed calls
  MaxRetry,    \* bound: taps on Retry
  MaxReopen    \* bound: times the chat screen is closed and opened again

ASSUME LimitAssumption == PageLimit \in Nat \ {0}
ASSUME SizeAssumption == MaxAttempt \in Nat \ {0} /\ MaxMsg \in Nat

Attempt == 1..MaxAttempt
Msg     == 1..MaxMsg

VARIABLES
  stored, log, got,  \* the server: committed ids, publications, frames per socket
  view,      \* the state's class: "connecting", "active" or "failed"
  online,    \* ChatActive.isConnected
  shown,     \* ChatActive.messages, by id
  last,      \* _lastMessageId, 0 for null
  timer,     \* _reconnectTimer is armed
  conn,      \* the attempt whose connection _connection holds, 0 for null
  outbox,    \* _pendingOutbox
  wire,      \* contents that sendMessage() took without raising, in order
  composed,  \* how many contents this bloc was given; they are 1..composed
  phase,     \* phase[k]: where the handler of attempt k is suspended
  closes,    \* closes[k]: the connection that attempt k waits to close, or 0
  link,      \* link[k]: the channel of attempt k
  greeted,   \* greeted[k]: a first frame has come (_connected)
  fetch,     \* fetch[k]: the backfill of attempt k
  cache,     \* the ids in the device's messages table
  astray,    \* history: this bloc's flags may have lost track of its connection,
             \* since two _connect() crossed or a page revived a refused room
  spent      \* how much of each bound is used

serverVars == <<stored, log, got>>
viewVars   == <<view, online, shown>>
sendVars   == <<outbox, wire, composed>>
callVars   == <<phase, closes, link, greeted, fetch>>
vars == <<serverVars, viewVars, last, timer, conn, sendVars, callVars, cache, astray, spent>>

Server == INSTANCE BestEffortRoom WITH Socket <- Attempt, Id <- Msg

(* "due" remembers what had been published when the backfill was asked for,   *)
(* that is, what the new socket has missed; "merged" is a page that the bloc  *)
(* on the screen has merged.                                                  *)
Backfill == [state : {"none", "asked", "answered", "merged", "over"}, after : Nat,
             page : SUBSET Msg, due : SUBSET Msg]

TypeOK ==
  /\ stored \in SUBSET Msg /\ log \in Seq(Msg) /\ got \in [Attempt -> Seq(Nat)]
  /\ view \in {"connecting", "active", "failed"}
  /\ online \in BOOLEAN /\ timer \in BOOLEAN
  /\ shown \in Seq(Msg) /\ last \in 0..MaxMsg
  /\ conn \in {0} \cup Attempt
  /\ outbox \in Seq(Nat) /\ wire \in Seq(Nat) /\ composed \in Nat
  /\ phase \in [Attempt -> {"none", "closing", "reading", "dialing", "open", "done"}]
  /\ closes \in [Attempt -> {0} \cup Attempt]
  /\ link \in [Attempt -> {"none", "up", "lost", "closing", "ended", "closed"}]
  /\ greeted \in [Attempt -> BOOLEAN]
  /\ fetch \in [Attempt -> Backfill]
  /\ cache \in SUBSET Msg /\ astray \in BOOLEAN
  /\ spent \in [{"fault", "retry", "reopen"} -> Nat]

NoBackfill == [state |-> "none", after |-> 0, page |-> {}, due |-> {}]

(* The screen opens: the bloc is created and its first _connect() has nothing *)
(* to close.                                                                  *)
Init ==
  /\ Server!Init
  /\ view = "connecting" /\ online = FALSE /\ shown = <<>>
  /\ last = 0 /\ timer = FALSE /\ conn = 0
  /\ outbox = <<>> /\ wire = <<>> /\ composed = 0
  /\ phase = [k \in Attempt |-> IF k = 1 THEN "reading" ELSE "none"]
  /\ closes = [k \in Attempt |-> 0]
  /\ link = [k \in Attempt |-> "none"]
  /\ greeted = [k \in Attempt |-> FALSE]
  /\ fetch = [k \in Attempt |-> NoBackfill]
  /\ cache = {} /\ astray = FALSE
  /\ spent = [b \in {"fault", "retry", "reopen"} |-> 0]

Elems(s)   == {s[i] : i \in 1..Len(s)}
Sorted(S)  == CHOOSE s \in [1..Cardinality(S) -> S] :
                \A i, j \in 1..Cardinality(S) : i < j => s[i] < s[j]
Highest(S) == IF S = {} THEN 0 ELSE CHOOSE x \in S : \A y \in S : y <= x
Larger(a, b) == IF a > b THEN a ELSE b

Fault     == spent["fault"] < MaxFault /\ spent' = [spent EXCEPT !["fault"] = @ + 1]
Unused(k) == phase[k] = "none" /\ \A j \in Attempt : j < k => phase[j] # "none"

-------------------------------------------------------------------------------
(* State changes that several handlers share.                                 *)

(* Mutants: a connection starts with an empty room; a room that is shown      *)
(* keeps its flag.                                                            *)
ShowEmpty == view' = "active" /\ online' = TRUE /\ shown' = <<>>
ShowRoom  == view' = "active" /\ online' = (online \/ view # "active") /\ UNCHANGED shown

(* A ChatActive that is already there only takes the connected flag.          *)
ShowConnected ==
  /\ view' = "active" /\ online' = TRUE
  /\ shown' = IF view = "active" THEN shown ELSE <<>>

(* Mutants: the flag stays; no retry is scheduled.                            *)
ScheduleOnly ==
  /\ view' = IF view = "active" THEN "active" ELSE "failed"
  /\ timer' = (timer \/ view = "active")
  /\ UNCHANGED <<online, shown>>
ShowDisconnectedOnly ==
  /\ view' = IF view = "active" THEN "active" ELSE "failed"
  /\ online' = FALSE
  /\ UNCHANGED <<shown, timer>>

(* Closed or failed: a shown room stays and retries, an unshown one fails.    *)
ShowDisconnected ==
  /\ view' = IF view = "active" THEN "active" ELSE "failed"
  /\ online' = FALSE
  /\ timer' = (timer \/ view = "active")
  /\ UNCHANGED shown

(* sendMessage() raises only on a sink that is no longer up; such a sink may  *)
(* also swallow what it is given.                                             *)
Taken(contents) == wire' = wire \o contents
Raises          == conn # 0 /\ link[conn] # "up"

(* Mutants: the outbox is not sent; it is sent and not cleared.               *)
KeepOutbox == UNCHANGED <<outbox, wire>>
FlushAndKeep ==
  \/ conn = 0 /\ UNCHANGED <<outbox, wire>>
  \/ conn # 0 /\ Taken(outbox) /\ UNCHANGED outbox

FlushOutbox ==
  \/ conn = 0 /\ UNCHANGED <<outbox, wire>>
  \/ conn # 0 /\ Taken(outbox) /\ outbox' = <<>>
  \/ Raises /\ UNCHANGED <<outbox, wire>>

-------------------------------------------------------------------------------
(* _connect(), one action per stretch between two awaits.                     *)

(* It starts by closing the connection that the bloc holds.                   *)
Connect(k) ==
  /\ Unused(k)
  /\ phase' = [phase EXCEPT ![k] = IF conn = 0 THEN "reading" ELSE "closing"]
  /\ closes' = [closes EXCEPT ![k] = conn]
  /\ link' = [j \in Attempt |-> IF j = conn /\ link[j] = "up" THEN "closing" ELSE link[j]]
  /\ astray' = (astray \/ \E j \in Attempt : phase[j] \in {"closing", "reading", "dialing"})
  /\ UNCHANGED <<serverVars, viewVars, last, conn, sendVars, greeted, fetch, cache>>

(* _onReconnect, for the timer and for the Retry button of ChatFailed and of  *)
(* the "Connection lost" banner.                                              *)
TimerFires(k) ==
  /\ timer
  /\ timer' = FALSE
  /\ Connect(k)
  /\ UNCHANGED spent

Retry(k) ==
  /\ view = "failed" \/ (view = "active" /\ ~online)
  /\ spent["retry"] < MaxRetry /\ spent' = [spent EXCEPT !["retry"] = @ + 1]
  /\ timer' = FALSE
  /\ Connect(k)

(* close() returns: the event stream is done, which ends the handler that was *)
(* listening to it; then _connection is set to null, whatever it is by now.   *)
CloseReturns(k) ==
  /\ phase[k] = "closing"
  /\ link' = [link EXCEPT ![closes[k]] = "closed"]
  /\ phase' = [phase EXCEPT ![k] = "reading", ![closes[k]] = "done"]
  /\ closes' = [closes EXCEPT ![k] = 0]
  /\ conn' = 0
  /\ UNCHANGED <<serverVars, astray, viewVars, last, timer, sendVars, greeted,
                 fetch, cache, spent>>

(* The two cache reads (the second may raise, or both).                       *)
LatestCached == {id \in cache : Cardinality({j \in cache : j > id}) < PageLimit}

ShowCached(cached) ==
  /\ \/ last' = last
     \/ cached # {} /\ last' = Larger(Highest(cached), last)
  /\ IF cached # {} /\ view # "active"
     THEN view' = "active" /\ online' = TRUE /\ shown' = Sorted(cached)
     ELSE UNCHANGED viewVars

ReadCache(k) ==
  /\ phase[k] = "reading"
  /\ \E cached \in {{}, LatestCached} : ShowCached(cached)
  /\ phase' = [phase EXCEPT ![k] = "dialing"]
  /\ UNCHANGED <<serverVars, astray, timer, conn, sendVars, closes, link, greeted,
                 fetch, cache, spent>>

(* connect() returns a channel that is still being opened; the auth frame is  *)
(* in its sink, the backfill asks for what is above the cursor.               *)
Dial(k) ==
  /\ phase[k] = "dialing"
  /\ phase' = [phase EXCEPT ![k] = "open"]
  /\ link' = [link EXCEPT ![k] = "up"]
  /\ conn' = k
  /\ fetch' = [fetch EXCEPT ![k] = [state |-> "asked", after |-> last,
                                    page |-> {}, due |-> Elems(log)]]
  /\ UNCHANGED <<serverVars, astray, viewVars, last, timer, sendVars, closes,
                 greeted, cache, spent>>

(* connect() raises.                                                          *)
DialFails(k) ==
  /\ phase[k] = "dialing"
  /\ phase' = [phase EXCEPT ![k] = "done"]
  /\ ShowDisconnected
  /\ Fault
  /\ UNCHANGED <<serverVars, astray, last, conn, sendVars, closes, link, greeted,
                 fetch, cache>>

-------------------------------------------------------------------------------
(* _onSocketEvent(), called by the handler that listens to connection k.      *)

Hears(k) == phase[k] = "open" /\ link[k] \in {"up", "lost", "closing"}

(* The first frame: ChatSocketConnected.                                      *)
Greet(k) ==
  /\ Hears(k) /\ ~greeted[k]
  /\ greeted' = [greeted EXCEPT ![k] = TRUE]
  /\ timer' = FALSE
  /\ ShowConnected
  /\ FlushOutbox
  /\ UNCHANGED <<serverVars, astray, last, conn, composed, phase, closes, link,
                 fetch, cache, spent>>

(* Mutant: only a repetition of the latest message is recognised.             *)
IsNotLast(id) == id # last

(* A message is new unless the list has its id.                               *)
IsNew(id) == id \notin Elems(shown)

(* ChatSocketMessage: publication n of the room.                              *)
Receive(k, n) ==
  /\ Hears(k) /\ greeted[k]
  /\ Server!Deliver(k, n)
  /\ IF view = "active" /\ IsNew(log[n])
     THEN /\ shown' = Append(shown, log[n])
          /\ last' = Larger(log[n], last)
          /\ cache' = cache \cup {log[n]}
     ELSE UNCHANGED <<shown, last, cache>>
  /\ UNCHANGED <<view, online, timer, conn, sendVars, callVars, astray, spent>>

(* The connection is lost, or the server ends it.                             *)
Lose(k) ==
  /\ link[k] = "up"
  /\ link' = [link EXCEPT ![k] = "lost"]
  /\ Fault
  /\ UNCHANGED <<serverVars, astray, viewVars, last, timer, conn, sendVars, phase, closes,
                 greeted, fetch, cache>>

(* ChatSocketClosed, or ChatSocketFailure and then ChatSocketClosed.          *)
Ended(k) ==
  /\ Hears(k) /\ link[k] # "up"
  /\ link' = [link EXCEPT ![k] = "ended"]
  /\ ShowDisconnected
  /\ UNCHANGED <<serverVars, astray, last, conn, sendVars, phase, closes, greeted,
                 fetch, cache, spent>>

-------------------------------------------------------------------------------
(* _backfill(), which nobody awaits.                                          *)

(* rooms.py list_messages: the oldest rows above the cursor.                  *)
Page(after) ==
  LET rows == {id \in stored : id > after}
  IN  {id \in rows : Cardinality({j \in rows : j < id}) < PageLimit}

Answer(k) ==
  /\ fetch[k].state = "asked"
  /\ fetch' = [fetch EXCEPT ![k].state = "answered", ![k].page = Page(fetch[k].after)]
  /\ UNCHANGED <<serverVars, astray, viewVars, last, timer, conn, sendVars, phase, closes,
                 link, greeted, cache, spent>>

FetchFails(k) ==
  /\ fetch[k].state \in {"asked", "answered"}
  /\ fetch' = [fetch EXCEPT ![k].state = "over"]
  /\ Fault
  /\ UNCHANGED <<serverVars, astray, viewVars, last, timer, conn, sendVars, phase, closes,
                 link, greeted, cache>>

(* The response is there: it is saved; if the handler still runs, it is       *)
(* merged into what is shown by now.                                          *)

(* Mutant: the page replaces the list.                                        *)
OnlyPage(k) == fetch[k].page

Merged(k) == Elems(shown) \cup fetch[k].page

Merge(k) ==
  /\ fetch[k].state = "answered"
  /\ fetch' = [fetch EXCEPT ![k].state = IF phase[k] = "open" THEN "merged" ELSE "over"]
  /\ cache' = cache \cup fetch[k].page
  /\ IF phase[k] = "open"
     THEN /\ shown' = Sorted(Merged(k))
          /\ last' = IF Merged(k) = {} THEN last ELSE Highest(Merged(k))
          /\ view' = "active"
          /\ online' = (online \/ view # "active")
          /\ astray' = (astray \/ view = "failed")
     ELSE UNCHANGED <<viewVars, last, astray>>
  /\ UNCHANGED <<serverVars, timer, conn, sendVars, phase, closes, link, greeted,
                 spent>>

-------------------------------------------------------------------------------
(* Mutant: the message is also shown at once, under an id that is not one yet. *)
SendOptimistically ==
  /\ view = "active" /\ composed < MaxSend
  /\ composed' = composed + 1
  /\ outbox' = Append(outbox, composed + 1)
  /\ shown' = Append(shown, 0)
  /\ UNCHANGED <<serverVars, astray, view, online, last, timer, conn, wire,
                 callVars, cache, spent>>

(* _onMessageSend(); only ChatActive has an input bar.                        *)
Send ==
  /\ view = "active" /\ composed < MaxSend
  /\ composed' = composed + 1
  /\ \/ conn # 0 /\ Taken(<<composed + 1>>) /\ UNCHANGED outbox
     \/ /\ conn = 0 \/ Raises
        /\ outbox' = Append(outbox, composed + 1)
        /\ UNCHANGED wire
  /\ UNCHANGED <<serverVars, astray, viewVars, last, timer, conn, callVars, cache,
                 spent>>

(* The screen is closed (close(): the timer is cancelled, the connection is   *)
(* closed, the handlers' emitters are done) and a new bloc is created. The    *)
(* calls that were waiting return to a closed bloc and change nothing; a      *)
(* backfill still saves its page.                                             *)
Reopen(k) ==
  /\ Unused(k)
  /\ spent["reopen"] < MaxReopen /\ spent' = [spent EXCEPT !["reopen"] = @ + 1]
  /\ view' = "connecting" /\ online' = FALSE /\ shown' = <<>>
  /\ last' = 0 /\ timer' = FALSE /\ conn' = 0
  /\ outbox' = <<>> /\ wire' = <<>> /\ composed' = 0
  /\ phase' = [j \in Attempt |-> IF j < k THEN "done" ELSE IF j = k THEN "reading" ELSE "none"]
  /\ closes' = [j \in Attempt |-> 0]
  /\ link' = [j \in Attempt |-> IF j = conn THEN "closed" ELSE link[j]]
  /\ fetch' = [j \in Attempt |-> IF fetch[j].state = "merged"
                                 THEN [fetch[j] EXCEPT !.state = "over"] ELSE fetch[j]]
  /\ astray' = FALSE
  /\ UNCHANGED <<serverVars, greeted, cache>>

(* What other clients' messages do to the room.                               *)
clientVars == <<viewVars, last, timer, conn, sendVars, callVars, cache, astray, spent>>
Persist(id) == Server!Persist(id) /\ UNCHANGED clientVars
Publish(id) == Len(log) < MaxLog /\ Server!Publish(id) /\ UNCHANGED clientVars

Handler(k) == CloseReturns(k) \/ ReadCache(k) \/ Dial(k) \/ Ended(k)
Reply(k)   == Answer(k) \/ Merge(k)
Failure(k) == DialFails(k) \/ Lose(k) \/ FetchFails(k)

Next ==
  \/ \E k \in Attempt : TimerFires(k) \/ Retry(k) \/ Reopen(k) \/ Handler(k) \/ Greet(k)
  \/ \E k \in Attempt : Reply(k) \/ Failure(k) \/ \E n \in 1..Len(log) : Receive(k, n)
  \/ Send
  \/ \E id \in Msg : Persist(id) \/ (id \in stored /\ Publish(id))

Spec == Init /\ [][Next]_vars
===============================================================================
