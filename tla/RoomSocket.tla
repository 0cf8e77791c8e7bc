------------------------------ MODULE RoomSocket ------------------------------
(* app/api/routes/ws.py: the handlers of all connections of one room, on all  *)
(* processes, composed with the registry (ConnectionManager), the listeners   *)
(* and the channel (RoomBroadcaster), and the messages table.                 *)
(* An action is the code between two awaits of one handler. A call to         *)
(* Postgres or Redis either returns or raises.                                *)
EXTENDS RoomBroadcaster

CONSTANTS
  MaxMsg,     \* bound: rows inserted into messages
  MaxTyping,  \* bound: typing frames received
  MaxDrop,    \* bound: subscription connections lost
  MaxRepeat,  \* bound: PUBLISH commands executed twice by the client's retry
  MaxCrash    \* bound: process crashes

ASSUME BoundsAssumption == MaxMsg \in Nat

VARIABLES
  pc,         \* pc[c]: where the handler of c is suspended
  held,       \* held[c]: the id of the message the handler is storing, or 0
  nextId,     \* the last id drawn from the messages sequence
  stored,     \* the committed rows of messages, by id
  spent       \* how much of each bound is used

handlerVars == <<pc, held, nextId, stored>>
vars == <<managerVars, taskVars, redisVars, handlerVars, spent>>

Before   == {"new", "subscribing"}
Serving  == {"joining", "open", "committing", "publishing"}
After    == {"unsubscribing", "leaving"}
Finished == {"closed", "subscribe_failed", "join_failed"}

TypeOK ==
  /\ ManagerTypeOK
  /\ BroadcasterTypeOK
  /\ pc \in [Conn -> Before \cup Serving \cup After \cup Finished]
  /\ held \in [Conn -> Nat]
  /\ nextId \in Nat
  /\ stored \in SUBSET Nat
  /\ spent \in [{"typing", "drop", "repeat", "crash"} -> Nat]

Init ==
  /\ ManagerInit
  /\ BroadcasterInit
  /\ pc = [c \in Conn |-> "new"]
  /\ held = [c \in Conn |-> 0]
  /\ nextId = 0
  /\ stored = {}
  /\ spent = [b \in {"typing", "drop", "repeat", "crash"} |-> 0]

Goto(c, label) == pc' = [pc EXCEPT ![c] = label]
Spend(b)       == spent' = [spent EXCEPT ![b] = @ + 1]

-------------------------------------------------------------------------------
(* The handshake. accept, the auth frame and the membership query touch none  *)
(* of this state; any of them may end the handler.                            *)
Reject(c) ==
  /\ pc[c] = "new"
  /\ Goto(c, "closed")
  /\ alive' = [alive EXCEPT ![c] = FALSE]
  /\ UNCHANGED <<reg, bcast, sentVars, taskVars, redisVars, held, nextId, stored, spent>>

(* manager.connect and, for the first local socket, broadcaster.subscribe,    *)
(* which returns at once when the room's PubSub exists.                       *)
Register(c) ==
  /\ pc[c] = "new"
  /\ Connect(c)
  /\ Goto(c, IF IsFirst(c) /\ ~AlreadySubscribed(ProcOf[c])
             THEN "subscribing" ELSE "joining")
  /\ UNCHANGED <<bcast, alive, sentVars, taskVars, redisVars, held, nextId, stored, spent>>

Subscribed(c) ==
  /\ pc[c] = "subscribing"
  /\ StartListening(c)
  /\ Goto(c, "joining")
  /\ UNCHANGED <<reg, alive, sentVars, held, nextId, stored, spent>>

(* subscribe raises outside the try block: the handler ends, the server       *)
(* closes the socket, and the registry keeps it.                              *)
SubscribeFail(c) ==
  /\ pc[c] = "subscribing"
  /\ Goto(c, "subscribe_failed")
  /\ alive' = [alive EXCEPT ![c] = FALSE]
  /\ UNCHANGED <<reg, bcast, sentVars, taskVars, redisVars, held, nextId, stored, spent>>

Joined(c) ==
  /\ pc[c] = "joining"
  /\ Push(PresenceBroadcast)
  /\ Goto(c, "open")
  /\ UNCHANGED <<managerVars, taskVars, link, log, held, nextId, stored, spent>>

(* publish raises, before or after Redis executed it, outside the try block.  *)
JoinFail(c) ==
  /\ pc[c] = "joining"
  /\ Push(PresenceBroadcast) \/ UNCHANGED inbox
  /\ Goto(c, "join_failed")
  /\ alive' = [alive EXCEPT ![c] = FALSE]
  /\ UNCHANGED <<reg, bcast, sentVars, taskVars, link, log, held, nextId, stored, spent>>

-------------------------------------------------------------------------------
(* The finally block, up to its first await. Every way out of the loop runs   *)
(* it. Nothing depends on the connection after it, so alive is cleared here.  *)
Finally(c) ==
  /\ Disconnect(c)
  /\ alive' = [alive EXCEPT ![c] = FALSE]
  /\ held' = [held EXCEPT ![c] = 0]
  /\ \/ IsLast(c) /\ StopListening(ProcOf[c]) /\ Goto(c, "unsubscribing")
     \/ ~IsLast(c) /\ UNCHANGED <<bcast, taskVars, redisVars>> /\ Goto(c, "leaving")
  /\ UNCHANGED <<sentVars, nextId, stored>>

(* Mutant: the receive loop goes on after WebSocketDisconnect.                *)
IgnoreDisconnect(c) == pc[c] = "open" /\ ~alive[c] /\ UNCHANGED vars

(* receive_text raises WebSocketDisconnect.                                   *)
Leave(c) ==
  /\ pc[c] = "open" /\ ~alive[c]
  /\ Finally(c)
  /\ UNCHANGED spent

(* unsubscribe ran to its end; what it raises is suppressed.                  *)
Unsubscribed(c) ==
  /\ pc[c] = "unsubscribing"
  /\ Goto(c, "leaving")
  /\ UNCHANGED <<managerVars, taskVars, redisVars, held, nextId, stored, spent>>

(* The leave event is published, or its publish raises before reaching Redis. *)
Left(c) ==
  /\ pc[c] = "leaving"
  /\ Push(PresenceBroadcast) \/ UNCHANGED inbox
  /\ Goto(c, "closed")
  /\ UNCHANGED <<managerVars, taskVars, link, log, held, nextId, stored, spent>>

-------------------------------------------------------------------------------
(* One turn of the receive loop. An invalid frame and a late auth frame       *)
(* change nothing. Frames may still be read after the connection is lost.     *)

(* Mutant: the message is published before it is committed.                   *)
RecvUncommitted(c) ==
  /\ pc[c] = "open" /\ nextId < MaxMsg
  /\ nextId' = nextId + 1
  /\ held' = [held EXCEPT ![c] = nextId + 1]
  /\ Goto(c, "publishing")
  /\ UNCHANGED <<managerVars, taskVars, redisVars, stored, spent>>

(* A message frame: the INSERT draws an id; COMMIT is awaited.                *)
RecvMessage(c) ==
  /\ pc[c] = "open" /\ nextId < MaxMsg
  /\ nextId' = nextId + 1
  /\ held' = [held EXCEPT ![c] = nextId + 1]
  /\ Goto(c, "committing")
  /\ UNCHANGED <<managerVars, taskVars, redisVars, stored, spent>>

Commit(c) ==
  /\ pc[c] = "committing"
  /\ stored' = stored \cup {held[c]}
  /\ Goto(c, "publishing")
  /\ UNCHANGED <<managerVars, taskVars, redisVars, held, nextId, spent>>

CommitFail(c) ==
  /\ pc[c] = "committing"
  /\ Finally(c)
  /\ UNCHANGED spent

PushMessage(c) ==
  /\ log' = Append(log, held[c])
  /\ Push(MessageBroadcast(Len(log) + 1))

PublishMessage(c) ==
  /\ pc[c] = "publishing"
  /\ PushMessage(c)
  /\ held' = [held EXCEPT ![c] = 0]
  /\ Goto(c, "open")
  /\ UNCHANGED <<managerVars, taskVars, link, nextId, stored, spent>>

(* The reply to PUBLISH is lost after Redis executed it, and the Redis client *)
(* sends the command again: the handler is still awaiting publish.            *)
PublishRepeat(c) ==
  /\ pc[c] = "publishing" /\ spent["repeat"] < MaxRepeat
  /\ PushMessage(c)
  /\ Spend("repeat")
  /\ UNCHANGED <<managerVars, taskVars, link, handlerVars>>

(* refresh or publish raises. The row stays.                                  *)
PublishFail(c) ==
  /\ pc[c] = "publishing"
  /\ Finally(c)
  /\ UNCHANGED spent

(* A typing frame: publish returns, or raises and ends the handler. (One that *)
(* raises after Redis executed it is a RecvTyping and a lost connection.)     *)
RecvTyping(c) ==
  /\ pc[c] = "open" /\ spent["typing"] < MaxTyping
  /\ Push(TypingBroadcast(c))
  /\ Spend("typing")
  /\ UNCHANGED <<managerVars, taskVars, link, log, handlerVars>>

TypingFail(c) ==
  /\ pc[c] = "open" /\ spent["typing"] < MaxTyping
  /\ Finally(c)
  /\ Spend("typing")

-------------------------------------------------------------------------------
(* The environment.                                                           *)

(* The peer closes the connection, or it is lost.                             *)
PeerDrop(c) ==
  /\ alive[c] /\ pc[c] \in {"subscribing"} \cup Serving
  /\ alive' = [alive EXCEPT ![c] = FALSE]
  /\ UNCHANGED <<reg, bcast, sentVars, taskVars, redisVars, handlerVars, spent>>

Activate(l) == RedisActivate(l) /\ UNCHANGED <<handlerVars, spent>>

Drop(l) ==
  /\ spent["drop"] < MaxDrop
  /\ RedisDrop(l)
  /\ Spend("drop")
  /\ UNCHANGED handlerVars

Listen(l) == ListenStep(l) /\ UNCHANGED <<handlerVars, spent>>

(* A pod dies and is replaced by an empty one: no finally block runs. The     *)
(* connections that have not been made yet can reach its replacement.         *)
Crash(p) ==
  LET gone == {c \in Local(p) : pc[c] # "new"}
  IN  /\ spent["crash"] < MaxCrash /\ gone # {}
      /\ reg' = [reg EXCEPT ![p] = {}]
      /\ StopListening(p)
      /\ pc' = [c \in Conn |-> IF c \in gone THEN "closed" ELSE pc[c]]
      /\ alive' = [c \in Conn |-> alive[c] /\ c \notin gone]
      /\ held' = [c \in Conn |-> IF c \in gone THEN 0 ELSE held[c]]
      /\ Spend("crash")
      /\ UNCHANGED <<sentVars, nextId, stored>>

Handshake(c) == Reject(c) \/ Register(c)

(* What the event loop runs once the awaited call returns or raises.          *)
Step(c) ==
  \/ Subscribed(c) \/ SubscribeFail(c) \/ Joined(c) \/ JoinFail(c)
  \/ Commit(c) \/ CommitFail(c) \/ PublishMessage(c) \/ PublishFail(c)
  \/ Leave(c) \/ Unsubscribed(c) \/ Left(c)

Frame(c) == RecvMessage(c) \/ RecvTyping(c) \/ TypingFail(c)

Next ==
  \/ \E c \in Conn : Handshake(c) \/ Step(c) \/ Frame(c) \/ PublishRepeat(c)
  \/ \E c \in Conn : PeerDrop(c) \/ Activate(c) \/ Drop(c) \/ Listen(c)
  \/ \E p \in Proc : Crash(p)

Spec == Init /\ [][Next]_vars
===============================================================================
