---------------------------- MODULE RoomBroadcaster ----------------------------
(* app/ws/broadcaster.py: the room's Redis channel and, in each process that  *)
(* has a socket in the room, one PubSub connection read by one listener task. *)
(* A listener is named by the connection whose subscribe() created it, so     *)
(* that two listeners of one process are two values and not one.              *)
EXTENDS ConnectionManager

VARIABLES
  pubsubs,  \* the processes whose _pubsubs has the room
  tasks,    \* tasks[p]: the listener in p's _tasks[room_id], or None
  lst,      \* lst[l]: what listener l is awaiting; "none": not running
  link,     \* link[l]: l's subscription as Redis sees it
  inbox,    \* inbox[l]: payloads Redis pushed to l that it has not read
  log       \* the chat message ids published, in the channel's order

taskVars  == <<pubsubs, tasks, lst>>
redisVars == <<link, inbox, log>>

BroadcasterTypeOK ==
  /\ pubsubs \in SUBSET Proc
  /\ tasks \in [Proc -> Conn \cup {None}]
  /\ lst \in [Conn -> {"none", "reading", "sending", "reconnecting"}]
  /\ link \in [Conn -> {"off", "sent", "on", "broken"}]
  /\ inbox \in [Conn -> Seq(Payload)]
  /\ log \in Seq(Nat)

BroadcasterInit ==
  /\ pubsubs = {}
  /\ tasks = [p \in Proc |-> None]
  /\ lst = [l \in Conn |-> "none"]
  /\ link = [l \in Conn |-> "off"]
  /\ inbox = [l \in Conn |-> <<>>]
  /\ log = <<>>

-------------------------------------------------------------------------------
(* subscribe() and unsubscribe(), called by the socket handlers.              *)

(* Mutant: subscribe() does not look whether the room has a PubSub.           *)
NeverSubscribed(p) == FALSE

AlreadySubscribed(p) == p \in pubsubs

(* The tail of subscribe(): the SUBSCRIBE command has been written (Redis has *)
(* not necessarily executed it), the PubSub and the new task are recorded.    *)
StartListening(c) ==
  /\ pubsubs' = pubsubs \cup {ProcOf[c]}
  /\ tasks' = [tasks EXCEPT ![ProcOf[c]] = c]
  /\ lst' = [lst EXCEPT ![c] = "reading"]
  /\ link' = [link EXCEPT ![c] = "sent"]
  /\ UNCHANGED <<inbox, log, bcast>>

(* The synchronous head of unsubscribe(): both entries are popped and the     *)
(* task is cancelled. CancelledError is raised in the task at its next step,  *)
(* and no except clause of it swallows it, so it does nothing more: the       *)
(* broadcast it awaited is abandoned and its PubSub is never read again.      *)
StopListening(p) ==
  LET stopped == {tasks[p]} \cap Conn
  IN  /\ pubsubs' = pubsubs \ {p}
      /\ tasks' = [tasks EXCEPT ![p] = None]
      /\ lst' = [l \in Conn |-> IF l \in stopped THEN "none" ELSE lst[l]]
      /\ link' = [l \in Conn |-> IF l \in stopped THEN "off" ELSE link[l]]
      /\ inbox' = [l \in Conn |-> IF l \in stopped THEN <<>> ELSE inbox[l]]
      /\ bcast' = [l \in Conn |-> IF l \in stopped THEN None ELSE bcast[l]]
      /\ UNCHANGED log

(* PUBLISH: Redis pushes the payload to every subscription that is active.    *)
Push(m) ==
  inbox' = [l \in Conn |-> IF link[l] = "on" THEN Append(inbox[l], m) ELSE inbox[l]]

-------------------------------------------------------------------------------
(* Redis and the network.                                                     *)

RedisActivate(l) ==
  /\ link[l] = "sent"
  /\ link' = [link EXCEPT ![l] = "on"]
  /\ UNCHANGED <<managerVars, taskVars, inbox, log>>

(* A subscription connection is lost. What already reached the process can    *)
(* still be read; what did not is a loss that happened earlier.               *)
RedisDrop(l) ==
  /\ link[l] \in {"sent", "on"}
  /\ link' = [link EXCEPT ![l] = "broken"]
  /\ UNCHANGED <<managerVars, taskVars, inbox, log>>

-------------------------------------------------------------------------------
(* _listen() and _reconnect(): one action per stretch between two awaits.     *)

(* Mutant: a payload does not wait for those before it, as if on_message were *)
(* started as a task of its own.                                              *)
ListenAny(l) ==
  /\ lst[l] = "reading"
  /\ \E i \in 1..Len(inbox[l]) :
       /\ inbox' = [inbox EXCEPT ![l] = SubSeq(@, 1, i - 1) \o SubSeq(@, i + 1, Len(@))]
       /\ Advance(l, FreshIteration(l, inbox[l][i]))
  /\ lst' = [lst EXCEPT ![l] = IF bcast'[l] = None THEN "reading" ELSE "sending"]
  /\ UNCHANGED <<pubsubs, tasks, link, log>>

(* get_message() returns a payload, and on_message runs up to its first await *)
(* (or to its end when there is nobody to send to).                           *)
ListenTake(l) ==
  /\ lst[l] = "reading" /\ inbox[l] # <<>>
  /\ inbox' = [inbox EXCEPT ![l] = Tail(@)]
  /\ Advance(l, FreshIteration(l, Head(inbox[l])))
  /\ lst' = [lst EXCEPT ![l] = IF bcast'[l] = None THEN "reading" ELSE "sending"]
  /\ UNCHANGED <<pubsubs, tasks, link, log>>

(* A send returns: the loop goes on with the next socket, ends or fails.      *)
ListenContinue(l) ==
  /\ lst[l] = "sending"
  /\ Advance(l, bcast[l])
  /\ lst' = [lst EXCEPT ![l] = IF bcast'[l] = None THEN "reading" ELSE "sending"]
  /\ UNCHANGED <<pubsubs, tasks, redisVars>>

(* get_message() raises: the PubSub is closed and _reconnect starts.          *)
ListenFail(l) ==
  /\ lst[l] = "reading" /\ link[l] = "broken" /\ inbox[l] = <<>>
  /\ lst' = [lst EXCEPT ![l] = "reconnecting"]
  /\ link' = [link EXCEPT ![l] = "off"]
  /\ UNCHANGED <<managerVars, pubsubs, tasks, inbox, log>>

(* Mutant: the fresh PubSub is stored but never subscribed to the channel.    *)
ReconnectedDeaf(l) ==
  /\ lst[l] = "reconnecting"
  /\ pubsubs' = pubsubs \cup {ProcOf[l]}
  /\ lst' = [lst EXCEPT ![l] = "reading"]
  /\ UNCHANGED <<managerVars, tasks, link, inbox, log>>

(* An attempt of _reconnect succeeds; failed attempts only wait.              *)
Reconnected(l) ==
  /\ lst[l] = "reconnecting"
  /\ pubsubs' = pubsubs \cup {ProcOf[l]}
  /\ lst' = [lst EXCEPT ![l] = "reading"]
  /\ link' = [link EXCEPT ![l] = "sent"]
  /\ UNCHANGED <<managerVars, tasks, inbox, log>>

ListenStep(l) ==
  ListenTake(l) \/ ListenContinue(l) \/ ListenFail(l) \/ Reconnected(l)
===============================================================================
