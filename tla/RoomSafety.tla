------------------------------ MODULE RoomSafety ------------------------------
(* What the server's fan-out must satisfy: invariants and action properties   *)
(* of RoomSocket, and the liveness its scheduling justifies.                  *)
EXTENDS RoomSocket

(* A process has at most one listener for the room, the one _tasks holds, and *)
(* _tasks and _pubsubs agree: a second listener would deliver every payload   *)
(* twice and no unsubscribe would ever reach it.                              *)
SingleListener ==
  /\ \A p \in Proc : p \in pubsubs <=> tasks[p] # None
  /\ \A l \in Conn : lst[l] # "none" => tasks[ProcOf[l]] = l

(* While a process has a socket in its registry, the room has a listener      *)
(* there, or the socket that must create it is still at it, or it failed.     *)
ListenerWhileOccupied ==
  \A p \in Proc : reg[p] # {} =>
    \/ tasks[p] # None
    \/ \E c \in reg[p] : pc[c] \in {"subscribing", "subscribe_failed"}

(* "A room nobody on this process cares about costs nothing": a listener runs *)
(* only while some handler has its finally block ahead of it, or after one    *)
(* was ended by its join event.                                               *)
ReleasedWhenUnused ==
  \A p \in Proc : tasks[p] # None =>
    \E c \in Local(p) : pc[c] \in Serving \cup {"join_failed"}

(* Two sockets never disagree on the order of two messages, and none is sent  *)
(* one publication twice: every socket is sent increasing positions.          *)
InOrder ==
  \A c \in Conn : \A i, j \in 1..Len(got[c]) : i < j => got[c][i] < got[c][j]

(* ws.py: "a user must never see their own \"user is typing\" indicator",      *)
(* on any socket, on any process.                                             *)
NoOwnTyping == \A c \in Conn : UserOf[c] \notin typed[c]

(* The fan-out implements the best-effort room.                               *)
BestEffort == INSTANCE BestEffortRoom WITH Socket <- Conn, Id <- 1..MaxMsg
RefinesBestEffort == BestEffort!Spec

-------------------------------------------------------------------------------
(* Claims of the code's comments that the code does not keep.                 *)

(* broadcaster.py: "a room this process still cares about keeps trying to     *)
(* recover instead of going dark". A socket in the receive loop has a         *)
(* listener on its process or one is being created.                           *)
NoDarkRoom ==
  \A c \in Conn : pc[c] = "open" /\ c \in reg[ProcOf[c]] =>
    \/ tasks[ProcOf[c]] # None
    \/ \E d \in Local(ProcOf[c]) : pc[d] = "subscribing"

(* manager.py: "Send message to every connection in room_id, minus            *)
(* exclusions". When a broadcast is over and its listener goes on, each       *)
(* socket that was registered from its start to its end was tried.            *)
BroadcastReachesAll ==
  [][\A l \in Conn :
       lst[l] = "sending" /\ lst'[l] = "reading" =>
         \A c \in bcast[l].snap \cap reg'[ProcOf[l]] :
           c \in bcast[l].seen \/ Excluded(bcast[l], c)]_vars

-------------------------------------------------------------------------------
(* Liveness. A call a handler or a listener awaits returns or raises, the     *)
(* event loop runs every ready task, Redis executes the commands it received, *)
(* and an attempt to reconnect finally succeeds (the assumption _reconnect    *)
(* states). Nothing is assumed of peers, frames and faults.                   *)
Fairness ==
  \A c \in Conn : WF_vars(Step(c)) /\ WF_vars(Listen(c)) /\ WF_vars(Activate(c))

FairSpec == Spec /\ Fairness

(* A handler whose connection is lost runs its cleanup to the end.            *)
HandlersFinish == \A c \in Conn : ~alive[c] ~> pc[c] \in Finished

(* A listener that lost its subscription gets it back, or is stopped.         *)
ListenerRecovers ==
  \A l \in Conn : link[l] = "broken" ~> (link[l] = "on" \/ lst[l] = "none")

(* On a process with a single connection to the room (no second one comes or  *)
(* goes during a broadcast), a message that reached the process's listener is *)
(* sent to the socket, unless the socket or the process goes first.           *)
SoleSocketIsServed ==
  \A c \in Conn, n \in 1..MaxMsg :
    (/\ lst[c] # "none" /\ alive[c]
     /\ \E i \in 1..Len(inbox[c]) : inbox[c][i] = MessageBroadcast(n))
      ~> (n \in {got[c][i] : i \in 1..Len(got[c])} \/ ~alive[c])
===============================================================================
