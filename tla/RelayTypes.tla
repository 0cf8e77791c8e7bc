------------------------------ MODULE RelayTypes ------------------------------
(* Constants and values shared by the modules of the server's room fan-out.   *)
(* One room is followed: every piece of state of app/ws/ is a dictionary      *)
(* keyed by room_id and no operation touches two keys, so rooms are           *)
(* independent.                                                               *)
EXTENDS Naturals, Sequences, FiniteSets

CONSTANTS
  Proc,      \* API processes (pods); each has its own manager and broadcaster
  Conn,      \* WebSocket connections; each lives once
  User,      \* accounts
  ProcOf,    \* ProcOf[c]: the process that accepted c
  UserOf,    \* UserOf[c]: the user that c authenticates as
  None       \* Python's None

ASSUME ConnAssumption ==
  /\ IsFiniteSet(Conn)
  /\ ProcOf \in [Conn -> Proc]
  /\ UserOf \in [Conn -> User]

ASSUME NoneAssumption == None \notin Conn

(* The JSON payloads that travel over the room's Redis channel, reduced to    *)
(* what the server looks at: whether a payload is a typing event, and whose.  *)
(* "at" is the position of a chat message in the history of the channel (see  *)
(* log in RoomBroadcaster): it names one publication, so that two             *)
(* publications of the same message can be told apart.                        *)

(* Mutant: the payload is built before refresh() has read the row's id.       *)
UnrefreshedBroadcast(n) == [type |-> "message", at |-> None]

MessageBroadcast(n) == [type |-> "message", at |-> n]
TypingBroadcast(c)  == [type |-> "typing", user |-> UserOf[c]]
PresenceBroadcast   == [type |-> "presence"]

Payload == [type : {"message"}, at : Nat]
           \cup [type : {"typing"}, user : User]
           \cup [type : {"presence"}]

(* The connections that process p accepted. *)
Local(p) == {c \in Conn : ProcOf[c] = p}
===============================================================================
