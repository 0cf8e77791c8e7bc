------------------------------ MODULE FriendPair ------------------------------
(* What the friends routes promise of two users (models/user_relationship.py, *)
(* "The single per-pair relationship row's state machine"): every transition  *)
(* is one step, which takes the direct-message room's memberships with it.    *)

CONSTANTS User, None

VARIABLES
  status,   \* "none", "pending", "accepted" or "blocked"
  actor,    \* the requester, or the blocker
  members   \* the members of the pair's DM room

vars == <<status, actor, members>>

Init == status = "none" /\ actor = None /\ members = {}

Send(u) ==
  /\ status = "none"
  /\ status' = "pending" /\ actor' = u
  /\ UNCHANGED members

Accept(u) ==
  /\ status = "pending" /\ actor # u
  /\ status' = "accepted" /\ members' = User
  /\ UNCHANGED actor

Vanish == status' = "none" /\ actor' = None /\ members' = {}

Decline(u) == status = "pending" /\ actor # u /\ Vanish
Remove(u)  == status = "accepted" /\ Vanish
Unblock(u) == status = "blocked" /\ actor = u /\ Vanish

Block(u) ==
  /\ status \in {"pending", "accepted"}
  /\ status' = "blocked" /\ actor' = u /\ members' = {}

(* What a request of u does when it has an effect. *)
Does(u, op) ==
  \/ op = "send" /\ Send(u)
  \/ op = "accept" /\ Accept(u)
  \/ op = "decline" /\ Decline(u)
  \/ op = "remove" /\ Remove(u)
  \/ op = "block" /\ Block(u)
  \/ op = "unblock" /\ Unblock(u)

Next == \E u \in User : \E op \in {"send", "accept", "decline", "remove", "block", "unblock"} :
          Does(u, op)

Spec == Init /\ [][Next]_vars
===============================================================================
