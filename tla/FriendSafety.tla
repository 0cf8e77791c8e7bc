----------------------------- MODULE FriendSafety -----------------------------
(* What concurrent requests about one pair must satisfy.                      *)
EXTENDS Friendship

Status == IF rel = None THEN "none" ELSE rel.status
Actor  == IF rel = None THEN None ELSE rel.actor

Pair == INSTANCE FriendPair WITH status <- Status, actor <- Actor

(* Whatever else is going on, every change of the pair is one transition of   *)
(* the promised state machine, the one that the finished request asked for,   *)
(* as long as no request has changed anything after the row that it had read  *)
(* was changed by another one.                                                *)
AtomicUnlessRaced ==
  /\ Pair!Init
  /\ [][raced' \/ \E h \in Handler : /\ job[h] # Idle /\ job'[h] = Idle
                                      /\ Pair!Does(job[h].by, job[h].op)]_<<Status, Actor, members>>

(* The DM is open to friends and to nobody else, with the same reservation.   *)
OpenToFriends == raced \/ members = IF Status = "accepted" THEN User ELSE {}

(* With no reservation: a friendship starts only from the request that is     *)
(* pending at that moment, by a user who did not send it. An accept that is   *)
(* under way can bring back neither a declined request nor a blocked one.     *)
FriendsByConsent ==
  [][Status' = "accepted" /\ Status # "accepted" =>
       /\ Status = "pending" /\ rel'.id = rel.id
       /\ \E h \in Handler : Doing(h, "accept") /\ job[h].by # rel.actor]_vars

(* "Accepted without a DM row is an invariant violation" (list_friends).      *)
FriendsHaveRoom == Status = "accepted" => room

(* An accept locks the row and then waits for the memberships; remove and     *)
(* block lock the memberships and then wait for the row. No two of them wait  *)
(* for each other.                                                            *)
NoCircularWait ==
  \A g, h \in Handler : g # h =>
    ~(/\ Doing(g, "accept") /\ HasSevered(h)
      /\ job[g].seen.id = job[h].seen.id)

(* A blocked pair has no open DM: "both users' DM memberships are removed     *)
(* (frozen, history retained)" (block_user).                                  *)
BlockedIsFrozen == Status = "blocked" => members = {}

-------------------------------------------------------------------------------
(* PostgreSQL grants a lock in the order of the requests for it, so a waiting *)
(* statement gets it if it is free again and again.                           *)
Fairness == \A h \in Handler : SF_vars(Proceed(h))
FairSpec == Spec /\ Fairness

(* Every request is answered. *)
RequestsFinish == \A h \in Handler : job[h] # Idle ~> job[h] = Idle
===============================================================================
