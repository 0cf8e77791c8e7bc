------------------------------ MODULE Friendship ------------------------------
(* api/routes/friends.py: concurrent requests of two users about each other,  *)
(* over the pair's row of user_relationships, its DM room and the room's      *)
(* memberships. No request touches another pair's rows, except to read users. *)
(*                                                                            *)
(* A request is a transaction at READ COMMITTED, the default of db/session.py.*)
(* It reads the row, decides, and writes: one action for the read with its    *)
(* early returns (which change nothing, and are no action), one for the DELETE*)
(* of the memberships where there is one, and one for the flush and COMMIT. A *)
(* statement waits for a row that another open transaction has written or     *)
(* locked. When it wakes up, UPDATE and DELETE by id act on the row as it is. *)
EXTENDS Naturals, FiniteSets

CONSTANTS
  User,     \* the pair
  Handler,  \* requests in progress at a time; a handler serves one after another
  None,     \* no row
  MaxId     \* bound: ids of the pair's rows after which nobody sends a request


VARIABLES
  rel,      \* the pair's row, or None
  lastId,   \* the last id drawn for it
  room,     \* the DM room's row exists
  members,  \* the DM room's memberships
  job,      \* job[h]: the request that h is serving
  raced     \* history: a request changed something after its row had changed

dbVars == <<rel, lastId, room, members>>
vars   == <<dbVars, job, raced>>

Row == [id : Nat, status : {"pending", "accepted", "blocked"}, actor : User]

ASSUME PairAssumption == User # {} /\ None \notin User \cup Row

(* "seen" is the row as the request read it. A request that is at "commit"    *)
(* after severing has deleted the memberships and not committed yet.          *)
Idle == [op |-> "idle"]
Request == [op : {"send", "accept", "decline", "remove", "block", "unblock"}, by : User,
            at : {"sever", "commit"}, seen : Row \cup {None}, severed : BOOLEAN]

TypeOK ==
  /\ rel \in Row \cup {None}
  /\ lastId \in Nat
  /\ room \in BOOLEAN
  /\ members \in SUBSET User
  /\ job \in [Handler -> Request \cup {Idle}]
  /\ raced \in BOOLEAN

Init ==
  /\ rel = None /\ lastId = 0 /\ room = FALSE /\ members = {}
  /\ job = [h \in Handler |-> Idle]
  /\ raced = FALSE

-------------------------------------------------------------------------------
(* Locks. An accept holds the row from its SELECT ... FOR UPDATE on, and one  *)
(* that has severed holds the memberships; all other writes are followed by   *)
(* their COMMIT at once.                                                      *)
Doing(h, op) == job[h].op = op

(* Mutant: the accept reads the row without FOR UPDATE.                       *)
NeverLocked(h, id) == FALSE

RowLocked(h, id) ==
  \E g \in Handler \ {h} : Doing(g, "accept") /\ job[g].seen.id = id

HasSevered(h)    == job[h] # Idle /\ job[h].severed
MembersLocked(h) == \E g \in Handler \ {h} : HasSevered(g)

(* The row is still the one that was read. *)
SameRow(h) == rel # None /\ rel.id = job[h].seen.id

Begin(h, u, op, at) ==
  /\ job[h] = Idle
  /\ job' = [job EXCEPT ![h] = [op |-> op, by |-> u, at |-> at, seen |-> rel, severed |-> FALSE]]
  /\ UNCHANGED <<dbVars, raced>>

Finish(h) == job' = [job EXCEPT ![h] = Idle]

(* What a commit does to the memberships, and whether it was too late.        *)
CommitMembers(h) == members' = IF job[h].severed THEN {} ELSE members
Notice(h) ==
  raced' = (raced \/ (job[h].seen # rel /\ (rel' # rel \/ members' # members)))

-------------------------------------------------------------------------------
(* send_friend_request(), for a username that is the other's.                 *)
Send(h, u) ==
  /\ rel = None /\ lastId < MaxId
  /\ Begin(h, u, "send", "commit")

(* Mutant: the request does not say whose it is.                              *)
SendAnonymous(h) ==
  /\ Doing(h, "send") /\ rel = None
  /\ rel' = [id |-> lastId + 1, status |-> "pending", actor |-> None]
  /\ lastId' = lastId + 1
  /\ UNCHANGED <<room, members>>
  /\ Notice(h) /\ Finish(h)

(* The pair's unique constraint refuses a second row.                         *)
SendCommits(h) ==
  /\ Doing(h, "send")
  /\ IF rel = None
     THEN /\ rel' = [id |-> lastId + 1, status |-> "pending", actor |-> job[h].by]
          /\ lastId' = lastId + 1
     ELSE UNCHANGED <<rel, lastId>>
  /\ UNCHANGED <<room, members>>
  /\ Notice(h) /\ Finish(h)

IncomingRequest(u) == rel # None /\ rel.status = "pending" /\ rel.actor # u

(* accept_friend_request(): the read waits for another accept of the row.     *)
Accept(h, u) ==
  /\ IncomingRequest(u) /\ ~RowLocked(h, rel.id)
  /\ Begin(h, u, "accept", "commit")

(* Mutant: the room is created by who opens it first.                         *)
AcceptRoomless(h) ==
  /\ Doing(h, "accept") /\ members = {}
  /\ rel' = [rel EXCEPT !.status = "accepted"]
  /\ members' = User
  /\ UNCHANGED <<room, lastId>>
  /\ Notice(h) /\ Finish(h)

(* The room is found or created; the memberships are inserted, which fails on *)
(* rows that are there (and waits for one who may be deleting them).          *)
AcceptCommits(h) ==
  /\ Doing(h, "accept")
  /\ members # {} => ~MembersLocked(h)
  /\ IF SameRow(h) /\ members = {}
     THEN /\ rel' = [rel EXCEPT !.status = "accepted"]
          /\ room' = TRUE /\ members' = User
     ELSE UNCHANGED <<rel, room, members>>
  /\ UNCHANGED lastId
  /\ Notice(h) /\ Finish(h)

(* DELETE of the row that was read, by its id; no row is no error.            *)
DeleteRow(h) ==
  /\ ~RowLocked(h, job[h].seen.id)
  /\ rel' = IF SameRow(h) THEN None ELSE rel
  /\ CommitMembers(h)
  /\ UNCHANGED <<lastId, room>>
  /\ Notice(h) /\ Finish(h)

(* decline_friend_request() *)
Decline(h, u)     == IncomingRequest(u) /\ Begin(h, u, "decline", "commit")
DeclineCommits(h) == Doing(h, "decline") /\ DeleteRow(h)

(* _sever_dm_memberships(): the room exists, since the row is accepted.       *)
Sever(h) ==
  /\ job[h] # Idle /\ job[h].at = "sever"
  /\ ~MembersLocked(h)
  /\ job' = [job EXCEPT ![h].at = "commit", ![h].severed = members # {}]
  /\ UNCHANGED <<dbVars, raced>>

(* Mutant: the memberships are left alone.                                    *)
RemoveOnlyRow(h, u) ==
  rel # None /\ rel.status = "accepted" /\ Begin(h, u, "remove", "commit")

(* remove_friend() *)
Remove(h, u) == rel # None /\ rel.status = "accepted" /\ Begin(h, u, "remove", "sever")
RemoveCommits(h) == Doing(h, "remove") /\ job[h].at = "commit" /\ DeleteRow(h)

(* Mutant: a block always severs, whatever the row says.                      *)
BlockSevers(h, u) ==
  rel # None /\ rel.status # "blocked" /\ Begin(h, u, "block", "sever")

(* block_user() *)
Block(h, u) ==
  /\ rel # None /\ rel.status # "blocked"
  /\ Begin(h, u, "block", IF rel.status = "accepted" THEN "sever" ELSE "commit")

(* Mutant: the actor stays the one of the request.                            *)
BlockKeepsActor(h) ==
  /\ Doing(h, "block") /\ job[h].at = "commit" /\ SameRow(h)
  /\ ~RowLocked(h, job[h].seen.id)
  /\ rel' = [rel EXCEPT !.status = "blocked"]
  /\ CommitMembers(h)
  /\ UNCHANGED <<lastId, room>>
  /\ Notice(h) /\ Finish(h)

(* UPDATE of the row that was read, by its id, of the columns that change:    *)
(* actor_id is not written when it already was the caller's. No such row is a *)
(* StaleDataError, which rolls the request back.                              *)
BlockCommits(h) ==
  /\ Doing(h, "block") /\ job[h].at = "commit"
  /\ ~RowLocked(h, job[h].seen.id)
  /\ IF SameRow(h)
     THEN /\ rel' = [rel EXCEPT !.status = "blocked",
                       !.actor = IF job[h].seen.actor = job[h].by THEN @ ELSE job[h].by]
          /\ CommitMembers(h)
     ELSE UNCHANGED <<rel, members>>
  /\ UNCHANGED <<lastId, room>>
  /\ Notice(h) /\ Finish(h)

(* unblock_user() *)
Unblock(h, u) ==
  /\ rel # None /\ rel.status = "blocked" /\ rel.actor = u
  /\ Begin(h, u, "unblock", "commit")
UnblockCommits(h) == Doing(h, "unblock") /\ DeleteRow(h)

(* The database or the process fails: the transaction is rolled back.         *)
Abort(h) ==
  /\ job[h] # Idle
  /\ Finish(h)
  /\ UNCHANGED <<dbVars, raced>>

Start(h, u) ==
  Send(h, u) \/ Accept(h, u) \/ Decline(h, u) \/ Remove(h, u) \/ Block(h, u) \/ Unblock(h, u)

Proceed(h) ==
  \/ Sever(h)
  \/ SendCommits(h) \/ AcceptCommits(h) \/ DeclineCommits(h)
  \/ RemoveCommits(h) \/ BlockCommits(h) \/ UnblockCommits(h)

Next == \E h \in Handler : Proceed(h) \/ Abort(h) \/ \E u \in User : Start(h, u)

Spec == Init /\ [][Next]_vars
===============================================================================
