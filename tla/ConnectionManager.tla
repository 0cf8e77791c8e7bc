--------------------------- MODULE ConnectionManager ---------------------------
(* app/ws/manager.py: the registry of the sockets that one process holds in   *)
(* the room, and the loop that sends one payload to each of them. The loop    *)
(* awaits every send, so other handlers change the registry while it runs.    *)
EXTENDS RelayTypes

VARIABLES
  reg,     \* reg[p]: the keys of p's _rooms[room_id] ({}: the key is absent)
  bcast,   \* bcast[l]: the broadcast() that listener l awaits, or None
  alive,   \* alive[c]: the connection of c has not been lost or closed
  got,     \* got[c]: the chat messages sent to c while alive, by position
  typed    \* typed[c]: the users whose typing event was sent to c

sentVars    == <<got, typed>>
managerVars == <<reg, bcast, alive, sentVars>>

(* One suspended broadcast: the payload, the registry when iteration began,   *)
(* the entries already yielded, and the sockets whose send failed.            *)
Iteration == [msg : Payload, snap : SUBSET Conn,
              seen : SUBSET Conn, dead : SUBSET Conn]

ManagerTypeOK ==
  /\ reg \in [Proc -> SUBSET Conn]
  /\ bcast \in [Conn -> Iteration \cup {None}]
  /\ alive \in [Conn -> BOOLEAN]
  /\ got \in [Conn -> Seq(Nat)]
  /\ typed \in [Conn -> SUBSET User]

ManagerInit ==
  /\ reg = [p \in Proc |-> {}]
  /\ bcast = [l \in Conn |-> None]
  /\ alive = [c \in Conn |-> TRUE]
  /\ got = [c \in Conn |-> <<>>]
  /\ typed = [c \in Conn |-> {}]

(* connect(): is_first is read before the socket is added. *)
IsFirst(c)  == reg[ProcOf[c]] = {}
Connect(c)  == reg' = [reg EXCEPT ![ProcOf[c]] = @ \cup {c}]

(* Mutants: is_last counts the sockets before the removal, whichever they     *)
(* are; and it misses a socket that broadcast() had already removed as dead.  *)
IsLastByCount(c)  == Cardinality(reg[ProcOf[c]]) <= 1
IsLastIfListed(c) == reg[ProcOf[c]] = {c}

(* disconnect(): the room's key goes with its last socket. *)
IsLast(c)     == reg[ProcOf[c]] \subseteq {c}
Disconnect(c) == reg' = [reg EXCEPT ![ProcOf[c]] = @ \ {c}]

-------------------------------------------------------------------------------
(* broadcast(): "for connection, owner_id in _rooms.get(room_id, {}).items()" *)

FreshIteration(l, m) == [msg |-> m, snap |-> reg[ProcOf[l]], seen |-> {}, dead |-> {}]

(* Mutant: the exclusion is not passed on.                                    *)
NoneExcluded(it, c) == FALSE

(* exclude_user_id, which _on_redis_message sets for typing payloads only.    *)
Excluded(it, c) == it.msg.type = "typing" /\ UserOf[c] = it.msg.user

Unseen(l, it)  == reg[ProcOf[l]] \ it.seen
Targets(l, it) == {c \in Unseen(l, it) : ~Excluded(it, c)}

(* Mutant: the loop ends one entry early.                                     *)
ExhaustedEarly(l, it) == Cardinality(it.seen) + 1 >= Cardinality(it.snap) \/ Targets(l, it) = {}

(* A dict iterator raises RuntimeError when the dict's size differs from the  *)
(* size at the start, and when it has yielded that many entries and finds     *)
(* one more (a removal and an insertion happened during one await).           *)
Resized(l, it)   == Cardinality(reg[ProcOf[l]]) # Cardinality(it.snap)
Exhausted(l, it) == Cardinality(it.seen) = Cardinality(it.snap) \/ Targets(l, it) = {}
Overrun(l, it)   == Cardinality(it.seen \cup Unseen(l, it)) > Cardinality(it.snap)
IterationFails(l, it) == Resized(l, it) \/ (Exhausted(l, it) /\ Overrun(l, it))

(* send_text() returns: what it sent arrives if the connection is there.      *)
Sent(c, m) ==
  /\ got' = IF alive[c] /\ m.type = "message"
            THEN [got EXCEPT ![c] = Append(@, m.at)] ELSE got
  /\ typed' = IF alive[c] /\ m.type = "typing"
              THEN [typed EXCEPT ![c] = @ \cup {m.user}] ELSE typed

(* send_text() to the next entry, skipping excluded ones. It can raise only   *)
(* when the connection is gone, and may also return then (the frame sits in a *)
(* buffer and is lost).                                                       *)
SendNext(l, it) ==
  /\ ~Resized(l, it) /\ ~Exhausted(l, it)
  /\ \E c \in Targets(l, it), skipped \in SUBSET (Unseen(l, it) \ Targets(l, it)) :
       LET seen == it.seen \cup {c} \cup skipped
       IN  /\ Cardinality(seen) <= Cardinality(it.snap)
           /\ \/ /\ bcast' = [bcast EXCEPT ![l] = [it EXCEPT !.seen = seen]]
                 /\ Sent(c, it.msg)
              \/ /\ ~alive[c]
                 /\ bcast' = [bcast EXCEPT ![l] = [it EXCEPT !.seen = seen,
                                                             !.dead = @ \cup {c}]]
                 /\ UNCHANGED sentVars
  /\ UNCHANGED <<reg, alive>>

(* The loop ends: the dead sockets are deregistered and what disconnect()     *)
(* returns for them is ignored.                                               *)
FinishIteration(l, it) ==
  /\ ~IterationFails(l, it) /\ Exhausted(l, it)
  /\ reg' = [reg EXCEPT ![ProcOf[l]] = @ \ it.dead]
  /\ bcast' = [bcast EXCEPT ![l] = None]
  /\ UNCHANGED <<alive, sentVars>>

(* RuntimeError leaves broadcast(); _listen logs it and skips the payload.    *)
AbortIteration(l, it) ==
  /\ IterationFails(l, it)
  /\ bcast' = [bcast EXCEPT ![l] = None]
  /\ UNCHANGED <<reg, alive, sentVars>>

Advance(l, it) == SendNext(l, it) \/ FinishIteration(l, it) \/ AbortIteration(l, it)
===============================================================================
