---------------------------- MODULE BestEffortRoom ----------------------------
(* What the room promises (README, "Best-effort delivery"): a message is      *)
(* stored before it is published, the room has one order of publications, and *)
(* every socket sees a subsequence of it. Nothing says that a socket sees all *)
(* of it.                                                                     *)
EXTENDS Naturals, Sequences

CONSTANTS Socket, Id

VARIABLES
  stored,  \* the ids of the committed messages
  log,     \* the ids published, in the order of the room
  got      \* got[c]: the positions of the log that socket c was sent

vars == <<stored, log, got>>

Init ==
  /\ stored = {}
  /\ log = <<>>
  /\ got = [c \in Socket |-> <<>>]

Persist(id) ==
  /\ id \notin stored
  /\ stored' = stored \cup {id}
  /\ UNCHANGED <<log, got>>

Publish(id) ==
  /\ id \in stored
  /\ log' = Append(log, id)
  /\ UNCHANGED <<stored, got>>

(* The next thing a socket is sent is later than all it was sent before.      *)
Deliver(c, n) ==
  /\ \A i \in 1..Len(got[c]) : got[c][i] < n
  /\ got' = [got EXCEPT ![c] = Append(@, n)]
  /\ UNCHANGED <<stored, log>>

Next ==
  \/ \E id \in Id : Persist(id)
  \/ \E id \in stored : Publish(id)
  \/ \E c \in Socket : \E n \in 1..Len(log) : Deliver(c, n)

Spec == Init /\ [][Next]_vars
===============================================================================
