----------------------------- MODULE SessionRaces -----------------------------
(* Where a session of the app can be forked or outlive its logout. Session is *)
(* extended with a history of the calls that the app hung up on.              *)
EXTENDS SessionSafety

VARIABLE
  hungUp   \* history: the sessions of which a refresh or a logout that was
           \* not answered yet was hung up on

Unheard(c) ==
  /\ call'[c] # NoCall /\ call'[c].gone
  /\ call'[c].op \in {"refresh", "logout"} /\ call'[c].token \in Pair

TracedNext ==
  /\ Next
  /\ hungUp' = hungUp \cup {tokens[call'[c].token].session : c \in {d \in Caller : Unheard(d)}}

TracedInit == Init /\ hungUp = {}

TracedSpec == TracedInit /\ [][TracedNext]_<<vars, hungUp>>

(* auth.py locks no row between the read of a token and its revocation, so    *)
(* two calls with one token may both succeed. Only a refresh or a logout that *)
(* the app hung up on, and that is served late, is ever such a call: in any   *)
(* other session one pair at most can be refreshed, and none once a logout    *)
(* was served, whatever handlers overlap, fail or are killed.                 *)
OnlyUnheardFork ==
  /\ \A i, j \in Live : tokens[i].session = tokens[j].session => i = j \/ tokens[i].session \in hungUp
  /\ \A k \in Live : tokens[k].session \in ended => tokens[k].session \in hungUp
===============================================================================
