----------------------------- MODULE SessionSafety -----------------------------
(* What a session must satisfy, in the app and between app and server.        *)
EXTENDS Session

(* Whoever is signed in holds one pair, in memory and in the key store, of    *)
(* the account that is shown, whose refresh token the server still accepts:   *)
(* across restarts, lost answers and refreshes that are served twice, unless  *)
(* a write or a logout was cut off or overlapped with another one.            *)
SignedInIsUsable ==
  screen = "in" /\ mishaps = {} /\ (\A t \in Caller : ~LoggingOut(t)) =>
    /\ mem = disk /\ mem.access = mem.refresh
    /\ mem.refresh \in Live
    /\ tokens[mem.refresh].owner = user

(* A restart never comes back to a session that a logout has begun to remove  *)
(* from the device, even if the server was not told and the logout was cut    *)
(* short; unless a later login left the keys of two pairs.                    *)
SignedOutStays ==
  [][screen = "splash" /\ screen' = "in" /\ "pair" \notin mishaps =>
       tokens[mem.access].session \notin left]_vars
===============================================================================
