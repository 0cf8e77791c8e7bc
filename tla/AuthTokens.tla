------------------------------ MODULE AuthTokens ------------------------------
(* api/routes/auth.py: pairs of an access and a refresh token, and the rows   *)
(* of refresh_tokens. login, refresh and logout are transactions at READ      *)
(* COMMITTED: refresh and logout read the row, and write it later.            *)
EXTENDS Naturals, Sequences

CONSTANTS
  Account,  \* users that can log in
  Caller,   \* whoever makes calls, one at a time
  None      \* no account

ASSUME NoneIsNobody == None \notin Account

VARIABLES
  tokens,   \* tokens[k]: the row of the k-th pair; its session is the pair of
            \* the login that it descends from (a history, no column)
  expired,  \* the pairs whose access token has expired
  call,     \* call[c]: c's call, until c takes the answer; "gone": c hung up
  raced,    \* history: a row was revoked by two calls that had both read it live
  ended     \* history: the sessions that a logout has ended

tokenVars == <<tokens, expired, call, raced, ended>>

Pair    == DOMAIN tokens
Live    == {k \in Pair : ~tokens[k].revoked}
NewPair == Len(tokens) + 1

Token  == [owner : Account, session : Nat, revoked : BOOLEAN]
NoCall == [op |-> "none"]
ACall  == [op : {"login", "me", "refresh", "logout"}, account : Account \cup {None},
           token : Nat, at : {"sent", "read", "done"}, gives : Nat, gone : BOOLEAN]

TokensTypeOK ==
  /\ tokens \in Seq(Token)
  /\ expired \subseteq Nat
  /\ call \in [Caller -> ACall \cup {NoCall}]
  /\ raced \in BOOLEAN
  /\ ended \subseteq Nat

TokensInit ==
  /\ tokens = <<>> /\ expired = {}
  /\ call = [c \in Caller |-> NoCall]
  /\ raced = FALSE /\ ended = {}

-------------------------------------------------------------------------------
Calls(c, op, at) == call[c] # NoCall /\ call[c].op = op /\ call[c].at = at
Answered(c)      == call[c] # NoCall /\ call[c].at = "done"
Sent(op, a, k)   == [op |-> op, account |-> a, token |-> k, at |-> "sent", gives |-> 0,
                     gone |-> FALSE]

(* The answer is a pair, or 0 for 204 and for 401.                            *)
Answers(c, k) ==
  call' = [call EXCEPT ![c] = IF @.gone THEN NoCall ELSE [@ EXCEPT !.at = "done", !.gives = k]]

(* A call is made; its answer is taken, or its server fails; callers hang up, *)
(* and are served all the same if that changes anything.                      *)
Request(c, op, a, k) ==
  /\ call[c] = NoCall \/ Answered(c)
  /\ call' = [call EXCEPT ![c] = Sent(op, a, k)]
  /\ UNCHANGED <<tokens, expired, raced, ended>>

Forget(c) ==
  /\ call[c] # NoCall
  /\ call' = [call EXCEPT ![c] = NoCall]
  /\ UNCHANGED <<tokens, expired, raced, ended>>

HangUp(S) ==
  /\ call' = [c \in Caller |->
       IF c \notin S \/ call[c] = NoCall THEN call[c]
       ELSE IF call[c].op = "me" \/ Answered(c) THEN NoCall
       ELSE [call[c] EXCEPT !.gone = TRUE]]
  /\ UNCHANGED <<tokens, expired, raced, ended>>

(* _issue_tokens(): one more row. *)
Issue(rows, a, s) == Append(rows, [owner |-> a, session |-> s, revoked |-> FALSE])
Revoke(k)         == [tokens EXCEPT ![k].revoked = TRUE]

(* login(), with the right password. *)
Login(c) ==
  /\ Calls(c, "login", "sent")
  /\ tokens' = Issue(tokens, call[c].account, NewPair)
  /\ Answers(c, NewPair)
  /\ UNCHANGED <<expired, raced, ended>>

(* get_current_user() and me(). *)
Me(c) ==
  /\ Calls(c, "me", "sent")
  /\ Answers(c, IF call[c].token \in Pair \ expired THEN call[c].token ELSE 0)
  /\ UNCHANGED <<tokens, expired, raced, ended>>

(* refresh() and logout(), up to their decision.                              *)
ReadRow(c) ==
  /\ Calls(c, "refresh", "sent") \/ Calls(c, "logout", "sent")
  /\ IF call[c].token \in Live
     THEN call' = [call EXCEPT ![c].at = "read"]
     ELSE Answers(c, 0)
  /\ UNCHANGED <<tokens, expired, raced, ended>>

(* Mutant: the presented token is not revoked.                                *)
RefreshKeepsOld(c) ==
  /\ Calls(c, "refresh", "read")
  /\ LET k == call[c].token IN
       /\ tokens' = Issue(tokens, tokens[k].owner, tokens[k].session)
       /\ raced' = (raced \/ k \notin Live)
  /\ Answers(c, NewPair)
  /\ UNCHANGED <<expired, ended>>

(* Mutant: the successor has no owner.                                        *)
RefreshAnonymous(c) ==
  /\ Calls(c, "refresh", "read")
  /\ LET k == call[c].token IN
       /\ tokens' = Issue(Revoke(k), None, tokens[k].session)
       /\ raced' = (raced \/ k \notin Live)
  /\ Answers(c, NewPair)
  /\ UNCHANGED <<expired, ended>>

(* refresh(): the old row revoked and the new one inserted, in one COMMIT.    *)
RefreshCommits(c) ==
  /\ Calls(c, "refresh", "read")
  /\ LET k == call[c].token IN
       /\ tokens' = Issue(Revoke(k), tokens[k].owner, tokens[k].session)
       /\ raced' = (raced \/ k \notin Live)
  /\ Answers(c, NewPair)
  /\ UNCHANGED <<expired, ended>>

(* Mutant: the revocation is not committed.                                   *)
LogoutForgets(c) ==
  /\ Calls(c, "logout", "read")
  /\ LET k == call[c].token IN
       /\ raced' = (raced \/ k \notin Live)
       /\ ended' = ended \cup {tokens[k].session}
  /\ Answers(c, 0)
  /\ UNCHANGED <<tokens, expired>>

(* logout(): the row revoked.                                                 *)
LogoutCommits(c) ==
  /\ Calls(c, "logout", "read")
  /\ LET k == call[c].token IN
       /\ tokens' = Revoke(k)
       /\ raced' = (raced \/ k \notin Live)
       /\ ended' = ended \cup {tokens[k].session}
  /\ Answers(c, 0)
  /\ UNCHANGED expired

(* Time passes: access_token_expire_minutes. *)
Expire(k) ==
  /\ k \in Pair \ expired
  /\ expired' = expired \cup {k}
  /\ UNCHANGED <<tokens, call, raced, ended>>

Serve(c) == Login(c) \/ Me(c) \/ ReadRow(c) \/ RefreshCommits(c) \/ LogoutCommits(c)

(* The server with any callers, who present any token they can have been given. *)
TokensNext ==
  \/ \E c \in Caller :
       \/ Serve(c) \/ Forget(c)
       \/ \E a \in Account : Request(c, "login", a, 0)
       \/ \E k \in Pair \cup {0}, op \in {"me", "refresh", "logout"} : Request(c, op, None, k)
  \/ \E S \in SUBSET Caller : HangUp(S)
  \/ \E k \in Pair : Expire(k)

TokensSpec == TokensInit /\ [][TokensNext]_tokenVars

-------------------------------------------------------------------------------
(* Rotation hands a session on and never forks it: of the pairs that descend  *)
(* from one login at most one can be refreshed, unless two calls had read the *)
(* same live row.                                                             *)
OneLivePerSession ==
  raced \/ \A i, j \in Live : tokens[i].session = tokens[j].session => i = j

(* "logout revokes the refresh token so it can no longer mint new access      *)
(* tokens" (auth.py): nor can what it was exchanged for, with the same        *)
(* reservation.                                                               *)
LogoutEndsSession == raced \/ \A k \in Live : tokens[k].session \notin ended
===============================================================================
