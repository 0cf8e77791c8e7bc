----------------------------- MODULE SessionProofs -----------------------------
(* Proofs about refresh tokens, for any callers, who present any tokens in    *)
(* any order: a session is never forked, and ends with its logout, as long as *)
(* no two calls have read the same live row. Then about the app over that     *)
(* server, for any accounts, handlers and bounds: whatever the handlers of    *)
(* the bloc do concurrently, and whenever calls are lost, the key store fails *)
(* or the app is killed, the app is one of the clients that AuthTokens allows *)
(* for.                                                                       *)
EXTENDS SessionSafety, TLAPS


(* A call that is to write has found its row, a login has its account, and    *)
(* the pairs that are given out exist.                                        *)
CallsFit ==
  \A c \in Caller : call[c] # NoCall =>
    /\ call[c].op = "login" => call[c].account \in Account
    /\ call[c].at = "read" => call[c].token \in Pair
    /\ call[c].gives \in Pair \cup {0}

(* The sessions in use are those of logins.                                   *)
SessionsDrawn ==
  /\ \A k \in Pair : tokens[k].session \in 1..Len(tokens)
  /\ ended \subseteq 1..Len(tokens)

TokensInv ==
  /\ TokensTypeOK
  /\ CallsFit
  /\ SessionsDrawn
  /\ OneLivePerSession
  /\ LogoutEndsSession

-------------------------------------------------------------------------------
(* A new row comes last and changes no other.                                 *)
LEMMA Issued ==
  ASSUME NEW rows \in Seq(Token), NEW a \in Account, NEW s \in Nat
  PROVE  /\ Issue(rows, a, s) \in Seq(Token)
         /\ Len(Issue(rows, a, s)) = Len(rows) + 1
         /\ \A k \in 1..Len(rows) : Issue(rows, a, s)[k] = rows[k]
         /\ Issue(rows, a, s)[Len(rows) + 1] = [owner |-> a, session |-> s, revoked |-> FALSE]
<1>1. [owner |-> a, session |-> s, revoked |-> FALSE] \in Token
  BY DEF Token
<1> QED BY <1>1 DEF Issue

(* A revocation changes one column of one row.                                *)
LEMMA Revoked ==
  ASSUME tokens \in Seq(Token), NEW k \in Pair
  PROVE  /\ Revoke(k) \in Seq(Token)
         /\ Len(Revoke(k)) = Len(tokens)
         /\ Revoke(k)[k].revoked
         /\ \A i \in Pair : /\ Revoke(k)[i].session = tokens[i].session
                            /\ Revoke(k)[i].owner = tokens[i].owner
                            /\ i # k => Revoke(k)[i] = tokens[i]
<1>1. Pair = 1..Len(tokens)
  BY DEF Pair
<1>2. tokens[k] \in Token
  BY <1>1
<1>3. [tokens[k] EXCEPT !.revoked = TRUE] \in Token
  BY <1>2 DEF Token
<1> QED BY <1>1, <1>2, <1>3 DEF Revoke, Token

LEMMA PairIsInterval ==
  ASSUME TokensTypeOK
  PROVE  /\ Pair = 1..Len(tokens) /\ Len(tokens) \in Nat
         /\ \A k \in Pair : tokens[k] \in Token
BY DEF TokensTypeOK, Pair

-------------------------------------------------------------------------------
LEMMA TokensInitial == TokensInit => TokensInv
<1> SUFFICES ASSUME TokensInit PROVE TokensInv
  OBVIOUS
<1>1. TokensTypeOK
  <2>1. tokens \in Seq(Token)
    BY DEF TokensInit
  <2>2. call \in [Caller -> ACall \cup {NoCall}]
    BY DEF TokensInit
  <2> QED BY <2>1, <2>2 DEF TokensInit, TokensTypeOK
<1>2. Pair = {} /\ Live = {}
  BY DEF TokensInit, Pair, Live
<1> QED BY <1>1, <1>2 DEF TokensInit, TokensInv, CallsFit, SessionsDrawn,
                          OneLivePerSession, LogoutEndsSession

(* The steps of calls that write nothing.                                     *)
LEMMA CallsOnly ==
  ASSUME TokensInv, UNCHANGED <<tokens, raced, ended>>,
         expired' \subseteq Nat, call' \in [Caller -> ACall \cup {NoCall}], CallsFit'
  PROVE  TokensInv'
BY DEF TokensInv, TokensTypeOK, SessionsDrawn, OneLivePerSession, LogoutEndsSession, Live, Pair

LEMMA AnswersKeeps ==
  ASSUME TokensInv, NEW c \in Caller, NEW k \in Nat, Answers(c, k), call[c] # NoCall,
         Pair \subseteq Pair', k \in Pair' \cup {0}
  PROVE  call' \in [Caller -> ACall \cup {NoCall}] /\ CallsFit'
<1>0. TokensTypeOK
  BY DEF TokensInv
<1> DEFINE new == IF call[c].gone THEN NoCall ELSE [call[c] EXCEPT !.at = "done", !.gives = k]
<1>1. call[c] \in ACall
  BY <1>0 DEF TokensTypeOK
<1>2. new \in ACall \cup {NoCall}
  BY <1>1 DEF ACall
<1>3. new # NoCall => new.at = "done" /\ new.op = call[c].op /\ new.account = call[c].account
               /\ new.gives = k
  BY <1>1 DEF ACall
<1>4. \A d \in Caller : call'[d] = IF d = c THEN new ELSE call[d]
  BY <1>0 DEF Answers, TokensTypeOK
<1>5. call' \in [Caller -> ACall \cup {NoCall}]
  BY <1>0, <1>2 DEF Answers, TokensTypeOK
<1> HIDE DEF new
<1> QED BY <1>3, <1>4, <1>5 DEF TokensInv, CallsFit

LEMMA RequestKeeps ==
  ASSUME TokensInv, NEW c \in Caller, NEW op \in {"login", "me", "refresh", "logout"},
         NEW a \in Account \cup {None}, NEW k \in Nat,
         op = "login" => a \in Account, Request(c, op, a, k)
  PROVE  TokensInv'
<1>0. TokensTypeOK /\ UNCHANGED <<tokens, expired, raced, ended>>
  BY DEF TokensInv, Request
<1>1. Sent(op, a, k) \in ACall /\ Sent(op, a, k).op = op /\ Sent(op, a, k).account = a
      /\ Sent(op, a, k).at = "sent" /\ Sent(op, a, k).gives = 0
  BY DEF Sent, ACall
<1>2. \A d \in Caller : call'[d] = IF d = c THEN Sent(op, a, k) ELSE call[d]
  BY <1>0 DEF Request, TokensTypeOK
<1>3. call' \in [Caller -> ACall \cup {NoCall}]
  BY <1>0, <1>1 DEF Request, TokensTypeOK
<1>4. CallsFit'
  BY <1>0, <1>1, <1>2 DEF TokensInv, CallsFit, Pair
<1> QED BY <1>0, <1>3, <1>4, CallsOnly DEF TokensTypeOK

LEMMA ForgetKeeps ==
  ASSUME TokensInv, NEW c \in Caller, Forget(c)
  PROVE  TokensInv'
<1>0. TokensTypeOK /\ UNCHANGED <<tokens, expired, raced, ended>>
  BY DEF TokensInv, Forget
<1>1. \A d \in Caller : call'[d] = IF d = c THEN NoCall ELSE call[d]
  BY <1>0 DEF Forget, TokensTypeOK
<1>2. call' \in [Caller -> ACall \cup {NoCall}]
  BY <1>0 DEF Forget, TokensTypeOK
<1>3. CallsFit'
  BY <1>0, <1>1 DEF TokensInv, CallsFit, Pair
<1> QED BY <1>0, <1>2, <1>3, CallsOnly DEF TokensTypeOK

LEMMA HangUpKeeps ==
  ASSUME TokensInv, NEW S \in SUBSET Caller, HangUp(S)
  PROVE  TokensInv'
<1>0. TokensTypeOK /\ UNCHANGED <<tokens, expired, raced, ended>>
  BY DEF TokensInv, HangUp
<1>1. ASSUME NEW d \in Caller
      PROVE  /\ call'[d] \in ACall \cup {NoCall}
             /\ call'[d] # NoCall => /\ call[d] # NoCall /\ call'[d].op = call[d].op
                                     /\ call'[d].account = call[d].account
                                     /\ call'[d].at = call[d].at /\ call'[d].token = call[d].token
                                     /\ call'[d].gives = call[d].gives
  <2>1. call[d] \in ACall \cup {NoCall}
    BY <1>0 DEF TokensTypeOK
  <2>2. call'[d] \in {call[d], NoCall, [call[d] EXCEPT !.gone = TRUE]}
        /\ (call[d] = NoCall => call'[d] = NoCall)
    BY DEF HangUp
  <2> QED BY <2>1, <2>2 DEF ACall
<1>2. call' \in [Caller -> ACall \cup {NoCall}]
  BY <1>1 DEF HangUp
<1>3. CallsFit'
  BY <1>0, <1>1 DEF TokensInv, CallsFit, Pair
<1> QED BY <1>0, <1>2, <1>3, CallsOnly DEF TokensTypeOK

LEMMA ExpireKeeps ==
  ASSUME TokensInv, NEW k \in Pair, Expire(k)
  PROVE  TokensInv'
<1>1. expired' \subseteq Nat /\ UNCHANGED <<tokens, call, raced, ended>>
  <2>1. TokensTypeOK /\ k \in Nat
    BY PairIsInterval DEF TokensInv
  <2> QED BY <2>1 DEF TokensTypeOK, Expire
<1>2. CallsFit'
  BY <1>1 DEF TokensInv, CallsFit, Pair
<1> QED BY <1>1, <1>2, CallsOnly DEF TokensInv, TokensTypeOK

LEMMA MeKeeps ==
  ASSUME TokensInv, NEW c \in Caller, Me(c)
  PROVE  TokensInv'
<1>0. TokensTypeOK /\ UNCHANGED <<tokens, expired, raced, ended>> /\ call[c] # NoCall
  BY DEF TokensInv, Me, Calls
<1>1. PICK k \in Pair \cup {0} : Answers(c, k)
  BY DEF Me
<1>2. k \in Nat /\ Pair' = Pair
  BY <1>0, PairIsInterval DEF Pair
<1> QED BY <1>0, <1>1, <1>2, AnswersKeeps, CallsOnly DEF TokensTypeOK

LEMMA ReadRowKeeps ==
  ASSUME TokensInv, NEW c \in Caller, ReadRow(c)
  PROVE  TokensInv'
<1>0. /\ TokensTypeOK /\ UNCHANGED <<tokens, expired, raced, ended>> /\ call[c] # NoCall
      /\ call[c].op \in {"refresh", "logout"}
  BY DEF TokensInv, ReadRow, Calls
<1>1. CASE call[c].token \notin Live
  <2>1. Answers(c, 0) /\ Pair' = Pair
    BY <1>0, <1>1 DEF ReadRow, Pair
  <2> QED BY <2>1, <1>0, AnswersKeeps, CallsOnly DEF TokensTypeOK
<1>2. CASE call[c].token \in Live
  <2> DEFINE new == [call[c] EXCEPT !.at = "read"]
  <2>1. call' = [call EXCEPT ![c] = new]
    BY <1>2 DEF ReadRow
  <2>2. new \in ACall /\ new.op = call[c].op /\ new.token \in Pair /\ new.gives = call[c].gives
    BY <1>0, <1>2 DEF TokensTypeOK, ACall, Live
  <2> HIDE DEF new
  <2>3. \A d \in Caller : call'[d] = IF d = c THEN new ELSE call[d]
    BY <1>0, <2>1 DEF TokensTypeOK
  <2>4. call' \in [Caller -> ACall \cup {NoCall}]
    BY <1>0, <2>1, <2>2 DEF TokensTypeOK
  <2>5. CallsFit'
    BY <1>0, <2>2, <2>3 DEF TokensInv, CallsFit, Pair
  <2> QED BY <1>0, <2>4, <2>5, CallsOnly DEF TokensTypeOK
<1> QED BY <1>1, <1>2

-------------------------------------------------------------------------------
(* A login starts a session that nobody has, and that has not ended.          *)
LEMMA LoginKeeps ==
  ASSUME TokensInv, NEW c \in Caller, Login(c)
  PROVE  TokensInv' /\ Pair \subseteq Pair'
<1>0. /\ TokensTypeOK /\ UNCHANGED <<expired, raced, ended>> /\ call[c] # NoCall
      /\ call[c].account \in Account /\ tokens \in Seq(Token)
      /\ Pair = 1..Len(tokens) /\ Len(tokens) \in Nat
  BY PairIsInterval DEF TokensInv, TokensTypeOK, CallsFit, Login, Calls
<1>1. /\ tokens' \in Seq(Token) /\ Len(tokens') = Len(tokens) + 1
      /\ \A k \in Pair : tokens'[k] = tokens[k]
      /\ tokens'[Len(tokens) + 1].session = Len(tokens) + 1
  <2>1. tokens' = Issue(tokens, call[c].account, Len(tokens) + 1) /\ Len(tokens) + 1 \in Nat
    BY <1>0 DEF Login, NewPair
  <2>2. /\ tokens' \in Seq(Token) /\ Len(tokens') = Len(tokens) + 1
        /\ \A k \in 1..Len(tokens) : tokens'[k] = tokens[k]
        /\ tokens'[Len(tokens) + 1] =
             [owner |-> call[c].account, session |-> Len(tokens) + 1, revoked |-> FALSE]
    BY <2>1, <1>0, Issued
  <2> QED BY <2>2, <1>0
<1>2. Pair' = 1..Len(tokens) + 1
  BY <1>0, <1>1 DEF Pair
<1>3. call' \in [Caller -> ACall \cup {NoCall}] /\ CallsFit'
  BY <1>0, <1>1, <1>2, AnswersKeeps DEF Login, NewPair
<1>4. TokensTypeOK'
  BY <1>0, <1>1, <1>3 DEF TokensTypeOK
<1>5. SessionsDrawn'
  BY <1>0, <1>1, <1>2 DEF TokensInv, SessionsDrawn
<1>6. Live' \subseteq Live \cup {Len(tokens) + 1}
  BY <1>0, <1>1, <1>2 DEF Live
<1>7. \A k \in Live : k \in Pair /\ tokens[k].session \in 1..Len(tokens)
  BY DEF TokensInv, SessionsDrawn, Live
<1>8. OneLivePerSession'
  BY <1>0, <1>1, <1>6, <1>7 DEF TokensInv, OneLivePerSession
<1>9. LogoutEndsSession'
  BY <1>0, <1>1, <1>6, <1>7 DEF TokensInv, SessionsDrawn, LogoutEndsSession
<1> QED BY <1>0, <1>2, <1>3, <1>4, <1>5, <1>8, <1>9 DEF TokensInv

(* A refresh in time takes the place of the session's only live pair.         *)
LEMMA RefreshKeeps ==
  ASSUME TokensInv, NEW c \in Caller, RefreshCommits(c)
  PROVE  TokensInv' /\ Pair \subseteq Pair'
<1> DEFINE k == call[c].token
<1>0. /\ TokensTypeOK /\ UNCHANGED <<expired, ended>> /\ call[c] # NoCall
      /\ k \in Pair /\ tokens \in Seq(Token) /\ tokens[k] \in Token
      /\ Pair = 1..Len(tokens) /\ Len(tokens) \in Nat
      /\ tokens' = Issue(Revoke(k), tokens[k].owner, tokens[k].session)
      /\ raced' = (raced \/ k \notin Live) /\ Answers(c, NewPair)
  BY PairIsInterval DEF TokensInv, TokensTypeOK, CallsFit, RefreshCommits, Calls
<1> HIDE DEF k
<1>1. tokens[k].owner \in Account /\ tokens[k].session \in Nat
  BY <1>0 DEF Token
<1>2. /\ tokens' \in Seq(Token) /\ Len(tokens') = Len(tokens) + 1
      /\ \A i \in Pair : tokens'[i] = Revoke(k)[i]
      /\ tokens'[Len(tokens) + 1] =
           [owner |-> tokens[k].owner, session |-> tokens[k].session, revoked |-> FALSE]
  <2>1. Revoke(k) \in Seq(Token) /\ Len(Revoke(k)) = Len(tokens)
    BY <1>0, Revoked
  <2>2. /\ tokens' = Issue(Revoke(k), tokens[k].owner, tokens[k].session)
        /\ Pair = 1..Len(tokens)
    BY <1>0
  <2> QED BY <2>1, <2>2, <1>1, Issued
<1>3. /\ tokens'[k].revoked /\ tokens'[Len(tokens) + 1].session = tokens[k].session
      /\ \A i \in Pair : /\ tokens'[i].session = tokens[i].session
                         /\ i # k => tokens'[i] = tokens[i]
  BY <1>0, <1>2, Revoked
<1>4. Pair' = 1..Len(tokens) + 1
  BY <1>0, <1>2 DEF Pair
<1>5. call' \in [Caller -> ACall \cup {NoCall}] /\ CallsFit'
  BY <1>0, <1>2, <1>4, AnswersKeeps DEF NewPair
<1>6. TokensTypeOK'
  BY <1>0, <1>2, <1>5 DEF TokensTypeOK
<1>7. SessionsDrawn'
  <2>1. /\ \A i \in Pair : tokens[i].session \in 1..Len(tokens)
        /\ k \in Pair /\ ended' \subseteq 1..Len(tokens)
        /\ Pair = 1..Len(tokens) /\ Len(tokens) \in Nat
    BY <1>0 DEF TokensInv, SessionsDrawn
  <2> QED BY <2>1, <1>2, <1>3, <1>4 DEF SessionsDrawn
<1>8. Live' \subseteq (Live \ {k}) \cup {Len(tokens) + 1}
  BY <1>0, <1>2, <1>3, <1>4 DEF Live
<1>9. \A i \in Live : i \in Pair
  BY DEF Live
<1>10. OneLivePerSession'
  <2> SUFFICES ASSUME ~raced', NEW i \in Live', NEW j \in Live',
                      tokens'[i].session = tokens'[j].session
               PROVE  i = j
    BY DEF OneLivePerSession
  <2>1. k \in Live /\ \A m, n \in Live : tokens[m].session = tokens[n].session => m = n
    BY <1>0 DEF TokensInv, OneLivePerSession
  <2>2. Pair = 1..Len(tokens) /\ Len(tokens) \in Nat
    BY <1>0
  <2> QED BY <2>1, <2>2, <1>3, <1>8, <1>9
<1>11. LogoutEndsSession'
  BY <1>0, <1>3, <1>8, <1>9 DEF TokensInv, LogoutEndsSession
<1> QED BY <1>0, <1>4, <1>5, <1>6, <1>7, <1>10, <1>11 DEF TokensInv

(* A logout in time revokes the session's only live pair.                     *)
LEMMA LogoutKeeps ==
  ASSUME TokensInv, NEW c \in Caller, LogoutCommits(c)
  PROVE  TokensInv' /\ Pair \subseteq Pair'
<1> DEFINE k == call[c].token
<1>0. /\ TokensTypeOK /\ UNCHANGED expired /\ call[c] # NoCall
      /\ k \in Pair /\ tokens \in Seq(Token)
      /\ Pair = 1..Len(tokens) /\ Len(tokens) \in Nat
      /\ tokens' = Revoke(k) /\ ended' = ended \cup {tokens[k].session}
      /\ raced' = (raced \/ k \notin Live) /\ Answers(c, 0)
  BY PairIsInterval DEF TokensInv, TokensTypeOK, CallsFit, LogoutCommits, Calls
<1> HIDE DEF k
<1>1. /\ tokens' \in Seq(Token) /\ Len(tokens') = Len(tokens)
      /\ tokens'[k].revoked
      /\ \A i \in Pair : /\ tokens'[i].session = tokens[i].session
                         /\ i # k => tokens'[i] = tokens[i]
  BY <1>0, Revoked
<1>2. Pair' = 1..Len(tokens)
  BY <1>0, <1>1 DEF Pair
<1>3. call' \in [Caller -> ACall \cup {NoCall}] /\ CallsFit'
  BY <1>0, <1>1, <1>2, AnswersKeeps
<1>4. tokens[k].session \in 1..Len(tokens)
  BY <1>0 DEF TokensInv, SessionsDrawn
<1>5. TokensTypeOK'
  <2>1. raced' \in BOOLEAN
    BY <1>0 DEF TokensTypeOK
  <2>2. ended' \subseteq Nat
    <3>1. ended \subseteq Nat /\ tokens[k].session \in Nat /\ ended' = ended \cup {tokens[k].session}
      BY <1>0, <1>4 DEF TokensTypeOK
    <3> QED BY <3>1
  <2> QED BY <2>1, <2>2, <1>0, <1>1, <1>3 DEF TokensTypeOK
<1>6. SessionsDrawn'
  BY <1>0, <1>1, <1>2, <1>4 DEF TokensInv, SessionsDrawn
<1>7. Live' \subseteq Live \ {k}
  BY <1>0, <1>1, <1>2 DEF Live
<1>8. \A i \in Live : i \in Pair
  BY DEF Live
<1>9. OneLivePerSession'
  <2> SUFFICES ASSUME ~raced', NEW i \in Live', NEW j \in Live',
                      tokens'[i].session = tokens'[j].session
               PROVE  i = j
    BY DEF OneLivePerSession
  <2>1. \A m, n \in Live : tokens[m].session = tokens[n].session => m = n
    BY <1>0 DEF TokensInv, OneLivePerSession
  <2> QED BY <2>1, <1>0, <1>1, <1>7, <1>8
<1>10. LogoutEndsSession'
  <2>1. raced' \/ \A i \in Live \ {k} : tokens[i].session # tokens[k].session
    BY <1>0 DEF TokensInv, OneLivePerSession
  <2> QED BY <2>1, <1>0, <1>1, <1>7, <1>8 DEF TokensInv, LogoutEndsSession
<1> QED BY <1>0, <1>2, <1>3, <1>5, <1>6, <1>9, <1>10 DEF TokensInv

LEMMA TokensGrow == TokensInv /\ [TokensNext]_tokenVars => Pair \subseteq Pair'
<1> SUFFICES ASSUME TokensInv, [TokensNext]_tokenVars, tokens' # tokens
             PROVE  Pair \subseteq Pair'
  BY DEF Pair
<1>1. PICK c \in Caller : Login(c) \/ RefreshCommits(c) \/ LogoutCommits(c)
  BY DEF TokensNext, tokenVars, Serve, Me, ReadRow, Request, Forget, HangUp, Expire
<1> QED BY <1>1, LoginKeeps, RefreshKeeps, LogoutKeeps

LEMMA TokensStep == TokensInv /\ [TokensNext]_tokenVars => TokensInv'
<1> SUFFICES ASSUME TokensInv, [TokensNext]_tokenVars PROVE TokensInv'
  OBVIOUS
<1>1. ASSUME NEW c \in Caller, Serve(c) PROVE TokensInv'
  BY <1>1, LoginKeeps, MeKeeps, ReadRowKeeps, RefreshKeeps, LogoutKeeps DEF Serve
<1>2. ASSUME NEW c \in Caller, NEW a \in Account, Request(c, "login", a, 0) PROVE TokensInv'
  BY <1>2, RequestKeeps
<1>3. ASSUME NEW c \in Caller, NEW k \in Pair \cup {0}, NEW op \in {"me", "refresh", "logout"},
             Request(c, op, None, k)
      PROVE  TokensInv'
  <2>1. k \in Nat
    BY PairIsInterval DEF TokensInv
  <2> QED BY <1>3, <2>1, RequestKeeps
<1>4. CASE UNCHANGED tokenVars
  BY <1>4 DEF tokenVars, TokensInv, TokensTypeOK, CallsFit, SessionsDrawn, OneLivePerSession,
              LogoutEndsSession, Live, Pair
<1> QED BY <1>1, <1>2, <1>3, <1>4, ForgetKeeps, HangUpKeeps, ExpireKeeps DEF TokensNext

(* Rotation and logout do what they promise, for any number of callers that   *)
(* present tokens of their own or of each other, hang up, or come too late:   *)
(* one live pair per session, and none after its logout, unless two calls had *)
(* read the same live row.                                                    *)
THEOREM RotationIsSafe == TokensSpec => [](TokensTypeOK /\ OneLivePerSession /\ LogoutEndsSession)
<1>1. TokensInv => TokensTypeOK /\ OneLivePerSession /\ LogoutEndsSession
  BY DEF TokensInv
<1> QED BY <1>1, TokensInitial, TokensStep, PTL DEF TokensSpec

-------------------------------------------------------------------------------

(* The app only holds keys that the server gave out.                          *)
FitKeys == [access : Pair \cup {0}, refresh : Pair \cup {0}]
FitTask == [op : {"check", "login", "logout"}, pair : Pair \cup {0},
            pc : {"load", "call", "write access", "write refresh", "clear access",
                  "clear refresh"}]

AppFits ==
  /\ disk \in FitKeys /\ mem \in FitKeys
  /\ screen \in {"closed", "splash", "login", "loading", "in"}
  /\ user \in Account \cup {None}
  /\ task \in [Caller -> FitTask \cup {Idle}]
  /\ faults \in 0..MaxFault
  /\ mishaps \subseteq {"pair", "logout"}
  /\ left \subseteq Nat

SessionInv == TokensInv /\ AppFits

-------------------------------------------------------------------------------
LEMMA SessionImpliesTypes == SessionInv => TypeOK
<1> SUFFICES ASSUME SessionInv PROVE TypeOK
  OBVIOUS
<1>1. TokensTypeOK /\ \A k \in Pair \cup {0} : k \in Nat
  BY PairIsInterval DEF SessionInv, TokensInv
<1>2. ASSUME NEW x \in FitKeys PROVE x \in Keys
  BY <1>1 DEF FitKeys, Keys
<1>3. ASSUME NEW x \in FitTask PROVE x \in Task
  BY <1>1 DEF FitTask, Task
<1>4. task \in [Caller -> Task \cup {Idle}]
  BY <1>3 DEF SessionInv, AppFits
<1> QED BY <1>1, <1>2, <1>4 DEF SessionInv, AppFits, TypeOK

LEMMA SessionInitial == Init => SessionInv /\ TokensInit
<1> SUFFICES ASSUME Init PROVE SessionInv /\ TokensInit
  OBVIOUS
<1>1. TokensInv
  BY TokensInitial DEF Init
<1>2. NoKey \in FitKeys
  BY DEF NoKey, FitKeys
<1>3. task \in [Caller -> FitTask \cup {Idle}]
  BY DEF Init
<1>4. 0 \in 0..MaxFault
  BY FaultsAssumption
<1> QED BY <1>1, <1>2, <1>3, <1>4 DEF Init, SessionInv, AppFits

(* A request of the app is one that a client of the server can make.          *)
LEMMA Requested ==
  ASSUME NEW t \in Caller, NEW k \in Pair \cup {0},
         NEW op \in {"me", "refresh", "logout"}, Request(t, op, None, k)
  PROVE  TokensNext
BY DEF TokensNext

LEMMA Forgotten == ASSUME NEW t \in Caller, Forget(t) PROVE TokensNext
BY DEF TokensNext

LEMMA HungUp == ASSUME NEW S \in SUBSET Caller, HangUp(S) PROVE TokensNext
BY DEF TokensNext

(* Every step of the app and the server is a step of the server, or leaves it *)
(* alone.                                                                     *)
LEMMA AppUsesServer == SessionInv /\ Next => [TokensNext]_tokenVars
<1> SUFFICES ASSUME SessionInv, Next PROVE [TokensNext]_tokenVars
  OBVIOUS
<1>1. /\ mem.access \in Pair \cup {0} /\ mem.refresh \in Pair \cup {0}
      /\ disk.access \in Pair \cup {0}
  BY DEF SessionInv, AppFits, FitKeys
<1>2. ASSUME NEW t \in Caller, Launch(t) PROVE [TokensNext]_tokenVars
  BY <1>2 DEF Launch
<1>3. ASSUME NEW t \in Caller, TapLogout(t) PROVE [TokensNext]_tokenVars
  BY <1>1, <1>3, Requested DEF TapLogout
<1>4. ASSUME NEW t \in Caller, NEW a \in Account, TapLogin(t, a) PROVE [TokensNext]_tokenVars
  BY <1>4 DEF TapLogin, TokensNext
<1>5. ASSUME NEW t \in Caller, Load(t) PROVE [TokensNext]_tokenVars
  BY <1>1, <1>5, Requested DEF Load
<1>6. ASSUME NEW t \in Caller, Answer(t) PROVE [TokensNext]_tokenVars
  <2>1. CASE SignedIn(t) \/ GetsPair(t) \/ (Rejected(t) /\ GivesUp(t) /\ Forget(t))
    BY <2>1, Forgotten DEF SignedIn, GetsPair
  <2>2. CASE RefreshesSession(t)
    BY <1>1, <2>2, Requested DEF RefreshesSession
  <2> QED BY <1>6, <2>1, <2>2 DEF Answer
<1>7. ASSUME NEW t \in Caller, WriteAccess(t) \/ ClearAccess(t) \/ ClearRefresh(t) \/ StoreFails(t)
      PROVE  [TokensNext]_tokenVars
  BY <1>7 DEF WriteAccess, ClearAccess, ClearRefresh, StoreFails
<1>8. ASSUME NEW t \in Caller, WriteRefresh(t) PROVE [TokensNext]_tokenVars
  BY <1>1, <1>8, Requested DEF WriteRefresh
<1>9. ASSUME NEW t \in Caller, Lose(t) PROVE [TokensNext]_tokenVars
  <2>1. {t} \in SUBSET Caller
    OBVIOUS
  <2> QED BY <1>9, <2>1, Forgotten, HungUp DEF Lose
<1>10. ASSUME NEW t \in Caller, Serve(t) PROVE [TokensNext]_tokenVars
  BY <1>10 DEF TokensNext
<1>11. ASSUME NEW k \in Pair, Expire(k) PROVE [TokensNext]_tokenVars
  BY <1>11 DEF TokensNext
<1>12. CASE Close
  <2>1. Caller \in SUBSET Caller
    OBVIOUS
  <2> QED BY <1>12, <2>1, HungUp DEF Close
<1> QED BY <1>2, <1>3, <1>4, <1>5, <1>6, <1>7, <1>8, <1>9, <1>10, <1>11, <1>12 DEF Next, Step

-------------------------------------------------------------------------------
(* What fits still fits when the server has given out more pairs.             *)
LEMMA StillFits ==
  ASSUME AppFits, Pair \subseteq Pair'
  PROVE  /\ disk \in FitKeys' /\ mem \in FitKeys' /\ NoKey \in FitKeys'
         /\ task \in [Caller -> (FitTask \cup {Idle})']
<1>1. FitKeys \subseteq FitKeys' /\ NoKey \in FitKeys'
  BY DEF FitKeys, NoKey
<1>2. FitTask \subseteq FitTask'
  BY DEF FitTask
<1> QED BY <1>1, <1>2 DEF AppFits, Idle

(* The tasks, as they begin, go on and end.                                   *)
LEMMA TasksFit ==
  ASSUME AppFits, Pair \subseteq Pair', NEW t \in Caller,
         NEW op \in {"check", "login", "logout"},
         NEW pc \in {"load", "call", "write access", "write refresh", "clear access",
                     "clear refresh"},
         \/ Begins(t, op, pc)
         \/ task[t] # Idle /\ Goes(t, pc)
         \/ task' = [task EXCEPT ![t] = Idle]
         \/ UNCHANGED task
  PROVE  task' \in [Caller -> (FitTask \cup {Idle})']
<1>1. task \in [Caller -> (FitTask \cup {Idle})']
  BY StillFits
<1>2. CASE Begins(t, op, pc)
  <2>1. [op |-> op, pair |-> 0, pc |-> pc] \in FitTask'
    BY DEF FitTask
  <2> QED BY <1>1, <1>2, <2>1 DEF Begins
<1>3. CASE task[t] # Idle /\ Goes(t, pc)
  <2>1. task[t] \in FitTask'
    BY <1>1, <1>3 DEF Idle
  <2>2. [task[t] EXCEPT !.pc = pc] \in FitTask'
    BY <2>1 DEF FitTask
  <2>3. task' = [task EXCEPT ![t] = [task[t] EXCEPT !.pc = pc]]
    BY <1>3 DEF Goes
  <2> QED BY <1>1, <2>2, <2>3
<1>4. CASE task' = [task EXCEPT ![t] = Idle] \/ UNCHANGED task
  BY <1>1, <1>4 DEF Idle
<1> QED BY <1>2, <1>3, <1>4

-------------------------------------------------------------------------------
LEMMA LaunchFits ==
  ASSUME AppFits, Pair \subseteq Pair', NEW t \in Caller, Launch(t) PROVE AppFits'
<1>1. task' \in [Caller -> (FitTask \cup {Idle})']
  BY TasksFit DEF Launch
<1> QED BY <1>1, StillFits DEF Launch, AppFits

LEMMA CloseFits ==
  ASSUME AppFits, Pair \subseteq Pair', Close PROVE AppFits'
<1>1. task' \in [Caller -> (FitTask \cup {Idle})']
  BY DEF Close, Idle
<1> QED BY <1>1, StillFits DEF Close, AppFits

LEMMA LoadFits ==
  ASSUME AppFits, Pair \subseteq Pair', NEW t \in Caller, Load(t) PROVE AppFits'
<1>1. task' \in [Caller -> (FitTask \cup {Idle})']
  BY TasksFit DEF Load, Ends, At
<1>2. screen' \in {screen, "login"} /\ user' \in {user, None}
  BY DEF Load, Ends
<1> QED BY <1>1, <1>2, StillFits DEF Load, AppFits

LEMMA TapLoginFits ==
  ASSUME AppFits, Pair \subseteq Pair', NEW t \in Caller, NEW a \in Account, TapLogin(t, a)
  PROVE  AppFits'
<1>1. task' \in [Caller -> (FitTask \cup {Idle})']
  BY TasksFit DEF TapLogin
<1> QED BY <1>1, StillFits DEF TapLogin, AppFits

LEMMA TapLogoutFits ==
  ASSUME AppFits, Pair \subseteq Pair', NEW t \in Caller, TapLogout(t) PROVE AppFits'
<1>1. task' \in [Caller -> (FitTask \cup {Idle})']
  BY TasksFit DEF TapLogout
<1>2. mem' \in {mem, NoKey}
  BY DEF TapLogout
<1> QED BY <1>1, <1>2, StillFits DEF TapLogout, AppFits

LEMMA GivesUpFits ==
  ASSUME AppFits, Pair \subseteq Pair', NEW t \in Caller, At(t, "call"), GivesUp(t)
  PROVE  /\ task' \in [Caller -> (FitTask \cup {Idle})']
         /\ mem' \in FitKeys'
         /\ screen' \in {screen, "login"} /\ user' \in {user, None}
<1>1. CASE Ends(t, "login", None) /\ UNCHANGED mem
  BY <1>1, TasksFit, StillFits DEF Ends
<1>2. CASE StartsClear(t)
  BY <1>2, TasksFit, StillFits DEF StartsClear, At
<1> QED BY <1>1, <1>2 DEF GivesUp

LEMMA AnswerFits ==
  ASSUME SessionInv, Pair \subseteq Pair', NEW t \in Caller, Answer(t) PROVE AppFits'
<1>0. /\ AppFits /\ At(t, "call") /\ call[t] # NoCall
      /\ UNCHANGED <<disk, faults, mishaps, left>>
  BY DEF SessionInv, Answer, Answered
<1>1. call[t].gives \in Pair \cup {0}
  BY <1>0 DEF SessionInv, TokensInv, CallsFit
<1> SUFFICES /\ task' \in [Caller -> (FitTask \cup {Idle})']
             /\ mem' \in FitKeys'
             /\ screen' \in {screen, "login", "in"} /\ user' \in Account \cup {None}
  BY <1>0, StillFits DEF AppFits
<1>2. CASE SignedIn(t)
  <2>1. call[t].gives \in Pair
    BY <1>1, <1>2 DEF SignedIn
  <2>2. tokens[call[t].gives].owner \in Account
    BY <2>1, PairIsInterval DEF SessionInv, TokensInv, Token
  <2> QED BY <1>0, <1>2, <2>2, TasksFit, StillFits DEF SignedIn, Ends
<1>3. CASE RefreshesSession(t)
  BY <1>0, <1>3, TasksFit, StillFits DEF RefreshesSession, AppFits
<1>4. CASE GetsPair(t)
  <2> DEFINE g == call[t].gives
  <2>1. g \in (Pair \cup {0})'
    BY <1>1
  <2>2. /\ mem' = [access |-> g, refresh |-> g] /\ UNCHANGED <<screen, user>>
        /\ task' = [task EXCEPT ![t] = [task[t] EXCEPT !.pc = "write access", !.pair = g]]
    BY <1>4 DEF GetsPair
  <2>3. task \in [Caller -> (FitTask \cup {Idle})'] /\ task[t] \in FitTask'
    BY <1>0, StillFits DEF At, Idle
  <2> HIDE DEF g
  <2>4. [task[t] EXCEPT !.pc = "write access", !.pair = g] \in FitTask'
    BY <2>1, <2>3 DEF FitTask
  <2>5. mem' \in FitKeys'
    BY <2>1, <2>2 DEF FitKeys
  <2> QED BY <1>0, <2>2, <2>3, <2>4, <2>5 DEF AppFits
<1>5. CASE GivesUp(t)
  BY <1>0, <1>5, GivesUpFits DEF AppFits
<1> QED BY <1>2, <1>3, <1>4, <1>5 DEF Answer

LEMMA LoseFits ==
  ASSUME AppFits, Pair \subseteq Pair', NEW t \in Caller, Lose(t) PROVE AppFits'
<1>1. faults' \in 0..MaxFault
  BY FaultsAssumption DEF AppFits, Lose, Fails
<1> QED BY <1>1, GivesUpFits, StillFits DEF Lose, AppFits

LEMMA WriteFits ==
  ASSUME AppFits, Pair \subseteq Pair', NEW t \in Caller, WriteAccess(t) \/ WriteRefresh(t)
  PROVE  AppFits'
<1>1. task' \in [Caller -> (FitTask \cup {Idle})']
  BY TasksFit DEF WriteAccess, WriteRefresh, At
<1>2. task[t].pair \in (Pair \cup {0})'
  BY DEF AppFits, FitTask, Idle, WriteAccess, WriteRefresh, At
<1>3. disk' \in FitKeys'
  BY <1>2, StillFits DEF WriteAccess, WriteRefresh, FitKeys
<1> QED BY <1>1, <1>3, StillFits DEF WriteAccess, WriteRefresh, AppFits

LEMMA ClearFits ==
  ASSUME SessionInv, Pair \subseteq Pair', NEW t \in Caller, ClearAccess(t) \/ ClearRefresh(t)
  PROVE  AppFits'
<1>0. AppFits
  BY DEF SessionInv
<1>1. task' \in [Caller -> (FitTask \cup {Idle})']
  BY <1>0, TasksFit DEF ClearAccess, ClearRefresh, Ends, At
<1>2. disk' \in FitKeys'
  BY <1>0, StillFits DEF ClearAccess, ClearRefresh, FitKeys
<1>3. left' \subseteq Nat
  <2>1. disk.access # 0 => tokens[disk.access].session \in Nat
    BY PairIsInterval DEF SessionInv, AppFits, FitKeys, TokensInv, Token
  <2>2. left \subseteq Nat
    BY <1>0 DEF AppFits
  <2> QED BY <2>1, <2>2 DEF ClearAccess, ClearRefresh
<1>4. screen' \in {screen, "login"} /\ user' \in {user, None}
  BY DEF ClearAccess, ClearRefresh, Ends
<1> QED BY <1>0, <1>1, <1>2, <1>3, <1>4, StillFits DEF ClearAccess, ClearRefresh, AppFits

LEMMA StoreFailsFits ==
  ASSUME AppFits, Pair \subseteq Pair', NEW t \in Caller, StoreFails(t) PROVE AppFits'
<1>1. task' \in [Caller -> (FitTask \cup {Idle})']
  BY TasksFit DEF StoreFails, Ends
<1>2. screen' \in {screen, "login"} /\ user' \in {user, None}
  BY DEF StoreFails, Ends
<1>3. faults' \in 0..MaxFault
  <2>1. Fails /\ faults \in 0..MaxFault
    BY DEF AppFits, StoreFails
  <2> QED BY <2>1, FaultsAssumption DEF Fails
<1> QED BY <1>1, <1>2, <1>3, StillFits DEF StoreFails, AppFits

LEMMA AppKept == AppFits /\ Pair \subseteq Pair' /\ UNCHANGED appVars => AppFits'
BY StillFits DEF appVars, AppFits

LEMMA SessionStep == SessionInv /\ [Next]_vars => SessionInv' /\ [TokensNext]_tokenVars
<1> SUFFICES ASSUME SessionInv, [Next]_vars PROVE SessionInv' /\ [TokensNext]_tokenVars
  OBVIOUS
<1>1. [TokensNext]_tokenVars
  BY AppUsesServer DEF vars, tokenVars
<1>2. TokensInv' /\ Pair \subseteq Pair' /\ AppFits
  BY <1>1, TokensStep, TokensGrow DEF SessionInv
<1>3. AppFits'
  <2>1. CASE UNCHANGED vars
    BY <1>2, <2>1, AppKept DEF vars
  <2>2. CASE Next
    BY <1>2, <2>2, LaunchFits, CloseFits, LoadFits, TapLoginFits, TapLogoutFits, AnswerFits,
       LoseFits, WriteFits, ClearFits, StoreFailsFits, AppKept DEF Next, Step
  <2> QED BY <2>1, <2>2
<1> QED BY <1>1, <1>2, <1>3 DEF SessionInv

-------------------------------------------------------------------------------
(* The types of the app and of the server's rows.                             *)
THEOREM SessionTypes == Spec => []TypeOK
BY SessionInitial, SessionStep, SessionImpliesTypes, PTL DEF Spec

(* The app over the server implements the server with any clients: whatever   *)
(* it presents, it was given, and it changes nothing behind the server's back. *)
THEOREM AppIsClient == Spec => TokensSpec
BY SessionInitial, SessionStep, PTL DEF Spec, TokensSpec
===============================================================================
