----------------------------- MODULE SignInProofs -----------------------------
(* Proofs about signing in and out, for any accounts, handlers and bounds: a  *)
(* session that a logout left is not restored, and whoever is signed in holds *)
(* a pair that the server still accepts; and only calls that the app hung up  *)
(* on can fork a session. BaseInv says which calls handlers await in which    *)
(* phase; LeftInv adds what is left behind by logouts, UseInv which pairs can *)
(* be relied on, RaceInv which calls can meet in one session.                 *)
EXTENDS SessionProofs, SessionRaces

Busy(t)      == task[t] # Idle
SessionOf(k) == tokens[k].session

(* A handler's phase x and the call y that it awaits.                         *)
PhaseFits(x, y) ==
  x # Idle =>
    /\ x.pc = "load" => x.op = "check"
    /\ x.op = "login" => x.pc \in {"call", "write access", "write refresh"}
    /\ x.op = "logout" => x.pc \in {"call", "clear access", "clear refresh"}
    /\ x.pc = "call" =>
         /\ y # NoCall /\ ~y.gone
         /\ y.op = "login" => x.op = "login"
         /\ y.op = "refresh" => x.op = "check"
         /\ y.op = "logout" <=> x.op = "logout"
         /\ y.at # "done" => y.gives = 0
         /\ y.op = "me" /\ y.gives # 0 => y.gives = y.token

Phases == \A t \in Caller : PhaseFits(task[t], call[t])

(* A check has the splash screen and the app to itself.                       *)
ScreenFits ==
  /\ screen = "closed" => \A t \in Caller : ~Busy(t)
  /\ screen = "splash" => \A t \in Caller : Busy(t) => Does(t, "check")
  /\ \A t \in Caller : Does(t, "check") =>
       screen = "splash" /\ \A s \in Caller : s # t => ~Busy(s)

CallTokens == \A c \in Caller : call[c] # NoCall => call[c].token \in Pair \cup {0}
LeftDrawn  == left \subseteq Pair

BaseInv == SessionInv /\ CallTokens /\ LeftDrawn /\ Phases /\ ScreenFits

-------------------------------------------------------------------------------
LEMMA Rows ==
  ASSUME SessionInv
  PROVE  /\ \A t \in Caller : task[t] = Idle \/ task[t] \in FitTask
         /\ \A c \in Caller : call[c] = NoCall \/ (call[c] \in ACall /\ call[c] # NoCall)
         /\ \A k \in Pair : k \in Nat /\ k # 0 /\ tokens[k] \in Token /\ tokens[k].session \in Pair
         /\ Pair = 1..Len(tokens) /\ Len(tokens) \in Nat /\ 0 \notin Pair
         /\ disk \in FitKeys /\ mem \in FitKeys
<1>1. TokensTypeOK /\ AppFits /\ SessionsDrawn
  BY DEF SessionInv, TokensInv
<1>2. /\ Pair = 1..Len(tokens) /\ Len(tokens) \in Nat
      /\ \A k \in Pair : tokens[k] \in Token
  BY <1>1, PairIsInterval
<1> QED BY <1>1, <1>2 DEF AppFits, TokensTypeOK, SessionsDrawn

(* How tasks and calls change.                                                *)
TaskOthers(t) == \A s \in Caller : s # t => task'[s] = task[s]
CallOthers(t) == \A s \in Caller : s # t => call'[s] = call[s]

LEMMA TaskBegins ==
  ASSUME SessionInv, NEW t \in Caller, NEW op, NEW pc, op # "idle", Begins(t, op, pc)
  PROVE  /\ TaskOthers(t) /\ task'[t] # Idle
         /\ task'[t].op = op /\ task'[t].pc = pc /\ task'[t].pair = 0
<1>1. task \in [Caller -> FitTask \cup {Idle}]
  BY DEF SessionInv, AppFits
<1>2. task'[t] = [op |-> op, pair |-> 0, pc |-> pc] /\ TaskOthers(t)
  BY <1>1 DEF Begins, TaskOthers
<1> QED BY <1>2 DEF Idle

LEMMA TaskGoes ==
  ASSUME SessionInv, NEW t \in Caller, Busy(t), NEW pc, Goes(t, pc)
  PROVE  /\ TaskOthers(t) /\ task'[t] # Idle
         /\ task'[t].op = task[t].op /\ task'[t].pc = pc /\ task'[t].pair = task[t].pair
<1>1. task \in [Caller -> FitTask \cup {Idle}] /\ task[t] \in FitTask
  BY Rows DEF SessionInv, AppFits, Busy
<1>2. task'[t] = [task[t] EXCEPT !.pc = pc] /\ TaskOthers(t)
  BY <1>1 DEF Goes, TaskOthers
<1>3. task'[t].op = task[t].op /\ task'[t].pc = pc /\ task'[t].pair = task[t].pair
  BY <1>1, <1>2 DEF FitTask
<1>4. task[t].op # "idle"
  BY <1>1 DEF FitTask
<1> QED BY <1>2, <1>3, <1>4 DEF Idle

LEMMA TaskEnds ==
  ASSUME SessionInv, NEW t \in Caller, task' = [task EXCEPT ![t] = Idle]
  PROVE  TaskOthers(t) /\ task'[t] = Idle
BY DEF SessionInv, AppFits, TaskOthers

LEMMA CallMade ==
  ASSUME SessionInv, NEW t \in Caller, NEW op, op # "none", NEW a, NEW k, Request(t, op, a, k)
  PROVE  /\ CallOthers(t) /\ call'[t] # NoCall
         /\ call'[t].op = op /\ call'[t].token = k /\ call'[t].at = "sent"
         /\ call'[t].gives = 0 /\ ~call'[t].gone
         /\ UNCHANGED <<tokens, expired>>
<1>1. call \in [Caller -> ACall \cup {NoCall}]
  BY DEF SessionInv, TokensInv, TokensTypeOK
<1>2. call'[t] = Sent(op, a, k) /\ CallOthers(t) /\ UNCHANGED <<tokens, expired>>
  BY <1>1 DEF Request, CallOthers
<1> QED BY <1>2 DEF Sent, NoCall

LEMMA CallForgotten ==
  ASSUME SessionInv, NEW t \in Caller, Forget(t)
  PROVE  CallOthers(t) /\ call'[t] = NoCall /\ UNCHANGED <<tokens, expired>>
BY DEF SessionInv, TokensInv, TokensTypeOK, Forget, CallOthers

(* Hanging up makes no call.                                                  *)
LEMMA CallsDropped ==
  ASSUME SessionInv, NEW S \in SUBSET Caller, HangUp(S)
  PROVE  /\ \A c \in Caller : c \notin S => call'[c] = call[c]
         /\ \A c \in Caller : call'[c] # NoCall =>
              /\ call[c] # NoCall
              /\ call'[c].op = call[c].op /\ call'[c].token = call[c].token
         /\ UNCHANGED <<tokens, expired>>
<1>1. \A c \in Caller : call'[c] = IF c \notin S \/ call[c] = NoCall THEN call[c]
                                   ELSE IF call[c].op = "me" \/ Answered(c) THEN NoCall
                                   ELSE [call[c] EXCEPT !.gone = TRUE]
  BY DEF HangUp
<1>2. ASSUME NEW c \in Caller, call'[c] # NoCall
      PROVE  /\ call[c] # NoCall
             /\ call'[c].op = call[c].op /\ call'[c].token = call[c].token
  <2>1. call[c] # NoCall
    BY <1>1, <1>2
  <2>2. call[c] \in ACall
    BY <2>1, Rows
  <2>3. call'[c] = call[c] \/ call'[c] = [call[c] EXCEPT !.gone = TRUE]
    BY <1>1, <1>2, <2>1
  <2> QED BY <2>1, <2>2, <2>3 DEF ACall
<1> QED BY <1>1, <1>2 DEF HangUp

-------------------------------------------------------------------------------
(* What the server does to a call, to the rows and to its answer.             *)
RowsKept ==
  \A k \in Pair : /\ k \in Pair'
                  /\ tokens'[k].session = tokens[k].session
                  /\ tokens'[k].owner = tokens[k].owner

LEMMA RowsSame == UNCHANGED tokens => RowsKept /\ Live' = Live /\ Pair' = Pair
BY DEF RowsKept, Live, Pair

NewRow(k, s) == k \in Live' /\ k \notin Pair /\ tokens'[k].session = s

CallServed(c) ==
  /\ CallOthers(c) /\ call[c] # NoCall /\ call[c].at # "done"
  /\ call'[c] = NoCall => call[c].gone
  /\ call'[c] # NoCall =>
       /\ call'[c].op = call[c].op /\ call'[c].token = call[c].token
       /\ call'[c].gone = call[c].gone
       /\ call'[c].at # "done" => call'[c].gives = call[c].gives

LEMMA AnswerGiven ==
  ASSUME SessionInv, NEW c \in Caller, call[c] # NoCall, call[c].at # "done",
         NEW k, Answers(c, k)
  PROVE  /\ CallServed(c)
         /\ call'[c] # NoCall => call'[c].at = "done" /\ call'[c].gives = k
<1>1. call[c] \in ACall /\ call \in [Caller -> ACall \cup {NoCall}]
  BY Rows DEF SessionInv, TokensInv, TokensTypeOK
<1>2. CallOthers(c) /\ call'[c] = IF call[c].gone THEN NoCall
                                  ELSE [call[c] EXCEPT !.at = "done", !.gives = k]
  BY <1>1 DEF Answers, CallOthers
<1>3. CASE call[c].gone
  BY <1>2, <1>3 DEF CallServed
<1>4. CASE ~call[c].gone
  <2>1. PICK y : y = call'[c]
    OBVIOUS
  <2>2. y = [call[c] EXCEPT !.at = "done", !.gives = k]
    BY <1>2, <1>4, <2>1
  <2>3. y.op = call[c].op /\ y.token = call[c].token /\ y.gone = call[c].gone
    BY <1>1, <2>2 DEF ACall
  <2>4. y.at = "done" /\ y.gives = k
    BY <1>1, <2>2 DEF ACall
  <2>5. y # NoCall
    BY <1>1, <2>3 DEF ACall, NoCall
  <2> QED BY <1>2, <1>4, <2>1, <2>3, <2>4, <2>5 DEF CallServed
<1> QED BY <1>3, <1>4

Answer0(c) ==
  call'[c] # NoCall /\ call'[c].at = "done" =>
    /\ call[c].op = "me" => call'[c].gives = IF call[c].token \in Pair \ expired
                                             THEN call[c].token ELSE 0
    /\ call[c].op = "login" => NewRow(call'[c].gives, call'[c].gives)
    /\ call[c].op = "refresh" /\ call'[c].gives # 0 =>
         call[c].token \in Pair /\ NewRow(call'[c].gives, tokens[call[c].token].session)

RevokedBy(c) ==
  \A k \in Live : k \notin Live' => call[c].op \in {"refresh", "logout"} /\ call[c].token = k

ServedAs(c) ==
  CallServed(c) /\ Answer0(c) /\ RowsKept /\ RevokedBy(c) /\ UNCHANGED expired

LEMMA LoginServes == ASSUME SessionInv, NEW c \in Caller, Login(c) PROVE ServedAs(c)
<1>1. /\ TokensInv /\ call[c] # NoCall /\ call[c].op = "login" /\ call[c].at = "sent"
      /\ call[c].account \in Account /\ tokens \in Seq(Token) /\ UNCHANGED expired
      /\ Pair = 1..Len(tokens) /\ Len(tokens) \in Nat
      /\ tokens' = Issue(tokens, call[c].account, Len(tokens) + 1)
      /\ Answers(c, Len(tokens) + 1)
  BY Rows DEF SessionInv, TokensInv, TokensTypeOK, CallsFit, Login, Calls, NewPair
<1>2. /\ tokens' \in Seq(Token) /\ Len(tokens') = Len(tokens) + 1
      /\ \A k \in 1..Len(tokens) : tokens'[k] = tokens[k]
      /\ tokens'[Len(tokens) + 1] =
           [owner |-> call[c].account, session |-> Len(tokens) + 1, revoked |-> FALSE]
  BY <1>1, Issued
<1>3. Pair' = 1..Len(tokens) + 1
  BY <1>1, <1>2 DEF Pair
<1>4. RowsKept /\ RevokedBy(c)
  BY <1>1, <1>2, <1>3 DEF RowsKept, RevokedBy, Live
<1>5. NewRow(Len(tokens) + 1, Len(tokens) + 1)
  <2>1. Len(tokens) + 1 \in Pair' /\ Len(tokens) + 1 \notin Pair
    BY <1>1, <1>3
  <2>2. tokens'[Len(tokens) + 1].session = Len(tokens) + 1 /\ ~tokens'[Len(tokens) + 1].revoked
    BY <1>2
  <2> QED BY <2>1, <2>2 DEF NewRow, Live
<1>6. CallServed(c) /\ (call'[c] # NoCall => call'[c].gives = Len(tokens) + 1)
  BY <1>1, AnswerGiven
<1>7. Answer0(c)
  BY <1>1, <1>5, <1>6 DEF Answer0
<1> QED BY <1>1, <1>4, <1>6, <1>7 DEF ServedAs

LEMMA MeServes == ASSUME SessionInv, NEW c \in Caller, Me(c) PROVE ServedAs(c)
<1> DEFINE k == IF call[c].token \in Pair \ expired THEN call[c].token ELSE 0
<1>1. /\ call[c] # NoCall /\ call[c].op = "me" /\ call[c].at = "sent" /\ Answers(c, k)
      /\ UNCHANGED <<tokens, expired>>
  BY DEF Me, Calls
<1> HIDE DEF k
<1>2. CallServed(c) /\ (call'[c] # NoCall => call'[c].gives = k)
  BY <1>1, AnswerGiven
<1>3. Answer0(c)
  BY <1>1, <1>2 DEF Answer0, k
<1> QED BY <1>1, <1>2, <1>3, RowsSame DEF ServedAs, RevokedBy

LEMMA ReadServes == ASSUME SessionInv, NEW c \in Caller, ReadRow(c) PROVE ServedAs(c)
<1>1. /\ call[c] # NoCall /\ call[c].op \in {"refresh", "logout"} /\ call[c].at = "sent"
      /\ UNCHANGED <<tokens, expired>>
      /\ call' = [call EXCEPT ![c].at = "read"] \/ Answers(c, 0)
  BY DEF ReadRow, Calls
<1>2. CASE Answers(c, 0)
  <2>1. CallServed(c) /\ (call'[c] # NoCall => call'[c].gives = 0)
    BY <1>1, <1>2, AnswerGiven
  <2> QED BY <1>1, <2>1, RowsSame DEF ServedAs, RevokedBy, Answer0
<1>3. CASE call' = [call EXCEPT ![c].at = "read"]
  <2>1. call[c] \in ACall /\ call \in [Caller -> ACall \cup {NoCall}]
    BY <1>1, Rows DEF SessionInv, TokensInv, TokensTypeOK
  <2>2. CallOthers(c) /\ call'[c] = [call[c] EXCEPT !.at = "read"]
    BY <1>3, <2>1 DEF CallOthers
  <2>3. PICK y : y = call'[c]
    OBVIOUS
  <2>4. /\ y.at = "read" /\ y.op = call[c].op /\ y.token = call[c].token
        /\ y.gone = call[c].gone /\ y.gives = call[c].gives
    BY <2>1, <2>2, <2>3 DEF ACall
  <2>5. CallServed(c) /\ Answer0(c) /\ call'[c] # NoCall
    <3>1. y # NoCall
      BY <1>1, <2>4 DEF NoCall
    <3> QED BY <1>1, <2>2, <2>3, <2>4, <3>1 DEF CallServed, Answer0
  <2> QED BY <1>1, <2>5, RowsSame DEF ServedAs, RevokedBy
<1> QED BY <1>1, <1>2, <1>3

LEMMA RefreshServes == ASSUME SessionInv, NEW c \in Caller, RefreshCommits(c) PROVE ServedAs(c)
<1> DEFINE k == call[c].token
<1>1. /\ call[c] # NoCall /\ call[c].op = "refresh" /\ call[c].at = "read"
      /\ k \in Pair /\ tokens \in Seq(Token) /\ tokens[k] \in Token
      /\ Pair = 1..Len(tokens) /\ Len(tokens) \in Nat /\ UNCHANGED expired
      /\ tokens' = Issue(Revoke(k), tokens[k].owner, tokens[k].session)
      /\ Answers(c, Len(tokens) + 1)
  BY Rows DEF SessionInv, TokensInv, TokensTypeOK, CallsFit, RefreshCommits, Calls, NewPair
<1> HIDE DEF k
<1>2. tokens[k].owner \in Account /\ tokens[k].session \in Nat
  BY <1>1 DEF Token
<1>3. /\ tokens' \in Seq(Token) /\ Len(tokens') = Len(tokens) + 1
      /\ \A i \in Pair : tokens'[i] = Revoke(k)[i]
      /\ tokens'[Len(tokens) + 1] =
           [owner |-> tokens[k].owner, session |-> tokens[k].session, revoked |-> FALSE]
  <2>1. Revoke(k) \in Seq(Token) /\ Len(Revoke(k)) = Len(tokens)
    BY <1>1, Revoked
  <2>2. /\ tokens' = Issue(Revoke(k), tokens[k].owner, tokens[k].session)
        /\ Pair = 1..Len(tokens)
    BY <1>1
  <2> QED BY <2>1, <2>2, <1>2, Issued
<1>4. \A i \in Pair : /\ tokens'[i].session = tokens[i].session
                      /\ tokens'[i].owner = tokens[i].owner
                      /\ i # k => tokens'[i] = tokens[i]
  BY <1>1, <1>3, Revoked
<1>5. Pair' = 1..Len(tokens) + 1
  BY <1>1, <1>3 DEF Pair
<1>6. RowsKept
  BY <1>1, <1>4, <1>5 DEF RowsKept
<1>7. RevokedBy(c)
  <2>1. \A i \in Live : i # k => i \in Live'
    BY <1>1, <1>4, <1>5 DEF Live
  <2> QED BY <1>1, <2>1 DEF RevokedBy, k
<1>8. NewRow(Len(tokens) + 1, tokens[k].session)
  <2>1. Len(tokens) + 1 \in Pair' /\ Len(tokens) + 1 \notin Pair
    BY <1>1, <1>5
  <2>2. tokens'[Len(tokens) + 1].session = tokens[k].session /\ ~tokens'[Len(tokens) + 1].revoked
    BY <1>3
  <2> QED BY <2>1, <2>2 DEF NewRow, Live
<1>9. CallServed(c) /\ (call'[c] # NoCall => call'[c].gives = Len(tokens) + 1)
  BY <1>1, AnswerGiven
<1>10. Answer0(c)
  BY <1>1, <1>8, <1>9 DEF Answer0, k
<1> QED BY <1>1, <1>6, <1>7, <1>9, <1>10 DEF ServedAs

LEMMA LogoutServes == ASSUME SessionInv, NEW c \in Caller, LogoutCommits(c) PROVE ServedAs(c)
<1> DEFINE k == call[c].token
<1>1. /\ call[c] # NoCall /\ call[c].op = "logout" /\ call[c].at = "read"
      /\ k \in Pair /\ tokens \in Seq(Token) /\ UNCHANGED expired
      /\ Pair = 1..Len(tokens) /\ Len(tokens) \in Nat
      /\ tokens' = Revoke(k) /\ Answers(c, 0)
  BY Rows DEF SessionInv, TokensInv, TokensTypeOK, CallsFit, LogoutCommits, Calls
<1> HIDE DEF k
<1>2. /\ tokens' \in Seq(Token) /\ Len(tokens') = Len(tokens)
      /\ \A i \in Pair : /\ tokens'[i].session = tokens[i].session
                         /\ tokens'[i].owner = tokens[i].owner
                         /\ i # k => tokens'[i] = tokens[i]
  BY <1>1, Revoked
<1>3. Pair' = Pair
  BY <1>1, <1>2 DEF Pair
<1>4. RowsKept
  BY <1>2, <1>3 DEF RowsKept
<1>5. RevokedBy(c)
  <2>1. \A i \in Live : i # k => i \in Live'
    BY <1>1, <1>2, <1>3 DEF Live
  <2> QED BY <1>1, <2>1 DEF RevokedBy, k
<1>6. CallServed(c) /\ (call'[c] # NoCall => call'[c].gives = 0)
  BY <1>1, AnswerGiven
<1> QED BY <1>1, <1>4, <1>5, <1>6 DEF ServedAs, Answer0

LEMMA Serves == ASSUME SessionInv, NEW c \in Caller, Serve(c) PROVE ServedAs(c)
BY LoginServes, MeServes, ReadServes, RefreshServes, LogoutServes DEF Serve

-------------------------------------------------------------------------------
(* What handlers do to their tasks and calls.                                 *)
LEMMA GivesUpMoves ==
  ASSUME SessionInv, NEW t \in Caller, Busy(t), GivesUp(t)
  PROVE  /\ TaskOthers(t)
         /\ \/ /\ task'[t] = Idle /\ screen' = "login" /\ UNCHANGED mem
               /\ task[t].op # "logout"
            \/ /\ task'[t] # Idle /\ task'[t].op = task[t].op /\ task'[t].pc = "clear access"
               /\ task[t].op # "login"
               /\ UNCHANGED <<screen, user>>
<1>1. CASE Ends(t, "login", None) /\ UNCHANGED mem /\ task[t].op # "logout"
  BY <1>1, TaskEnds DEF Ends
<1>2. CASE StartsClear(t) /\ task[t].op # "login"
  BY <1>2, TaskGoes DEF StartsClear
<1> QED BY <1>1, <1>2 DEF GivesUp, Does, Busy

LEMMA SignedInMoves ==
  ASSUME SessionInv, NEW t \in Caller, SignedIn(t)
  PROVE  /\ TaskOthers(t) /\ task'[t] = Idle /\ CallOthers(t) /\ call'[t] = NoCall
         /\ screen' = "in" /\ user' = tokens[call[t].gives].owner /\ UNCHANGED <<mem, tokens, expired>>
         /\ call[t].op = "me" /\ call[t].at = "done" /\ call[t].gives # 0
BY TaskEnds, CallForgotten DEF SignedIn, Ends, Calls

LEMMA RefreshMoves ==
  ASSUME SessionInv, NEW t \in Caller, RefreshesSession(t)
  PROVE  /\ UNCHANGED <<task, mem, screen, user, tokens, expired>> /\ CallOthers(t)
         /\ call'[t] # NoCall /\ call'[t].op = "refresh" /\ call'[t].token = mem.refresh
         /\ call'[t].at = "sent" /\ call'[t].gives = 0 /\ ~call'[t].gone
         /\ call[t].op = "me" /\ call[t].at = "done" /\ call[t].gives = 0
         /\ Does(t, "check")
BY CallMade DEF RefreshesSession, Calls

LEMMA GetsPairMoves ==
  ASSUME SessionInv, NEW t \in Caller, Busy(t), GetsPair(t)
  PROVE  /\ TaskOthers(t) /\ task'[t] # Idle /\ task'[t].op = task[t].op
         /\ task'[t].pc = "write access" /\ task'[t].pair = call[t].gives
         /\ CallOthers(t) /\ call'[t] = NoCall
         /\ mem' = [access |-> call[t].gives, refresh |-> call[t].gives]
         /\ UNCHANGED <<screen, user, tokens, expired>>
         /\ call[t].op \in {"login", "refresh"} /\ call[t].at = "done" /\ call[t].gives # 0
<1>1. task \in [Caller -> FitTask \cup {Idle}] /\ task[t] \in FitTask
  BY Rows DEF SessionInv, AppFits, Busy
<1>2. PICK x : x = task'[t]
  OBVIOUS
<1>3. /\ x = [task[t] EXCEPT !.pc = "write access", !.pair = call[t].gives]
      /\ TaskOthers(t)
  BY <1>1, <1>2 DEF GetsPair, TaskOthers
<1>4. x.op = task[t].op /\ x.pc = "write access" /\ x.pair = call[t].gives
  BY <1>1, <1>3 DEF FitTask
<1>5. x # Idle
  <2>1. task[t].op # "idle"
    BY <1>1 DEF FitTask
  <2>2. x.op = task[t].op
    BY <1>4
  <2>3. ASSUME x = Idle PROVE FALSE
    BY <2>1, <2>2, <2>3 DEF Idle
  <2> QED BY <2>3
<1>6. /\ CallOthers(t) /\ call'[t] = NoCall /\ UNCHANGED <<tokens, expired>>
      /\ mem' = [access |-> call[t].gives, refresh |-> call[t].gives] /\ UNCHANGED <<screen, user>>
      /\ call[t].op \in {"login", "refresh"} /\ call[t].at = "done" /\ call[t].gives # 0
  BY CallForgotten DEF GetsPair, Calls
<1> QED BY <1>2, <1>3, <1>4, <1>5, <1>6

(* The step of a call that is awaited.                                        *)
LEMMA AnswerMoves ==
  ASSUME SessionInv, NEW t \in Caller, Answer(t)
  PROVE  /\ Busy(t) /\ task[t].pc = "call" /\ call[t] # NoCall /\ call[t].at = "done"
         /\ UNCHANGED <<disk, faults, mishaps, left>>
         /\ \/ SignedIn(t) \/ RefreshesSession(t) \/ GetsPair(t)
            \/ /\ GivesUp(t) /\ TaskOthers(t) /\ CallOthers(t) /\ call'[t] = NoCall
               /\ UNCHANGED <<tokens, expired>> /\ call[t].gives = 0
BY CallForgotten, GivesUpMoves DEF Answer, At, Answered, Rejected, Busy

LEMMA LoseMoves ==
  ASSUME SessionInv, NEW t \in Caller, Lose(t)
  PROVE  /\ Busy(t) /\ task[t].pc = "call" /\ GivesUp(t) /\ TaskOthers(t) /\ CallOthers(t)
         /\ UNCHANGED <<tokens, expired, disk, mishaps, left>>
         /\ call'[t] # NoCall => /\ call[t] # NoCall
                                 /\ call'[t].op = call[t].op /\ call'[t].token = call[t].token
<1>1. Busy(t) /\ task[t].pc = "call" /\ GivesUp(t) /\ UNCHANGED <<disk, mishaps, left>>
  BY DEF Lose, At, Busy
<1>2. CASE Forget(t)
  BY <1>1, <1>2, CallForgotten, GivesUpMoves
<1>3. CASE HangUp({t})
  <2>1. {t} \in SUBSET Caller
    OBVIOUS
  <2> QED BY <1>1, <1>3, <2>1, CallsDropped, GivesUpMoves DEF CallOthers
<1> QED BY <1>2, <1>3 DEF Lose

(* Steps that make no call, and those that make one.                          *)
LEMMA LoadMoves ==
  ASSUME SessionInv, NEW t \in Caller, Load(t)
  PROVE  /\ Busy(t) /\ task[t].pc = "load" /\ TaskOthers(t) /\ CallOthers(t) /\ mem' = disk
         /\ UNCHANGED <<disk, mishaps, left, tokens, expired>>
         /\ \/ task'[t] = Idle /\ screen' = "login" /\ UNCHANGED call
            \/ /\ task'[t] # Idle /\ task'[t].op = task[t].op /\ task'[t].pc = "call"
               /\ task'[t].pair = task[t].pair /\ screen' = screen
               /\ disk.access # 0 /\ disk.refresh # 0
               /\ call'[t] # NoCall /\ call'[t].op = "me" /\ call'[t].token = disk.access
               /\ call'[t].at = "sent" /\ call'[t].gives = 0 /\ ~call'[t].gone
<1>1. Busy(t) /\ task[t].pc = "load" /\ mem' = disk /\ UNCHANGED <<disk, mishaps, left>>
  BY DEF Load, At, Busy
<1>2. CASE Ends(t, "login", None) /\ UNCHANGED tokenVars
  BY <1>1, <1>2, TaskEnds DEF Ends, tokenVars, CallOthers
<1>3. CASE /\ 0 \notin {disk.access, disk.refresh} /\ Request(t, "me", None, disk.access)
           /\ Goes(t, "call") /\ UNCHANGED <<screen, user>>
  BY <1>1, <1>3, TaskGoes, CallMade
<1> QED BY <1>2, <1>3 DEF Load

LEMMA WriteRefreshMoves ==
  ASSUME SessionInv, NEW t \in Caller, WriteRefresh(t)
  PROVE  /\ Busy(t) /\ task[t].pc = "write refresh" /\ TaskOthers(t) /\ CallOthers(t)
         /\ task'[t] # Idle /\ task'[t].op = task[t].op /\ task'[t].pc = "call"
         /\ call'[t] # NoCall /\ call'[t].op = "me" /\ call'[t].token = mem.access
         /\ call'[t].at = "sent" /\ call'[t].gives = 0 /\ ~call'[t].gone
         /\ disk'.access = disk.access /\ disk'.refresh = task[t].pair
         /\ "pair" \notin mishaps' => disk.access \in {0, task[t].pair}
         /\ mishaps \subseteq mishaps'
         /\ UNCHANGED <<mem, screen, user, left, tokens, expired>>
<1>1. Busy(t) /\ task[t].pc = "write refresh" /\ disk \in FitKeys
  BY Rows DEF WriteRefresh, At, Busy
<1>2. /\ Goes(t, "call") /\ Request(t, "me", None, mem.access)
      /\ disk' = [disk EXCEPT !.refresh = task[t].pair]
      /\ mishaps' = mishaps \cup {m \in {"pair"} : disk.access \notin {0, task[t].pair}}
      /\ UNCHANGED <<mem, screen, user, left>>
  BY DEF WriteRefresh
<1>3. disk'.access = disk.access /\ disk'.refresh = task[t].pair
  BY <1>1, <1>2 DEF FitKeys
<1>4. TaskOthers(t) /\ task'[t] # Idle /\ task'[t].op = task[t].op /\ task'[t].pc = "call"
  BY <1>1, <1>2, TaskGoes
<1>5. /\ CallOthers(t) /\ call'[t] # NoCall /\ call'[t].op = "me" /\ call'[t].token = mem.access
      /\ call'[t].at = "sent" /\ call'[t].gives = 0 /\ ~call'[t].gone
      /\ UNCHANGED <<tokens, expired>>
  BY <1>2, CallMade
<1> QED BY <1>1, <1>2, <1>3, <1>4, <1>5

LEMMA WriteAccessMoves ==
  ASSUME SessionInv, NEW t \in Caller, WriteAccess(t)
  PROVE  /\ Busy(t) /\ task[t].pc = "write access" /\ TaskOthers(t)
         /\ task'[t] # Idle /\ task'[t].op = task[t].op /\ task'[t].pc = "write refresh"
         /\ task'[t].pair = task[t].pair
         /\ disk'.access = task[t].pair /\ disk'.refresh = disk.refresh
         /\ UNCHANGED <<tokenVars, mem, screen, user, mishaps, left>>
<1>1. Busy(t) /\ task[t].pc = "write access" /\ disk \in FitKeys
  BY Rows DEF WriteAccess, At, Busy
<1> QED BY <1>1, TaskGoes DEF WriteAccess, FitKeys

LEMMA ClearAccessMoves ==
  ASSUME SessionInv, NEW t \in Caller, ClearAccess(t)
  PROVE  /\ Busy(t) /\ task[t].pc = "clear access" /\ TaskOthers(t)
         /\ task'[t] # Idle /\ task'[t].op = task[t].op /\ task'[t].pc = "clear refresh"
         /\ disk'.access = 0 /\ disk'.refresh = disk.refresh
         /\ left' = IF task[t].op = "logout" /\ disk.access # 0
                    THEN left \cup {SessionOf(disk.access)} ELSE left
         /\ UNCHANGED <<tokenVars, mem, screen, user, mishaps>>
<1>1. Busy(t) /\ task[t].pc = "clear access" /\ disk \in FitKeys
  BY Rows DEF ClearAccess, At, Busy
<1>2. TaskOthers(t) /\ task'[t] # Idle /\ task'[t].op = task[t].op /\ task'[t].pc = "clear refresh"
  BY <1>1, TaskGoes DEF ClearAccess
<1>3. disk'.access = 0 /\ disk'.refresh = disk.refresh
  BY <1>1 DEF ClearAccess, FitKeys
<1>4. left' = IF task[t].op = "logout" /\ disk.access # 0
              THEN left \cup {SessionOf(disk.access)} ELSE left
  BY <1>1 DEF ClearAccess, LoggingOut, Does, SessionOf, Busy
<1> QED BY <1>1, <1>2, <1>3, <1>4 DEF ClearAccess

LEMMA ClearRefreshMoves ==
  ASSUME SessionInv, NEW t \in Caller, ClearRefresh(t)
  PROVE  /\ Busy(t) /\ task[t].pc = "clear refresh" /\ TaskOthers(t) /\ task'[t] = Idle
         /\ disk'.access = disk.access /\ disk'.refresh = 0 /\ screen' = "login"
         /\ UNCHANGED <<tokenVars, mem, mishaps, left>>
<1>1. Busy(t) /\ task[t].pc = "clear refresh" /\ disk \in FitKeys
  BY Rows DEF ClearRefresh, At, Busy
<1> QED BY <1>1, TaskEnds DEF ClearRefresh, FitKeys, Ends

LEMMA StoreFailsMoves ==
  ASSUME SessionInv, NEW t \in Caller, StoreFails(t)
  PROVE  /\ Busy(t) /\ task[t].pc # "call" /\ TaskOthers(t) /\ task'[t] = Idle
         /\ \/ task[t].op = "logout" /\ "logout" \in mishaps' /\ UNCHANGED screen
            \/ task[t].op # "logout" /\ screen' = "login"
         /\ mishaps \subseteq mishaps'
         /\ task[t].pc = "write refresh" => "pair" \in mishaps'
         /\ UNCHANGED <<tokenVars, disk, mem, left>>
BY TaskEnds DEF StoreFails, Ends, LoggingOut, Does, At, Busy

LEMMA CloseMoves ==
  ASSUME SessionInv, Close
  PROVE  /\ \A s \in Caller : task'[s] = Idle
         /\ \A c \in Caller : call'[c] # NoCall =>
              /\ call[c] # NoCall
              /\ call'[c].op = call[c].op /\ call'[c].token = call[c].token
         /\ screen' = "closed"
         /\ \A s \in Caller : Busy(s) /\ task[s].pc = "write refresh" => "pair" \in mishaps'
         /\ \A s \in Caller : Busy(s) /\ task[s].op = "logout" => "logout" \in mishaps'
         /\ mishaps \subseteq mishaps'
         /\ UNCHANGED <<disk, left, tokens, expired>>
<1>1. Caller \in SUBSET Caller
  OBVIOUS
<1> QED BY <1>1, CallsDropped DEF Close, At, LoggingOut, Does, Busy

LEMMA LaunchMoves ==
  ASSUME SessionInv, NEW t \in Caller, Launch(t)
  PROVE  /\ TaskOthers(t) /\ task'[t] # Idle /\ task'[t].op = "check"
         /\ task'[t].pc = "load" /\ task'[t].pair = 0
         /\ screen = "closed" /\ screen' = "splash"
         /\ UNCHANGED <<tokenVars, disk, mem, mishaps, left>>
BY TaskBegins DEF Launch

LEMMA TapLoginMoves ==
  ASSUME SessionInv, NEW t \in Caller, NEW a \in Account, TapLogin(t, a)
  PROVE  /\ TaskOthers(t) /\ task'[t] # Idle /\ task'[t].op = "login"
         /\ task'[t].pc = "call" /\ task'[t].pair = 0
         /\ CallOthers(t) /\ call'[t] # NoCall
         /\ call'[t].op = "login" /\ call'[t].token = 0 /\ call'[t].at = "sent"
         /\ call'[t].gives = 0 /\ ~call'[t].gone
         /\ screen = "login" /\ screen' = "loading" /\ task[t] = Idle /\ call[t] = NoCall
         /\ UNCHANGED <<tokens, expired, disk, mem, mishaps, left>>
BY TaskBegins, CallMade DEF TapLogin, Free

LEMMA TapLogoutMoves ==
  ASSUME SessionInv, NEW t \in Caller, TapLogout(t)
  PROVE  /\ TaskOthers(t) /\ task'[t] # Idle /\ task'[t].op = "logout" /\ task'[t].pair = 0
         /\ CallOthers(t) /\ task[t] = Idle
         /\ \/ task'[t].pc = "clear access" /\ UNCHANGED call
            \/ /\ task'[t].pc = "call" /\ call'[t] # NoCall
               /\ call'[t].op = "logout" /\ call'[t].token = mem.refresh /\ call'[t].at = "sent"
               /\ call'[t].gives = 0 /\ ~call'[t].gone
         /\ screen = "in" /\ screen' = "in" /\ mishaps \subseteq mishaps'
         /\ (\E s \in Caller : LoggingOut(s)) => "logout" \in mishaps'
         /\ UNCHANGED <<tokens, expired, disk, left>>
<1>1. screen = "in" /\ screen' = screen /\ task[t] = Idle /\ UNCHANGED <<disk, left>>
  BY DEF TapLogout, Free
<1>2. /\ mishaps \subseteq mishaps'
      /\ (\E s \in Caller : LoggingOut(s)) => "logout" \in mishaps'
  BY DEF TapLogout
<1>3. CASE Begins(t, "logout", "clear access") /\ UNCHANGED tokenVars
  <2>1. /\ TaskOthers(t) /\ task'[t] # Idle /\ task'[t].op = "logout" /\ task'[t].pair = 0
        /\ task'[t].pc = "clear access"
    <3>1. "logout" # "idle" /\ Begins(t, "logout", "clear access")
      BY <1>3
    <3> QED BY <3>1, TaskBegins
  <2>2. UNCHANGED <<call, tokens, expired>> /\ CallOthers(t)
    BY <1>3 DEF tokenVars, CallOthers
  <2> QED BY <1>1, <1>2, <2>1, <2>2
<1>4. CASE Begins(t, "logout", "call") /\ Request(t, "logout", None, mem.refresh)
  <2>1. /\ TaskOthers(t) /\ task'[t] # Idle /\ task'[t].op = "logout" /\ task'[t].pair = 0
        /\ task'[t].pc = "call"
    BY <1>4, TaskBegins
  <2>2. /\ CallOthers(t) /\ call'[t] # NoCall
        /\ call'[t].op = "logout" /\ call'[t].token = mem.refresh /\ call'[t].at = "sent"
        /\ call'[t].gives = 0 /\ ~call'[t].gone /\ UNCHANGED <<tokens, expired>>
    BY <1>4, CallMade
  <2> QED BY <1>1, <1>2, <2>1, <2>2
<1> QED BY <1>3, <1>4 DEF TapLogout

-------------------------------------------------------------------------------
(* The handlers' phases, their calls and the screen.                          *)
BaseRest == CallTokens /\ LeftDrawn /\ Phases /\ ScreenFits

LEMMA PhasesAfter ==
  ASSUME Phases, NEW t \in Caller, TaskOthers(t), CallOthers(t), PhaseFits(task'[t], call'[t])
  PROVE  Phases'
BY DEF Phases, TaskOthers, CallOthers

LEMMA CallTokensAfter ==
  ASSUME CallTokens, Pair \subseteq Pair',
         \A c \in Caller : call'[c] # NoCall =>
           \/ call[c] # NoCall /\ call'[c].token = call[c].token
           \/ call'[c].token \in Pair \cup {0}
  PROVE  CallTokens'
BY DEF CallTokens

LEMMA ScreenAfter ==
  ASSUME ScreenFits, NEW t \in Caller, Busy(t), TaskOthers(t),
         \/ task'[t] = Idle /\ screen' \notin {"closed", "splash"}
         \/ task'[t] # Idle /\ task'[t].op = task[t].op /\ screen' = screen
  PROVE  ScreenFits'
<1>1. \A s \in Caller : s # t => ~Does(s, "check") /\ task'[s] = task[s]
  BY DEF ScreenFits, TaskOthers
<1>2. screen # "closed"
  BY DEF ScreenFits
<1>3. CASE task'[t] = Idle /\ screen' \notin {"closed", "splash"}
  BY <1>1, <1>3 DEF ScreenFits, Busy, Does
<1>4. CASE task'[t] # Idle /\ task'[t].op = task[t].op /\ screen' = screen
  BY <1>1, <1>2, <1>4 DEF ScreenFits, Busy, Does
<1> QED BY <1>3, <1>4

LEMMA LaunchBase ==
  ASSUME BaseInv, NEW t \in Caller, Launch(t), Pair \subseteq Pair'
  PROVE  BaseRest'
<1>0. SessionInv /\ CallTokens /\ LeftDrawn /\ Phases /\ ScreenFits
  BY DEF BaseInv
<1>1. /\ TaskOthers(t) /\ task'[t] # Idle /\ task'[t].op = "check" /\ task'[t].pc = "load"
      /\ screen = "closed" /\ screen' = "splash" /\ UNCHANGED <<call, left>>
  BY <1>0, LaunchMoves DEF tokenVars
<1>2. PhaseFits(task'[t], call'[t]) /\ CallOthers(t)
  BY <1>1 DEF PhaseFits, CallOthers
<1>3. ScreenFits'
  BY <1>0, <1>1 DEF ScreenFits, TaskOthers, Busy, Does
<1>4. LeftDrawn'
  BY <1>0, <1>1 DEF LeftDrawn
<1> QED BY <1>0, <1>1, <1>2, <1>3, <1>4, PhasesAfter, CallTokensAfter DEF BaseRest

LEMMA CloseBase ==
  ASSUME BaseInv, Close, Pair \subseteq Pair'
  PROVE  BaseRest'
<1>0. SessionInv /\ CallTokens /\ LeftDrawn /\ Phases /\ ScreenFits
  BY DEF BaseInv
<1>1. /\ \A s \in Caller : task'[s] = Idle
      /\ \A c \in Caller : call'[c] # NoCall =>
           call[c] # NoCall /\ call'[c].token = call[c].token
      /\ screen' = "closed" /\ UNCHANGED left
  BY <1>0, CloseMoves
<1>2. Phases'
  BY <1>1 DEF Phases, PhaseFits
<1>3. ScreenFits'
  BY <1>1 DEF ScreenFits, Busy, Does
<1>4. LeftDrawn'
  BY <1>0, <1>1 DEF LeftDrawn
<1> QED BY <1>0, <1>1, <1>2, <1>3, <1>4, CallTokensAfter DEF BaseRest

LEMMA LoadBase ==
  ASSUME BaseInv, NEW t \in Caller, Load(t), Pair \subseteq Pair'
  PROVE  BaseRest'
<1>0. SessionInv /\ CallTokens /\ LeftDrawn /\ Phases /\ ScreenFits
  BY DEF BaseInv
<1>1. Busy(t) /\ task[t].pc = "load" /\ TaskOthers(t) /\ CallOthers(t) /\ UNCHANGED left
  BY <1>0, LoadMoves
<1>2. task[t].op = "check"
  BY <1>0, <1>1 DEF Phases, PhaseFits, Busy
<1>3. \/ task'[t] = Idle /\ screen' = "login" /\ UNCHANGED call
      \/ /\ task'[t] # Idle /\ task'[t].op = task[t].op /\ task'[t].pc = "call"
         /\ screen' = screen /\ call'[t] # NoCall /\ call'[t].op = "me"
         /\ call'[t].token = disk.access /\ call'[t].gives = 0 /\ ~call'[t].gone
  BY <1>0, LoadMoves
<1>4. PhaseFits(task'[t], call'[t])
  BY <1>2, <1>3 DEF PhaseFits
<1>5. ScreenFits'
  BY <1>0, <1>1, <1>3, ScreenAfter
<1>6. disk.access \in Pair \cup {0}
  BY <1>0, Rows DEF FitKeys
<1>7. CallTokens'
  BY <1>0, <1>1, <1>3, <1>6, CallTokensAfter DEF CallOthers
<1>8. LeftDrawn'
  BY <1>0, <1>1 DEF LeftDrawn
<1> QED BY <1>0, <1>1, <1>4, <1>5, <1>7, <1>8, PhasesAfter DEF BaseRest

LEMMA TapLoginBase ==
  ASSUME BaseInv, NEW t \in Caller, NEW a \in Account, TapLogin(t, a), Pair \subseteq Pair'
  PROVE  BaseRest'
<1>0. SessionInv /\ CallTokens /\ LeftDrawn /\ Phases /\ ScreenFits
  BY DEF BaseInv
<1>1. /\ TaskOthers(t) /\ task'[t] # Idle /\ task'[t].op = "login" /\ task'[t].pc = "call"
      /\ CallOthers(t) /\ call'[t] # NoCall /\ call'[t].op = "login" /\ call'[t].token = 0
      /\ call'[t].gives = 0 /\ ~call'[t].gone
      /\ screen = "login" /\ screen' = "loading" /\ UNCHANGED left
  BY <1>0, TapLoginMoves
<1>2. PhaseFits(task'[t], call'[t])
  BY <1>1 DEF PhaseFits
<1>3. ScreenFits'
  BY <1>0, <1>1 DEF ScreenFits, TaskOthers, Busy, Does
<1>4. CallTokens'
  BY <1>0, <1>1, CallTokensAfter DEF CallOthers
<1>5. LeftDrawn'
  BY <1>0, <1>1 DEF LeftDrawn
<1> QED BY <1>0, <1>1, <1>2, <1>3, <1>4, <1>5, PhasesAfter DEF BaseRest

LEMMA TapLogoutBase ==
  ASSUME BaseInv, NEW t \in Caller, TapLogout(t), Pair \subseteq Pair'
  PROVE  BaseRest'
<1>0. SessionInv /\ CallTokens /\ LeftDrawn /\ Phases /\ ScreenFits
  BY DEF BaseInv
<1>1. /\ TaskOthers(t) /\ task'[t] # Idle /\ task'[t].op = "logout" /\ CallOthers(t)
      /\ \/ task'[t].pc = "clear access" /\ UNCHANGED call
         \/ /\ task'[t].pc = "call" /\ call'[t] # NoCall /\ call'[t].op = "logout"
            /\ call'[t].token = mem.refresh /\ call'[t].gives = 0 /\ ~call'[t].gone
      /\ screen = "in" /\ screen' = "in" /\ UNCHANGED left
  BY <1>0, TapLogoutMoves
<1>2. PhaseFits(task'[t], call'[t])
  BY <1>1 DEF PhaseFits
<1>3. ScreenFits'
  BY <1>0, <1>1 DEF ScreenFits, TaskOthers, Busy, Does
<1>4. mem.refresh \in Pair \cup {0}
  BY <1>0, Rows DEF FitKeys
<1>5. CallTokens'
  BY <1>0, <1>1, <1>4, CallTokensAfter DEF CallOthers
<1>6. LeftDrawn'
  BY <1>0, <1>1 DEF LeftDrawn
<1> QED BY <1>0, <1>1, <1>2, <1>3, <1>5, <1>6, PhasesAfter DEF BaseRest

LEMMA AnswerBase ==
  ASSUME BaseInv, NEW t \in Caller, Answer(t), Pair \subseteq Pair'
  PROVE  BaseRest'
<1>0. SessionInv /\ CallTokens /\ LeftDrawn /\ Phases /\ ScreenFits
  BY DEF BaseInv
<1>1. Busy(t) /\ task[t].pc = "call" /\ call[t] # NoCall /\ UNCHANGED left
  BY <1>0, AnswerMoves
<1>2. LeftDrawn'
  BY <1>0, <1>1 DEF LeftDrawn
<1>3. mem.refresh \in Pair \cup {0}
  BY <1>0, Rows DEF FitKeys
<1>4. CASE SignedIn(t)
  <2>1. TaskOthers(t) /\ task'[t] = Idle /\ CallOthers(t) /\ call'[t] = NoCall /\ screen' = "in"
    BY <1>0, <1>4, SignedInMoves
  <2>2. PhaseFits(task'[t], call'[t])
    BY <2>1 DEF PhaseFits
  <2>3. CallTokens' /\ ScreenFits' /\ Phases'
    BY <1>0, <1>1, <2>1, <2>2, CallTokensAfter, ScreenAfter, PhasesAfter DEF CallOthers
  <2> QED BY <1>2, <2>3 DEF BaseRest
<1>5. CASE RefreshesSession(t)
  <2>1. /\ UNCHANGED <<task, screen>> /\ CallOthers(t) /\ call'[t] # NoCall
        /\ call'[t].op = "refresh" /\ call'[t].token = mem.refresh /\ call'[t].gives = 0
        /\ ~call'[t].gone /\ task[t].op = "check"
    BY <1>0, <1>5, RefreshMoves DEF Does
  <2>2. PhaseFits(task'[t], call'[t]) /\ TaskOthers(t)
    BY <1>1, <2>1 DEF PhaseFits, TaskOthers
  <2>3. CallTokens' /\ Phases'
    BY <1>0, <1>3, <2>1, <2>2, CallTokensAfter, PhasesAfter DEF CallOthers
  <2>4. ScreenFits'
    BY <1>0, <2>1 DEF ScreenFits, Busy, Does
  <2> QED BY <1>2, <2>3, <2>4 DEF BaseRest
<1>6. CASE GetsPair(t)
  <2>1. /\ TaskOthers(t) /\ task'[t] # Idle /\ task'[t].op = task[t].op
        /\ task'[t].pc = "write access" /\ CallOthers(t) /\ call'[t] = NoCall
        /\ UNCHANGED screen /\ call[t].op \in {"login", "refresh"}
    BY <1>0, <1>1, <1>6, GetsPairMoves
  <2>2. task[t].op # "logout"
    BY <1>0, <1>1, <2>1 DEF Phases, PhaseFits, Busy
  <2>3. PhaseFits(task'[t], call'[t])
    BY <2>1, <2>2 DEF PhaseFits
  <2>4. CallTokens' /\ ScreenFits' /\ Phases'
    BY <1>0, <1>1, <2>1, <2>3, CallTokensAfter, ScreenAfter, PhasesAfter DEF CallOthers
  <2> QED BY <1>2, <2>4 DEF BaseRest
<1>7. CASE GivesUp(t) /\ TaskOthers(t) /\ CallOthers(t) /\ call'[t] = NoCall
  <2>1. \/ task'[t] = Idle /\ screen' = "login"
        \/ /\ task'[t] # Idle /\ task'[t].op = task[t].op /\ task'[t].pc = "clear access"
           /\ task[t].op # "login" /\ UNCHANGED screen
    BY <1>0, <1>1, <1>7, GivesUpMoves
  <2>2. PhaseFits(task'[t], call'[t])
    BY <2>1 DEF PhaseFits
  <2>3. CallTokens' /\ ScreenFits' /\ Phases'
    BY <1>0, <1>1, <1>7, <2>1, <2>2, CallTokensAfter, ScreenAfter, PhasesAfter DEF CallOthers
  <2> QED BY <1>2, <2>3 DEF BaseRest
<1> QED BY <1>0, <1>4, <1>5, <1>6, <1>7, AnswerMoves

LEMMA LoseBase ==
  ASSUME BaseInv, NEW t \in Caller, Lose(t), Pair \subseteq Pair'
  PROVE  BaseRest'
<1>0. SessionInv /\ CallTokens /\ LeftDrawn /\ Phases /\ ScreenFits
  BY DEF BaseInv
<1>1. /\ Busy(t) /\ GivesUp(t) /\ TaskOthers(t) /\ CallOthers(t) /\ UNCHANGED left
      /\ call'[t] # NoCall => call[t] # NoCall /\ call'[t].token = call[t].token
  BY <1>0, LoseMoves
<1>2. \/ task'[t] = Idle /\ screen' = "login"
      \/ /\ task'[t] # Idle /\ task'[t].op = task[t].op /\ task'[t].pc = "clear access"
         /\ task[t].op # "login" /\ UNCHANGED screen
  BY <1>0, <1>1, GivesUpMoves
<1>3. PhaseFits(task'[t], call'[t])
  BY <1>2 DEF PhaseFits
<1>4. CallTokens' /\ ScreenFits' /\ Phases'
  BY <1>0, <1>1, <1>2, <1>3, CallTokensAfter, ScreenAfter, PhasesAfter DEF CallOthers
<1>5. LeftDrawn'
  BY <1>0, <1>1 DEF LeftDrawn
<1> QED BY <1>4, <1>5 DEF BaseRest

LEMMA StoreBase ==
  ASSUME BaseInv, NEW t \in Caller, Pair \subseteq Pair',
         WriteAccess(t) \/ WriteRefresh(t) \/ ClearAccess(t) \/ ClearRefresh(t) \/ StoreFails(t)
  PROVE  BaseRest'
<1>0. SessionInv /\ CallTokens /\ LeftDrawn /\ Phases /\ ScreenFits
  BY DEF BaseInv
<1>1. CASE WriteAccess(t)
  <2>1. /\ Busy(t) /\ task[t].pc = "write access" /\ TaskOthers(t) /\ task'[t] # Idle
        /\ task'[t].op = task[t].op /\ task'[t].pc = "write refresh" /\ UNCHANGED <<call, screen, left>>
    BY <1>0, <1>1, WriteAccessMoves DEF tokenVars
  <2>2. task[t].op # "logout"
    BY <1>0, <2>1 DEF Phases, PhaseFits, Busy
  <2>3. PhaseFits(task'[t], call'[t]) /\ CallOthers(t)
    BY <2>1, <2>2 DEF PhaseFits, CallOthers
  <2>4. CallTokens' /\ ScreenFits' /\ Phases'
    BY <1>0, <2>1, <2>3, CallTokensAfter, ScreenAfter, PhasesAfter
  <2> QED BY <1>0, <2>1, <2>4 DEF BaseRest, LeftDrawn
<1>2. CASE WriteRefresh(t)
  <2>1. /\ Busy(t) /\ task[t].pc = "write refresh" /\ TaskOthers(t) /\ CallOthers(t)
        /\ task'[t] # Idle /\ task'[t].op = task[t].op /\ task'[t].pc = "call"
        /\ call'[t] # NoCall /\ call'[t].op = "me" /\ call'[t].token = mem.access
        /\ call'[t].gives = 0 /\ ~call'[t].gone /\ UNCHANGED <<screen, left>>
    BY <1>0, <1>2, WriteRefreshMoves
  <2>2. task[t].op # "logout" /\ mem.access \in Pair \cup {0}
    BY <1>0, <2>1, Rows DEF Phases, PhaseFits, Busy, FitKeys
  <2>3. PhaseFits(task'[t], call'[t])
    BY <2>1, <2>2 DEF PhaseFits
  <2>4. CallTokens'
    BY <1>0, <2>1, <2>2, CallTokensAfter DEF CallOthers
  <2>5. ScreenFits' /\ Phases'
    BY <1>0, <2>1, <2>3, ScreenAfter, PhasesAfter
  <2> QED BY <1>0, <2>1, <2>4, <2>5 DEF BaseRest, LeftDrawn
<1>3. CASE ClearAccess(t)
  <2>1. /\ Busy(t) /\ task[t].pc = "clear access" /\ TaskOthers(t) /\ task'[t] # Idle
        /\ task'[t].op = task[t].op /\ task'[t].pc = "clear refresh" /\ UNCHANGED <<call, screen, tokens>>
        /\ left' \in {left, left \cup {SessionOf(disk.access)}}
        /\ disk.access = 0 => left' = left
    BY <1>0, <1>3, ClearAccessMoves DEF tokenVars
  <2>2. task[t].op # "login"
    BY <1>0, <2>1 DEF Phases, PhaseFits, Busy
  <2>3. PhaseFits(task'[t], call'[t]) /\ CallOthers(t)
    BY <2>1, <2>2 DEF PhaseFits, CallOthers
  <2>4. CallTokens' /\ ScreenFits' /\ Phases'
    BY <1>0, <2>1, <2>3, CallTokensAfter, ScreenAfter, PhasesAfter
  <2>5. disk.access # 0 => SessionOf(disk.access) \in Pair
    BY <1>0, Rows DEF FitKeys, SessionOf
  <2>6. LeftDrawn'
    BY <1>0, <2>1, <2>5 DEF LeftDrawn
  <2> QED BY <2>4, <2>6 DEF BaseRest
<1>4. CASE ClearRefresh(t)
  <2>1. /\ Busy(t) /\ TaskOthers(t) /\ task'[t] = Idle /\ screen' = "login" /\ UNCHANGED <<call, left>>
    BY <1>0, <1>4, ClearRefreshMoves DEF tokenVars
  <2>2. PhaseFits(task'[t], call'[t]) /\ CallOthers(t)
    BY <2>1 DEF PhaseFits, CallOthers
  <2>3. CallTokens' /\ ScreenFits' /\ Phases'
    BY <1>0, <2>1, <2>2, CallTokensAfter, ScreenAfter, PhasesAfter
  <2> QED BY <1>0, <2>1, <2>3 DEF BaseRest, LeftDrawn
<1>5. CASE StoreFails(t)
  <2>1. /\ Busy(t) /\ TaskOthers(t) /\ task'[t] = Idle /\ UNCHANGED <<call, left>>
        /\ (task[t].op = "logout" /\ UNCHANGED screen) \/ screen' = "login"
    BY <1>0, <1>5, StoreFailsMoves DEF tokenVars
  <2>2. PhaseFits(task'[t], call'[t]) /\ CallOthers(t)
    BY <2>1 DEF PhaseFits, CallOthers
  <2>3. screen' \notin {"closed", "splash"}
    BY <1>0, <2>1 DEF ScreenFits, Busy, Does
  <2>4. CallTokens' /\ ScreenFits' /\ Phases'
    BY <1>0, <2>1, <2>2, <2>3, CallTokensAfter, ScreenAfter, PhasesAfter
  <2> QED BY <1>0, <2>1, <2>4 DEF BaseRest, LeftDrawn
<1> QED BY <1>1, <1>2, <1>3, <1>4, <1>5

LEMMA ServeBase ==
  ASSUME BaseInv, NEW c \in Caller, Serve(c), UNCHANGED appVars, Pair \subseteq Pair'
  PROVE  BaseRest'
<1>0. SessionInv /\ CallTokens /\ LeftDrawn /\ Phases /\ ScreenFits
  BY DEF BaseInv
<1>1. CallServed(c) /\ Answer0(c) /\ UNCHANGED <<task, screen, left>>
  BY <1>0, Serves DEF ServedAs, appVars
<1>2. PhaseFits(task[c], call[c])
  BY <1>0 DEF Phases
<1>3. PhaseFits(task'[c], call'[c])
  BY <1>1, <1>2 DEF PhaseFits, CallServed, Answer0
<1>4. TaskOthers(c) /\ CallOthers(c)
  BY <1>1 DEF TaskOthers, CallServed
<1>5. Phases'
  BY <1>0, <1>3, <1>4, PhasesAfter
<1>6. CallTokens'
  BY <1>0, <1>1, CallTokensAfter DEF CallServed, CallOthers
<1>7. ScreenFits' /\ LeftDrawn'
  BY <1>0, <1>1 DEF ScreenFits, LeftDrawn, Busy, Does
<1> QED BY <1>5, <1>6, <1>7 DEF BaseRest

LEMMA IdleBase ==
  ASSUME BaseInv, UNCHANGED <<call, appVars>>, Pair \subseteq Pair'
  PROVE  BaseRest'
BY DEF BaseInv, BaseRest, appVars, CallTokens, LeftDrawn, Phases, ScreenFits, Busy, Does

LEMMA BaseInitial == Init => BaseInv
<1> SUFFICES ASSUME Init PROVE BaseInv
  OBVIOUS
<1>1. SessionInv
  BY SessionInitial
<1>2. /\ \A t \in Caller : task[t] = Idle /\ call[t] = NoCall
      /\ screen = "closed" /\ left = {}
  BY DEF Init, TokensInit
<1> QED BY <1>1, <1>2 DEF BaseInv, CallTokens, LeftDrawn, Phases, PhaseFits, ScreenFits, Busy, Does

LEMMA BaseStep == BaseInv /\ [Next]_vars => BaseInv' /\ Pair \subseteq Pair'
<1> SUFFICES ASSUME BaseInv, [Next]_vars PROVE BaseInv' /\ Pair \subseteq Pair'
  OBVIOUS
<1>1. SessionInv' /\ Pair \subseteq Pair'
  BY SessionStep, TokensGrow DEF BaseInv, SessionInv
<1>2. BaseRest'
  <2>1. CASE UNCHANGED vars
    BY <1>1, <2>1, IdleBase DEF vars, tokenVars
  <2>2. CASE \E k \in Pair : Expire(k) /\ UNCHANGED appVars
    BY <1>1, <2>2, IdleBase DEF Expire
  <2>3. CASE Close
    BY <1>1, <2>3, CloseBase
  <2>4. CASE \E t \in Caller :
               \/ Launch(t) \/ TapLogout(t) \/ \E a \in Account : TapLogin(t, a)
               \/ Step(t) \/ Lose(t) \/ StoreFails(t)
               \/ Serve(t) /\ UNCHANGED appVars
    BY <1>1, <2>4, LaunchBase, TapLogoutBase, TapLoginBase, LoadBase, AnswerBase, LoseBase,
       StoreBase, ServeBase DEF Step
  <2> QED BY <2>1, <2>2, <2>3, <2>4 DEF Next
<1> QED BY <1>1, <1>2 DEF BaseInv, BaseRest

-------------------------------------------------------------------------------
(* What a login carries to the key store: a session that nobody left and that *)
(* neither the key store nor another login has.                               *)
Carried(t) == IF At(t, "call") THEN call[t].gives ELSE task[t].pair

Carries(t) ==
  /\ Does(t, "login") /\ Carried(t) # 0
  /\ At(t, "write access") \/ (At(t, "call") /\ call[t].op = "login")

LoginFits(t) ==
  Carries(t) =>
    /\ SessionOf(Carried(t)) \notin left
    /\ disk.access # 0 => SessionOf(Carried(t)) # SessionOf(disk.access)
    /\ \A s \in Caller : Carries(s) /\ s # t => SessionOf(Carried(s)) # SessionOf(Carried(t))

(* A check holds the keys of one session, which nobody left.                  *)
CheckFits(t) ==
  Does(t, "check") /\ task[t].pc \in {"call", "write access", "write refresh"} =>
    /\ mem.access # 0 /\ mem.refresh # 0
    /\ SessionOf(mem.access) = SessionOf(mem.refresh) /\ SessionOf(mem.access) \notin left
    /\ task[t].pc # "call" => task[t].pair = mem.access
    /\ task[t].pc = "call" /\ call[t].op = "refresh" =>
         /\ call[t].token = mem.refresh
         /\ call[t].gives # 0 => SessionOf(call[t].gives) = SessionOf(mem.access)

DiskFits ==
  /\ disk.access # 0 => SessionOf(disk.access) \notin left
  /\ disk.access # 0 /\ disk.refresh # 0 /\ (\A t \in Caller : ~At(t, "write refresh"))
       => SessionOf(disk.access) = SessionOf(disk.refresh)

LeftFits == DiskFits /\ \A t \in Caller : LoginFits(t) /\ CheckFits(t)
LeftInv  == BaseInv /\ ("pair" \in mishaps \/ LeftFits)

-------------------------------------------------------------------------------
LEMMA GivenIsPair ==
  ASSUME SessionInv, NEW t \in Caller
  PROVE  /\ call[t] # NoCall => call[t].gives \in Pair \cup {0}
         /\ task[t] # Idle => task[t].pair \in Pair \cup {0}
         /\ Carries(t) => Carried(t) \in Pair
<1>1. call[t] # NoCall => call[t].gives \in Pair \cup {0}
  BY DEF SessionInv, TokensInv, CallsFit
<1>2. task[t] # Idle => task[t].pair \in Pair \cup {0}
  BY Rows DEF FitTask
<1>3. call[t].op = "login" => call[t] # NoCall
  BY DEF NoCall
<1>4. ASSUME Carries(t) PROVE Carried(t) \in Pair
  <2>1. task[t] # Idle /\ Carried(t) # 0
    BY <1>4 DEF Carries, Does
  <2>2. CASE At(t, "call")
    <3>1. call[t].op = "login"
      BY <1>4, <2>2 DEF Carries, At
    <3> QED BY <1>1, <1>3, <2>1, <2>2, <3>1 DEF Carried
  <2>3. CASE ~At(t, "call")
    BY <1>2, <2>1, <2>3 DEF Carried
  <2> QED BY <2>2, <2>3
<1> QED BY <1>1, <1>2, <1>4

LEMMA LoginKept ==
  ASSUME SessionInv, RowsKept, \A t \in Caller : LoginFits(t),
         \A x \in left' : x \in left \/ (disk.access # 0 /\ x = SessionOf(disk.access)),
         disk'.access \in {disk.access, 0},
         \A t \in Caller : Carries(t)' => Carries(t) /\ Carried(t)' = Carried(t)
  PROVE  \A t \in Caller : LoginFits(t)'
<1> SUFFICES ASSUME NEW t \in Caller, Carries(t)'
             PROVE  /\ SessionOf(Carried(t))' \notin left'
                    /\ disk'.access # 0 => SessionOf(Carried(t))' # SessionOf(disk.access)'
                    /\ \A s \in Caller : Carries(s)' /\ s # t =>
                         SessionOf(Carried(s))' # SessionOf(Carried(t))'
  BY DEF LoginFits
<1>1. ASSUME NEW s \in Caller, Carries(s)'
      PROVE  Carries(s) /\ SessionOf(Carried(s))' = SessionOf(Carried(s))
  <2>1. Carries(s) /\ Carried(s)' = Carried(s) /\ Carried(s) \in Pair
    BY <1>1, GivenIsPair
  <2>2. SessionOf(Carried(s))' = tokens'[Carried(s)].session
    BY <2>1 DEF SessionOf
  <2> QED BY <2>1, <2>2 DEF RowsKept, SessionOf
<1>2. disk'.access # 0 => SessionOf(disk.access)' = SessionOf(disk.access) /\ disk.access # 0
  <2>1. disk.access \in Pair \cup {0}
    BY Rows DEF FitKeys
  <2> QED BY <2>1 DEF RowsKept, SessionOf
<1>3. LoginFits(t) /\ Carries(t)
  BY <1>1
<1> QED BY <1>1, <1>2, <1>3 DEF LoginFits

LEMMA CheckKept ==
  ASSUME SessionInv, RowsKept, NEW t \in Caller, CheckFits(t),
         task'[t] = task[t], call'[t] = call[t], UNCHANGED <<mem, left>>
  PROVE  CheckFits(t)'
<1>1. mem.access \in Pair \cup {0} /\ mem.refresh \in Pair \cup {0}
  BY Rows DEF FitKeys
<1>2. call[t].op = "refresh" => call[t] # NoCall
  BY DEF NoCall
<1>3. call[t].op = "refresh" => call[t].gives \in Pair \cup {0}
  BY <1>2, GivenIsPair
<1> SUFFICES ASSUME Does(t, "check"), task[t].pc \in {"call", "write access", "write refresh"}
             PROVE  CheckFits(t)'
  BY DEF CheckFits, Does
<1>4. /\ mem.access # 0 /\ mem.refresh # 0
      /\ SessionOf(mem.access) = SessionOf(mem.refresh) /\ SessionOf(mem.access) \notin left
      /\ task[t].pc # "call" => task[t].pair = mem.access
      /\ task[t].pc = "call" /\ call[t].op = "refresh" =>
           /\ call[t].token = mem.refresh
           /\ call[t].gives # 0 => SessionOf(call[t].gives) = SessionOf(mem.access)
  BY DEF CheckFits
<1>5. /\ SessionOf(mem.access)' = SessionOf(mem.access)
      /\ SessionOf(mem.refresh)' = SessionOf(mem.refresh)
  BY <1>1, <1>4 DEF RowsKept, SessionOf
<1>6. call[t].op = "refresh" /\ call[t].gives # 0 =>
        SessionOf(call[t].gives)' = SessionOf(call[t].gives)
  BY <1>3 DEF RowsKept, SessionOf
<1> QED BY <1>4, <1>5, <1>6 DEF CheckFits

LEMMA DiskKept ==
  ASSUME SessionInv, RowsKept, DiskFits, UNCHANGED <<disk, left>>,
         \A t \in Caller : At(t, "write refresh") => At(t, "write refresh")'
  PROVE  DiskFits'
<1>1. disk.access \in Pair \cup {0} /\ disk.refresh \in Pair \cup {0}
  BY Rows DEF FitKeys
<1>2. disk.access # 0 => SessionOf(disk.access)' = SessionOf(disk.access)
  BY <1>1 DEF RowsKept, SessionOf
<1>3. disk.refresh # 0 => SessionOf(disk.refresh)' = SessionOf(disk.refresh)
  BY <1>1 DEF RowsKept, SessionOf
<1> QED BY <1>2, <1>3 DEF DiskFits

(* A step of handler t, or of the server for it: the other handlers.          *)
LEMMA OthersCarry ==
  ASSUME NEW t \in Caller, TaskOthers(t), CallOthers(t)
  PROVE  \A s \in Caller : s # t =>
           /\ Carries(s)' <=> Carries(s)
           /\ Carried(s)' = Carried(s)
           /\ At(s, "write refresh")' <=> At(s, "write refresh")
BY DEF TaskOthers, CallOthers, Carries, Carried, At, Does

LEMMA NoOtherCheck ==
  ASSUME ScreenFits, NEW t \in Caller, Busy(t) \/ screen # "splash", TaskOthers(t)
  PROVE  \A s \in Caller : s # t => CheckFits(s)'
BY DEF ScreenFits, TaskOthers, CheckFits, Does

LEMMA HandlerKeeps ==
  ASSUME BaseInv, LeftFits, NEW t \in Caller, Busy(t) \/ screen # "splash",
         TaskOthers(t), CallOthers(t), UNCHANGED <<tokens, disk, left>>,
         ~At(t, "write refresh"),
         Carries(t)' => Carries(t) /\ Carried(t)' = Carried(t), CheckFits(t)'
  PROVE  LeftFits'
<1>1. SessionInv /\ RowsKept /\ ScreenFits
  BY RowsSame DEF BaseInv
<1>2. \A s \in Caller : s # t => CheckFits(s)'
  BY <1>1, NoOtherCheck
<1>3. \A s \in Caller : LoginFits(s)'
  <2>1. \A s \in Caller : Carries(s)' => Carries(s) /\ Carried(s)' = Carried(s)
    BY OthersCarry
  <2>2. \A s \in Caller : LoginFits(s)
    BY DEF LeftFits
  <2> QED BY <1>1, <2>1, <2>2, LoginKept
<1>4. DiskFits'
  <2>1. \A s \in Caller : At(s, "write refresh") => At(s, "write refresh")'
    BY OthersCarry
  <2> QED BY <1>1, <2>1, DiskKept DEF LeftFits
<1> QED BY <1>2, <1>3, <1>4 DEF LeftFits

LEMMA BeginsLeft ==
  ASSUME BaseInv, LeftFits, NEW t \in Caller,
         Launch(t) \/ TapLogout(t) \/ \E a \in Account : TapLogin(t, a)
  PROVE  LeftFits'
<1>1. SessionInv
  BY DEF BaseInv
<1>2. CASE Launch(t)
  <2>1. /\ TaskOthers(t) /\ task'[t].op = "check" /\ task'[t].pc = "load" /\ screen = "closed"
        /\ UNCHANGED <<call, tokens, disk, left>>
    BY <1>1, <1>2, LaunchMoves DEF tokenVars
  <2>2. ~At(t, "write refresh") /\ CallOthers(t)
    BY <1>2, <2>1 DEF Launch, Free, At, CallOthers
  <2>3. ~Carries(t)' /\ CheckFits(t)'
    BY <2>1 DEF Carries, CheckFits, Does
  <2> QED BY <2>1, <2>2, <2>3, HandlerKeeps
<1>3. CASE TapLogout(t)
  <2>1. /\ TaskOthers(t) /\ CallOthers(t) /\ task'[t].op = "logout" /\ screen = "in"
        /\ UNCHANGED <<tokens, disk, left>> /\ task[t] = Idle
    BY <1>1, <1>3, TapLogoutMoves
  <2>2. ~At(t, "write refresh")
    BY <2>1 DEF At
  <2>3. ~Carries(t)' /\ CheckFits(t)'
    BY <2>1 DEF Carries, CheckFits, Does
  <2> QED BY <2>1, <2>2, <2>3, HandlerKeeps
<1>4. CASE \E a \in Account : TapLogin(t, a)
  <2>1. /\ TaskOthers(t) /\ CallOthers(t) /\ task'[t].op = "login" /\ screen = "login"
        /\ task'[t].pc = "call" /\ task'[t] # Idle /\ call'[t].gives = 0
        /\ UNCHANGED <<tokens, disk, left>> /\ task[t] = Idle
    BY <1>1, <1>4, TapLoginMoves
  <2>2. ~At(t, "write refresh")
    BY <2>1 DEF At
  <2>3. ~Carries(t)' /\ CheckFits(t)'
    BY <2>1 DEF Carries, Carried, CheckFits, Does, At
  <2> QED BY <2>1, <2>2, <2>3, HandlerKeeps
<1> QED BY <1>2, <1>3, <1>4

LEMMA CloseLeft ==
  ASSUME BaseInv, LeftFits, Close, "pair" \notin mishaps'
  PROVE  LeftFits'
<1>1. SessionInv /\ (\A t \in Caller : task'[t] = Idle) /\ UNCHANGED <<disk, left, tokens>>
  BY CloseMoves DEF BaseInv
<1>2. \A t \in Caller : ~At(t, "write refresh")
  BY CloseMoves DEF BaseInv, At, Busy
<1>3. \A t \in Caller : LoginFits(t)' /\ CheckFits(t)'
  BY <1>1 DEF LoginFits, Carries, CheckFits, Does
<1>4. DiskFits'
  BY <1>1, <1>2, RowsSame, DiskKept DEF LeftFits
<1> QED BY <1>3, <1>4 DEF LeftFits

LEMMA LoadLeft ==
  ASSUME BaseInv, LeftFits, NEW t \in Caller, Load(t)
  PROVE  LeftFits'
<1>1. SessionInv /\ Phases /\ ScreenFits
  BY DEF BaseInv
<1>2. /\ Busy(t) /\ task[t].pc = "load" /\ TaskOthers(t) /\ CallOthers(t) /\ mem' = disk
      /\ UNCHANGED <<disk, left, tokens>>
  BY <1>1, LoadMoves
<1>3. task[t].op = "check" /\ Does(t, "check") /\ ~At(t, "write refresh")
  BY <1>1, <1>2 DEF Phases, PhaseFits, Busy, Does, At
<1>4. \A s \in Caller : ~At(s, "write refresh")
  BY <1>1, <1>3 DEF ScreenFits, Busy, At
<1>5. CASE task'[t] = Idle
  BY <1>2, <1>3, <1>5, HandlerKeeps DEF Carries, CheckFits, Does
<1>6. CASE /\ task'[t] # Idle /\ task'[t].op = task[t].op /\ task'[t].pc = "call"
           /\ disk.access # 0 /\ disk.refresh # 0 /\ call'[t].op = "me"
  <2>1. ~Carries(t)'
    BY <1>3, <1>6 DEF Carries, Does
  <2>2. /\ SessionOf(disk.access) \notin left
        /\ SessionOf(disk.access) = SessionOf(disk.refresh)
    BY <1>4, <1>6 DEF LeftFits, DiskFits
  <2>3. CheckFits(t)'
    BY <1>2, <1>6, <2>2 DEF CheckFits, SessionOf
  <2> QED BY <1>2, <1>3, <2>1, <2>3, HandlerKeeps
<1> QED BY <1>1, <1>5, <1>6, LoadMoves

LEMMA AnswerLeft ==
  ASSUME BaseInv, LeftFits, NEW t \in Caller, Answer(t)
  PROVE  LeftFits'
<1>1. SessionInv /\ Phases /\ ScreenFits
  BY DEF BaseInv
<1>2. Busy(t) /\ task[t].pc = "call" /\ call[t] # NoCall /\ UNCHANGED <<disk, left>>
  BY <1>1, AnswerMoves
<1>3. ~At(t, "write refresh") /\ CheckFits(t)
  BY <1>2 DEF At, LeftFits
<1>4. CASE SignedIn(t)
  <2>1. TaskOthers(t) /\ CallOthers(t) /\ task'[t] = Idle /\ UNCHANGED tokens
    BY <1>1, <1>4, SignedInMoves
  <2>2. ~Carries(t)' /\ CheckFits(t)'
    BY <2>1 DEF Carries, CheckFits, Does
  <2> QED BY <1>2, <1>3, <2>1, <2>2, HandlerKeeps
<1>5. CASE RefreshesSession(t)
  <2>1. /\ UNCHANGED <<task, mem, tokens>> /\ CallOthers(t)
        /\ call'[t].op = "refresh" /\ call'[t].token = mem.refresh /\ call'[t].gives = 0
        /\ Does(t, "check")
    BY <1>1, <1>5, RefreshMoves
  <2>2. TaskOthers(t) /\ ~Carries(t)'
    BY <2>1 DEF TaskOthers, Carries, Does
  <2>3. CheckFits(t)'
    BY <1>2, <1>3, <2>1 DEF CheckFits, Does, SessionOf
  <2> QED BY <1>2, <1>3, <2>1, <2>2, <2>3, HandlerKeeps
<1>6. CASE GetsPair(t)
  <2>1. /\ TaskOthers(t) /\ task'[t] # Idle /\ task'[t].op = task[t].op
        /\ task'[t].pc = "write access" /\ task'[t].pair = call[t].gives /\ CallOthers(t)
        /\ mem' = [access |-> call[t].gives, refresh |-> call[t].gives] /\ UNCHANGED tokens
        /\ call[t].op \in {"login", "refresh"} /\ call[t].gives # 0
    BY <1>1, <1>2, <1>6, GetsPairMoves
  <2>2. call[t].op = "login" => task[t].op = "login"
    BY <1>1, <1>2 DEF Phases, PhaseFits, Busy
  <2>3. call[t].op = "refresh" => task[t].op = "check"
    BY <1>1, <1>2 DEF Phases, PhaseFits, Busy
  <2>4. Carries(t)' => Carries(t) /\ Carried(t)' = Carried(t)
    BY <1>2, <2>1, <2>2, <2>3 DEF Carries, Carried, At, Does, Busy
  <2>5. CheckFits(t)'
    <3>1. CASE call[t].op = "login"
      BY <2>1, <2>2, <3>1 DEF CheckFits, Does
    <3>2. CASE call[t].op = "refresh"
      <4>1. SessionOf(call[t].gives) \notin left
        BY <1>2, <1>3, <2>1, <2>3, <3>2 DEF CheckFits, Does, Busy
      <4>2. mem'.access = call[t].gives /\ mem'.refresh = call[t].gives
        BY <2>1
      <4>3. SessionOf(call[t].gives) = tokens'[call[t].gives].session /\ left' = left
        BY <1>2, <2>1 DEF SessionOf
      <4> QED BY <2>1, <4>1, <4>2, <4>3 DEF CheckFits, SessionOf
    <3> QED BY <2>1, <3>1, <3>2
  <2> QED BY <1>2, <1>3, <2>1, <2>4, <2>5, HandlerKeeps
<1>7. CASE GivesUp(t) /\ TaskOthers(t) /\ CallOthers(t) /\ UNCHANGED tokens
  <2>1. task'[t] = Idle \/ task'[t].pc = "clear access"
    BY <1>1, <1>2, <1>7, GivesUpMoves
  <2>2. ~Carries(t)' /\ CheckFits(t)'
    BY <2>1 DEF Carries, CheckFits, Does, At
  <2> QED BY <1>2, <1>3, <1>7, <2>2, HandlerKeeps
<1> QED BY <1>1, <1>4, <1>5, <1>6, <1>7, AnswerMoves

LEMMA LoseLeft ==
  ASSUME BaseInv, LeftFits, NEW t \in Caller, Lose(t)
  PROVE  LeftFits'
<1>1. SessionInv
  BY DEF BaseInv
<1>2. /\ Busy(t) /\ task[t].pc = "call" /\ GivesUp(t) /\ TaskOthers(t) /\ CallOthers(t)
      /\ UNCHANGED <<disk, left, tokens>>
  BY <1>1, LoseMoves
<1>3. task'[t] = Idle \/ task'[t].pc = "clear access"
  BY <1>1, <1>2, GivesUpMoves
<1>4. ~Carries(t)' /\ CheckFits(t)' /\ ~At(t, "write refresh")
  BY <1>2, <1>3 DEF Carries, CheckFits, Does, At
<1> QED BY <1>2, <1>4, HandlerKeeps

LEMMA WriteAccessLeft ==
  ASSUME BaseInv, LeftFits, NEW t \in Caller, WriteAccess(t)
  PROVE  LeftFits'
<1>1. SessionInv /\ Phases /\ ScreenFits
  BY DEF BaseInv
<1>2. /\ Busy(t) /\ task[t].pc = "write access" /\ TaskOthers(t)
      /\ task'[t] # Idle /\ task'[t].op = task[t].op /\ task'[t].pc = "write refresh"
      /\ task'[t].pair = task[t].pair
      /\ disk'.access = task[t].pair /\ UNCHANGED <<tokens, call, mem, left>>
  BY <1>1, WriteAccessMoves DEF tokenVars
<1>3. task[t].op # "logout" /\ CallOthers(t)
  BY <1>1, <1>2 DEF Phases, PhaseFits, Busy, CallOthers
<1>4. task[t].op = "check" \/ task[t].op = "login"
  BY <1>1, <1>2, <1>3, Rows DEF FitTask, Busy
<1>5. LoginFits(t) /\ CheckFits(t) /\ \A s \in Caller : LoginFits(s)
  BY DEF LeftFits
<1>6. task[t].op = "login" /\ task[t].pair # 0 => Carries(t) /\ Carried(t) = task[t].pair
  BY <1>2 DEF Carries, Carried, At, Does, Busy
<1>7. task[t].op = "check" => task[t].pair = mem.access /\ SessionOf(mem.access) \notin left
  BY <1>2, <1>5 DEF CheckFits, Does, Busy
<1>8. task[t].pair # 0 => SessionOf(task[t].pair) \notin left
  BY <1>4, <1>5, <1>6, <1>7 DEF LoginFits
<1>9. DiskFits'
  <2>1. At(t, "write refresh")'
    BY <1>2 DEF At
  <2> QED BY <1>2, <1>8, <2>1 DEF DiskFits, SessionOf
<1>10. \A s \in Caller : CheckFits(s)'
  <2>1. CheckFits(t)'
    BY <1>2, <1>5 DEF CheckFits, Does, Busy, SessionOf
  <2> QED BY <1>1, <1>2, <2>1, NoOtherCheck
<1>11. ASSUME NEW s \in Caller, Carries(s)'
       PROVE  LoginFits(s)'
  <2>1. s # t
    BY <1>2, <1>11 DEF Carries, At
  <2>2. /\ \A r \in Caller : r # t => (Carries(r)' <=> Carries(r)) /\ Carried(r)' = Carried(r)
        /\ ~Carries(t)'
    BY <1>2, <1>3, OthersCarry DEF Carries, At
  <2>3. Carries(s) /\ LoginFits(s) /\ Busy(s)
    BY <1>5, <1>11, <2>1, <2>2 DEF Carries, Does, Busy
  <2>4. task[t].op = "login"
    BY <1>1, <1>2, <1>4, <2>1, <2>3 DEF ScreenFits, Does, Busy
  <2>5. task[t].pair # 0 => SessionOf(Carried(s)) # SessionOf(task[t].pair)
    BY <1>5, <1>6, <2>1, <2>3, <2>4 DEF LoginFits
  <2>7. SessionOf(Carried(s))' \notin left'
    BY <1>2, <2>1, <2>2, <2>3 DEF LoginFits, SessionOf
  <2>8. disk'.access # 0 => SessionOf(Carried(s))' # SessionOf(disk.access)'
    BY <1>2, <2>1, <2>2, <2>5 DEF SessionOf
  <2>9. ASSUME NEW r \in Caller, Carries(r)', r # s
        PROVE  SessionOf(Carried(r))' # SessionOf(Carried(s))'
    BY <1>2, <2>1, <2>2, <2>3, <2>9 DEF LoginFits, SessionOf
  <2> QED BY <2>7, <2>8, <2>9 DEF LoginFits
<1> QED BY <1>9, <1>10, <1>11 DEF LeftFits, LoginFits

LEMMA WriteRefreshLeft ==
  ASSUME BaseInv, LeftFits, NEW t \in Caller, WriteRefresh(t), "pair" \notin mishaps'
  PROVE  LeftFits'
<1>1. SessionInv /\ ScreenFits
  BY DEF BaseInv
<1>2. /\ Busy(t) /\ task[t].pc = "write refresh" /\ TaskOthers(t) /\ CallOthers(t)
      /\ task'[t] # Idle /\ task'[t].op = task[t].op /\ task'[t].pc = "call"
      /\ call'[t].op = "me" /\ disk'.access = disk.access /\ disk'.refresh = task[t].pair
      /\ disk.access \in {0, task[t].pair} /\ UNCHANGED <<tokens, mem, left>>
  BY <1>1, WriteRefreshMoves
<1>3. RowsKept /\ \A s \in Caller : LoginFits(s) /\ CheckFits(s)
  BY <1>2, RowsSame DEF LeftFits
<1>4. DiskFits'
  BY <1>2 DEF LeftFits, DiskFits, SessionOf
<1>5. \A s \in Caller : CheckFits(s)'
  <2>1. CheckFits(t)'
    BY <1>2, <1>3 DEF CheckFits, Does, Busy, SessionOf
  <2> QED BY <1>1, <1>2, <2>1, NoOtherCheck
<1>6. \A s \in Caller : LoginFits(s)'
  <2>1. ~Carries(t)'
    BY <1>2 DEF Carries, At
  <2>2. \A s \in Caller : Carries(s)' => Carries(s) /\ Carried(s)' = Carried(s)
    BY <1>2, <2>1, OthersCarry
  <2>3. disk'.access \in {disk.access, 0} /\ left' = left
    BY <1>2
  <2> QED BY <1>1, <1>3, <2>2, <2>3, LoginKept
<1> QED BY <1>4, <1>5, <1>6 DEF LeftFits

LEMMA ClearLeft ==
  ASSUME BaseInv, LeftFits, NEW t \in Caller, ClearAccess(t) \/ ClearRefresh(t)
  PROVE  LeftFits'
<1>1. SessionInv /\ ScreenFits
  BY DEF BaseInv
<1>2. /\ Busy(t) /\ TaskOthers(t) /\ task[t].pc \in {"clear access", "clear refresh"}
      /\ task'[t] = Idle \/ task'[t].pc = "clear refresh"
      /\ UNCHANGED <<tokens, call, mem>>
  BY <1>1, ClearAccessMoves, ClearRefreshMoves DEF tokenVars
<1>3. /\ disk'.access = 0 \/ (disk'.access = disk.access /\ disk'.refresh = 0 /\ left' = left)
      /\ left' \in {left, left \cup {SessionOf(disk.access)}}
      /\ disk.access = 0 => left' = left
  BY <1>1, ClearAccessMoves, ClearRefreshMoves
<1>4. RowsKept /\ (\A s \in Caller : LoginFits(s)) /\ CallOthers(t)
  BY <1>2, RowsSame DEF LeftFits, CallOthers
<1>5. DiskFits'
  BY <1>2, <1>3 DEF LeftFits, DiskFits, SessionOf
<1>6. \A s \in Caller : CheckFits(s)'
  <2>1. CheckFits(t)'
    BY <1>2 DEF CheckFits, Does
  <2> QED BY <1>1, <1>2, <2>1, NoOtherCheck
<1>7. \A s \in Caller : LoginFits(s)'
  <2>1. ~Carries(t)'
    BY <1>2 DEF Carries, Does, At
  <2>2. \A s \in Caller : Carries(s)' => Carries(s) /\ Carried(s)' = Carried(s)
    BY <1>2, <1>4, <2>1, OthersCarry
  <2>3. disk'.access \in {disk.access, 0}
    BY <1>3
  <2>4. \A x \in left' : x \in left \/ (disk.access # 0 /\ x = SessionOf(disk.access))
    BY <1>3
  <2> QED BY <1>1, <1>4, <2>2, <2>3, <2>4, LoginKept
<1> QED BY <1>5, <1>6, <1>7 DEF LeftFits

LEMMA StoreFailsLeft ==
  ASSUME BaseInv, LeftFits, NEW t \in Caller, StoreFails(t), "pair" \notin mishaps'
  PROVE  LeftFits'
<1>1. /\ Busy(t) /\ TaskOthers(t) /\ task'[t] = Idle /\ task[t].pc # "write refresh"
      /\ UNCHANGED <<tokens, call, disk, left>>
  BY StoreFailsMoves DEF BaseInv, tokenVars
<1>2. ~Carries(t)' /\ CheckFits(t)' /\ ~At(t, "write refresh") /\ CallOthers(t)
  BY <1>1 DEF Carries, CheckFits, Does, At, CallOthers
<1> QED BY <1>1, <1>2, HandlerKeeps

(* A login is served with a session of its own.                               *)
LEMMA LoginServed ==
  ASSUME BaseInv, NEW c \in Caller, Serve(c), UNCHANGED task, Carries(c)', At(c, "call")
  PROVE  SessionOf(Carried(c))' \notin Pair
<1>1. CallServed(c) /\ Answer0(c) /\ At(c, "call")' /\ task[c].op = "login"
  BY Serves DEF BaseInv, ServedAs, At, Carries, Does
<1>2. call'[c].op = "login" /\ call'[c].gives # 0 /\ Carried(c)' = call'[c].gives
  BY <1>1 DEF Carries, Carried, At
<1>3. call'[c] # NoCall
  BY <1>2 DEF NoCall
<1>4. call[c].op = "login" /\ (call'[c].at # "done" => call'[c].gives = call[c].gives)
  BY <1>1, <1>2, <1>3 DEF CallServed
<1>5. call[c].at # "done" /\ call[c].gives = 0
  BY <1>1 DEF BaseInv, Phases, PhaseFits, At, CallServed
<1>6. call'[c].at = "done"
  BY <1>2, <1>4, <1>5
<1>7. NewRow(call'[c].gives, call'[c].gives)
  BY <1>1, <1>3, <1>4, <1>6 DEF Answer0
<1> QED BY <1>2, <1>7 DEF NewRow, SessionOf

LEMMA ServeLeft ==
  ASSUME BaseInv, LeftFits, NEW c \in Caller, Serve(c), UNCHANGED appVars
  PROVE  LeftFits'
<1>1. SessionInv /\ Phases /\ ScreenFits /\ LeftDrawn
  BY DEF BaseInv
<1>2. /\ CallServed(c) /\ Answer0(c) /\ RowsKept /\ CallOthers(c)
      /\ UNCHANGED <<task, disk, mem, left>> /\ TaskOthers(c)
  BY <1>1, Serves DEF ServedAs, CallServed, appVars, TaskOthers
<1>3. \A s \in Caller : LoginFits(s) /\ CheckFits(s)
  BY DEF LeftFits
<1>4. DiskFits'
  <2>1. \A s \in Caller : At(s, "write refresh") => At(s, "write refresh")'
    BY <1>2 DEF At
  <2> QED BY <1>1, <1>2, <2>1, DiskKept DEF LeftFits
<1>5. ASSUME NEW s \in Caller PROVE CheckFits(s)'
  <2>1. CASE s # c
    BY <1>1, <1>2, <1>3, <2>1, CheckKept DEF CallOthers
  <2>2. CASE s = c
    <3> SUFFICES ASSUME Does(c, "check"), task[c].pc \in {"call", "write access", "write refresh"}
                 PROVE  CheckFits(c)'
      BY <1>2, <2>2 DEF CheckFits, Does
    <3>1. /\ mem.access # 0 /\ mem.refresh # 0
          /\ SessionOf(mem.access) = SessionOf(mem.refresh) /\ SessionOf(mem.access) \notin left
          /\ task[c].pc # "call" => task[c].pair = mem.access
          /\ task[c].pc = "call" /\ call[c].op = "refresh" =>
               /\ call[c].token = mem.refresh
               /\ call[c].gives # 0 => SessionOf(call[c].gives) = SessionOf(mem.access)
      BY <1>3 DEF CheckFits
    <3>2. mem.access \in Pair /\ mem.refresh \in Pair
      BY <1>1, <3>1, Rows DEF FitKeys
    <3>3. SessionOf(mem.access)' = SessionOf(mem.access) /\ SessionOf(mem.refresh)' = SessionOf(mem.refresh)
      BY <1>2, <3>2 DEF RowsKept, SessionOf
    <3>4. ASSUME task[c].pc = "call", call'[c].op = "refresh"
          PROVE  /\ call'[c].token = mem.refresh
                 /\ call'[c].gives # 0 => SessionOf(call[c].gives)' = SessionOf(mem.access)
      <4>1. call'[c] # NoCall
        BY <3>4 DEF NoCall
      <4>2. /\ call[c].op = "refresh" /\ call'[c].token = call[c].token
            /\ call'[c].at # "done" => call'[c].gives = call[c].gives
        BY <1>2, <3>4, <4>1 DEF CallServed
      <4>3. call[c].gives = 0
        BY <1>1, <1>2, <3>4 DEF Phases, PhaseFits, CallServed, Does
      <4>4. CASE call'[c].at = "done" /\ call'[c].gives # 0
        <5>1. NewRow(call'[c].gives, tokens[mem.refresh].session)
          BY <1>2, <3>1, <3>4, <4>1, <4>2, <4>4 DEF Answer0
        <5> QED BY <3>1, <3>4, <4>2, <5>1 DEF NewRow, SessionOf
      <4> QED BY <3>1, <3>4, <4>2, <4>3, <4>4
    <3> QED BY <1>2, <2>2, <3>1, <3>3, <3>4 DEF CheckFits, Does
  <2> QED BY <2>1, <2>2
<1>6. \A s \in Caller : LoginFits(s)'
  <2>1. \A s \in Caller : s # c => (Carries(s)' <=> Carries(s)) /\ Carried(s)' = Carried(s)
    BY <1>2, OthersCarry
  <2>2. CASE Carries(c)' /\ At(c, "call")
    <3>1. SessionOf(Carried(c))' \notin Pair
      BY <1>2, <2>2, LoginServed
    <3>2. \A x \in left' : x \in Pair
      BY <1>1, <1>2 DEF LeftDrawn
    <3>3. disk'.access # 0 => /\ SessionOf(disk.access)' \in Pair
                              /\ SessionOf(disk.access)' = SessionOf(disk.access)
                              /\ disk.access # 0
      <4>1. disk.access \in Pair \cup {0}
        BY <1>1, Rows DEF FitKeys
      <4> QED BY <1>1, <1>2, <4>1, Rows DEF RowsKept, SessionOf
    <3>4. ASSUME NEW s \in Caller, s # c, Carries(s)'
          PROVE  /\ SessionOf(Carried(s))' \in Pair /\ Carries(s)
                 /\ SessionOf(Carried(s))' = SessionOf(Carried(s))
      <4>1. Carries(s) /\ Carried(s)' = Carried(s) /\ Carried(s) \in Pair
        BY <1>1, <2>1, <3>4, GivenIsPair
      <4>2. SessionOf(Carried(s))' = tokens'[Carried(s)].session
        BY <4>1 DEF SessionOf
      <4> QED BY <1>1, <1>2, <4>1, <4>2, Rows DEF RowsKept, SessionOf
    <3>5. LoginFits(c)'
      BY <3>1, <3>2, <3>3, <3>4 DEF LoginFits
    <3>6. ASSUME NEW s \in Caller, s # c PROVE LoginFits(s)'
      <4> SUFFICES ASSUME Carries(s)'
                   PROVE  /\ SessionOf(Carried(s))' \notin left'
                          /\ disk'.access # 0 => SessionOf(Carried(s))' # SessionOf(disk.access)'
                          /\ \A r \in Caller : Carries(r)' /\ r # s =>
                               SessionOf(Carried(r))' # SessionOf(Carried(s))'
        BY DEF LoginFits
      <4>1. Carries(s) /\ LoginFits(s)
        BY <1>3, <3>4, <3>6
      <4>2. SessionOf(Carried(s))' \notin left'
        BY <1>2, <3>4, <3>6, <4>1 DEF LoginFits
      <4>3. disk'.access # 0 => SessionOf(Carried(s))' # SessionOf(disk.access)'
        BY <1>2, <3>3, <3>4, <3>6, <4>1 DEF LoginFits
      <4>4. ASSUME NEW r \in Caller, Carries(r)', r # s
            PROVE  SessionOf(Carried(r))' # SessionOf(Carried(s))'
        BY <3>1, <3>4, <3>6, <4>1, <4>4 DEF LoginFits
      <4> QED BY <4>2, <4>3, <4>4
    <3> QED BY <3>5, <3>6
  <2>3. CASE ~(Carries(c)' /\ At(c, "call"))
    <3>1. Carries(c)' => Carries(c) /\ Carried(c)' = Carried(c)
      BY <1>2, <2>3 DEF Carries, Carried, At, Does
    <3>2. \A s \in Caller : Carries(s)' => Carries(s) /\ Carried(s)' = Carried(s)
      BY <2>1, <3>1
    <3>3. disk'.access \in {disk.access, 0} /\ left' = left
      BY <1>2
    <3> QED BY <1>1, <1>2, <1>3, <3>2, <3>3, LoginKept
  <2> QED BY <2>2, <2>3
<1> QED BY <1>4, <1>5, <1>6 DEF LeftFits

LEMMA IdleLeft ==
  ASSUME LeftFits, UNCHANGED <<tokens, call, appVars>>
  PROVE  LeftFits'
BY DEF appVars, LeftFits, DiskFits, LoginFits, CheckFits, Carries, Carried, At, Does, SessionOf

LEMMA LeftInitial == Init => LeftInv
<1> SUFFICES ASSUME Init PROVE LeftInv
  OBVIOUS
<1>1. (\A t \in Caller : task[t] = Idle) /\ disk.access = 0
  BY DEF Init, NoKey
<1>2. LeftFits
  BY <1>1 DEF LeftFits, DiskFits, LoginFits, CheckFits, Carries, Does
<1> QED BY <1>2, BaseInitial DEF LeftInv

LEMMA LeftStep == LeftInv /\ [Next]_vars => LeftInv'
<1> SUFFICES ASSUME LeftInv, [Next]_vars PROVE LeftInv'
  OBVIOUS
<1>1. BaseInv /\ BaseInv' /\ SessionInv
  BY BaseStep DEF LeftInv, BaseInv
<1>2. mishaps \subseteq mishaps'
  BY DEF Next, Step, Launch, TapLogout, TapLogin, Load, Answer, Lose, StoreFails, Close, WriteAccess,
     WriteRefresh, ClearAccess, ClearRefresh, appVars, vars
<1>3. CASE "pair" \in mishaps'
  BY <1>1, <1>3 DEF LeftInv
<1>4. CASE "pair" \notin mishaps'
  <2>0. LeftFits
    BY <1>2, <1>4 DEF LeftInv
  <2>1. LeftFits'
    <3>1. CASE UNCHANGED vars
      BY <2>0, <3>1, IdleLeft DEF vars, tokenVars
    <3>2. CASE \E k \in Pair : Expire(k) /\ UNCHANGED appVars
      BY <2>0, <3>2, IdleLeft DEF Expire
    <3>3. CASE Close
      BY <1>1, <1>4, <2>0, <3>3, CloseLeft
    <3>4. CASE \E t \in Caller :
                 \/ Launch(t) \/ TapLogout(t) \/ \E a \in Account : TapLogin(t, a)
                 \/ Step(t) \/ Lose(t) \/ StoreFails(t)
                 \/ Serve(t) /\ UNCHANGED appVars
      BY <1>1, <1>4, <2>0, <3>4, BeginsLeft, LoadLeft, AnswerLeft, LoseLeft, WriteAccessLeft,
         WriteRefreshLeft, ClearLeft, StoreFailsLeft, ServeLeft DEF Step
    <3> QED BY <3>1, <3>2, <3>3, <3>4 DEF Next
  <2> QED BY <1>1, <2>1 DEF LeftInv
<1> QED BY <1>3, <1>4

-------------------------------------------------------------------------------
(* No check signs in with a session that a logout has begun to remove.        *)
LEMMA StaysStep ==
  LeftInv /\ [Next]_vars =>
    (screen = "splash" /\ screen' = "in" /\ "pair" \notin mishaps =>
       tokens[mem.access].session \notin left)
<1> SUFFICES ASSUME LeftInv, [Next]_vars, screen = "splash", screen' = "in", "pair" \notin mishaps
             PROVE  tokens[mem.access].session \notin left
  OBVIOUS
<1>1. BaseInv /\ SessionInv /\ LeftFits /\ ScreenFits
  BY DEF LeftInv, BaseInv
<1>2. PICK t \in Caller : Busy(t) /\ task[t].pc = "call"
  <2>1. ~UNCHANGED vars /\ ~UNCHANGED screen /\ screen' # "closed" /\ screen' # "login"
        /\ screen' # "splash" /\ screen' # "loading"
    BY DEF vars, appVars
  <2>2. PICK t \in Caller : Answer(t) \/ Lose(t)
    BY <2>1 DEF Next, Step, Launch, TapLogout, TapLogin, Load, StoreFails, Close, WriteAccess, WriteRefresh,
       ClearAccess, ClearRefresh, appVars, vars, Ends
  <2> QED BY <1>1, <2>2, AnswerMoves, LoseMoves
<1>3. Does(t, "check")
  BY <1>1, <1>2 DEF ScreenFits
<1> QED BY <1>1, <1>2, <1>3 DEF LeftFits, CheckFits, SessionOf

(* A restart never comes back to a session that a logout has begun to remove  *)
(* from the device.                                                           *)
THEOREM SignedOut == Spec => SignedOutStays
<1>1. LeftInv /\ [Next]_vars =>
        [screen = "splash" /\ screen' = "in" /\ "pair" \notin mishaps =>
           tokens[mem.access].session \notin left]_vars
  BY StaysStep
<1> QED BY LeftInitial, LeftStep, <1>1, PTL DEF Spec, SignedOutStays

-------------------------------------------------------------------------------
(* Which pairs can be relied on: nobody is about to revoke a firm one, and of *)
(* a sound one at least the access token no longer works.                     *)
Revokes(c, k) == call[c] # NoCall /\ call[c].op \in {"refresh", "logout"} /\ call[c].token = k

Firm(k)  == k \in Live /\ \A c \in Caller : ~Revokes(c, k)
Sound(k) == Firm(k) \/ (k \in expired /\ \A c \in Caller : Revokes(c, k) => call[c].op = "refresh")

NoLogout == \A t \in Caller : ~LoggingOut(t)
Alone    == \A s, t \in Caller : Busy(s) /\ Busy(t) => s = t

(* The key store has no pair, a sound one, or one being written.              *)
DiskSound ==
  NoLogout => \/ disk.access = 0
              \/ disk.access = disk.refresh /\ Sound(disk.access)
              \/ \E t \in Caller : At(t, "write refresh")

CallFits(t) ==
  /\ call[t].op \in {"login", "refresh"} /\ call[t].gives # 0 => Firm(call[t].gives)
  /\ call[t].op \in {"me", "refresh"} =>
       mem = disk /\ mem.access = call[t].token /\ mem.refresh = call[t].token /\ call[t].token # 0
  /\ call[t].op = "me" /\ call[t].at = "done" =>
       IF call[t].gives # 0 THEN Firm(call[t].gives) ELSE call[t].token \in expired
  /\ call[t].op = "refresh" => call[t].token \in expired

HandlerFits(t) ==
  Busy(t) =>
    /\ task[t].op = "login" => screen = "loading"
    /\ task[t].op = "logout" => screen = "in"
    /\ task[t].pc = "clear refresh" => disk.access = 0
    /\ task[t].pc \in {"write access", "write refresh"} =>
         mem.access = task[t].pair /\ mem.refresh = task[t].pair /\ Firm(task[t].pair)
    /\ task[t].pc = "write refresh" => disk.access = task[t].pair
    /\ task[t].pc = "call" => CallFits(t)

InFits ==
  screen = "in" /\ NoLogout =>
    /\ mem = disk /\ mem.access = mem.refresh /\ Firm(mem.refresh)
    /\ tokens[mem.refresh].owner = user

UseFits == Alone /\ DiskSound /\ InFits /\ \A t \in Caller : HandlerFits(t)
UseInv  == BaseInv /\ (mishaps = {} => UseFits)

-------------------------------------------------------------------------------
(* A step that asks for no revocation, and makes none that nobody asked for.  *)
Mild ==
  /\ \A c \in Caller, k \in Pair' \cup {0} :
       Revokes(c, k)' => Revokes(c, k) /\ call'[c].op = call[c].op
  /\ \A k \in Live : k \in Live' \/ \E c \in Caller : Revokes(c, k)
  /\ expired \subseteq expired'
  /\ RowsKept

LEMMA MildKeeps ==
  ASSUME Mild, NEW k \in Pair
  PROVE  (Firm(k) => Firm(k)') /\ (Sound(k) => Sound(k)')
<1>1. k \in Pair'
  BY DEF Mild, RowsKept
<1>2. \A c \in Caller : Revokes(c, k)' => Revokes(c, k) /\ call'[c].op = call[c].op
  BY <1>1 DEF Mild
<1>3. Firm(k) => Firm(k)'
  BY <1>2 DEF Mild, Firm
<1>4. k \in expired => k \in expired'
  BY DEF Mild
<1> QED BY <1>2, <1>3, <1>4 DEF Sound

LEMMA MildHandler ==
  ASSUME UNCHANGED <<tokens, expired>>, NEW t \in Caller, CallOthers(t),
         call'[t] # NoCall => \/ call'[t].op \notin {"refresh", "logout"}
                             \/ /\ call[t] # NoCall
                                /\ call'[t].op = call[t].op /\ call'[t].token = call[t].token
  PROVE  Mild
<1>1. RowsKept /\ Live' = Live /\ Pair' = Pair
  BY RowsSame
<1>2. \A c \in Caller, k \in Pair' \cup {0} :
        Revokes(c, k)' => Revokes(c, k) /\ call'[c].op = call[c].op
  BY DEF CallOthers, Revokes
<1> QED BY <1>1, <1>2 DEF Mild

LEMMA MildServe == ASSUME NEW c \in Caller, ServedAs(c) PROVE Mild
<1>1. \A d \in Caller, k \in Pair' \cup {0} :
        Revokes(d, k)' => Revokes(d, k) /\ call'[d].op = call[d].op
  BY DEF ServedAs, CallServed, CallOthers, Revokes
<1>2. \A k \in Live : k \in Live' \/ Revokes(c, k)
  BY DEF ServedAs, CallServed, RevokedBy, Revokes
<1> QED BY <1>1, <1>2 DEF Mild, ServedAs

(* With one handler at work.                                                  *)
LEMMA OthersIdle ==
  ASSUME UseFits, NEW t \in Caller, Busy(t)
  PROVE  /\ \A s \in Caller : s # t => task[s] = Idle
         /\ task[t].op # "logout" => NoLogout
         /\ task[t].pc # "write refresh" => \A s \in Caller : ~At(s, "write refresh")
BY DEF UseFits, Alone, Busy, NoLogout, LoggingOut, Does, At

LEMMA DiskStays ==
  ASSUME SessionInv, DiskSound, NoLogout, \A s \in Caller : ~At(s, "write refresh"),
         Mild, UNCHANGED disk
  PROVE  DiskSound'
<1>1. disk.access \in Pair \cup {0}
  BY Rows DEF FitKeys
<1>2. CASE disk.access = 0
  BY <1>2 DEF DiskSound
<1>3. CASE disk.access # 0
  <2>1. disk.access \in Pair /\ disk.access = disk.refresh /\ Sound(disk.access)
    BY <1>1, <1>3 DEF DiskSound
  <2>2. PICK k \in Pair : k = disk.access
    BY <2>1
  <2>3. Sound(k)'
    BY <2>1, <2>2, MildKeeps
  <2> QED BY <2>1, <2>2, <2>3 DEF DiskSound
<1> QED BY <1>2, <1>3

LEMMA UseAfter ==
  ASSUME NEW t \in Caller, \A s \in Caller : s # t => task[s] = Idle, TaskOthers(t),
         HandlerFits(t)', DiskSound', InFits'
  PROVE  UseFits'
<1>1. \A s \in Caller : s # t => ~Busy(s)'
  BY DEF TaskOthers, Busy
<1> QED BY <1>1 DEF UseFits, Alone, HandlerFits

LEMMA InFitsElsewhere == ASSUME screen' # "in" PROVE InFits'
BY DEF InFits

LEMMA InFitsLeaving == ASSUME NEW t \in Caller, LoggingOut(t)' PROVE InFits' /\ DiskSound'
BY DEF InFits, DiskSound, NoLogout

-------------------------------------------------------------------------------
LEMMA BeginsUse ==
  ASSUME BaseInv, UseFits, NEW t \in Caller, mishaps' = {},
         Launch(t) \/ TapLogout(t) \/ \E a \in Account : TapLogin(t, a)
  PROVE  UseFits'
<1>1. SessionInv /\ ScreenFits /\ DiskSound /\ \A s \in Caller : HandlerFits(s)
  BY DEF BaseInv, UseFits
<1>2. CASE Launch(t)
  <2>1. /\ TaskOthers(t) /\ task'[t].op = "check" /\ task'[t].pc = "load"
        /\ screen = "closed" /\ screen' = "splash" /\ UNCHANGED <<call, tokens, expired, disk>>
    BY <1>1, <1>2, LaunchMoves DEF tokenVars
  <2>2. \A s \in Caller : task[s] = Idle
    BY <1>1, <2>1 DEF ScreenFits, Busy
  <2>3. NoLogout /\ (\A s \in Caller : ~At(s, "write refresh")) /\ Mild
    BY <2>1, <2>2, MildHandler DEF NoLogout, LoggingOut, Does, At, CallOthers
  <2>4. HandlerFits(t)' /\ DiskSound' /\ InFits'
    BY <1>1, <2>1, <2>3, DiskStays, InFitsElsewhere DEF HandlerFits
  <2> QED BY <2>1, <2>2, <2>4, UseAfter
<1>3. CASE TapLogout(t)
  <2>1. /\ TaskOthers(t) /\ task'[t] # Idle /\ task'[t].op = "logout" /\ screen = "in" /\ screen' = "in"
        /\ task'[t].pc \in {"clear access", "call"}
        /\ task'[t].pc = "call" => call'[t].op = "logout"
        /\ ~\E s \in Caller : LoggingOut(s)
    BY <1>1, <1>3, TapLogoutMoves
  <2>2. \A s \in Caller : task[s] = Idle
    BY <1>1, <2>1, Rows DEF HandlerFits, ScreenFits, LoggingOut, Does, Busy, FitTask
  <2>3. HandlerFits(t)'
    BY <2>1 DEF HandlerFits, CallFits
  <2>4. LoggingOut(t)'
    BY <2>1 DEF LoggingOut, Does
  <2> QED BY <2>1, <2>2, <2>3, <2>4, InFitsLeaving, UseAfter
<1>4. CASE \E a \in Account : TapLogin(t, a)
  <2>1. /\ TaskOthers(t) /\ task'[t].op = "login" /\ task'[t].pc = "call" /\ CallOthers(t)
        /\ call'[t].op = "login" /\ call'[t].gives = 0
        /\ screen = "login" /\ screen' = "loading" /\ UNCHANGED <<tokens, expired, disk>>
    BY <1>1, <1>4, TapLoginMoves
  <2>2. \A s \in Caller : task[s] = Idle
    BY <1>1, <2>1, Rows DEF HandlerFits, ScreenFits, Does, Busy, FitTask
  <2>3. NoLogout /\ (\A s \in Caller : ~At(s, "write refresh")) /\ Mild
    BY <2>1, <2>2, MildHandler DEF NoLogout, LoggingOut, Does, At
  <2>4. DiskSound' /\ InFits'
    BY <1>1, <2>1, <2>3, DiskStays, InFitsElsewhere
  <2>5. HandlerFits(t)'
    BY <2>1 DEF HandlerFits, CallFits
  <2> QED BY <2>1, <2>2, <2>4, <2>5, UseAfter
<1> QED BY <1>2, <1>3, <1>4

LEMMA CloseUse ==
  ASSUME BaseInv, UseFits, Close, mishaps' = {}
  PROVE  UseFits'
<1>1. /\ SessionInv /\ DiskSound /\ (\A s \in Caller : task'[s] = Idle) /\ screen' = "closed"
      /\ UNCHANGED <<disk, tokens, expired>>
  BY CloseMoves DEF BaseInv, UseFits
<1>2. NoLogout /\ \A s \in Caller : ~At(s, "write refresh")
  BY <1>1, CloseMoves DEF NoLogout, LoggingOut, Does, At, Busy
<1>3. Mild
  <2>1. \A c \in Caller, k \in Pair' \cup {0} :
          Revokes(c, k)' => Revokes(c, k) /\ call'[c].op = call[c].op
    BY <1>1, CloseMoves DEF Revokes
  <2>2. RowsKept /\ Live' = Live
    BY <1>1, RowsSame
  <2> QED BY <1>1, <2>1, <2>2 DEF Mild
<1>4. DiskSound' /\ InFits'
  BY <1>1, <1>2, <1>3, DiskStays, InFitsElsewhere
<1> QED BY <1>1, <1>4 DEF UseFits, Alone, HandlerFits, Busy

LEMMA LoadUse ==
  ASSUME BaseInv, UseFits, NEW t \in Caller, Load(t)
  PROVE  UseFits'
<1>1. SessionInv /\ Phases /\ ScreenFits /\ DiskSound
  BY DEF BaseInv, UseFits
<1>2. /\ Busy(t) /\ task[t].pc = "load" /\ TaskOthers(t) /\ CallOthers(t) /\ mem' = disk
      /\ UNCHANGED <<disk, tokens, expired>>
  BY <1>1, LoadMoves
<1>3. task[t].op = "check" /\ screen = "splash"
  BY <1>1, <1>2 DEF Phases, PhaseFits, ScreenFits, Busy, Does
<1>4. /\ \A s \in Caller : s # t => task[s] = Idle
      /\ NoLogout /\ \A s \in Caller : ~At(s, "write refresh")
  BY <1>2, <1>3, OthersIdle
<1>5. Mild
  BY <1>1, <1>2, LoadMoves, MildHandler
<1>6. DiskSound'
  BY <1>1, <1>2, <1>4, <1>5, DiskStays
<1>7. CASE task'[t] = Idle /\ screen' = "login"
  BY <1>2, <1>4, <1>6, <1>7, InFitsElsewhere, UseAfter DEF HandlerFits, Busy
<1>8. CASE /\ task'[t] # Idle /\ task'[t].op = task[t].op /\ task'[t].pc = "call"
           /\ screen' = screen /\ disk.access # 0 /\ call'[t].op = "me"
           /\ call'[t].token = disk.access /\ call'[t].at = "sent"
  <2>1. disk.access = disk.refresh
    BY <1>1, <1>4, <1>8 DEF DiskSound
  <2>2. CallFits(t)'
    BY <1>2, <1>8, <2>1 DEF CallFits
  <2>3. HandlerFits(t)' /\ InFits'
    BY <1>3, <1>8, <2>2, InFitsElsewhere DEF HandlerFits
  <2> QED BY <1>2, <1>4, <1>6, <2>3, UseAfter
<1> QED BY <1>1, <1>7, <1>8, LoadMoves

(* A handler that gives up.                                                   *)
LEMMA GivesUpUse ==
  ASSUME BaseInv, UseFits, NEW t \in Caller, Busy(t), task[t].pc = "call", GivesUp(t),
         TaskOthers(t), Mild, UNCHANGED disk
  PROVE  UseFits'
<1>1. SessionInv /\ ScreenFits /\ DiskSound /\ HandlerFits(t)
  BY DEF BaseInv, UseFits
<1>2. /\ \A s \in Caller : s # t => task[s] = Idle
      /\ task[t].op # "logout" => NoLogout
      /\ \A s \in Caller : ~At(s, "write refresh")
  BY OthersIdle
<1>3. task[t].op # "logout" => DiskSound'
  BY <1>1, <1>2, DiskStays
<1>4. CASE task'[t] = Idle /\ screen' = "login" /\ task[t].op # "logout"
  BY <1>2, <1>3, <1>4, InFitsElsewhere, UseAfter DEF HandlerFits, Busy
<1>5. CASE /\ task'[t] # Idle /\ task'[t].op = task[t].op /\ task'[t].pc = "clear access"
           /\ task[t].op # "login" /\ UNCHANGED screen
  <2>1. HandlerFits(t)'
    BY <1>1, <1>5 DEF HandlerFits
  <2>2. CASE task[t].op = "logout"
    <3>1. LoggingOut(t)'
      BY <1>5, <2>2 DEF LoggingOut, Does
    <3> QED BY <1>2, <2>1, <3>1, InFitsLeaving, UseAfter
  <2>3. CASE task[t].op # "logout"
    <3>1. Does(t, "check")
      BY <1>1, <1>5, <2>3, Rows DEF FitTask, Busy, Does
    <3>2. screen' # "in"
      BY <1>1, <1>5, <3>1 DEF ScreenFits
    <3> QED BY <1>2, <1>3, <2>1, <2>3, <3>2, InFitsElsewhere, UseAfter
  <2> QED BY <2>2, <2>3
<1> QED BY <1>1, <1>4, <1>5, GivesUpMoves

LEMMA LoseUse ==
  ASSUME BaseInv, UseFits, NEW t \in Caller, Lose(t)
  PROVE  UseFits'
<1>1. /\ Busy(t) /\ task[t].pc = "call" /\ GivesUp(t) /\ TaskOthers(t) /\ CallOthers(t)
      /\ UNCHANGED <<tokens, expired, disk>>
      /\ call'[t] # NoCall => /\ call[t] # NoCall
                              /\ call'[t].op = call[t].op /\ call'[t].token = call[t].token
  BY LoseMoves DEF BaseInv
<1>2. Mild
  BY <1>1, MildHandler
<1> QED BY <1>1, <1>2, GivesUpUse

LEMMA SignedInUse ==
  ASSUME BaseInv, UseFits, NEW t \in Caller, Busy(t), task[t].pc = "call", SignedIn(t),
         UNCHANGED disk
  PROVE  UseFits'
<1>1. SessionInv /\ Phases /\ DiskSound /\ CallFits(t)
  BY DEF BaseInv, UseFits, HandlerFits
<1>2. /\ TaskOthers(t) /\ task'[t] = Idle /\ CallOthers(t) /\ call'[t] = NoCall
      /\ user' = tokens[call[t].gives].owner /\ UNCHANGED <<mem, tokens, expired>>
      /\ call[t].op = "me" /\ call[t].at = "done" /\ call[t].gives # 0
  BY <1>1, SignedInMoves
<1>3. task[t].op # "logout" /\ call[t].gives = call[t].token
  BY <1>1, <1>2 DEF Phases, PhaseFits, Busy
<1>4. /\ \A s \in Caller : s # t => task[s] = Idle
      /\ NoLogout /\ \A s \in Caller : ~At(s, "write refresh")
  BY <1>3, OthersIdle
<1>5. Mild
  BY <1>2, MildHandler
<1>6. DiskSound'
  BY <1>1, <1>4, <1>5, DiskStays
<1>7. InFits'
  <2>1. PICK k : k = call[t].gives
    OBVIOUS
  <2>2. Firm(k) /\ mem = disk /\ mem.access = k /\ mem.refresh = k
    BY <1>1, <1>2, <1>3, <2>1 DEF CallFits
  <2>3. Firm(k)'
    BY <1>5, <2>2, MildKeeps DEF Firm, Live
  <2>4. mem'.access = k /\ mem'.refresh = k /\ mem' = disk' /\ tokens'[k].owner = user'
    BY <1>2, <2>1, <2>2
  <2> QED BY <2>3, <2>4 DEF InFits
<1> QED BY <1>2, <1>4, <1>6, <1>7, UseAfter DEF HandlerFits, Busy

LEMMA RefreshesUse ==
  ASSUME BaseInv, UseFits, NEW t \in Caller, Busy(t), task[t].pc = "call", RefreshesSession(t),
         UNCHANGED disk
  PROVE  UseFits'
<1>1. SessionInv /\ ScreenFits /\ DiskSound /\ CallFits(t)
  BY DEF BaseInv, UseFits, HandlerFits
<1>2. /\ UNCHANGED <<task, mem, screen, tokens, expired>> /\ CallOthers(t)
      /\ call'[t].op = "refresh" /\ call'[t].token = mem.refresh /\ call'[t].gives = 0
      /\ call[t].op = "me" /\ call[t].at = "done" /\ call[t].gives = 0 /\ Does(t, "check")
  BY <1>1, RefreshMoves
<1>3. /\ mem = disk /\ mem.access = call[t].token /\ mem.refresh = call[t].token
      /\ call[t].token # 0 /\ call[t].token \in expired
  BY <1>1, <1>2 DEF CallFits
<1>4. task[t].op = "check" /\ screen = "splash"
  BY <1>1, <1>2 DEF ScreenFits, Does
<1>5. /\ \A s \in Caller : s # t => task[s] = Idle
      /\ NoLogout /\ \A s \in Caller : ~At(s, "write refresh")
  BY <1>4, OthersIdle
<1>6. CallFits(t)'
  BY <1>2, <1>3 DEF CallFits
<1>7. HandlerFits(t)' /\ TaskOthers(t) /\ InFits'
  BY <1>2, <1>4, <1>6, InFitsElsewhere DEF HandlerFits, TaskOthers
<1>8. DiskSound'
  <2>1. PICK k : k = disk.access
    OBVIOUS
  <2>2. k = disk.refresh /\ Sound(k) /\ k \in expired
    BY <1>1, <1>3, <1>5, <2>1 DEF DiskSound
  <2>3. ASSUME NEW c \in Caller, Revokes(c, k)' PROVE call'[c].op = "refresh"
    <3>1. CASE c = t
      BY <1>2, <3>1
    <3>2. CASE c # t
      <4>1. call'[c] = call[c] /\ Revokes(c, k)
        BY <1>2, <2>3, <3>2 DEF CallOthers, Revokes
      <4> QED BY <2>2, <4>1 DEF Sound, Firm
    <3> QED BY <3>1, <3>2
  <2>4. Sound(k)'
    BY <1>2, <2>2, <2>3 DEF Sound
  <2> QED BY <2>1, <2>2, <2>4 DEF DiskSound
<1> QED BY <1>5, <1>7, <1>8, UseAfter

LEMMA GetsPairUse ==
  ASSUME BaseInv, UseFits, NEW t \in Caller, Busy(t), task[t].pc = "call", GetsPair(t),
         UNCHANGED disk
  PROVE  UseFits'
<1>1. SessionInv /\ Phases /\ ScreenFits /\ DiskSound /\ HandlerFits(t) /\ CallFits(t)
  BY DEF BaseInv, UseFits, HandlerFits
<1>2. /\ TaskOthers(t) /\ task'[t] # Idle /\ task'[t].op = task[t].op
      /\ task'[t].pc = "write access" /\ task'[t].pair = call[t].gives
      /\ CallOthers(t) /\ call'[t] = NoCall
      /\ mem' = [access |-> call[t].gives, refresh |-> call[t].gives]
      /\ UNCHANGED <<screen, tokens, expired>>
      /\ call[t].op \in {"login", "refresh"} /\ call[t].gives # 0
  BY <1>1, GetsPairMoves
<1>3. task[t].op # "logout"
  BY <1>1, <1>2 DEF Phases, PhaseFits, Busy
<1>4. /\ \A s \in Caller : s # t => task[s] = Idle
      /\ NoLogout /\ \A s \in Caller : ~At(s, "write refresh")
  BY <1>3, OthersIdle
<1>5. Mild
  BY <1>2, MildHandler
<1>6. DiskSound'
  BY <1>1, <1>4, <1>5, DiskStays
<1>7. screen # "in"
  BY <1>1, <1>3, Rows DEF HandlerFits, ScreenFits, FitTask, Busy, Does
<1>8. HandlerFits(t)'
  <2>1. PICK k : k = call[t].gives
    OBVIOUS
  <2>2. Firm(k)
    BY <1>1, <1>2, <2>1 DEF CallFits
  <2>3. Firm(k)'
    BY <1>5, <2>2, MildKeeps DEF Firm, Live
  <2>4. mem'.access = k /\ mem'.refresh = k /\ task'[t].pair = k
    BY <1>2, <2>1
  <2> QED BY <1>1, <1>2, <1>3, <2>3, <2>4 DEF HandlerFits
<1> QED BY <1>2, <1>4, <1>6, <1>7, <1>8, InFitsElsewhere, UseAfter

LEMMA AnswerUse ==
  ASSUME BaseInv, UseFits, NEW t \in Caller, Answer(t)
  PROVE  UseFits'
<1>1. Busy(t) /\ task[t].pc = "call" /\ UNCHANGED disk
  BY AnswerMoves DEF BaseInv
<1>2. CASE /\ GivesUp(t) /\ TaskOthers(t) /\ CallOthers(t) /\ call'[t] = NoCall
           /\ UNCHANGED <<tokens, expired>>
  <2>1. Mild
    BY <1>2, MildHandler
  <2> QED BY <1>1, <1>2, <2>1, GivesUpUse
<1> QED BY <1>1, <1>2, AnswerMoves, SignedInUse, RefreshesUse, GetsPairUse DEF BaseInv

LEMMA WriteAccessUse ==
  ASSUME BaseInv, UseFits, NEW t \in Caller, WriteAccess(t)
  PROVE  UseFits'
<1>1. SessionInv /\ Phases /\ ScreenFits /\ HandlerFits(t)
  BY DEF BaseInv, UseFits
<1>2. /\ Busy(t) /\ task[t].pc = "write access" /\ TaskOthers(t)
      /\ task'[t] # Idle /\ task'[t].op = task[t].op /\ task'[t].pc = "write refresh"
      /\ task'[t].pair = task[t].pair /\ disk'.access = task[t].pair
      /\ UNCHANGED <<call, tokens, expired, mem, screen>>
  BY <1>1, WriteAccessMoves DEF tokenVars
<1>3. task[t].op # "logout"
  BY <1>1, <1>2 DEF Phases, PhaseFits, Busy
<1>4. \A s \in Caller : s # t => task[s] = Idle
  BY <1>2, OthersIdle
<1>5. screen # "in"
  BY <1>1, <1>2, <1>3, Rows DEF HandlerFits, ScreenFits, FitTask, Busy, Does
<1>6. DiskSound'
  BY <1>2 DEF DiskSound, At
<1>7. HandlerFits(t)'
  <2>1. Mild
    BY <1>2, MildHandler DEF CallOthers
  <2>2. PICK k : k = task[t].pair
    OBVIOUS
  <2>3. Firm(k)
    BY <1>1, <1>2, <2>2 DEF HandlerFits
  <2>4. Firm(k)'
    BY <2>1, <2>3, MildKeeps DEF Firm, Live
  <2> QED BY <1>1, <1>2, <2>2, <2>4 DEF HandlerFits
<1> QED BY <1>2, <1>4, <1>5, <1>6, <1>7, InFitsElsewhere, UseAfter

LEMMA WriteRefreshUse ==
  ASSUME BaseInv, SessionInv', UseFits, NEW t \in Caller, WriteRefresh(t)
  PROVE  UseFits'
<1>1. SessionInv /\ Phases /\ ScreenFits /\ HandlerFits(t)
  BY DEF BaseInv, UseFits
<1>2. /\ Busy(t) /\ task[t].pc = "write refresh" /\ TaskOthers(t) /\ CallOthers(t)
      /\ task'[t] # Idle /\ task'[t].op = task[t].op /\ task'[t].pc = "call"
      /\ call'[t].op = "me" /\ call'[t].token = mem.access /\ call'[t].at = "sent"
      /\ disk'.access = disk.access /\ disk'.refresh = task[t].pair
      /\ UNCHANGED <<mem, screen, tokens, expired>>
  BY <1>1, WriteRefreshMoves
<1>3. task[t].op # "logout"
  BY <1>1, <1>2 DEF Phases, PhaseFits, Busy
<1>4. \A s \in Caller : s # t => task[s] = Idle
  BY <1>2, OthersIdle
<1>5. screen # "in"
  BY <1>1, <1>2, <1>3, Rows DEF HandlerFits, ScreenFits, FitTask, Busy, Does
<1>6. PICK k : k = task[t].pair
  OBVIOUS
<1>7. Firm(k) /\ mem.access = k /\ mem.refresh = k /\ disk.access = k
  BY <1>1, <1>2, <1>6 DEF HandlerFits
<1>8. Firm(k)' /\ k # 0
  <2>1. Mild
    BY <1>2, MildHandler
  <2>2. k \in Pair
    BY <1>7 DEF Firm, Live
  <2> QED BY <1>1, <1>7, <2>1, <2>2, MildKeeps, Rows
<1>9. mem' = disk' /\ disk'.access = k /\ disk'.refresh = k
  <2>1. mem' \in FitKeys' /\ disk' \in FitKeys'
    BY DEF SessionInv, AppFits
  <2>2. mem'.access = disk'.access /\ mem'.refresh = disk'.refresh
    BY <1>2, <1>6, <1>7
  <2>3. mem' = [access |-> mem'.access, refresh |-> mem'.refresh]
    BY <2>1 DEF FitKeys
  <2>4. disk' = [access |-> disk'.access, refresh |-> disk'.refresh]
    BY <2>1 DEF FitKeys
  <2>5. mem' = disk'
    BY <2>2, <2>3, <2>4
  <2> QED BY <1>2, <1>6, <1>7, <2>5
<1>10. DiskSound'
  BY <1>8, <1>9 DEF DiskSound, Sound
<1>11. CallFits(t)'
  BY <1>2, <1>7, <1>8, <1>9 DEF CallFits
<1>12. HandlerFits(t)'
  BY <1>1, <1>2, <1>3, <1>11 DEF HandlerFits
<1> QED BY <1>2, <1>4, <1>5, <1>10, <1>12, InFitsElsewhere, UseAfter

LEMMA ClearAccessUse ==
  ASSUME BaseInv, UseFits, NEW t \in Caller, ClearAccess(t)
  PROVE  UseFits'
<1>1. SessionInv /\ Phases /\ ScreenFits /\ HandlerFits(t)
  BY DEF BaseInv, UseFits
<1>2. /\ Busy(t) /\ task[t].pc = "clear access" /\ TaskOthers(t)
      /\ task'[t] # Idle /\ task'[t].op = task[t].op /\ task'[t].pc = "clear refresh"
      /\ disk'.access = 0 /\ UNCHANGED screen
  BY <1>1, ClearAccessMoves
<1>3. task[t].op \in {"check", "logout"}
  BY <1>1, <1>2, Rows DEF Phases, PhaseFits, Busy, FitTask
<1>4. \A s \in Caller : s # t => task[s] = Idle
  BY <1>2, OthersIdle
<1>5. HandlerFits(t)' /\ DiskSound'
  BY <1>1, <1>2, <1>3 DEF HandlerFits, DiskSound
<1>6. InFits'
  <2>1. CASE task[t].op = "logout"
    <3>1. LoggingOut(t)'
      BY <1>2, <2>1 DEF LoggingOut, Does
    <3> QED BY <3>1, InFitsLeaving
  <2>2. CASE task[t].op = "check"
    BY <1>1, <1>2, <2>2, InFitsElsewhere DEF ScreenFits, Does, Busy
  <2> QED BY <1>3, <2>1, <2>2
<1> QED BY <1>2, <1>4, <1>5, <1>6, UseAfter

LEMMA ClearRefreshUse ==
  ASSUME BaseInv, UseFits, NEW t \in Caller, ClearRefresh(t)
  PROVE  UseFits'
<1>1. /\ Busy(t) /\ task[t].pc = "clear refresh" /\ TaskOthers(t) /\ task'[t] = Idle
      /\ disk'.access = disk.access /\ screen' = "login"
  BY ClearRefreshMoves DEF BaseInv
<1>2. disk.access = 0
  BY <1>1 DEF UseFits, HandlerFits
<1>3. \A s \in Caller : s # t => task[s] = Idle
  BY <1>1, OthersIdle
<1>4. HandlerFits(t)' /\ DiskSound' /\ InFits'
  BY <1>1, <1>2, InFitsElsewhere DEF HandlerFits, DiskSound, Busy
<1> QED BY <1>1, <1>3, <1>4, UseAfter

LEMMA StoreFailsUse ==
  ASSUME BaseInv, UseFits, NEW t \in Caller, StoreFails(t), mishaps' = {}
  PROVE  UseFits'
<1>1. /\ SessionInv /\ DiskSound /\ Busy(t) /\ TaskOthers(t) /\ task'[t] = Idle
      /\ task[t].op # "logout" /\ screen' = "login" /\ task[t].pc # "write refresh"
      /\ UNCHANGED <<tokens, expired, call, disk>>
  BY StoreFailsMoves DEF BaseInv, UseFits, tokenVars
<1>2. /\ \A s \in Caller : s # t => task[s] = Idle
      /\ NoLogout /\ \A s \in Caller : ~At(s, "write refresh")
  BY <1>1, OthersIdle
<1>3. Mild
  BY <1>1, MildHandler DEF CallOthers
<1>4. HandlerFits(t)' /\ DiskSound' /\ InFits'
  BY <1>1, <1>2, <1>3, DiskStays, InFitsElsewhere DEF HandlerFits, Busy
<1> QED BY <1>1, <1>2, <1>4, UseAfter

(* The server at work on a call, or time passing.                             *)
LEMMA ServerKeeps ==
  ASSUME SessionInv, UseFits, Mild, UNCHANGED appVars,
         \A t \in Caller : Busy(t) /\ task[t].pc = "call" => CallFits(t)'
  PROVE  UseFits'
<1>1. /\ DiskSound /\ InFits /\ Alone /\ (\A t \in Caller : HandlerFits(t))
      /\ UNCHANGED <<disk, mem, screen, user, task>>
  BY DEF UseFits, appVars
<1>2. \A k : Firm(k) => Firm(k)' /\ k \in Pair
  BY MildKeeps DEF Firm, Live
<1>3. DiskSound'
  <2>1. disk.access \in Pair \cup {0}
    BY Rows DEF FitKeys
  <2>2. PICK k : k = disk.access
    OBVIOUS
  <2>3. k # 0 /\ Sound(k) => Sound(k)'
    BY <2>1, <2>2, MildKeeps
  <2> QED BY <1>1, <2>2, <2>3 DEF DiskSound, NoLogout, LoggingOut, Does, At
<1>4. InFits'
  <2> SUFFICES ASSUME screen = "in", NoLogout
               PROVE  /\ mem' = disk' /\ mem'.access = mem'.refresh /\ Firm(mem.refresh)'
                      /\ tokens'[mem'.refresh].owner = user'
    BY <1>1 DEF InFits, NoLogout, LoggingOut, Does
  <2>1. /\ mem = disk /\ mem.access = mem.refresh /\ Firm(mem.refresh)
        /\ tokens[mem.refresh].owner = user
    BY <1>1 DEF InFits
  <2>2. PICK k : k = mem.refresh
    OBVIOUS
  <2>3. Firm(k)' /\ k \in Pair
    BY <1>2, <2>1, <2>2
  <2>4. tokens'[k].owner = tokens[k].owner
    BY <2>3 DEF Mild, RowsKept
  <2> QED BY <1>1, <2>1, <2>2, <2>3, <2>4
<1>5. ASSUME NEW t \in Caller PROVE HandlerFits(t)'
  <2>1. PICK k : k = task[t].pair
    OBVIOUS
  <2>2. HandlerFits(t) /\ (Firm(k) => Firm(k)') /\ task'[t] = task[t]
    BY <1>1, <1>2
  <2> QED BY <1>1, <2>1, <2>2 DEF HandlerFits, Busy
<1>6. Alone'
  BY <1>1 DEF Alone, Busy
<1> QED BY <1>3, <1>4, <1>5, <1>6 DEF UseFits

LEMMA CallStays ==
  ASSUME SessionInv, UseFits, Mild, UNCHANGED appVars, NEW t \in Caller, CallFits(t),
         call'[t] = call[t]
  PROVE  CallFits(t)'
<1>1. PICK k : k = call[t].gives
  OBVIOUS
<1>2. Firm(k) => Firm(k)'
  BY MildKeeps DEF Firm, Live
<1>3. call[t].token \in expired => call[t].token \in expired'
  BY DEF Mild
<1>4. mem' = mem /\ disk' = disk
  BY DEF appVars
<1> QED BY <1>1, <1>2, <1>3, <1>4 DEF CallFits

LEMMA ServeUse ==
  ASSUME BaseInv, UseFits, NEW c \in Caller, Serve(c), UNCHANGED appVars
  PROVE  UseFits'
<1>1. SessionInv /\ Phases /\ CallTokens /\ DiskSound /\ \A t \in Caller : HandlerFits(t)
  BY DEF BaseInv, UseFits
<1>2. ServedAs(c) /\ Mild /\ UNCHANGED <<mem, disk, expired>>
  BY <1>1, Serves, MildServe DEF ServedAs, appVars
<1>3. ASSUME NEW t \in Caller, Busy(t), task[t].pc = "call" PROVE CallFits(t)'
  <2>1. CallFits(t)
    BY <1>1, <1>3 DEF HandlerFits
  <2>2. CASE t # c
    BY <1>1, <1>2, <2>1, <2>2, CallStays DEF ServedAs, CallServed, CallOthers
  <2>3. CASE t = c
    <3>1. PICK y : y = call'[c]
      OBVIOUS
    <3>2. /\ call[c] # NoCall /\ call[c].at # "done" /\ ~call[c].gone /\ call[c].gives = 0
          /\ call[c].op = "me" => task[c].op # "logout"
      BY <1>1, <1>2, <1>3, <2>3 DEF Phases, PhaseFits, Busy, ServedAs, CallServed
    <3>3. /\ y # NoCall /\ y.op = call[c].op /\ y.token = call[c].token
          /\ y.at # "done" => y.gives = 0
      BY <1>2, <3>1, <3>2 DEF ServedAs, CallServed
    <3>4. y.at = "done" =>
            /\ y.op = "me" => y.gives = IF y.token \in Pair \ expired THEN y.token ELSE 0
            /\ y.op = "login" => NewRow(y.gives, y.gives)
            /\ y.op = "refresh" /\ y.gives # 0 => NewRow(y.gives, tokens[y.token].session)
      BY <1>2, <3>1, <3>3 DEF ServedAs, Answer0
    <3>5. y.op \in {"login", "refresh"} /\ y.gives # 0 => Firm(y.gives)'
      <4> SUFFICES ASSUME y.op \in {"login", "refresh"}, y.gives # 0 PROVE Firm(y.gives)'
        OBVIOUS
      <4>1. PICK k : k = y.gives
        OBVIOUS
      <4>2. k \in Live' /\ k \notin Pair /\ k # 0
        BY <3>3, <3>4, <4>1 DEF NewRow
      <4>3. k \in Pair'
        BY <4>2 DEF Live
      <4>4. ASSUME NEW d \in Caller, Revokes(d, k)' PROVE FALSE
        <5>1. Revokes(d, k)
          BY <1>2, <4>3, <4>4 DEF Mild
        <5> QED BY <1>1, <4>2, <5>1 DEF Revokes, CallTokens
      <4> QED BY <4>1, <4>2, <4>4 DEF Firm
    <3>6. y.op \in {"me", "refresh"} =>
            mem = disk /\ mem.access = y.token /\ mem.refresh = y.token /\ y.token # 0
      BY <2>1, <2>3, <3>3 DEF CallFits
    <3>7. y.op = "refresh" => y.token \in expired
      BY <2>1, <2>3, <3>3 DEF CallFits
    <3>8. ASSUME y.op = "me", y.at = "done"
          PROVE  IF y.gives # 0 THEN Firm(y.gives)' ELSE y.token \in expired
      <4>1. PICK k : k = y.token
        OBVIOUS
      <4>2. k \in Pair /\ k = disk.access /\ k # 0
        BY <1>1, <3>2, <3>3, <3>6, <3>8, <4>1 DEF CallTokens
      <4>3. NoLogout /\ \A s \in Caller : ~At(s, "write refresh")
        BY <1>3, <2>3, <3>2, <3>3, <3>8, OthersIdle
      <4>4. Sound(k)
        BY <1>1, <4>2, <4>3 DEF DiskSound
      <4>5. y.gives = IF k \in Pair \ expired THEN k ELSE 0
        BY <3>4, <3>8, <4>1
      <4>6. CASE k \in expired
        BY <4>1, <4>5, <4>6
      <4>7. CASE k \notin expired
        <5>1. Firm(k)'
          BY <1>2, <4>2, <4>4, <4>7, MildKeeps DEF Sound
        <5>2. y.gives = k
          BY <4>2, <4>5, <4>7
        <5> QED BY <4>2, <5>1, <5>2
      <4> QED BY <4>6, <4>7
    <3>9. mem' = mem /\ disk' = disk /\ expired' = expired
      BY <1>2
    <3> QED BY <2>3, <3>1, <3>5, <3>6, <3>7, <3>8, <3>9 DEF CallFits
  <2> QED BY <2>2, <2>3
<1> QED BY <1>1, <1>2, <1>3, ServerKeeps

LEMMA TimeUse ==
  ASSUME BaseInv, UseFits, UNCHANGED <<tokens, call, appVars>>, expired \subseteq expired'
  PROVE  UseFits'
<1>1. SessionInv /\ \A t \in Caller : HandlerFits(t)
  BY DEF BaseInv, UseFits
<1>2. Mild
  BY RowsSame DEF Mild, Revokes
<1>3. UNCHANGED appVars
  BY DEF appVars
<1>4. \A t \in Caller : Busy(t) /\ task[t].pc = "call" => CallFits(t)'
  BY <1>1, <1>2, <1>3, CallStays DEF HandlerFits
<1> QED BY <1>1, <1>2, <1>3, <1>4, ServerKeeps

LEMMA UseInitial == Init => UseInv
<1> SUFFICES ASSUME Init PROVE UseInv
  OBVIOUS
<1>1. (\A t \in Caller : task[t] = Idle) /\ disk.access = 0 /\ screen = "closed"
  BY DEF Init, NoKey
<1>2. UseFits
  BY <1>1 DEF UseFits, Alone, DiskSound, InFits, HandlerFits, Busy
<1> QED BY <1>2, BaseInitial DEF UseInv

LEMMA UseStep == UseInv /\ [Next]_vars => UseInv'
<1> SUFFICES ASSUME UseInv, [Next]_vars PROVE UseInv'
  OBVIOUS
<1>1. BaseInv /\ BaseInv' /\ SessionInv'
  BY BaseStep DEF UseInv, BaseInv
<1>2. mishaps \subseteq mishaps'
  BY DEF Next, Step, Launch, TapLogout, TapLogin, Load, Answer, Lose, StoreFails, Close, WriteAccess,
     WriteRefresh, ClearAccess, ClearRefresh, appVars, vars
<1>3. ASSUME mishaps' = {} PROVE UseFits'
  <2>0. UseFits
    BY <1>2, <1>3 DEF UseInv
  <2>1. CASE UNCHANGED vars
    BY <1>1, <2>0, <2>1, TimeUse DEF vars, tokenVars
  <2>2. CASE \E k \in Pair : Expire(k) /\ UNCHANGED appVars
    BY <1>1, <2>0, <2>2, TimeUse DEF Expire
  <2>3. CASE Close
    BY <1>1, <1>3, <2>0, <2>3, CloseUse
  <2>4. CASE \E t \in Caller :
               \/ Launch(t) \/ TapLogout(t) \/ \E a \in Account : TapLogin(t, a)
               \/ Step(t) \/ Lose(t) \/ StoreFails(t)
               \/ Serve(t) /\ UNCHANGED appVars
    BY <1>1, <1>3, <2>0, <2>4, BeginsUse, LoadUse, AnswerUse, LoseUse, WriteAccessUse,
       WriteRefreshUse, ClearAccessUse, ClearRefreshUse, StoreFailsUse, ServeUse DEF Step
  <2> QED BY <2>1, <2>2, <2>3, <2>4 DEF Next
<1> QED BY <1>1, <1>3 DEF UseInv

(* Whoever is signed in holds one pair, in memory and in the key store, of    *)
(* the account that is shown, which the server still refreshes.               *)
THEOREM SignedInUsable == Spec => []SignedInIsUsable
<1>1. UseInv => SignedInIsUsable
  BY DEF UseInv, UseFits, InFits, NoLogout, Firm, SignedInIsUsable
<1> QED BY UseInitial, UseStep, <1>1, PTL DEF Spec

-------------------------------------------------------------------------------
(* Where the calls come from: a call that is not hung up on is awaited.       *)
Owned == \A c \in Caller : call[c] # NoCall => call[c].gone \/ At(c, "call")

(* Those that were hung up on are counted.                                    *)
UnheardCounted ==
  \A c \in Caller : call[c] # NoCall /\ call[c].gone /\ call[c].op \in {"refresh", "logout"}
                    /\ call[c].token \in Pair => SessionOf(call[c].token) \in hungUp

(* A refresh or a logout that has read its row, of a session that is not      *)
(* counted.                                                                   *)
HasRead(c, op) == Calls(c, op, "read") /\ SessionOf(call[c].token) \notin hungUp

RefreshFits == \A c \in Caller : HasRead(c, "refresh") => call[c].token \in Live

LogoutFits ==
  \A c \in Caller : HasRead(c, "logout") =>
    \/ call[c].token \in Live
    \/ \A k \in Live : SessionOf(k) # SessionOf(call[c].token)

RaceInv ==
  BaseInv /\ Owned /\ UnheardCounted /\ RefreshFits /\ LogoutFits /\ OnlyUnheardFork

-------------------------------------------------------------------------------
LEMMA OwnedAfter ==
  ASSUME Owned, NEW t \in Caller, TaskOthers(t), CallOthers(t),
         call'[t] # NoCall => call'[t].gone \/ (task'[t] # Idle /\ task'[t].pc = "call")
  PROVE  Owned'
BY DEF Owned, At, TaskOthers, CallOthers

LEMMA OwnedElsewhere ==
  ASSUME Owned, NEW t \in Caller, TaskOthers(t), UNCHANGED call, ~At(t, "call")
  PROVE  Owned'
<1>1. CallOthers(t) /\ (call'[t] # NoCall => call'[t].gone)
  BY DEF Owned, CallOthers
<1> QED BY <1>1, OwnedAfter

LEMMA DroppedAreGone ==
  ASSUME SessionInv, NEW S \in SUBSET Caller, HangUp(S), NEW c \in S, call'[c] # NoCall
  PROVE  call'[c].gone
<1>1. call[c] # NoCall /\ call'[c] = [call[c] EXCEPT !.gone = TRUE]
  BY DEF HangUp
<1>2. call[c] \in ACall
  BY <1>1, Rows
<1> QED BY <1>1, <1>2 DEF ACall

LEMMA AnswerOwned ==
  ASSUME SessionInv, Owned, NEW t \in Caller, Answer(t) PROVE Owned'
<1>1. CASE SignedIn(t)
  BY <1>1, SignedInMoves, OwnedAfter
<1>2. CASE RefreshesSession(t)
  <2>1. TaskOthers(t) /\ task'[t] # Idle /\ task'[t].pc = "call"
    BY <1>2, RefreshMoves, AnswerMoves DEF TaskOthers, Busy
  <2> QED BY <1>2, <2>1, RefreshMoves, OwnedAfter
<1>3. CASE GetsPair(t)
  BY <1>3, GetsPairMoves, AnswerMoves, OwnedAfter
<1> QED BY <1>1, <1>2, <1>3, AnswerMoves, OwnedAfter

LEMMA LoseOwned ==
  ASSUME SessionInv, Owned, NEW t \in Caller, Lose(t) PROVE Owned'
<1>1. TaskOthers(t) /\ CallOthers(t)
  BY LoseMoves
<1>2. call'[t] # NoCall => call'[t].gone
  <2>1. CASE Forget(t)
    BY <2>1, CallForgotten
  <2>2. CASE HangUp({t})
    BY <2>2, DroppedAreGone
  <2> QED BY <2>1, <2>2 DEF Lose
<1> QED BY <1>1, <1>2, OwnedAfter

LEMMA CloseOwned ==
  ASSUME SessionInv, Close PROVE Owned'
BY DroppedAreGone DEF Close, Owned

LEMMA LoadOwned ==
  ASSUME SessionInv, Owned, NEW t \in Caller, Load(t) PROVE Owned'
<1>1. CASE UNCHANGED call
  BY <1>1, LoadMoves, OwnedElsewhere DEF At
<1>2. CASE task'[t] # Idle /\ task'[t].pc = "call"
  BY <1>2, LoadMoves, OwnedAfter
<1> QED BY <1>1, <1>2, LoadMoves

LEMMA BeginsOwned ==
  ASSUME SessionInv, Owned, NEW t \in Caller,
         Launch(t) \/ TapLogout(t) \/ \E a \in Account : TapLogin(t, a)
  PROVE  Owned'
<1>1. call[t] = NoCall /\ ~At(t, "call")
  BY DEF Launch, TapLogout, TapLogin, Free, At
<1>2. TaskOthers(t)
  BY LaunchMoves, TapLogoutMoves, TapLoginMoves
<1>3. CASE UNCHANGED call
  BY <1>1, <1>2, <1>3, OwnedElsewhere
<1>4. CASE CallOthers(t) /\ task'[t] # Idle /\ task'[t].pc = "call"
  BY <1>2, <1>4, OwnedAfter
<1> QED BY <1>3, <1>4, LaunchMoves, TapLogoutMoves, TapLoginMoves DEF tokenVars

LEMMA WriteOwned ==
  ASSUME SessionInv, Owned, NEW t \in Caller,
         \/ WriteAccess(t) \/ ClearAccess(t) \/ ClearRefresh(t) \/ StoreFails(t)
         \/ WriteRefresh(t)
  PROVE  Owned'
<1>1. CASE WriteAccess(t) \/ ClearAccess(t) \/ ClearRefresh(t) \/ StoreFails(t)
  <2>1. ~At(t, "call") /\ UNCHANGED call
    BY <1>1 DEF WriteAccess, ClearAccess, ClearRefresh, StoreFails, At, tokenVars
  <2>2. TaskOthers(t)
    BY <1>1, WriteAccessMoves, ClearAccessMoves, ClearRefreshMoves, StoreFailsMoves
  <2> QED BY <2>1, <2>2, OwnedElsewhere
<1>2. CASE WriteRefresh(t)
  BY <1>2, WriteRefreshMoves, OwnedAfter
<1> QED BY <1>1, <1>2

LEMMA ServeOwned ==
  ASSUME SessionInv, Owned, NEW c \in Caller, Serve(c), UNCHANGED appVars PROVE Owned'
<1>1. CallServed(c) /\ UNCHANGED task
  BY Serves DEF ServedAs, appVars
<1>2. TaskOthers(c) /\ CallOthers(c)
  BY <1>1 DEF TaskOthers, CallServed
<1>3. call'[c] # NoCall => call'[c].gone \/ (task'[c] # Idle /\ task'[c].pc = "call")
  BY <1>1 DEF CallServed, Owned, At
<1> QED BY <1>2, <1>3, OwnedAfter

LEMMA OwnedStep == SessionInv /\ Owned /\ [Next]_vars => Owned'
<1> SUFFICES ASSUME SessionInv, Owned, [Next]_vars PROVE Owned'
  OBVIOUS
<1>1. CASE UNCHANGED vars \/ \E k \in Pair : Expire(k) /\ UNCHANGED appVars
  BY <1>1 DEF vars, tokenVars, appVars, Expire, Owned, At
<1>2. CASE Close
  BY <1>2, CloseOwned
<1>3. CASE \E t \in Caller :
             \/ Launch(t) \/ TapLogout(t) \/ \E a \in Account : TapLogin(t, a)
             \/ Step(t) \/ Lose(t) \/ StoreFails(t)
             \/ Serve(t) /\ UNCHANGED appVars
  BY <1>3, BeginsOwned, LoadOwned, AnswerOwned, LoseOwned, WriteOwned, ServeOwned DEF Step
<1> QED BY <1>1, <1>2, <1>3 DEF Next

-------------------------------------------------------------------------------
(* What the app does to the server's side without being served: the calls     *)
(* that have read their rows are as before.                                   *)
ReadsKept ==
  /\ UNCHANGED <<tokens, ended>>
  /\ \A c \in Caller : call'[c] # NoCall /\ call'[c].at = "read" =>
       /\ call[c] # NoCall /\ call[c].at = "read"
       /\ call'[c].op = call[c].op /\ call'[c].token = call[c].token

LEMMA RequestReads ==
  ASSUME SessionInv, NEW t \in Caller, NEW op, op # "none", NEW a, NEW k, Request(t, op, a, k)
  PROVE  ReadsKept
BY CallMade DEF Request, ReadsKept, CallOthers

LEMMA ForgetReads == ASSUME SessionInv, NEW t \in Caller, Forget(t) PROVE ReadsKept
BY CallForgotten DEF Forget, ReadsKept, CallOthers

LEMMA HangUpReads == ASSUME SessionInv, NEW S \in SUBSET Caller, HangUp(S) PROVE ReadsKept
<1>1. UNCHANGED <<tokens, ended>>
  BY DEF HangUp
<1>2. ASSUME NEW c \in Caller, call'[c] # NoCall, call'[c].at = "read"
      PROVE  /\ call[c] # NoCall /\ call[c].at = "read"
             /\ call'[c].op = call[c].op /\ call'[c].token = call[c].token
  <2>1. call[c] # NoCall /\ call'[c] \in {call[c], [call[c] EXCEPT !.gone = TRUE]}
    BY <1>2 DEF HangUp
  <2>2. call[c] \in ACall
    BY <2>1, Rows
  <2> QED BY <1>2, <2>1, <2>2 DEF ACall
<1> QED BY <1>1, <1>2 DEF ReadsKept

LEMMA AnswerReads ==
  ASSUME SessionInv, NEW c \in Caller, call[c] # NoCall, call[c].at # "done",
         NEW k, Answers(c, k), UNCHANGED <<tokens, ended>>
  PROVE  ReadsKept
BY AnswerGiven DEF ReadsKept, CallServed, CallOthers

LEMMA AppReads ==
  ASSUME SessionInv, NEW t \in Caller,
         \/ Launch(t) \/ TapLogout(t) \/ \E a \in Account : TapLogin(t, a)
         \/ Step(t) \/ Lose(t) \/ StoreFails(t)
  PROVE  ReadsKept
<1>1. CASE UNCHANGED tokenVars
  BY <1>1 DEF tokenVars, ReadsKept
<1>2. CASE Launch(t)
  BY <1>1, <1>2 DEF Launch
<1>3. CASE TapLogout(t)
  BY <1>1, <1>3, RequestReads DEF TapLogout
<1>4. CASE \E a \in Account : TapLogin(t, a)
  BY <1>4, RequestReads DEF TapLogin
<1>5. CASE Load(t)
  BY <1>1, <1>5, RequestReads DEF Load
<1>6. CASE Answer(t)
  BY <1>6, RequestReads, ForgetReads DEF Answer, SignedIn, RefreshesSession, GetsPair
<1>7. CASE WriteAccess(t) \/ ClearAccess(t) \/ ClearRefresh(t) \/ StoreFails(t)
  BY <1>1, <1>7 DEF WriteAccess, ClearAccess, ClearRefresh, StoreFails
<1>8. CASE WriteRefresh(t)
  BY <1>8, RequestReads DEF WriteRefresh
<1>9. CASE Lose(t)
  <2>1. {t} \in SUBSET Caller
    OBVIOUS
  <2> QED BY <1>9, <2>1, ForgetReads, HangUpReads DEF Lose
<1> QED BY <1>2, <1>3, <1>4, <1>5, <1>6, <1>7, <1>8, <1>9 DEF Step

(* Such a step keeps what is claimed of calls and rows.                       *)
RaceFits == RefreshFits /\ LogoutFits /\ OnlyUnheardFork

LEMMA ReadsFit ==
  ASSUME RaceFits, ReadsKept, hungUp \subseteq hungUp' PROVE RaceFits'
<1>1. Live' = Live /\ tokens' = tokens /\ ended' = ended
  BY DEF ReadsKept, Live, Pair
<1>2. ASSUME NEW c \in Caller, NEW op \in {"refresh", "logout"}, HasRead(c, op)'
      PROVE  HasRead(c, op) /\ call'[c].token = call[c].token
  BY <1>1, <1>2 DEF HasRead, Calls, SessionOf, ReadsKept
<1>3. RefreshFits'
  BY <1>1, <1>2 DEF RaceFits, RefreshFits
<1>4. LogoutFits'
  BY <1>1, <1>2 DEF RaceFits, LogoutFits, SessionOf
<1>5. OnlyUnheardFork'
  BY <1>1 DEF RaceFits, OnlyUnheardFork
<1> QED BY <1>3, <1>4, <1>5 DEF RaceFits

-------------------------------------------------------------------------------
(* The rows after each write of the server.                                   *)
LEMMA LoginRows ==
  ASSUME SessionInv, NEW c \in Caller, Login(c)
  PROVE  \E n : /\ n \notin Pair /\ Live' = Live \cup {n} /\ tokens'[n].session = n
                /\ \A k \in Pair : tokens'[k].session = tokens[k].session
                /\ UNCHANGED ended
<1> DEFINE n == Len(tokens) + 1
<1>1. /\ call[c].account \in Account /\ tokens \in Seq(Token)
      /\ Pair = 1..Len(tokens) /\ Len(tokens) \in Nat /\ UNCHANGED ended
      /\ tokens' = Issue(tokens, call[c].account, n)
  BY Rows DEF SessionInv, TokensInv, TokensTypeOK, CallsFit, Login, Calls, NewPair
<1>2. /\ tokens' \in Seq(Token) /\ Len(tokens') = n
      /\ \A k \in 1..Len(tokens) : tokens'[k] = tokens[k]
      /\ tokens'[n] = [owner |-> call[c].account, session |-> n, revoked |-> FALSE]
  BY <1>1, Issued
<1>3. Pair' = Pair \cup {n} /\ n \notin Pair
  <2>1. Pair' = 1..Len(tokens) + 1
    BY <1>1, <1>2 DEF Pair
  <2> QED BY <1>1, <2>1
<1>4. /\ \A k \in Pair : tokens'[k] = tokens[k]
      /\ tokens'[n].session = n /\ ~tokens'[n].revoked
  BY <1>1, <1>2
<1> HIDE DEF n
<1>5. Live' = Live \cup {n}
  BY <1>3, <1>4 DEF Live
<1> QED BY <1>1, <1>3, <1>4, <1>5

LEMMA RefreshRows ==
  ASSUME SessionInv, NEW c \in Caller, RefreshCommits(c)
  PROVE  /\ call[c].token \in Pair
         /\ \E n : /\ n \notin Pair /\ Live' = (Live \ {call[c].token}) \cup {n}
                   /\ tokens'[n].session = tokens[call[c].token].session
                   /\ \A k \in Pair : tokens'[k].session = tokens[k].session
                   /\ UNCHANGED ended
<1> DEFINE k == call[c].token
           n == Len(tokens) + 1
<1>1. /\ k \in Pair /\ tokens \in Seq(Token) /\ tokens[k] \in Token
      /\ Pair = 1..Len(tokens) /\ Len(tokens) \in Nat /\ UNCHANGED ended
      /\ tokens' = Issue(Revoke(k), tokens[k].owner, tokens[k].session)
  BY Rows DEF SessionInv, TokensInv, TokensTypeOK, CallsFit, RefreshCommits, Calls
<1> HIDE DEF k
<1>2. tokens[k].owner \in Account /\ tokens[k].session \in Nat
  BY <1>1 DEF Token
<1>3. Revoke(k) \in Seq(Token) /\ Len(Revoke(k)) = Len(tokens)
  BY <1>1, Revoked
<1>4. /\ tokens' \in Seq(Token) /\ Len(tokens') = n
      /\ \A i \in Pair : tokens'[i] = Revoke(k)[i]
      /\ tokens'[n] = [owner |-> tokens[k].owner, session |-> tokens[k].session, revoked |-> FALSE]
  <2>1. tokens' = Issue(Revoke(k), tokens[k].owner, tokens[k].session) /\ Pair = 1..Len(tokens)
    BY <1>1
  <2>2. /\ tokens' \in Seq(Token) /\ Len(tokens') = Len(Revoke(k)) + 1
        /\ \A i \in 1..Len(Revoke(k)) : tokens'[i] = Revoke(k)[i]
        /\ tokens'[Len(Revoke(k)) + 1] =
             [owner |-> tokens[k].owner, session |-> tokens[k].session, revoked |-> FALSE]
    BY <1>2, <1>3, <2>1, Issued
  <2> QED BY <1>3, <2>1, <2>2
<1>5. Pair' = Pair \cup {n} /\ n \notin Pair
  <2>1. Pair' = 1..Len(tokens) + 1
    BY <1>1, <1>4 DEF Pair
  <2> QED BY <1>1, <2>1
<1>6. tokens'[n].session = tokens[k].session /\ ~tokens'[n].revoked
  BY <1>4
<1>7. /\ tokens'[k].revoked
      /\ \A i \in Pair : /\ tokens'[i].session = tokens[i].session
                         /\ i # k => tokens'[i] = tokens[i]
  BY <1>1, <1>4, Revoked
<1> HIDE DEF n
<1>8. Live' = (Live \ {k}) \cup {n}
  BY <1>1, <1>5, <1>6, <1>7 DEF Live
<1> QED BY <1>1, <1>5, <1>6, <1>7, <1>8 DEF k

LEMMA LogoutRows ==
  ASSUME SessionInv, NEW c \in Caller, LogoutCommits(c)
  PROVE  /\ call[c].token \in Pair /\ Live' = Live \ {call[c].token}
         /\ \A k \in Pair : tokens'[k].session = tokens[k].session
         /\ ended' = ended \cup {tokens[call[c].token].session}
<1> DEFINE k == call[c].token
<1>1. /\ k \in Pair /\ tokens \in Seq(Token) /\ tokens' = Revoke(k)
      /\ Pair = 1..Len(tokens) /\ Len(tokens) \in Nat
      /\ ended' = ended \cup {tokens[k].session}
  BY Rows DEF SessionInv, TokensInv, TokensTypeOK, CallsFit, LogoutCommits, Calls
<1> HIDE DEF k
<1>2. /\ Len(tokens') = Len(tokens) /\ tokens' \in Seq(Token) /\ tokens'[k].revoked
      /\ \A i \in Pair : /\ tokens'[i].session = tokens[i].session
                         /\ i # k => tokens'[i] = tokens[i]
  BY <1>1, Revoked
<1>3. Pair' = Pair
  BY <1>1, <1>2 DEF Pair
<1>4. Live' = Live \ {k}
  BY <1>1, <1>2, <1>3 DEF Live
<1> QED BY <1>1, <1>2, <1>4 DEF k

-------------------------------------------------------------------------------
(* The steps of the server. In a session that is not counted, a refresh is    *)
(* the only call of the app that matters.                                     *)
LEMMA ReaderIsHeard ==
  ASSUME RaceInv, NEW c \in Caller, NEW op \in {"refresh", "logout"}, HasRead(c, op)
  PROVE  /\ At(c, "call") /\ call[c].token \in Pair
         /\ op = "refresh" => \A d \in Caller, p \in {"refresh", "logout"} : HasRead(d, p) => d = c
<1>1. ASSUME NEW d \in Caller, NEW p \in {"refresh", "logout"}, HasRead(d, p)
      PROVE  /\ At(d, "call") /\ call[d].token \in Pair
             /\ p = "refresh" => Does(d, "check")
  <2>1. call[d] # NoCall /\ call[d].op = p /\ call[d].at = "read"
    BY <1>1 DEF HasRead, Calls
  <2>2. call[d].token \in Pair
    BY <2>1 DEF RaceInv, BaseInv, SessionInv, TokensInv, CallsFit
  <2>3. ~call[d].gone
    BY <1>1, <2>1, <2>2 DEF RaceInv, UnheardCounted, HasRead
  <2>4. At(d, "call")
    BY <2>1, <2>3 DEF RaceInv, Owned
  <2>5. p = "refresh" => task[d].op = "check"
    BY <2>1, <2>4 DEF RaceInv, BaseInv, Phases, PhaseFits, At
  <2> QED BY <2>2, <2>4, <2>5 DEF At, Does
<1>2. ASSUME op = "refresh", NEW d \in Caller, NEW p \in {"refresh", "logout"}, HasRead(d, p)
      PROVE  d = c
  BY <1>1, <1>2 DEF RaceInv, BaseInv, ScreenFits, Busy, At
<1> QED BY <1>1, <1>2

(* Calls that a served call leaves as they were.                              *)
LEMMA OtherReads ==
  ASSUME NEW c \in Caller, CallServed(c), call'[c] # NoCall => call'[c].at = "done",
         CallTokens, CallsFit, hungUp \subseteq hungUp',
         \A k \in Pair : tokens'[k].session = tokens[k].session,
         NEW d \in Caller, NEW op \in {"refresh", "logout"}, HasRead(d, op)'
  PROVE  d # c /\ HasRead(d, op) /\ call'[d].token = call[d].token /\ call[d].token \in Pair
<1>1. call'[d] # NoCall /\ call'[d].op = op /\ call'[d].at = "read"
  BY DEF HasRead, Calls
<1>2. d # c /\ call'[d] = call[d]
  BY <1>1 DEF CallServed, CallOthers
<1>3. call[d].token \in Pair
  BY <1>1, <1>2 DEF CallsFit
<1> QED BY <1>1, <1>2, <1>3 DEF HasRead, Calls, SessionOf

LEMMA LoginRaces ==
  ASSUME RaceInv, NEW c \in Caller, Login(c), hungUp \subseteq hungUp' PROVE RaceFits'
<1>0. SessionInv /\ CallTokens /\ CallsFit /\ SessionsDrawn /\ RaceFits
  BY DEF RaceInv, BaseInv, SessionInv, TokensInv, RaceFits
<1>1. PICK n : /\ n \notin Pair /\ Live' = Live \cup {n} /\ tokens'[n].session = n
               /\ \A k \in Pair : tokens'[k].session = tokens[k].session
               /\ UNCHANGED ended
  BY <1>0, LoginRows
<1>2. CallServed(c) /\ (call'[c] # NoCall => call'[c].at = "done")
  BY <1>0, AnswerGiven DEF Login, Calls
<1>3. ASSUME NEW k \in Live PROVE k \in Pair /\ SessionOf(k) \in Pair /\ SessionOf(k)' = SessionOf(k)
  BY <1>0, <1>1, Rows DEF Live, SessionOf
<1>4. n \notin ended
  BY <1>0, <1>1, Rows DEF SessionsDrawn
<1>5. RefreshFits'
  BY <1>0, <1>1, <1>2, OtherReads DEF RaceFits, RefreshFits
<1>6. LogoutFits'
  <2> SUFFICES ASSUME NEW d \in Caller, HasRead(d, "logout")', call'[d].token \notin Live',
                      NEW k \in Live'
               PROVE  SessionOf(k)' # SessionOf(call[d].token)'
    BY <1>0, <1>1, <1>2, OtherReads DEF LogoutFits
  <2>1. HasRead(d, "logout") /\ call'[d].token = call[d].token /\ call[d].token \in Pair
    BY <1>0, <1>1, <1>2, OtherReads
  <2>2. \A i \in Live : SessionOf(i) # SessionOf(call[d].token)
    BY <1>0, <1>1, <2>1 DEF RaceFits, LogoutFits
  <2>3. SessionOf(call[d].token)' = SessionOf(call[d].token) /\ SessionOf(call[d].token) \in Pair
    BY <1>0, <1>1, <2>1, Rows DEF SessionOf
  <2> QED BY <1>1, <1>3, <2>2, <2>3 DEF SessionOf
<1>7. OnlyUnheardFork'
  <2>1. ASSUME NEW i \in Live', NEW j \in Live', SessionOf(i)' = SessionOf(j)'
        PROVE  i = j \/ SessionOf(i)' \in hungUp'
    BY <1>0, <1>1, <1>3, <2>1 DEF RaceFits, OnlyUnheardFork, SessionOf
  <2>2. ASSUME NEW k \in Live', SessionOf(k)' \in ended' PROVE SessionOf(k)' \in hungUp'
    BY <1>0, <1>1, <1>3, <1>4, <2>2 DEF RaceFits, OnlyUnheardFork, SessionOf
  <2> QED BY <2>1, <2>2 DEF OnlyUnheardFork, SessionOf
<1> QED BY <1>5, <1>6, <1>7 DEF RaceFits

LEMMA ReadRaces ==
  ASSUME RaceInv, NEW c \in Caller, ReadRow(c), hungUp \subseteq hungUp' PROVE RaceFits'
<1>0. /\ SessionInv /\ RaceFits /\ call[c] # NoCall /\ call[c].at = "sent"
      /\ UNCHANGED <<tokens, ended>>
  BY DEF RaceInv, BaseInv, RaceFits, ReadRow, Calls
<1>1. CASE call[c].token \notin Live
  BY <1>0, <1>1, AnswerReads, ReadsFit DEF ReadRow
<1>2. CASE call[c].token \in Live
  <2>1. call[c] \in ACall /\ call \in [Caller -> ACall \cup {NoCall}]
    BY <1>0, Rows DEF SessionInv, TokensInv, TokensTypeOK
  <2>2. /\ \A d \in Caller : d # c => call'[d] = call[d]
        /\ call'[c].token = call[c].token
    BY <1>2, <2>1 DEF ReadRow, ACall
  <2>3. Live' = Live
    BY <1>0 DEF Live, Pair
  <2>4. ASSUME NEW d \in Caller, NEW op \in {"refresh", "logout"}, HasRead(d, op)'
        PROVE  \/ call'[d].token \in Live'
               \/ HasRead(d, op) /\ call'[d].token = call[d].token
    BY <1>0, <1>2, <2>2, <2>3, <2>4 DEF HasRead, Calls, SessionOf
  <2>5. RefreshFits'
    BY <1>0, <2>3, <2>4 DEF RaceFits, RefreshFits
  <2>6. LogoutFits'
    BY <1>0, <2>3, <2>4 DEF RaceFits, LogoutFits, SessionOf
  <2>7. OnlyUnheardFork'
    BY <1>0, <2>3 DEF RaceFits, OnlyUnheardFork
  <2> QED BY <2>5, <2>6, <2>7 DEF RaceFits
<1> QED BY <1>1, <1>2

(* A refresh hands its session on, and it is the only one that can.           *)
LEMMA RefreshRaces ==
  ASSUME RaceInv, NEW c \in Caller, RefreshCommits(c), hungUp \subseteq hungUp' PROVE RaceFits'
<1>0. SessionInv /\ CallTokens /\ CallsFit /\ RaceFits
  BY DEF RaceInv, BaseInv, SessionInv, TokensInv, RaceFits
<1>1. PICK k : k = call[c].token
  OBVIOUS
<1>2. PICK n : /\ n \notin Pair /\ Live' = (Live \ {k}) \cup {n}
               /\ tokens'[n].session = tokens[k].session
               /\ \A i \in Pair : tokens'[i].session = tokens[i].session
               /\ UNCHANGED ended
  BY <1>0, <1>1, RefreshRows
<1>3. k \in Pair
  BY <1>0, <1>1, RefreshRows
<1>4. CallServed(c) /\ (call'[c] # NoCall => call'[c].at = "done")
  BY <1>0, AnswerGiven DEF RefreshCommits, Calls
<1>5. PICK s : s = SessionOf(k)
  OBVIOUS
<1>6. /\ SessionOf(n)' = s
      /\ \A i \in Live : i \in Pair /\ SessionOf(i)' = SessionOf(i)
  BY <1>2, <1>5 DEF SessionOf, Live
<1>7. s \notin hungUp => /\ HasRead(c, "refresh")
                         /\ k \in Live
                         /\ \A i \in Live : SessionOf(i) = s => i = k
                         /\ s \notin ended
  <2> SUFFICES ASSUME s \notin hungUp
               PROVE  /\ HasRead(c, "refresh") /\ k \in Live
                      /\ \A i \in Live : SessionOf(i) = s => i = k
                      /\ s \notin ended
    OBVIOUS
  <2>1. HasRead(c, "refresh")
    BY <1>1, <1>5 DEF HasRead, RefreshCommits
  <2>2. k \in Live
    BY <1>0, <1>1, <2>1 DEF RaceFits, RefreshFits
  <2>3. \A i \in Live : SessionOf(i) = s => i = k
    BY <1>0, <1>5, <2>2 DEF RaceFits, OnlyUnheardFork, SessionOf
  <2>4. s \notin ended
    BY <1>0, <1>5, <2>2 DEF RaceFits, OnlyUnheardFork, SessionOf
  <2> QED BY <2>1, <2>2, <2>3, <2>4
<1>8. ASSUME NEW d \in Caller, NEW op \in {"refresh", "logout"}, HasRead(d, op)'
      PROVE  /\ HasRead(d, op) /\ call'[d].token = call[d].token /\ call[d].token \in Pair
             /\ SessionOf(call[d].token)' = SessionOf(call[d].token)
             /\ SessionOf(call[d].token) \notin hungUp
             /\ SessionOf(call[d].token) # s
  <2>1. /\ d # c /\ HasRead(d, op) /\ call'[d].token = call[d].token /\ call[d].token \in Pair
    BY <1>0, <1>2, <1>4, <1>8, OtherReads
  <2>2. SessionOf(call[d].token)' = SessionOf(call[d].token) /\ SessionOf(call[d].token) \notin hungUp
    BY <1>2, <2>1 DEF SessionOf, HasRead
  <2>3. s \in hungUp
    BY <1>7, <2>1, ReaderIsHeard
  <2> QED BY <2>1, <2>2, <2>3
<1>9. RefreshFits'
  BY <1>0, <1>2, <1>5, <1>8 DEF RaceFits, RefreshFits
<1>10. LogoutFits'
  <2> SUFFICES ASSUME NEW d \in Caller, HasRead(d, "logout")', call'[d].token \notin Live',
                      NEW i \in Live'
               PROVE  SessionOf(i)' # SessionOf(call[d].token)'
    BY <1>8 DEF LogoutFits
  <2>1. /\ HasRead(d, "logout") /\ call'[d].token = call[d].token
        /\ SessionOf(call[d].token)' = SessionOf(call[d].token) /\ SessionOf(call[d].token) # s
    BY <1>8
  <2>2. \A j \in Live : SessionOf(j) # SessionOf(call[d].token)
    BY <1>0, <1>2, <1>5, <2>1 DEF RaceFits, LogoutFits
  <2> QED BY <1>2, <1>6, <2>1, <2>2
<1>11. OnlyUnheardFork'
  <2>1. ASSUME NEW i \in Live', NEW j \in Live', SessionOf(i)' = SessionOf(j)'
        PROVE  i = j \/ SessionOf(i)' \in hungUp'
    BY <1>0, <1>2, <1>6, <1>7, <2>1 DEF RaceFits, OnlyUnheardFork, SessionOf
  <2>2. ASSUME NEW i \in Live', SessionOf(i)' \in ended' PROVE SessionOf(i)' \in hungUp'
    BY <1>0, <1>2, <1>6, <1>7, <2>2 DEF RaceFits, OnlyUnheardFork, SessionOf
  <2> QED BY <2>1, <2>2 DEF OnlyUnheardFork, SessionOf
<1> QED BY <1>9, <1>10, <1>11 DEF RaceFits

(* A logout takes the last live pair, or finds that another one did.          *)
LEMMA LogoutRaces ==
  ASSUME RaceInv, NEW c \in Caller, LogoutCommits(c), hungUp \subseteq hungUp' PROVE RaceFits'
<1>0. SessionInv /\ CallTokens /\ CallsFit /\ RaceFits
  BY DEF RaceInv, BaseInv, SessionInv, TokensInv, RaceFits
<1>1. PICK k : k = call[c].token
  OBVIOUS
<1>2. /\ k \in Pair /\ Live' = Live \ {k}
      /\ \A i \in Pair : tokens'[i].session = tokens[i].session
      /\ ended' = ended \cup {tokens[k].session}
  BY <1>0, <1>1, LogoutRows
<1>3. CallServed(c) /\ (call'[c] # NoCall => call'[c].at = "done")
  BY <1>0, AnswerGiven DEF LogoutCommits, Calls
<1>4. PICK s : s = SessionOf(k)
  OBVIOUS
<1>5. \A i \in Live : i \in Pair /\ SessionOf(i)' = SessionOf(i)
  BY <1>2 DEF SessionOf, Live
<1>6. s \notin hungUp => HasRead(c, "logout") /\ \A i \in Live : SessionOf(i) = s => i = k
  <2> SUFFICES ASSUME s \notin hungUp
               PROVE  HasRead(c, "logout") /\ \A i \in Live : SessionOf(i) = s => i = k
    OBVIOUS
  <2>1. HasRead(c, "logout")
    BY <1>1, <1>4 DEF HasRead, LogoutCommits
  <2>2. k \in Live \/ \A i \in Live : SessionOf(i) # s
    BY <1>0, <1>1, <1>4, <2>1 DEF RaceFits, LogoutFits
  <2>3. \A i \in Live : SessionOf(i) = s => i = k
    BY <1>0, <1>4, <2>2 DEF RaceFits, OnlyUnheardFork, SessionOf
  <2> QED BY <2>1, <2>3
<1>7. ASSUME NEW d \in Caller, NEW op \in {"refresh", "logout"}, HasRead(d, op)'
      PROVE  /\ d # c /\ HasRead(d, op) /\ call'[d].token = call[d].token
             /\ call[d].token \in Pair /\ SessionOf(call[d].token)' = SessionOf(call[d].token)
             /\ SessionOf(call[d].token) \notin hungUp
  BY <1>0, <1>2, <1>3, <1>7, OtherReads DEF HasRead, SessionOf
<1>8. RefreshFits'
  <2> SUFFICES ASSUME NEW d \in Caller, HasRead(d, "refresh")' PROVE call'[d].token \in Live'
    BY DEF RefreshFits
  <2>1. /\ d # c /\ HasRead(d, "refresh") /\ call'[d].token = call[d].token
        /\ SessionOf(call[d].token) \notin hungUp
    BY <1>7
  <2>2. call[d].token \in Live
    BY <1>0, <2>1 DEF RaceFits, RefreshFits
  <2>3. s \in hungUp
    BY <1>6, <2>1, ReaderIsHeard
  <2> QED BY <1>2, <1>4, <2>1, <2>2, <2>3
<1>9. LogoutFits'
  <2> SUFFICES ASSUME NEW d \in Caller, HasRead(d, "logout")', call'[d].token \notin Live',
                      NEW i \in Live'
               PROVE  SessionOf(i)' # SessionOf(call[d].token)'
    BY <1>7 DEF LogoutFits
  <2>1. /\ HasRead(d, "logout") /\ call'[d].token = call[d].token
        /\ SessionOf(call[d].token)' = SessionOf(call[d].token)
        /\ SessionOf(call[d].token) \notin hungUp
    BY <1>7
  <2>2. CASE call[d].token = k
    BY <1>2, <1>4, <1>5, <1>6, <2>1, <2>2
  <2>3. CASE call[d].token # k
    <3>1. \A j \in Live : SessionOf(j) # SessionOf(call[d].token)
      BY <1>0, <1>2, <2>1, <2>3 DEF RaceFits, LogoutFits
    <3> QED BY <1>2, <1>5, <2>1, <3>1
  <2> QED BY <2>2, <2>3
<1>10. OnlyUnheardFork'
  <2>1. ASSUME NEW i \in Live', NEW j \in Live', SessionOf(i)' = SessionOf(j)'
        PROVE  i = j \/ SessionOf(i)' \in hungUp'
    BY <1>0, <1>2, <1>5, <2>1 DEF RaceFits, OnlyUnheardFork, SessionOf
  <2>2. ASSUME NEW i \in Live', SessionOf(i)' \in ended' PROVE SessionOf(i)' \in hungUp'
    BY <1>0, <1>2, <1>4, <1>5, <1>6, <2>2 DEF RaceFits, OnlyUnheardFork, SessionOf
  <2> QED BY <2>1, <2>2 DEF OnlyUnheardFork, SessionOf
<1> QED BY <1>8, <1>9, <1>10 DEF RaceFits

-------------------------------------------------------------------------------
LEMMA RaceInitial == TracedInit => RaceInv
<1> SUFFICES ASSUME Init, hungUp = {} PROVE RaceInv
  BY DEF TracedInit
<1>1. (\A c \in Caller : call[c] = NoCall) /\ Live = {}
  BY DEF Init, TokensInit, Live, Pair
<1> QED BY <1>1, BaseInitial DEF RaceInv, Owned, UnheardCounted, RefreshFits, LogoutFits, HasRead,
                                 Calls, OnlyUnheardFork

LEMMA RaceStep == RaceInv /\ [TracedNext]_<<vars, hungUp>> => RaceInv'
<1> SUFFICES ASSUME RaceInv, [TracedNext]_<<vars, hungUp>> PROVE RaceInv'
  OBVIOUS
<1>0. SessionInv /\ RaceFits /\ [Next]_vars /\ hungUp \subseteq hungUp'
  BY DEF RaceInv, BaseInv, RaceFits, TracedNext
<1>1. BaseInv' /\ Owned'
  BY <1>0, BaseStep, OwnedStep DEF RaceInv
<1>2. UNCHANGED tokens \/ \E c \in Caller : ServedAs(c)
  <2>1. CASE \E t \in Caller :
               \/ Launch(t) \/ TapLogout(t) \/ \E a \in Account : TapLogin(t, a)
               \/ Step(t) \/ Lose(t) \/ StoreFails(t)
    BY <1>0, <2>1, AppReads DEF ReadsKept
  <2> QED BY <1>0, <2>1, Serves DEF Next, vars, tokenVars, Close, HangUp, Expire
<1>3. RowsKept
  BY <1>2, RowsSame DEF ServedAs
<1>4. UnheardCounted'
  <2> SUFFICES ASSUME NEW c \in Caller, call'[c] # NoCall, call'[c].gone,
                      call'[c].op \in {"refresh", "logout"}, call'[c].token \in Pair'
               PROVE  SessionOf(call[c].token)' \in hungUp'
    BY DEF UnheardCounted
  <2>1. CASE UNCHANGED <<vars, hungUp>>
    BY <2>1 DEF RaceInv, UnheardCounted, vars, tokenVars, SessionOf, Pair
  <2>2. CASE TracedNext
    <3>1. call'[c].token \in Pair
      <4>1. CASE UNCHANGED tokens
        BY <4>1 DEF Pair
      <4>2. CASE \E d \in Caller : ServedAs(d)
        <5>1. call[c] # NoCall /\ call'[c].token = call[c].token
          BY <4>2 DEF ServedAs, CallServed, CallOthers
        <5>2. call[c].token \in Pair \cup {0}
          BY <5>1 DEF RaceInv, BaseInv, CallTokens
        <5>3. 0 \notin Pair'
          BY <1>1 DEF BaseInv, SessionInv, TokensInv, TokensTypeOK, Pair
        <5> QED BY <5>1, <5>2, <5>3
      <4> QED BY <1>2, <4>1, <4>2
    <3>2. tokens[call'[c].token].session \in hungUp'
      BY <2>2, <3>1 DEF TracedNext, Unheard
    <3> QED BY <1>3, <3>1, <3>2 DEF RowsKept, SessionOf
  <2> QED BY <2>1, <2>2
<1>5. RaceFits'
  <2>1. CASE UNCHANGED vars \/ \E k \in Pair : Expire(k) /\ UNCHANGED appVars
    <3>1. ReadsKept
      BY <2>1 DEF vars, tokenVars, Expire, ReadsKept
    <3> QED BY <1>0, <3>1, ReadsFit
  <2>2. CASE Close
    <3>1. Caller \in SUBSET Caller
      OBVIOUS
    <3> QED BY <1>0, <2>2, <3>1, HangUpReads, ReadsFit DEF Close
  <2>3. CASE \E t \in Caller :
               \/ Launch(t) \/ TapLogout(t) \/ \E a \in Account : TapLogin(t, a)
               \/ Step(t) \/ Lose(t) \/ StoreFails(t)
    BY <1>0, <2>3, AppReads, ReadsFit
  <2>4. ASSUME NEW c \in Caller, Serve(c) PROVE RaceFits'
    <3>1. CASE Me(c)
      BY <1>0, <3>1, AnswerReads, ReadsFit DEF Me, Calls
    <3> QED BY <1>0, <2>4, <3>1, LoginRaces, ReadRaces, RefreshRaces, LogoutRaces DEF Serve
  <2> QED BY <1>0, <2>1, <2>2, <2>3, <2>4 DEF Next
<1> QED BY <1>1, <1>4, <1>5 DEF RaceInv, RaceFits

(* Only a refresh or a logout that the app hung up on forks a session or lets *)
(* it outlive its logout.                                                     *)
THEOREM ForksAreUnheard == TracedSpec => []OnlyUnheardFork
<1>1. RaceInv => OnlyUnheardFork
  BY DEF RaceInv
<1> QED BY RaceInitial, RaceStep, <1>1, PTL DEF TracedSpec
===============================================================================
