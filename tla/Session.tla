------------------------------- MODULE Session --------------------------------
(* One installation of the app and its session: auth_bloc.dart with           *)
(* auth_repository_impl.dart and token_storage.dart, over the server of       *)
(* AuthTokens. An action is the code between two awaits of one bloc handler.  *)
(* Handlers run concurrently; closing the app ends them, and what they had    *)
(* asked of the server may still be served.                                   *)
EXTENDS AuthTokens, FiniteSets

CONSTANTS
  MaxLogin,   \* bound: pairs after which nobody logs in again
  MaxExpire,  \* bound: access tokens that expire
  MaxFault    \* bound: lost calls and failures of the key store

ASSUME FaultsAssumption == MaxFault \in Nat

VARIABLES
  disk,    \* the key store: two entries, written one after the other
  mem,     \* SecureTokenStorage's copy in memory
  screen,  \* "closed", or the AuthBloc's state
  user,    \* whom the bloc takes for signed in
  task,    \* task[t]: a handler of the bloc, which makes the calls of Caller t
  faults,
  mishaps, \* history: see below
  left     \* history: the sessions that logouts removed from the key store

appVars == <<disk, mem, screen, user, task, faults, mishaps, left>>
vars    == <<tokenVars, appVars>>

Keys  == [access : Nat, refresh : Nat]
NoKey == [access |-> 0, refresh |-> 0]

Idle == [op |-> "idle"]
Task == [op : {"check", "login", "logout"}, pair : Nat,
         pc : {"load", "call", "write access", "write refresh", "clear access", "clear refresh"}]

(* Mishaps: the key store was left with the keys of two pairs, because a write *)
(* was cut off or overlapped with another one; a logout was cut off or         *)
(* overlapped with another one.                                                *)
TypeOK ==
  /\ TokensTypeOK
  /\ disk \in Keys /\ mem \in Keys
  /\ screen \in {"closed", "splash", "login", "loading", "in"}
  /\ user \in Account \cup {None}
  /\ task \in [Caller -> Task \cup {Idle}]
  /\ faults \in 0..MaxFault
  /\ mishaps \subseteq {"pair", "logout"}
  /\ left \subseteq Nat

Init ==
  /\ TokensInit
  /\ disk = NoKey /\ mem = NoKey
  /\ screen = "closed" /\ user = None
  /\ task = [t \in Caller |-> Idle]
  /\ faults = 0 /\ mishaps = {} /\ left = {}

-------------------------------------------------------------------------------
At(t, pc)     == task[t] # Idle /\ task[t].pc = pc
Does(t, op)   == task[t] # Idle /\ task[t].op = op
LoggingOut(t) == Does(t, "logout")
Free(t)       == task[t] = Idle /\ call[t] = NoCall
Goes(t, pc)   == task' = [task EXCEPT ![t].pc = pc]

Begins(t, op, pc) == task' = [task EXCEPT ![t] = [op |-> op, pair |-> 0, pc |-> pc]]

(* A handler ends and emits a state of the bloc.                              *)
Ends(t, s, u) == task' = [task EXCEPT ![t] = Idle] /\ screen' = s /\ user' = u

(* clear() empties the memory before its first await.                         *)
StartsClear(t) == mem' = NoKey /\ Goes(t, "clear access") /\ UNCHANGED <<screen, user>>

Fails == faults < MaxFault /\ faults' = faults + 1

-------------------------------------------------------------------------------
(* Mutant: a check is started beside one that is still running.               *)
CheckTwice(t) ==
  /\ screen \in {"closed", "splash"} /\ Free(t)
  /\ screen' = "splash" /\ Begins(t, "check", "load")
  /\ UNCHANGED <<tokenVars, disk, mem, user, faults, mishaps, left>>

(* The app is started: AuthCheckRequested, restoreSession().                  *)
Launch(t) ==
  /\ screen = "closed" /\ Free(t)
  /\ screen' = "splash" /\ Begins(t, "check", "load")
  /\ UNCHANGED <<tokenVars, disk, mem, user, faults, mishaps, left>>

(* It is closed or killed. *)
Close ==
  /\ screen # "closed"
  /\ screen' = "closed" /\ mem' = NoKey /\ user' = None
  /\ task' = [t \in Caller |-> Idle] /\ HangUp(Caller)
  /\ mishaps' = mishaps \cup {m \in {"pair"} : \E t \in Caller : At(t, "write refresh")}
                        \cup {m \in {"logout"} : \E t \in Caller : LoggingOut(t)}
  /\ UNCHANGED <<disk, faults, left>>

(* Mutant: half a pair is enough.                                             *)
LoadEither(t) ==
  /\ At(t, "load")
  /\ mem' = disk
  /\ IF disk = NoKey
     THEN Ends(t, "login", None) /\ UNCHANGED tokenVars
     ELSE Request(t, "me", None, disk.access) /\ Goes(t, "call") /\ UNCHANGED <<screen, user>>
  /\ UNCHANGED <<disk, faults, mishaps, left>>

(* The key store is read, and the user asked for unless a key is missing.     *)
Load(t) ==
  /\ At(t, "load")
  /\ mem' = disk
  /\ IF 0 \in {disk.access, disk.refresh}
     THEN Ends(t, "login", None) /\ UNCHANGED tokenVars
     ELSE Request(t, "me", None, disk.access) /\ Goes(t, "call") /\ UNCHANGED <<screen, user>>
  /\ UNCHANGED <<disk, faults, mishaps, left>>

(* login(), from the login screen; register() ends with it.                   *)
TapLogin(t, a) ==
  /\ screen = "login" /\ Free(t) /\ Len(tokens) < MaxLogin
  /\ screen' = "loading"
  /\ Begins(t, "login", "call") /\ Request(t, "login", a, 0)
  /\ UNCHANGED <<disk, mem, user, faults, mishaps, left>>

(* logout(): nothing keeps the user from a second tap.                        *)
TapLogout(t) ==
  /\ screen = "in" /\ Free(t)
  /\ IF mem.refresh = 0
     THEN mem' = NoKey /\ Begins(t, "logout", "clear access") /\ UNCHANGED tokenVars
     ELSE Begins(t, "logout", "call") /\ Request(t, "logout", None, mem.refresh) /\ UNCHANGED mem
  /\ mishaps' = mishaps \cup {m \in {"logout"} : \E s \in Caller : LoggingOut(s)}
  /\ UNCHANGED <<disk, screen, user, faults, left>>

(* A call is answered. The first /me of a check that is refused is followed   *)
(* by a refresh; a refused refresh, or a second refused /me, by clear().      *)
SignedIn(t) ==
  /\ Calls(t, "me", "done") /\ call[t].gives # 0
  /\ Ends(t, "in", tokens[call[t].gives].owner) /\ Forget(t)
  /\ UNCHANGED mem

RefreshesSession(t) ==
  /\ Calls(t, "me", "done") /\ call[t].gives = 0
  /\ Does(t, "check") /\ task[t].pair = 0
  /\ Request(t, "refresh", None, mem.refresh)
  /\ UNCHANGED <<mem, screen, user, task>>

GetsPair(t) ==
  /\ Calls(t, "refresh", "done") \/ Calls(t, "login", "done")
  /\ call[t].gives # 0 /\ Forget(t)
  /\ mem' = [access |-> call[t].gives, refresh |-> call[t].gives]
  /\ task' = [task EXCEPT ![t].pc = "write access", ![t].pair = call[t].gives]
  /\ UNCHANGED <<screen, user>>

Rejected(t) == call[t].gives = 0 /\ ~(Does(t, "check") /\ Calls(t, "me", "done") /\ task[t].pair = 0)

GivesUp(t) ==
  IF Does(t, "login") \/ (Does(t, "check") /\ call[t].op = "me" /\ task[t].pair = 0)
  THEN Ends(t, "login", None) /\ UNCHANGED mem
  ELSE StartsClear(t)

Answer(t) ==
  /\ At(t, "call") /\ Answered(t)
  /\ \/ SignedIn(t) \/ RefreshesSession(t) \/ GetsPair(t)
     \/ Rejected(t) /\ GivesUp(t) /\ Forget(t)
  /\ UNCHANGED <<disk, faults, mishaps, left>>

(* A call fails: its request or the server is lost, or the answer is.         *)
Lose(t) ==
  /\ At(t, "call") /\ Fails
  /\ GivesUp(t)
  /\ Forget(t) \/ HangUp({t})
  /\ UNCHANGED <<disk, mishaps, left>>

(* writeTokens(), one key after the other, then /me.                          *)
WriteAccess(t) ==
  /\ At(t, "write access")
  /\ disk' = [disk EXCEPT !.access = task[t].pair]
  /\ Goes(t, "write refresh")
  /\ UNCHANGED <<tokenVars, mem, screen, user, faults, mishaps, left>>

(* Mutant: the key store keeps the old refresh token.                         *)
WriteNothing(t) ==
  /\ At(t, "write refresh")
  /\ Goes(t, "call") /\ Request(t, "me", None, mem.access)
  /\ UNCHANGED <<disk, mem, screen, user, faults, mishaps, left>>

WriteRefresh(t) ==
  /\ At(t, "write refresh")
  /\ disk' = [disk EXCEPT !.refresh = task[t].pair]
  /\ Goes(t, "call") /\ Request(t, "me", None, mem.access)
  /\ mishaps' = mishaps \cup {m \in {"pair"} : disk.access \notin {0, task[t].pair}}
  /\ UNCHANGED <<mem, screen, user, faults, left>>

(* The two deletes of clear(), then the end of a refresh or a logout.         *)
ClearAccess(t) ==
  /\ At(t, "clear access")
  /\ disk' = [disk EXCEPT !.access = 0]
  /\ left' = IF LoggingOut(t) /\ disk.access # 0
             THEN left \cup {tokens[disk.access].session} ELSE left
  /\ Goes(t, "clear refresh")
  /\ UNCHANGED <<tokenVars, mem, screen, user, faults, mishaps>>

ClearRefresh(t) ==
  /\ At(t, "clear refresh")
  /\ disk' = [disk EXCEPT !.refresh = 0]
  /\ Ends(t, "login", None)
  /\ UNCHANGED <<tokenVars, mem, faults, mishaps, left>>

(* The key store raises: the bloc catches it in a check and in a login.       *)
StoreFails(t) ==
  /\ task[t] # Idle /\ ~At(t, "call") /\ Fails
  /\ IF LoggingOut(t) THEN Ends(t, screen, user) ELSE Ends(t, "login", None)
  /\ mishaps' = mishaps \cup {m \in {"pair"} : At(t, "write refresh")}
                        \cup {m \in {"logout"} : LoggingOut(t)}
  /\ UNCHANGED <<tokenVars, disk, mem, left>>

Step(t) ==
  \/ Load(t) \/ Answer(t)
  \/ WriteAccess(t) \/ WriteRefresh(t) \/ ClearAccess(t) \/ ClearRefresh(t)

Next ==
  \/ \E t \in Caller :
       \/ Launch(t) \/ TapLogout(t) \/ \E a \in Account : TapLogin(t, a)
       \/ Step(t) \/ Lose(t) \/ StoreFails(t)
       \/ Serve(t) /\ UNCHANGED appVars
  \/ \E k \in Pair : Cardinality(expired) < MaxExpire /\ Expire(k) /\ UNCHANGED appVars
  \/ Close

Spec == Init /\ [][Next]_vars
===============================================================================
