------------------------------ MODULE ChatSafety ------------------------------
(* What the chat client must satisfy, whatever the interleaving of its        *)
(* connects, backfills and frames.                                            *)
EXTENDS ChatClient

(* A message is one row of the list, though it may be in the cache, in a      *)
(* backfill, and come from two live connections or twice from one.            *)
NoDuplicateRow == Cardinality(Elems(shown)) = Len(shown)

(* What a merged backfill answered for is shown until the screen is closed,   *)
(* whatever connects, fails or merges later: every message that had been      *)
(* published when it was asked for, above its cursor and within its page.     *)
BackfilledIsShown ==
  \A k \in Attempt : fetch[k].state = "merged" =>
    \A id \in fetch[k].due :
      \/ id <= fetch[k].after
      \/ id > Highest(fetch[k].page) /\ Cardinality(fetch[k].page) = PageLimit
      \/ id \in Elems(shown)

(* "Connection lost. Reconnecting..." (chat_screen.dart): while the banner is *)
(* shown, a reconnect is scheduled, or on its way, or a connection that has   *)
(* not been lost for the bloc is still to report itself.                      *)
BannerIsHonest ==
  view = "active" /\ ~online =>
    \/ timer
    \/ \E k \in Attempt : phase[k] \in {"closing", "reading", "dialing"}
    \/ \E k \in Attempt : Hears(k) /\ ~(greeted[k] /\ link[k] = "up")

(* The bloc neither forgets nor repeats what the user wrote: each content is  *)
(* queued or was given to a sink, and only once.                              *)
QueuedOnce ==
  LET all == wire \o outbox
  IN  \A c \in 1..composed : Cardinality({i \in 1..Len(all) : all[i] = c}) = 1

(* A room that is shown as connected, once every call has returned and every  *)
(* ending was noticed, holds a connection that is up, so that what the user   *)
(* writes is sent. Two _connect() that crossed, or a backfill that answers    *)
(* after the room was refused, may leave it with a dead one (see astray).     *)
Quiet == \A k \in Attempt : /\ phase[k] \notin {"closing", "reading", "dialing"}
                            /\ Hears(k) => link[k] = "up"
OnlineHasLink ==
  view = "active" /\ online /\ Quiet /\ ~astray => conn # 0 /\ link[conn] = "up"

(* "queue and flush once it's back" (chat_bloc.dart): a message that is sent  *)
(* while earlier ones wait overtakes them only on a connection that has not   *)
(* reported itself yet or has just broken.                                    *)
SentInOrder ==
  [][composed' > composed /\ wire' # wire /\ outbox # <<>> /\ ~astray =>
       ~greeted[conn] \/ link[conn] # "up"]_vars

(* What is shown stays shown until the screen is closed.                      *)
ShownStays == [][view' = "connecting" \/ Elems(shown) \subseteq Elems(shown')]_vars

-------------------------------------------------------------------------------
(* README.md: "clients backfill missed history on every (re)connect", so that *)
(* "a dropped socket never means a lost message". Once the backfill of a      *)
(* connection is merged, and the page was not full, everything published when *)
(* it was asked for is shown, or at least on the device.                      *)
MissedIsBackfilled ==
  \A k \in Attempt :
    fetch[k].state = "merged" /\ Cardinality(fetch[k].page) < PageLimit =>
      fetch[k].due \subseteq Elems(shown) \cup cache

-------------------------------------------------------------------------------
(* Liveness. Awaited calls return, an armed timer fires and a lost connection *)
(* is noticed. No frame is assumed to come: the server makes no such promise, *)
(* and no timer is armed for an open connection that stays silent.            *)
Fairness ==
  \A k \in Attempt : WF_vars(Handler(k)) /\ WF_vars(Reply(k)) /\ WF_vars(TimerFires(k))

FairSpec == Spec /\ Fairness

(* A room that lost its connection is connected again, or as good as: it has  *)
(* an open connection, which its first frame will report (or the screen is    *)
(* closed, or the instance has no attempt left).                              *)
Silent(k) == phase[k] = "open" /\ link[k] = "up" /\ ~greeted[k]
Reconnects ==
  view = "active" /\ ~online ~>
    \/ online \/ view # "active" \/ phase[MaxAttempt] # "none"
    \/ \E k \in Attempt : Silent(k)

(* "queue and flush once it's back" (chat_bloc.dart): what waits in the       *)
(* outbox is sent in the end, or waits for nothing but the first frame of the *)
(* connection that the bloc holds; unless the screen is closed, an instance   *)
(* runs out of attempts, or the bloc has lost track of its connection.        *)
OutboxIsSent ==
  outbox # <<>> ~>
    \/ outbox = <<>> \/ view = "connecting" \/ astray \/ phase[MaxAttempt] # "none"
    \/ conn # 0 /\ Silent(conn)
===============================================================================
