--------------------------- MODULE RoomSocketProofs ---------------------------
(* Proofs about RoomSocket, for every set of processes, connections and users *)
(* and every bound.                                                           *)
EXTENDS RoomSafety, TLAPS

(* A listener that awaits a send has a broadcast to go on with.               *)
SendingHasBroadcast == \A l \in Conn : lst[l] = "sending" => bcast[l] # None

-------------------------------------------------------------------------------
(* Type correctness.                                                          *)

LEMMA PayloadsTyped ==
  /\ \A n \in Nat : MessageBroadcast(n) \in Payload
  /\ \A c \in Conn : TypingBroadcast(c) \in Payload
  /\ PresenceBroadcast \in Payload
BY ConnAssumption DEF MessageBroadcast, TypingBroadcast, PresenceBroadcast, Payload

(* A publication keeps the inboxes typed.                                     *)
LEMMA PushTyped ==
  ASSUME inbox \in [Conn -> Seq(Payload)], NEW m \in Payload, Push(m)
  PROVE  inbox' \in [Conn -> Seq(Payload)]
BY DEF Push

LEMMA StopTyped ==
  ASSUME BroadcasterTypeOK, bcast \in [Conn -> Iteration \cup {None}],
         NEW p \in Proc, StopListening(p)
  PROVE  BroadcasterTypeOK' /\ bcast' \in [Conn -> Iteration \cup {None}]
BY DEF StopListening, BroadcasterTypeOK

LEMMA FinallyTyped ==
  ASSUME TypeOK, NEW c \in Conn, Finally(c), spent' \in [{"typing", "drop", "repeat", "crash"} -> Nat]
  PROVE  TypeOK'
<1>1. ProcOf[c] \in Proc
  BY ConnAssumption
<1>2. BroadcasterTypeOK' /\ bcast' \in [Conn -> Iteration \cup {None}]
  <2>1. CASE StopListening(ProcOf[c])
    BY <2>1, <1>1, StopTyped DEF TypeOK, ManagerTypeOK
  <2>2. CASE UNCHANGED <<bcast, taskVars, redisVars>>
    BY <2>2 DEF TypeOK, ManagerTypeOK, BroadcasterTypeOK, taskVars, redisVars
  <2> QED BY <2>1, <2>2 DEF Finally
<1>3. reg' \in [Proc -> SUBSET Conn] /\ alive' \in [Conn -> BOOLEAN]
  BY <1>1 DEF Finally, Disconnect, TypeOK, ManagerTypeOK
<1>4. UNCHANGED sentVars /\ held' \in [Conn -> Nat] /\ UNCHANGED <<nextId, stored>>
  BY DEF Finally, TypeOK
<1>5. pc' \in [Conn -> Before \cup Serving \cup After \cup Finished]
  BY DEF Finally, Goto, TypeOK, After
<1> QED BY <1>2, <1>3, <1>4, <1>5 DEF TypeOK, ManagerTypeOK, sentVars

LEMMA AdvanceTyped ==
  ASSUME ManagerTypeOK, NEW l \in Conn, NEW it \in Iteration, Advance(l, it)
  PROVE  ManagerTypeOK'
<1>1. ProcOf[l] \in Proc
  BY ConnAssumption
<1>2. CASE SendNext(l, it)
  <2>1. PICK c \in Targets(l, it), skipped \in SUBSET (Unseen(l, it) \ Targets(l, it)) :
          \/ /\ bcast' = [bcast EXCEPT ![l] = [it EXCEPT !.seen = it.seen \cup {c} \cup skipped]]
             /\ Sent(c, it.msg)
          \/ /\ bcast' = [bcast EXCEPT ![l] = [it EXCEPT !.seen = it.seen \cup {c} \cup skipped,
                                                         !.dead = @ \cup {c}]]
             /\ UNCHANGED sentVars
    BY <1>2 DEF SendNext
  <2>2. c \in Conn /\ skipped \in SUBSET Conn
    BY <1>1 DEF Targets, Unseen, ManagerTypeOK
  <2>3. bcast' \in [Conn -> Iteration \cup {None}]
    <3> DEFINE sent == [it EXCEPT !.seen = it.seen \cup {c} \cup skipped]
               lost == [it EXCEPT !.seen = it.seen \cup {c} \cup skipped,
                                  !.dead = @ \cup {c}]
    <3>1. sent \in Iteration /\ lost \in Iteration
      BY <2>2 DEF Iteration
    <3>2. bcast' = [bcast EXCEPT ![l] = sent] \/ bcast' = [bcast EXCEPT ![l] = lost]
      BY <2>1
    <3> HIDE DEF sent, lost
    <3> QED BY <3>1, <3>2 DEF ManagerTypeOK
  <2>4. it.msg \in Payload
    BY DEF Iteration
  <2>5. got' \in [Conn -> Seq(Nat)] /\ typed' \in [Conn -> SUBSET User]
    <3>1. CASE UNCHANGED sentVars
      BY <3>1 DEF ManagerTypeOK, sentVars
    <3>2. CASE Sent(c, it.msg)
      <4>1. it.msg.type = "message" => it.msg.at \in Nat
        BY <2>4 DEF Payload
      <4>2. it.msg.type = "typing" => it.msg.user \in User
        BY <2>4 DEF Payload
      <4> QED BY <3>2, <4>1, <4>2, <2>2 DEF Sent, ManagerTypeOK
    <3> QED BY <2>1, <3>1, <3>2
  <2>6. UNCHANGED <<reg, alive>>
    BY <1>2 DEF SendNext
  <2> QED BY <2>3, <2>5, <2>6 DEF ManagerTypeOK
<1>3. CASE FinishIteration(l, it)
  BY <1>1, <1>3 DEF FinishIteration, ManagerTypeOK, sentVars
<1>4. CASE AbortIteration(l, it)
  BY <1>4 DEF AbortIteration, ManagerTypeOK, sentVars
<1> QED BY <1>2, <1>3, <1>4 DEF Advance

(* A listener moves its own broadcast only.                                   *)
LEMMA AdvanceOthers ==
  ASSUME ManagerTypeOK, NEW l \in Conn, NEW it, Advance(l, it), NEW k \in Conn, k # l
  PROVE  bcast'[k] = bcast[k]
BY DEF Advance, SendNext, FinishIteration, AbortIteration, ManagerTypeOK

LEMMA ListenStepTyped ==
  ASSUME ManagerTypeOK, BroadcasterTypeOK, SendingHasBroadcast, NEW l \in Conn, ListenStep(l)
  PROVE  ManagerTypeOK' /\ BroadcasterTypeOK' /\ SendingHasBroadcast'
<1> USE ConnAssumption
<1>1. CASE ListenTake(l)
  <2>1. Head(inbox[l]) \in Payload /\ Tail(inbox[l]) \in Seq(Payload)
    BY <1>1 DEF ListenTake, BroadcasterTypeOK
  <2>2. FreshIteration(l, Head(inbox[l])) \in Iteration
    BY <2>1 DEF FreshIteration, Iteration, ManagerTypeOK
  <2>3. ManagerTypeOK'
    BY <1>1, <2>2, AdvanceTyped DEF ListenTake
  <2>4. BroadcasterTypeOK'
    BY <1>1, <2>1 DEF ListenTake, BroadcasterTypeOK
  <2>5. SendingHasBroadcast'
    BY <1>1, AdvanceOthers DEF ListenTake, SendingHasBroadcast, BroadcasterTypeOK
  <2> QED BY <2>3, <2>4, <2>5
<1>2. CASE ListenContinue(l)
  <2>1. bcast[l] \in Iteration
    BY <1>2 DEF ListenContinue, ManagerTypeOK, SendingHasBroadcast
  <2>2. ManagerTypeOK'
    BY <1>2, <2>1, AdvanceTyped DEF ListenContinue
  <2>3. BroadcasterTypeOK'
    BY <1>2 DEF ListenContinue, BroadcasterTypeOK, redisVars
  <2>4. SendingHasBroadcast'
    BY <1>2, AdvanceOthers DEF ListenContinue, SendingHasBroadcast, BroadcasterTypeOK
  <2> QED BY <2>2, <2>3, <2>4
<1>3. CASE ListenFail(l)
  BY <1>3 DEF ListenFail, BroadcasterTypeOK, ManagerTypeOK, managerVars, sentVars, SendingHasBroadcast
<1>4. CASE Reconnected(l)
  BY <1>4 DEF Reconnected, BroadcasterTypeOK, ManagerTypeOK, managerVars, sentVars, SendingHasBroadcast
<1> QED BY <1>1, <1>2, <1>3, <1>4 DEF ListenStep

LEMMA StopSending ==
  ASSUME BroadcasterTypeOK, ManagerTypeOK, SendingHasBroadcast, NEW p \in Proc, StopListening(p)
  PROVE  SendingHasBroadcast'
BY DEF StopListening, SendingHasBroadcast

TypeInv == TypeOK /\ SendingHasBroadcast

LEMMA TypeInit == Init => TypeInv
BY DEF Init, ManagerInit, BroadcasterInit, TypeInv, TypeOK, ManagerTypeOK,
       BroadcasterTypeOK, SendingHasBroadcast, Before

(* The cleanup stops a listener, or leaves every listener alone.             *)
LEMMA FinallySending ==
  ASSUME TypeInv, NEW c \in Conn, Finally(c)
  PROVE  SendingHasBroadcast'
BY ConnAssumption, StopSending
   DEF Finally, TypeInv, TypeOK, SendingHasBroadcast, taskVars

LEMMA TypeNext == TypeInv /\ [Next]_vars => TypeInv'
<1> SUFFICES ASSUME TypeInv, [Next]_vars PROVE TypeInv'
  OBVIOUS
<1> USE DEF TypeInv, SendingHasBroadcast
<1>0. \A c \in Conn : ProcOf[c] \in Proc
  BY ConnAssumption
<1>1. ASSUME NEW c \in Conn, Reject(c) PROVE TypeInv'
  BY <1>1 DEF Reject, Goto, TypeOK, ManagerTypeOK, BroadcasterTypeOK, taskVars, redisVars, sentVars, Finished
<1>2. ASSUME NEW c \in Conn, Register(c) PROVE TypeInv'
  BY <1>2, <1>0 DEF Register, Connect, Goto, TypeOK, ManagerTypeOK, BroadcasterTypeOK, taskVars, redisVars, sentVars, Before, Serving
<1>3. ASSUME NEW c \in Conn, Subscribed(c) PROVE TypeInv'
  BY <1>3, <1>0 DEF Subscribed, StartListening, Goto, TypeOK, ManagerTypeOK, BroadcasterTypeOK, sentVars, Serving
<1>4. ASSUME NEW c \in Conn, SubscribeFail(c) PROVE TypeInv'
  BY <1>4 DEF SubscribeFail, Goto, TypeOK, ManagerTypeOK, BroadcasterTypeOK, taskVars, redisVars, sentVars, Finished
<1>5. ASSUME NEW c \in Conn, Joined(c) PROVE TypeInv'
  BY <1>5, PushTyped, PayloadsTyped DEF Joined, Goto, TypeOK, ManagerTypeOK, BroadcasterTypeOK, taskVars, managerVars, sentVars, Serving
<1>6. ASSUME NEW c \in Conn, JoinFail(c) PROVE TypeInv'
  BY <1>6, PushTyped, PayloadsTyped DEF JoinFail, Goto, TypeOK, ManagerTypeOK, BroadcasterTypeOK, taskVars, sentVars, Finished
<1>7. ASSUME NEW c \in Conn, Unsubscribed(c) PROVE TypeInv'
  BY <1>7 DEF Unsubscribed, Goto, TypeOK, ManagerTypeOK, BroadcasterTypeOK, taskVars, redisVars, managerVars, sentVars, After
<1>8. ASSUME NEW c \in Conn, Left(c) PROVE TypeInv'
  BY <1>8, PushTyped, PayloadsTyped DEF Left, Goto, TypeOK, ManagerTypeOK, BroadcasterTypeOK, taskVars, managerVars, sentVars, Finished
<1>9. ASSUME NEW c \in Conn, RecvMessage(c) PROVE TypeInv'
  BY <1>9 DEF RecvMessage, Goto, TypeOK, ManagerTypeOK, BroadcasterTypeOK, taskVars, redisVars, managerVars, sentVars, Serving
<1>10. ASSUME NEW c \in Conn, Commit(c) PROVE TypeInv'
  BY <1>10 DEF Commit, Goto, TypeOK, ManagerTypeOK, BroadcasterTypeOK, taskVars, redisVars, managerVars, sentVars, Serving
<1>11. ASSUME NEW c \in Conn, PublishMessage(c) \/ PublishRepeat(c) PROVE TypeInv'
  <2>1. MessageBroadcast(Len(log) + 1) \in Payload /\ log' \in Seq(Nat)
    <3>1. log \in Seq(Nat) /\ held[c] \in Nat /\ Len(log) + 1 \in Nat
      BY DEF TypeOK, BroadcasterTypeOK
    <3>2. log' = Append(log, held[c])
      BY <1>11 DEF PublishMessage, PublishRepeat, PushMessage
    <3> QED BY <3>1, <3>2, PayloadsTyped
  <2>2. inbox' \in [Conn -> Seq(Payload)]
    BY <1>11, <2>1, PushTyped DEF PublishMessage, PublishRepeat, PushMessage, TypeOK, BroadcasterTypeOK
  <2>3. UNCHANGED <<managerVars, taskVars, link, nextId, stored>>
    BY <1>11 DEF PublishMessage, PublishRepeat, handlerVars
  <2>4. pc' \in [Conn -> Before \cup Serving \cup After \cup Finished]
    BY <1>11 DEF PublishMessage, PublishRepeat, handlerVars, Goto, TypeOK, Serving
  <2>5. held' \in [Conn -> Nat]
    BY <1>11 DEF PublishMessage, PublishRepeat, handlerVars, TypeOK
  <2>6. spent' \in [{"typing", "drop", "repeat", "crash"} -> Nat]
    BY <1>11 DEF PublishMessage, PublishRepeat, Spend, TypeOK
  <2> QED
    BY <2>1, <2>2, <2>3, <2>4, <2>5, <2>6
    DEF TypeOK, ManagerTypeOK, BroadcasterTypeOK, taskVars, managerVars, sentVars
<1>12. ASSUME NEW c \in Conn, Leave(c) \/ CommitFail(c) \/ PublishFail(c) PROVE TypeInv'
  <2>1. Finally(c) /\ UNCHANGED spent
    BY <1>12 DEF Leave, CommitFail, PublishFail
  <2> QED BY <2>1, FinallyTyped, FinallySending DEF TypeOK
<1>13. ASSUME NEW c \in Conn, TypingFail(c) PROVE TypeInv'
  <2>1. Finally(c) /\ spent' \in [{"typing", "drop", "repeat", "crash"} -> Nat]
    BY <1>13 DEF TypingFail, Spend, TypeOK
  <2> QED BY <2>1, FinallyTyped, FinallySending
<1>14. ASSUME NEW c \in Conn, RecvTyping(c) PROVE TypeInv'
  <2>1. UNCHANGED <<managerVars, taskVars, link, log, handlerVars>>
    BY <1>14 DEF RecvTyping
  <2>2. inbox' \in [Conn -> Seq(Payload)]
    BY <1>14, PushTyped, PayloadsTyped DEF RecvTyping, TypeOK, BroadcasterTypeOK
  <2>3. spent' \in [{"typing", "drop", "repeat", "crash"} -> Nat]
    BY <1>14 DEF RecvTyping, Spend, TypeOK
  <2> QED
    BY <2>1, <2>2, <2>3
    DEF TypeOK, ManagerTypeOK, BroadcasterTypeOK, taskVars, managerVars, sentVars, handlerVars
<1>15. ASSUME NEW c \in Conn, PeerDrop(c) PROVE TypeInv'
  BY <1>15 DEF PeerDrop, TypeOK, ManagerTypeOK, BroadcasterTypeOK, taskVars, redisVars, sentVars, handlerVars
<1>16. ASSUME NEW l \in Conn, Activate(l) PROVE TypeInv'
  BY <1>16 DEF Activate, RedisActivate, TypeOK, ManagerTypeOK, BroadcasterTypeOK, taskVars, managerVars, sentVars, handlerVars
<1>17. ASSUME NEW l \in Conn, Drop(l) PROVE TypeInv'
  <2>1. UNCHANGED <<managerVars, taskVars, inbox, log, handlerVars>>
    BY <1>17 DEF Drop, RedisDrop
  <2>2. link' \in [Conn -> {"off", "sent", "on", "broken"}]
    BY <1>17 DEF Drop, RedisDrop, TypeOK, BroadcasterTypeOK
  <2>3. spent' \in [{"typing", "drop", "repeat", "crash"} -> Nat]
    BY <1>17 DEF Drop, Spend, TypeOK
  <2> QED
    BY <2>1, <2>2, <2>3
    DEF TypeOK, ManagerTypeOK, BroadcasterTypeOK, taskVars, managerVars, sentVars, handlerVars
<1>18. ASSUME NEW l \in Conn, Listen(l) PROVE TypeInv'
  BY <1>18, ListenStepTyped DEF Listen, TypeOK, handlerVars
<1>19. ASSUME NEW p \in Proc, Crash(p) PROVE TypeInv'
  <2>1. StopListening(p)
    BY <1>19 DEF Crash
  <2>2. BroadcasterTypeOK' /\ bcast' \in [Conn -> Iteration \cup {None}] /\ SendingHasBroadcast'
    BY <2>1, StopTyped, StopSending DEF TypeOK, ManagerTypeOK
  <2>3. reg' \in [Proc -> SUBSET Conn] /\ alive' \in [Conn -> BOOLEAN] /\ UNCHANGED sentVars
    BY <1>19 DEF Crash, TypeOK, ManagerTypeOK
  <2>4. pc' \in [Conn -> Before \cup Serving \cup After \cup Finished]
    BY <1>19 DEF Crash, TypeOK, Finished
  <2>5. held' \in [Conn -> Nat] /\ UNCHANGED <<nextId, stored>>
    BY <1>19 DEF Crash, TypeOK
  <2>6. spent' \in [{"typing", "drop", "repeat", "crash"} -> Nat]
    BY <1>19 DEF Crash, Spend, TypeOK
  <2> QED BY <2>2, <2>3, <2>4, <2>5, <2>6 DEF TypeOK, ManagerTypeOK, sentVars
<1>20. CASE UNCHANGED vars
  BY <1>20 DEF vars, TypeOK, ManagerTypeOK, BroadcasterTypeOK, taskVars, redisVars, managerVars, sentVars, handlerVars
<1> QED
  BY <1>1, <1>2, <1>3, <1>4, <1>5, <1>6, <1>7, <1>8, <1>9, <1>10, <1>11, <1>12, <1>13,
     <1>14, <1>15, <1>16, <1>17, <1>18, <1>19, <1>20
  DEF Next, Handshake, Step, Frame

(* Every variable stays in its type: in particular, a listener never goes on  *)
(* with a broadcast it does not have.                                         *)
THEOREM TypeCorrect == Spec => []TypeOK
<1>1. TypeInv => TypeOK
  BY DEF TypeInv
<1> QED
  BY <1>1, TypeInit, TypeNext, PTL DEF Spec

-------------------------------------------------------------------------------
(* Listeners and the registry. The three invariants are not inductive without *)
(* knowing who is in the registry, that a subscriber is alone in creating the *)
(* listener, and that one that failed stays in the registry, which keeps      *)
(* everybody else from subscribing.                                           *)

RegistryMembers ==
  \A p \in Proc : \A c \in reg[p] :
    /\ ProcOf[c] = p
    /\ pc[c] \in {"subscribing", "subscribe_failed", "join_failed"} \cup Serving

InSubscribe(c) == pc[c] \in {"subscribing", "subscribe_failed"}

SubscriberAlone ==
  \A c \in Conn : InSubscribe(c) =>
    /\ c \in reg[ProcOf[c]]
    /\ \A d \in Local(ProcOf[c]) : InSubscribe(d) => d = c

NoListenerBefore ==
  \A c \in Conn : InSubscribe(c) => tasks[ProcOf[c]] = None

TasksRun == \A p \in Proc : tasks[p] # None =>
              ProcOf[tasks[p]] = p /\ lst[tasks[p]] # "none"

ListenerInv ==
  /\ SingleListener
  /\ TasksRun
  /\ RegistryMembers
  /\ SubscriberAlone
  /\ NoListenerBefore
  /\ ListenerWhileOccupied
  /\ ReleasedWhenUnused

(* Steps that touch neither the registry, the listeners nor a program counter.*)
LEMMA ListenerUnaffected ==
  ASSUME ListenerInv, UNCHANGED <<reg, taskVars, pc>>
  PROVE  ListenerInv'
BY DEF ListenerInv, taskVars, SingleListener, TasksRun, RegistryMembers,
       SubscriberAlone, NoListenerBefore, InSubscribe, ListenerWhileOccupied,
       ReleasedWhenUnused

(* A handler moves on in its receive loop, or is ended by its join event.     *)
LEMMA ServingMoves ==
  ASSUME TypeOK, ListenerInv, NEW c \in Conn, pc[c] \in Serving,
         NEW label \in Serving \cup {"join_failed"}, Goto(c, label),
         UNCHANGED <<reg, taskVars>>
  PROVE  ListenerInv'
<1> USE DEF ListenerInv, taskVars, Goto, Serving
<1>1. \A d \in Conn : pc'[d] = IF d = c THEN label ELSE pc[d]
  BY DEF TypeOK
<1>2. SingleListener' /\ TasksRun'
  BY DEF SingleListener, TasksRun
<1>3. RegistryMembers'
  BY <1>1 DEF RegistryMembers, TypeOK, ManagerTypeOK
<1>4. SubscriberAlone' /\ NoListenerBefore'
  BY <1>1 DEF SubscriberAlone, NoListenerBefore, InSubscribe, Local
<1>5. ListenerWhileOccupied'
  BY <1>1 DEF ListenerWhileOccupied, TypeOK, ManagerTypeOK
<1>6. ReleasedWhenUnused'
  BY <1>1 DEF ReleasedWhenUnused, Local
<1> QED BY <1>2, <1>3, <1>4, <1>5, <1>6

(* A handler that is not in the registry moves on without entering it.        *)
LEMMA OutsiderMoves ==
  ASSUME TypeOK, ListenerInv, NEW c \in Conn, pc[c] \in {"new"} \cup After,
         NEW label \in {"closed"} \cup After, Goto(c, label),
         UNCHANGED <<reg, taskVars>>
  PROVE  ListenerInv'
<1> USE DEF ListenerInv, taskVars, Goto, Serving, After
<1>1. \A d \in Conn : pc'[d] = IF d = c THEN label ELSE pc[d]
  BY DEF TypeOK
<1>2. SingleListener' /\ TasksRun'
  BY DEF SingleListener, TasksRun
<1>3. RegistryMembers'
  BY <1>1 DEF RegistryMembers, TypeOK, ManagerTypeOK
<1>4. SubscriberAlone' /\ NoListenerBefore'
  BY <1>1 DEF SubscriberAlone, NoListenerBefore, InSubscribe, Local
<1>5. ListenerWhileOccupied'
  BY <1>1 DEF ListenerWhileOccupied, TypeOK, ManagerTypeOK
<1>6. ReleasedWhenUnused'
  BY <1>1 DEF ReleasedWhenUnused, Local
<1> QED BY <1>2, <1>3, <1>4, <1>5, <1>6

(* Only a socket that finds an empty registry and no PubSub subscribes.       *)
LEMMA RegisterKeeps ==
  ASSUME TypeOK, ListenerInv, NEW c \in Conn, Register(c)
  PROVE  ListenerInv'
<1> DEFINE p == ProcOf[c]
           label == IF IsFirst(c) /\ ~AlreadySubscribed(p) THEN "subscribing" ELSE "joining"
<1> USE DEF ListenerInv, Serving
<1>0. p \in Proc /\ pc[c] = "new" /\ UNCHANGED <<pubsubs, tasks, lst>>
  BY ConnAssumption DEF Register, taskVars
<1>1. \A d \in Conn : pc'[d] = IF d = c THEN label ELSE pc[d]
  BY DEF Register, Goto, TypeOK
<1>2. \A q \in Proc : reg'[q] = IF q = p THEN reg[q] \cup {c} ELSE reg[q]
  BY <1>0 DEF Register, Connect, TypeOK, ManagerTypeOK
<1>3. label = "subscribing" => reg[p] = {} /\ tasks[p] = None
  BY <1>0 DEF IsFirst, AlreadySubscribed, SingleListener
<1>4. label \in {"subscribing", "joining"}
  OBVIOUS
<1>5. label = "joining" => reg[p] # {} \/ tasks[p] # None
  BY <1>0 DEF IsFirst, AlreadySubscribed, SingleListener
<1> HIDE DEF label
<1>6. SingleListener' /\ TasksRun'
  BY <1>0 DEF SingleListener, TasksRun
<1>7. RegistryMembers'
  <2> SUFFICES ASSUME NEW q \in Proc, NEW d \in reg'[q]
               PROVE  /\ ProcOf[d] = q
                      /\ pc'[d] \in {"subscribing", "subscribe_failed", "join_failed"} \cup Serving
    BY DEF RegistryMembers
  <2>1. CASE d = c /\ q = p
    BY <2>1, <1>1, <1>4
  <2>2. CASE ~(d = c /\ q = p)
    <3>0. reg[q] \subseteq Conn
      BY DEF TypeOK, ManagerTypeOK
    <3>1. d \in reg[q] /\ d \in Conn
      BY <2>2, <1>2, <3>0
    <3>2. d # c
      BY <3>1, <1>0 DEF RegistryMembers
    <3> QED BY <3>1, <3>2, <1>1 DEF RegistryMembers
  <2> QED BY <2>1, <2>2
<1>8. SubscriberAlone'
  <2> SUFFICES ASSUME NEW d \in Conn, InSubscribe(d)'
               PROVE  /\ d \in reg'[ProcOf[d]]
                      /\ \A e \in Local(ProcOf[d]) : InSubscribe(e)' => e = d
    BY DEF SubscriberAlone
  <2>1. ProcOf[d] \in Proc
    BY ConnAssumption
  <2>2. \A e \in Conn : e # c => (InSubscribe(e)' <=> InSubscribe(e))
    BY <1>1 DEF InSubscribe
  <2>3. \A e \in Local(p) : InSubscribe(e) => reg[p] # {}
    BY DEF SubscriberAlone, Local
  <2>4. InSubscribe(c)' => label = "subscribing"
    BY <1>1, <1>4 DEF InSubscribe
  <2>5. d \in reg'[ProcOf[d]]
    BY <2>1, <2>2, <1>2 DEF SubscriberAlone
  <2>6. ASSUME NEW e \in Local(ProcOf[d]), InSubscribe(e)', e # d PROVE FALSE
    <3>1. d \in Local(ProcOf[d]) /\ e \in Conn /\ ProcOf[e] = ProcOf[d]
      BY <2>6 DEF Local
    <3>2. CASE d = c
      BY <3>1, <3>2, <2>2, <2>3, <2>4, <2>6, <1>3
    <3>3. CASE e = c
      BY <3>1, <3>3, <2>2, <2>3, <2>4, <2>6, <1>3
    <3>4. CASE d # c /\ e # c
      BY <3>1, <3>4, <2>2, <2>6 DEF SubscriberAlone
    <3> QED BY <3>2, <3>3, <3>4
  <2> QED BY <2>5, <2>6
<1>9. NoListenerBefore'
  BY <1>0, <1>1, <1>3, <1>4 DEF NoListenerBefore, InSubscribe
<1>10. ListenerWhileOccupied'
  <2> SUFFICES ASSUME NEW q \in Proc, reg'[q] # {}, tasks'[q] = None
               PROVE  \E d \in reg'[q] : pc'[d] \in {"subscribing", "subscribe_failed"}
    BY DEF ListenerWhileOccupied
  <2>1. CASE q = p /\ label = "subscribing"
    BY <2>1, <1>0, <1>1, <1>2
  <2>2. CASE ~(q = p /\ label = "subscribing")
    <3>1. reg[q] # {}
      BY <2>2, <1>0, <1>2, <1>4, <1>5
    <3>2. PICK d \in reg[q] : pc[d] \in {"subscribing", "subscribe_failed"}
      BY <3>1, <1>0 DEF ListenerWhileOccupied
    <3>3. d \in Conn /\ d # c
      BY <3>2, <1>0 DEF TypeOK, ManagerTypeOK
    <3> QED BY <3>2, <3>3, <1>1, <1>2
  <2> QED BY <2>1, <2>2
<1>11. ReleasedWhenUnused'
  BY <1>0, <1>1 DEF ReleasedWhenUnused, Local
<1> QED BY <1>6, <1>7, <1>8, <1>9, <1>10, <1>11

(* The subscriber creates the one listener of its process.                    *)
LEMMA SubscribedKeeps ==
  ASSUME TypeOK, ListenerInv, NEW c \in Conn, Subscribed(c)
  PROVE  ListenerInv'
<1> DEFINE p == ProcOf[c]
<1> USE DEF ListenerInv, Serving
<1>0. p \in Proc /\ pc[c] = "subscribing" /\ UNCHANGED reg /\ c # None
  BY ConnAssumption, NoneAssumption DEF Subscribed
<1>1. \A d \in Conn : pc'[d] = IF d = c THEN "joining" ELSE pc[d]
  BY DEF Subscribed, Goto, TypeOK
<1>2. /\ pubsubs' = pubsubs \cup {p}
      /\ \A q \in Proc : tasks'[q] = IF q = p THEN c ELSE tasks[q]
      /\ \A l \in Conn : lst'[l] = IF l = c THEN "reading" ELSE lst[l]
  BY <1>0 DEF Subscribed, StartListening, TypeOK, BroadcasterTypeOK
<1>3. tasks[p] = None /\ c \in reg[p]
  BY <1>0 DEF NoListenerBefore, SubscriberAlone, InSubscribe
<1>4. SingleListener'
  BY <1>0, <1>2, <1>3, ConnAssumption, NoneAssumption DEF SingleListener
<1>5. TasksRun'
  <2> SUFFICES ASSUME NEW q \in Proc, tasks'[q] # None
               PROVE  ProcOf[tasks'[q]] = q /\ lst'[tasks'[q]] # "none"
    BY DEF TasksRun
  <2>1. CASE q = p
    BY <2>1, <1>2
  <2>2. CASE q # p
    <3>1. tasks'[q] = tasks[q] /\ tasks[q] \in Conn
      BY <2>2, <1>2 DEF TypeOK, BroadcasterTypeOK
    <3> QED BY <3>1, <1>2 DEF TasksRun
  <2> QED BY <2>1, <2>2
<1>6. RegistryMembers'
  BY <1>0, <1>1 DEF RegistryMembers, TypeOK, ManagerTypeOK
<1>7. SubscriberAlone'
  BY <1>0, <1>1 DEF SubscriberAlone, InSubscribe, Local
<1>8. NoListenerBefore'
  <2> SUFFICES ASSUME NEW d \in Conn, pc'[d] \in {"subscribing", "subscribe_failed"}
               PROVE  tasks'[ProcOf[d]] = None
    BY DEF NoListenerBefore, InSubscribe
  <2>1. d # c /\ pc[d] \in {"subscribing", "subscribe_failed"}
    BY <1>1
  <2>2. ProcOf[d] # p
    BY <2>1, <1>0 DEF SubscriberAlone, InSubscribe, Local
  <2> QED BY <2>1, <2>2, <1>2, ConnAssumption DEF NoListenerBefore, InSubscribe
<1>9. ListenerWhileOccupied'
  <2> SUFFICES ASSUME NEW q \in Proc, reg'[q] # {}, tasks'[q] = None
               PROVE  \E d \in reg'[q] : pc'[d] \in {"subscribing", "subscribe_failed"}
    BY DEF ListenerWhileOccupied
  <2>1. q # p /\ tasks[q] = None
    BY <1>0, <1>2
  <2>2. PICK d \in reg[q] : pc[d] \in {"subscribing", "subscribe_failed"}
    BY <2>1, <1>0 DEF ListenerWhileOccupied
  <2>3. d \in Conn /\ d # c
    BY <2>1, <2>2 DEF TypeOK, ManagerTypeOK, RegistryMembers
  <2> QED BY <2>2, <2>3, <1>0, <1>1
<1>10. ReleasedWhenUnused'
  BY <1>0, <1>1, <1>2 DEF ReleasedWhenUnused, Local
<1> QED BY <1>4, <1>5, <1>6, <1>7, <1>8, <1>9, <1>10

(* A subscriber that fails stays what it was to everybody else: the one that  *)
(* keeps the others from subscribing.                                         *)
LEMMA SubscribeFailKeeps ==
  ASSUME TypeOK, ListenerInv, NEW c \in Conn, SubscribeFail(c)
  PROVE  ListenerInv'
<1> USE DEF ListenerInv, Serving
<1>0. pc[c] = "subscribing" /\ UNCHANGED <<reg, pubsubs, tasks, lst>>
  BY DEF SubscribeFail, taskVars
<1>1. \A d \in Conn : pc'[d] = IF d = c THEN "subscribe_failed" ELSE pc[d]
  BY DEF SubscribeFail, Goto, TypeOK
<1>2. \A d \in Conn : InSubscribe(d)' <=> InSubscribe(d)
  BY <1>0, <1>1 DEF InSubscribe
<1>3. SingleListener' /\ TasksRun'
  BY <1>0 DEF SingleListener, TasksRun
<1>4. RegistryMembers'
  BY <1>0, <1>1 DEF RegistryMembers, TypeOK, ManagerTypeOK
<1>5. SubscriberAlone' /\ NoListenerBefore'
  BY <1>0, <1>2 DEF SubscriberAlone, NoListenerBefore, Local
<1>6. ListenerWhileOccupied'
  BY <1>0, <1>1 DEF ListenerWhileOccupied, TypeOK, ManagerTypeOK
<1>7. ReleasedWhenUnused'
  BY <1>0, <1>1 DEF ReleasedWhenUnused, Local
<1> QED BY <1>3, <1>4, <1>5, <1>6, <1>7

(* Cancelling the listener of p leaves p without one.                         *)
LEMMA StopListeners ==
  ASSUME TypeOK, SingleListener, TasksRun, NEW p \in Proc, StopListening(p)
  PROVE  /\ SingleListener' /\ TasksRun'
         /\ \A q \in Proc : tasks'[q] = IF q = p THEN None ELSE tasks[q]
<1>1. /\ pubsubs' = pubsubs \ {p}
      /\ \A q \in Proc : tasks'[q] = IF q = p THEN None ELSE tasks[q]
      /\ \A l \in Conn : lst'[l] = IF l = tasks[p] THEN "none" ELSE lst[l]
  BY DEF StopListening, TypeOK, BroadcasterTypeOK
<1>2. SingleListener'
  BY <1>1, ConnAssumption DEF SingleListener
<1>3. TasksRun'
  <2> SUFFICES ASSUME NEW q \in Proc, tasks'[q] # None
               PROVE  ProcOf[tasks'[q]] = q /\ lst'[tasks'[q]] # "none"
    BY DEF TasksRun
  <2>1. q # p /\ tasks'[q] = tasks[q] /\ tasks[q] \in Conn
    BY <1>1 DEF TypeOK, BroadcasterTypeOK
  <2>2. tasks[q] # tasks[p]
    BY <2>1 DEF TasksRun
  <2> QED BY <2>1, <2>2, <1>1 DEF TasksRun
<1> QED BY <1>1, <1>2, <1>3

(* The finally block stops the listener with the last socket, and only then.  *)
LEMMA FinallyKeeps ==
  ASSUME TypeOK, ListenerInv, NEW c \in Conn, pc[c] \in Serving, Finally(c)
  PROVE  ListenerInv'
<1> DEFINE p == ProcOf[c]
<1> USE DEF ListenerInv
<1>0. p \in Proc
  BY ConnAssumption
<1>1. \A q \in Proc : reg'[q] = IF q = p THEN reg[q] \ {c} ELSE reg[q]
  BY <1>0 DEF Finally, Disconnect, TypeOK, ManagerTypeOK
<1>2. PICK label \in After : \A d \in Conn : pc'[d] = IF d = c THEN label ELSE pc[d]
  BY DEF Finally, Goto, After, TypeOK
<1>3. \A d \in Conn : InSubscribe(d)' <=> InSubscribe(d)
  BY <1>2 DEF InSubscribe, Serving, After
<1>4. ~InSubscribe(c)
  BY DEF InSubscribe, Serving
<1>5. \/ /\ reg'[p] = {} /\ StopListening(p)
      \/ /\ \E d \in reg[p] : d # c
         /\ UNCHANGED taskVars
  BY <1>0, <1>1 DEF Finally, IsLast
<1>6. SingleListener' /\ TasksRun'
  BY <1>0, <1>5, StopListeners DEF SingleListener, TasksRun, taskVars
<1>7. \A q \in Proc : tasks'[q] = tasks[q] \/ tasks'[q] = None
  BY <1>0, <1>5, StopListeners DEF taskVars
<1>8. RegistryMembers'
  <2> SUFFICES ASSUME NEW q \in Proc, NEW d \in reg'[q]
               PROVE  /\ ProcOf[d] = q
                      /\ pc'[d] \in {"subscribing", "subscribe_failed", "join_failed"} \cup Serving
    BY DEF RegistryMembers
  <2>1. d \in reg[q] /\ d \in Conn
    BY <1>1 DEF TypeOK, ManagerTypeOK
  <2>2. ProcOf[d] = q
    BY <2>1 DEF RegistryMembers
  <2>3. d # c
    BY <2>2, <1>1
  <2> QED BY <2>1, <2>2, <2>3, <1>2 DEF RegistryMembers
<1>9. SubscriberAlone'
  <2> SUFFICES ASSUME NEW d \in Conn, InSubscribe(d)
               PROVE  /\ d \in reg'[ProcOf[d]]
                      /\ \A e \in Local(ProcOf[d]) : InSubscribe(e)' => e = d
    BY <1>3 DEF SubscriberAlone
  <2> QED BY <1>1, <1>3, <1>4, ConnAssumption DEF SubscriberAlone, Local
<1>10. NoListenerBefore'
  BY <1>3, <1>7, ConnAssumption DEF NoListenerBefore
<1>11. ListenerWhileOccupied'
  <2> SUFFICES ASSUME NEW q \in Proc, reg'[q] # {}, tasks'[q] = None
               PROVE  \E d \in reg'[q] : pc'[d] \in {"subscribing", "subscribe_failed"}
    BY DEF ListenerWhileOccupied
  <2>1. tasks[q] = None /\ reg[q] # {}
    BY <1>0, <1>1, <1>5, StopListeners DEF taskVars
  <2>2. PICK d \in reg[q] : InSubscribe(d)
    BY <2>1 DEF ListenerWhileOccupied, InSubscribe
  <2>3. d \in Conn /\ d # c
    BY <2>2, <1>4 DEF TypeOK, ManagerTypeOK
  <2> QED BY <2>2, <2>3, <1>1, <1>2 DEF InSubscribe
<1>12. ReleasedWhenUnused'
  <2> SUFFICES ASSUME NEW q \in Proc, tasks'[q] # None
               PROVE  \E d \in Local(q) : pc'[d] \in Serving \cup {"join_failed"}
    BY DEF ReleasedWhenUnused
  <2>1. tasks[q] # None
    BY <1>7
  <2>2. CASE q # p
    <3>1. PICK d \in Local(q) : pc[d] \in Serving \cup {"join_failed"}
      BY <2>1 DEF ReleasedWhenUnused
    <3>2. d \in Conn /\ d # c
      BY <3>1, <2>2 DEF Local
    <3> QED BY <3>1, <3>2, <1>2
  <2>3. CASE q = p
    <3>1. PICK d \in reg[p] : d # c
      BY <2>3, <1>0, <1>5, StopListeners
    <3>2. d \in Local(p) /\ ~InSubscribe(d)
      BY <3>1, <2>1, <2>3, <1>0
      DEF RegistryMembers, NoListenerBefore, Local, TypeOK, ManagerTypeOK
    <3>3. pc[d] \in Serving \cup {"join_failed"}
      BY <3>1, <3>2, <1>0 DEF RegistryMembers, InSubscribe
    <3> QED BY <3>1, <3>2, <3>3, <2>3, <1>2 DEF Local
  <2> QED BY <2>2, <2>3
<1> QED BY <1>6, <1>8, <1>9, <1>10, <1>11, <1>12

(* A listener that runs stays the listener of its process; the dead sockets   *)
(* it removes are none that the process waits for to subscribe.               *)
LEMMA ListenKeeps ==
  ASSUME TypeOK, ListenerInv, NEW l \in Conn, Listen(l)
  PROVE  ListenerInv'
<1> DEFINE p == ProcOf[l]
<1> USE DEF ListenerInv
<1>0. p \in Proc /\ UNCHANGED <<pc, tasks>>
  BY ConnAssumption DEF Listen, ListenStep, ListenTake, ListenContinue, ListenFail,
     Reconnected, handlerVars
<1>1. lst[l] # "none" /\ lst'[l] # "none" /\ \A k \in Conn : k # l => lst'[k] = lst[k]
  BY DEF Listen, ListenStep, ListenTake, ListenContinue, ListenFail, Reconnected,
     TypeOK, BroadcasterTypeOK
<1>2. tasks[p] = l /\ l # None
  BY <1>1, NoneAssumption DEF SingleListener
<1>3. \A q \in Proc : reg'[q] \subseteq reg[q] /\ (q # p => reg'[q] = reg[q])
  <2> DEFINE shrinks == \A q \in Proc :
               reg'[q] \subseteq reg[q] /\ (q # ProcOf[l] => reg'[q] = reg[q])
  <2>0. ASSUME NEW it, Advance(l, it) PROVE shrinks
    \* A broadcast only takes sockets out of its own process's registry.
    <3>1. reg' = reg \/ reg' = [reg EXCEPT ![ProcOf[l]] = @ \ it.dead]
      BY <2>0 DEF Advance, SendNext, FinishIteration, AbortIteration
    <3>2. reg \in [Proc -> SUBSET Conn]
      BY DEF TypeOK, ManagerTypeOK
    <3> QED BY <3>1, <3>2
  <2> HIDE DEF shrinks
  <2>1. CASE ListenTake(l) \/ ListenContinue(l)
    <3>1. shrinks
      BY <2>0, <2>1 DEF ListenTake, ListenContinue
    <3> QED BY <3>1 DEF shrinks
  <2>2. CASE ListenFail(l) \/ Reconnected(l)
    BY <2>2 DEF ListenFail, Reconnected, managerVars
  <2> QED BY <2>1, <2>2 DEF Listen, ListenStep
<1>4. pubsubs' = pubsubs
  BY <1>0, <1>2 DEF SingleListener, Listen, ListenStep, ListenTake, ListenContinue,
     ListenFail, Reconnected
<1>5. SingleListener' /\ TasksRun'
  BY <1>0, <1>1, <1>4 DEF SingleListener, TasksRun, TypeOK, BroadcasterTypeOK
<1>6. RegistryMembers'
  BY <1>0, <1>3 DEF RegistryMembers
<1>7. SubscriberAlone' /\ NoListenerBefore'
  BY <1>0, <1>2, <1>3, ConnAssumption DEF SubscriberAlone, NoListenerBefore, InSubscribe, Local
<1>8. ListenerWhileOccupied' /\ ReleasedWhenUnused'
  BY <1>0, <1>2, <1>3 DEF ListenerWhileOccupied, ReleasedWhenUnused
<1> QED BY <1>5, <1>6, <1>7, <1>8

(* The replacement of a crashed process starts with nothing.                  *)
LEMMA CrashKeeps ==
  ASSUME TypeOK, ListenerInv, NEW p \in Proc, Crash(p)
  PROVE  ListenerInv'
<1> USE DEF ListenerInv
<1>1. \A q \in Proc : reg'[q] = IF q = p THEN {} ELSE reg[q]
  BY DEF Crash, TypeOK, ManagerTypeOK
<1>2. \A d \in Conn : pc'[d] = IF ProcOf[d] = p /\ pc[d] # "new" THEN "closed" ELSE pc[d]
  BY DEF Crash, Local
<1>3. /\ SingleListener' /\ TasksRun'
      /\ \A q \in Proc : tasks'[q] = IF q = p THEN None ELSE tasks[q]
  BY StopListeners DEF Crash
<1>4. \A d \in Conn : InSubscribe(d)' <=> InSubscribe(d) /\ ProcOf[d] # p
  BY <1>2 DEF InSubscribe
<1>5. RegistryMembers'
  <2> SUFFICES ASSUME NEW q \in Proc, NEW d \in reg'[q]
               PROVE  /\ ProcOf[d] = q
                      /\ pc'[d] \in {"subscribing", "subscribe_failed", "join_failed"} \cup Serving
    BY DEF RegistryMembers
  <2>1. q # p /\ d \in reg[q] /\ d \in Conn
    BY <1>1 DEF TypeOK, ManagerTypeOK
  <2> QED BY <2>1, <1>2 DEF RegistryMembers
<1>6. SubscriberAlone' /\ NoListenerBefore'
  BY <1>1, <1>3, <1>4, ConnAssumption DEF SubscriberAlone, NoListenerBefore, Local
<1>7. ListenerWhileOccupied'
  <2> SUFFICES ASSUME NEW q \in Proc, reg'[q] # {}, tasks'[q] = None
               PROVE  \E d \in reg'[q] : pc'[d] \in {"subscribing", "subscribe_failed"}
    BY DEF ListenerWhileOccupied
  <2>1. q # p /\ tasks[q] = None /\ reg'[q] = reg[q]
    BY <1>1, <1>3
  <2>2. PICK d \in reg[q] : pc[d] \in {"subscribing", "subscribe_failed"}
    BY <2>1 DEF ListenerWhileOccupied
  <2>3. d \in Conn /\ ProcOf[d] # p
    BY <2>1, <2>2 DEF RegistryMembers, TypeOK, ManagerTypeOK
  <2> QED BY <2>1, <2>2, <2>3, <1>2
<1>8. ReleasedWhenUnused'
  BY <1>2, <1>3 DEF ReleasedWhenUnused, Local
<1> QED BY <1>3, <1>5, <1>6, <1>7, <1>8

LEMMA ListenerInit == Init => ListenerInv
BY ConnAssumption
DEF Init, ManagerInit, BroadcasterInit, ListenerInv, SingleListener, TasksRun, RegistryMembers,
    SubscriberAlone, NoListenerBefore, InSubscribe, ListenerWhileOccupied, ReleasedWhenUnused

LEMMA ListenerNext == TypeOK /\ ListenerInv /\ [Next]_vars => ListenerInv'
<1> SUFFICES ASSUME TypeOK, ListenerInv, [Next]_vars PROVE ListenerInv'
  OBVIOUS
<1>1. ASSUME NEW c \in Conn, Handshake(c) PROVE ListenerInv'
  <2>1. CASE Reject(c)
    BY <2>1, OutsiderMoves DEF Reject
  <2>2. CASE Register(c)
    BY <2>2, RegisterKeeps
  <2> QED BY <1>1, <2>1, <2>2 DEF Handshake
<1>2. ASSUME NEW c \in Conn, Step(c) PROVE ListenerInv'
  <2>1. CASE Subscribed(c)
    BY <2>1, SubscribedKeeps
  <2>2. CASE SubscribeFail(c)
    BY <2>2, SubscribeFailKeeps
  <2>3. CASE Joined(c)
    BY <2>3, ServingMoves DEF Joined, managerVars, Serving
  <2>4. CASE JoinFail(c)
    BY <2>4, ServingMoves DEF JoinFail, Serving
  <2>5. CASE Commit(c)
    BY <2>5, ServingMoves DEF Commit, managerVars, Serving
  <2>6. CASE PublishMessage(c)
    BY <2>6, ServingMoves DEF PublishMessage, managerVars, Serving
  <2>7. CASE CommitFail(c) \/ PublishFail(c) \/ Leave(c)
    BY <2>7, FinallyKeeps DEF CommitFail, PublishFail, Leave, Serving
  <2>8. CASE Unsubscribed(c)
    BY <2>8, OutsiderMoves DEF Unsubscribed, managerVars, After
  <2>9. CASE Left(c)
    BY <2>9, OutsiderMoves DEF Left, managerVars, After
  <2> QED BY <1>2, <2>1, <2>2, <2>3, <2>4, <2>5, <2>6, <2>7, <2>8, <2>9 DEF Step
<1>3. ASSUME NEW c \in Conn, Frame(c) PROVE ListenerInv'
  <2>1. CASE RecvMessage(c)
    BY <2>1, ServingMoves DEF RecvMessage, managerVars, Serving
  <2>2. CASE RecvTyping(c)
    BY <2>2, ListenerUnaffected DEF RecvTyping, managerVars, handlerVars
  <2>3. CASE TypingFail(c)
    BY <2>3, FinallyKeeps DEF TypingFail, Serving
  <2> QED BY <1>3, <2>1, <2>2, <2>3 DEF Frame
<1>4. ASSUME NEW c \in Conn, PublishRepeat(c) \/ PeerDrop(c) \/ Activate(c) \/ Drop(c)
      PROVE  ListenerInv'
  BY <1>4, ListenerUnaffected
  DEF PublishRepeat, PeerDrop, Activate, RedisActivate, Drop, RedisDrop, managerVars, handlerVars
<1>5. CASE UNCHANGED vars
  BY <1>5, ListenerUnaffected DEF vars, managerVars, handlerVars
<1> QED
  BY <1>1, <1>2, <1>3, <1>4, <1>5, ListenKeeps, CrashKeeps DEF Next

LEMMA ListenerCorrect == Spec => [](TypeInv /\ ListenerInv)
<1>1. TypeInv /\ ListenerInv /\ [Next]_vars => (TypeInv /\ ListenerInv)'
  BY TypeNext, ListenerNext DEF TypeInv
<1> QED
  BY <1>1, TypeInit, ListenerInit, PTL DEF Spec

(* Never two listeners on one process, whatever arrives while another leaves. *)
THEOREM OneListenerPerProcess == Spec => []SingleListener
BY ListenerCorrect, PTL DEF ListenerInv

(* A room goes without a listener on a process that has sockets in it only    *)
(* while its first socket subscribes, or after that socket failed to.         *)
THEOREM RoomHasListener == Spec => []ListenerWhileOccupied
BY ListenerCorrect, PTL DEF ListenerInv

(* The Redis connection is released with the last handler that can still run  *)
(* its finally block.                                                         *)
THEOREM RoomIsReleased == Spec => []ReleasedWhenUnused
BY ListenerCorrect, PTL DEF ListenerInv
-------------------------------------------------------------------------------
(* Typing events.                                                             *)

(* The loop of a broadcast picks its next socket among those not excluded.    *)
LEMMA AdvanceTyping ==
  ASSUME ManagerTypeOK, NoOwnTyping, NEW l \in Conn, NEW it \in Iteration, Advance(l, it)
  PROVE  NoOwnTyping'
<1>1. ProcOf[l] \in Proc
  BY ConnAssumption
<1>2. CASE FinishIteration(l, it) \/ AbortIteration(l, it)
  BY <1>2 DEF FinishIteration, AbortIteration, sentVars, NoOwnTyping
<1>3. CASE SendNext(l, it)
  <2>1. PICK c \in Targets(l, it) : Sent(c, it.msg) \/ UNCHANGED sentVars
    BY <1>3 DEF SendNext
  <2>2. c \in Conn
    BY <1>1 DEF Targets, Unseen, ManagerTypeOK
  <2>3. ~(it.msg.type = "typing" /\ UserOf[c] = it.msg.user)
    BY DEF Targets, Excluded
  <2>4. CASE UNCHANGED sentVars
    BY <2>4 DEF sentVars, NoOwnTyping
  <2>5. CASE Sent(c, it.msg)
    <3>1. CASE it.msg.type # "typing"
      BY <3>1, <2>5 DEF Sent, NoOwnTyping
    <3>2. CASE it.msg.type = "typing"
      <4>1. UserOf[c] # it.msg.user
        BY <3>2, <2>3
      <4>2. typed' = typed \/ typed' = [typed EXCEPT ![c] = @ \cup {it.msg.user}]
        BY <2>5 DEF Sent
      <4>3. ASSUME NEW d \in Conn PROVE UserOf[d] \notin typed'[d]
        <5>1. UserOf[d] \notin typed[d]
          BY DEF NoOwnTyping
        <5>2. CASE d = c
          BY <4>1, <4>2, <5>1, <5>2 DEF ManagerTypeOK
        <5>3. CASE d # c
          BY <4>2, <5>1, <5>3 DEF ManagerTypeOK
        <5> QED BY <5>2, <5>3
      <4> QED BY <4>3 DEF NoOwnTyping
    <3> QED BY <3>1, <3>2
  <2> QED BY <2>1, <2>4, <2>5
<1> QED BY <1>2, <1>3 DEF Advance

(* Only a listener sends anything.                                            *)
LEMMA OnlyListenersSend ==
  ASSUME [Next]_vars, \A l \in Conn : ~Listen(l)
  PROVE  typed' = typed
<1>1. ASSUME NEW c \in Conn, Handshake(c) PROVE typed' = typed
  BY <1>1 DEF Handshake, Reject, Register, Connect, Subscribed, SubscribeFail, Joined, JoinFail,
              managerVars, sentVars
<1>2. ASSUME NEW c \in Conn, Step(c) PROVE typed' = typed
  BY <1>2 DEF Step, Subscribed, SubscribeFail, Joined, JoinFail, Unsubscribed, Left, Commit,
              CommitFail, PublishMessage, PublishFail, Leave, Finally, managerVars, sentVars
<1>3. ASSUME NEW c \in Conn, Frame(c) PROVE typed' = typed
  BY <1>3 DEF Frame, RecvMessage, RecvTyping, TypingFail, Finally, managerVars, sentVars
<1>4. ASSUME NEW c \in Conn, PublishRepeat(c) PROVE typed' = typed
  BY <1>4 DEF PublishRepeat, managerVars, sentVars
<1>5. ASSUME NEW c \in Conn, PeerDrop(c) \/ Activate(c) \/ Drop(c) PROVE typed' = typed
  BY <1>5 DEF PeerDrop, Activate, RedisActivate, Drop, RedisDrop, managerVars, sentVars
<1>6. ASSUME NEW p \in Proc, Crash(p) PROVE typed' = typed
  BY <1>6 DEF Crash, sentVars
<1>7. CASE UNCHANGED vars
  BY <1>7 DEF vars, managerVars, sentVars
<1> QED BY <1>1, <1>2, <1>3, <1>4, <1>5, <1>6, <1>7 DEF Next

LEMMA TypingNext == TypeInv /\ NoOwnTyping /\ [Next]_vars => NoOwnTyping'
<1> SUFFICES ASSUME TypeInv, NoOwnTyping, [Next]_vars PROVE NoOwnTyping'
  OBVIOUS
<1>1. ASSUME NEW l \in Conn, Listen(l) PROVE NoOwnTyping'
  <2>1. CASE ListenTake(l)
    <3>1. Head(inbox[l]) \in Payload
      BY <2>1 DEF ListenTake, TypeInv, TypeOK, BroadcasterTypeOK
    <3>2. FreshIteration(l, Head(inbox[l])) \in Iteration
      BY <3>1, ConnAssumption DEF FreshIteration, Iteration, TypeInv, TypeOK, ManagerTypeOK
    <3> QED BY <2>1, <3>2, AdvanceTyping DEF ListenTake, TypeInv, TypeOK
  <2>2. CASE ListenContinue(l)
    <3>1. bcast[l] \in Iteration
      BY <2>2 DEF ListenContinue, TypeInv, TypeOK, ManagerTypeOK, SendingHasBroadcast
    <3> QED BY <2>2, <3>1, AdvanceTyping DEF ListenContinue, TypeInv, TypeOK
  <2>3. CASE ListenFail(l) \/ Reconnected(l)
    BY <2>3 DEF ListenFail, Reconnected, managerVars, sentVars, NoOwnTyping
  <2> QED BY <1>1, <2>1, <2>2, <2>3 DEF Listen, ListenStep
<1>2. CASE \A l \in Conn : ~Listen(l)
  BY <1>2, OnlyListenersSend DEF NoOwnTyping
<1> QED BY <1>1, <1>2

(* A typing event reaches no socket of its author, on whichever process and   *)
(* whatever comes and goes while it is being sent.                            *)
THEOREM TypingSparesAuthor == Spec => []NoOwnTyping
<1>1. Init => NoOwnTyping
  BY DEF Init, ManagerInit, NoOwnTyping
<1> QED
  BY <1>1, TypeInit, TypeNext, TypingNext, PTL DEF Spec
===============================================================================
