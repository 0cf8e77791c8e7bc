---------------------------- MODULE RoomOrderProofs ----------------------------
(* Proofs about the order of deliveries: no socket is sent a message twice or *)
(* out of the room's order, and the fan-out implements BestEffortRoom.        *)
EXTENDS RoomSocketProofs

IsMessage(m) == m.type = "message"

(* What a listener that is stopped, or is not sending, cannot hold.           *)
IdleListener ==
  \A l \in Conn :
    /\ lst[l] = "none" => link[l] = "off" /\ inbox[l] = <<>>
    /\ lst[l] # "sending" => bcast[l] = None

(* What is sent, being sent, and waiting are positions of the log...          *)
SentBounded ==
  \A c \in Conn : \A k \in 1..Len(got[c]) : got[c][k] \in 1..Len(log)

(* ...in that order: a message that waits comes after those that were sent on *)
(* this process, and after those that wait before it.                         *)
InboxOrdered ==
  \A l \in Conn : \A i \in 1..Len(inbox[l]) : IsMessage(inbox[l][i]) =>
    /\ inbox[l][i].at \in 1..Len(log)
    /\ \A j \in 1..Len(inbox[l]) :
         i < j /\ IsMessage(inbox[l][j]) => inbox[l][i].at < inbox[l][j].at
    /\ \A c \in Local(ProcOf[l]) : \A k \in 1..Len(got[c]) : got[c][k] < inbox[l][i].at

(* The message of broadcast it, of listener l, comes before those that wait   *)
(* and after those sent to a socket that it has not reached yet.              *)
InPlace(l, it) ==
  IsMessage(it.msg) =>
    /\ it.msg.at \in 1..Len(log)
    /\ \A i \in 1..Len(inbox[l]) : IsMessage(inbox[l][i]) => it.msg.at < inbox[l][i].at
    /\ \A c \in Local(ProcOf[l]) \ it.seen : \A k \in 1..Len(got[c]) : got[c][k] < it.msg.at

BroadcastOrdered == \A l \in Conn : bcast[l] # None => InPlace(l, bcast[l])

OrderInv ==
  /\ IdleListener
  /\ SentBounded
  /\ InOrder
  /\ InboxOrdered
  /\ BroadcastOrdered

LEMMA OrderInit == Init => OrderInv
BY DEF Init, ManagerInit, BroadcasterInit, OrderInv, IdleListener, SentBounded, InOrder,
       InboxOrdered, BroadcastOrdered

-------------------------------------------------------------------------------
(* Steps that leave deliveries, inboxes and listeners alone.                  *)
LEMMA OrderUnaffected ==
  ASSUME OrderInv, UNCHANGED <<got, inbox, log, bcast, lst>>,
         \A l \in Conn : link[l] = "off" => link'[l] = "off"
  PROVE  OrderInv'
<1> USE DEF OrderInv
<1>1. IdleListener'
  BY DEF IdleListener
<1>2. SentBounded' /\ InOrder' /\ InboxOrdered'
  BY DEF SentBounded, InOrder, InboxOrdered
<1>3. BroadcastOrdered'
  BY DEF BroadcastOrdered, InPlace
<1> QED BY <1>1, <1>2, <1>3

(* A publication appends, at the active subscriptions, something that is not  *)
(* a message or a position beyond all that exist.                             *)
LEMMA PushOrdered ==
  ASSUME TypeOK, OrderInv, NEW m \in Payload, Push(m),
         UNCHANGED <<got, bcast, lst, link>>, log' \in Seq(Nat),
         Len(log) <= Len(log'),
         IsMessage(m) => Len(log') = Len(log) + 1 /\ m.at = Len(log')
  PROVE  OrderInv'
<1> USE DEF OrderInv
<1>1. log \in Seq(Nat) /\ Len(log) \in Nat /\ Len(log') \in Nat
  BY DEF TypeOK, BroadcasterTypeOK
<1>2. 1..Len(log) \subseteq 1..Len(log')
  BY <1>1
<1>3. \A l \in Conn : inbox[l] \in Seq(Payload)
  BY DEF TypeOK, BroadcasterTypeOK
<1>4. \A l \in Conn :
        \/ inbox'[l] = inbox[l]
        \/ lst[l] # "none" /\ inbox'[l] = Append(inbox[l], m)
  BY DEF Push, IdleListener
<1>5. \A c \in Conn : got[c] \in Seq(Nat)
  BY DEF TypeOK, ManagerTypeOK
<1>6. IdleListener'
  BY <1>4 DEF IdleListener
<1>7. SentBounded' /\ InOrder'
  BY <1>2 DEF SentBounded, InOrder
<1>8. InboxOrdered'
  <2> SUFFICES ASSUME NEW l \in Conn, NEW i \in 1..Len(inbox'[l]), IsMessage(inbox'[l][i])
               PROVE  /\ inbox'[l][i].at \in 1..Len(log')
                      /\ \A j \in 1..Len(inbox'[l]) :
                           i < j /\ IsMessage(inbox'[l][j]) => inbox'[l][i].at < inbox'[l][j].at
                      /\ \A c \in Local(ProcOf[l]) : \A k \in 1..Len(got[c]) :
                           got[c][k] < inbox'[l][i].at
    BY DEF InboxOrdered, IsMessage
  <2>1. CASE inbox'[l] = inbox[l]
    BY <2>1, <1>2 DEF InboxOrdered, IsMessage
  <2>2. CASE inbox'[l] = Append(inbox[l], m)
    <3>1. /\ Len(inbox'[l]) = Len(inbox[l]) + 1
          /\ \A j \in 1..Len(inbox[l]) : inbox'[l][j] = inbox[l][j]
          /\ inbox'[l][Len(inbox[l]) + 1] = m
          /\ Len(inbox[l]) \in Nat
      BY <2>2, <1>3
    <3>2. CASE i = Len(inbox[l]) + 1
      <4>1. inbox'[l][i] = m /\ IsMessage(m)
        BY <3>1, <3>2
      <4>2. inbox'[l][i].at = Len(log) + 1 /\ Len(log') = Len(log) + 1
        BY <4>1
      <4>3. \A c \in Local(ProcOf[l]) : \A k \in 1..Len(got[c]) : got[c][k] <= Len(log)
        BY <1>1 DEF SentBounded, Local
      <4> QED BY <4>2, <4>3, <3>1, <3>2, <1>1, <1>5 DEF Local, SentBounded
    <3>3. CASE i \in 1..Len(inbox[l])
      <4>1. inbox'[l][i] = inbox[l][i] /\ IsMessage(inbox[l][i])
        BY <3>1, <3>3
      <4>2. inbox[l][i].at \in 1..Len(log)
        BY <3>3, <4>1 DEF InboxOrdered
      <4>3. ASSUME NEW j \in 1..Len(inbox'[l]), i < j, IsMessage(inbox'[l][j])
            PROVE  inbox[l][i].at < inbox'[l][j].at
        <5>1. CASE j \in 1..Len(inbox[l])
          BY <5>1, <4>1, <4>3, <3>1, <3>3 DEF InboxOrdered
        <5>2. CASE j = Len(inbox[l]) + 1
          BY SMTT(30), <5>2, <4>2, <4>3, <3>1, <1>1
        <5> QED BY <5>1, <5>2, <3>1
      <4> QED BY <4>1, <4>2, <4>3, <3>3, <1>2 DEF InboxOrdered
    <3> QED BY SMTT(30), <3>1, <3>2, <3>3
  <2> QED BY <2>1, <2>2, <1>4
<1>9. BroadcastOrdered'
  <2> SUFFICES ASSUME NEW l \in Conn, bcast[l] # None, IsMessage(bcast[l].msg)
               PROVE  /\ bcast[l].msg.at \in 1..Len(log')
                      /\ \A i \in 1..Len(inbox'[l]) :
                           IsMessage(inbox'[l][i]) => bcast[l].msg.at < inbox'[l][i].at
                      /\ \A c \in Local(ProcOf[l]) \ bcast[l].seen :
                           \A k \in 1..Len(got[c]) : got[c][k] < bcast[l].msg.at
    BY DEF BroadcastOrdered, InPlace, IsMessage
  <2>1. /\ bcast[l].msg.at \in 1..Len(log)
        /\ \A i \in 1..Len(inbox[l]) :
             IsMessage(inbox[l][i]) => bcast[l].msg.at < inbox[l][i].at
        /\ \A c \in Local(ProcOf[l]) \ bcast[l].seen :
             \A k \in 1..Len(got[c]) : got[c][k] < bcast[l].msg.at
    BY DEF BroadcastOrdered, InPlace
  <2>2. ASSUME NEW i \in 1..Len(inbox'[l]), IsMessage(inbox'[l][i])
        PROVE  bcast[l].msg.at < inbox'[l][i].at
    <3>1. CASE inbox'[l] = inbox[l]
      BY <3>1, <2>1, <2>2
    <3>2. CASE inbox'[l] = Append(inbox[l], m)
      <4>1. CASE i \in 1..Len(inbox[l])
        BY <4>1, <3>2, <2>1, <2>2, <1>3
      <4>2. CASE i = Len(inbox[l]) + 1
        BY SMTT(30), <4>2, <3>2, <2>1, <2>2, <1>1, <1>3
      <4> QED BY <4>1, <4>2, <3>2, <1>3
    <3> QED BY <3>1, <3>2, <1>4
  <2> QED BY <2>1, <2>2, <1>2
<1> QED BY <1>6, <1>7, <1>8, <1>9

(* Stopping a listener forgets what it had not sent.                          *)
LEMMA StopOrdered ==
  ASSUME TypeOK, OrderInv, NEW p \in Proc, StopListening(p), UNCHANGED got
  PROVE  OrderInv'
<1> USE DEF OrderInv
<1>1. \A l \in Conn :
        \/ lst'[l] = "none" /\ link'[l] = "off" /\ inbox'[l] = <<>> /\ bcast'[l] = None
        \/ /\ lst'[l] = lst[l] /\ link'[l] = link[l]
           /\ inbox'[l] = inbox[l] /\ bcast'[l] = bcast[l]
  BY DEF StopListening
<1>2. log' = log
  BY DEF StopListening
<1>3. IdleListener'
  BY <1>1 DEF IdleListener
<1>4. SentBounded' /\ InOrder'
  BY <1>2 DEF SentBounded, InOrder
<1>5. InboxOrdered'
  <2> SUFFICES ASSUME NEW l \in Conn, inbox'[l] = inbox[l] \/ inbox'[l] = <<>>,
                      NEW i \in 1..Len(inbox'[l]), IsMessage(inbox'[l][i])
               PROVE  /\ inbox'[l][i].at \in 1..Len(log)
                      /\ \A j \in 1..Len(inbox'[l]) :
                           i < j /\ IsMessage(inbox'[l][j]) => inbox'[l][i].at < inbox'[l][j].at
                      /\ \A c \in Local(ProcOf[l]) : \A k \in 1..Len(got[c]) :
                           got[c][k] < inbox'[l][i].at
    BY <1>1, <1>2 DEF InboxOrdered, IsMessage
  <2>1. inbox'[l] = inbox[l]
    OBVIOUS
  <2> QED BY <2>1 DEF InboxOrdered
<1>6. BroadcastOrdered'
  BY <1>1, <1>2 DEF BroadcastOrdered, InPlace, IsMessage
<1> QED BY <1>3, <1>4, <1>5, <1>6

-------------------------------------------------------------------------------
(* What one move of broadcast "it" does: it may send the payload to one       *)
(* registered socket it had not reached, which it then has reached.           *)
Delivers(l, it, c) ==
  /\ IsMessage(it.msg) /\ c \in Local(ProcOf[l]) \ it.seen
  /\ got' = [got EXCEPT ![c] = Append(@, it.msg.at)]
  /\ c \in bcast'[l].seen

LEMMA AdvanceEffect ==
  ASSUME TypeOK, ListenerInv, NEW l \in Conn, NEW it \in Iteration, Advance(l, it)
  PROVE  /\ \/ bcast'[l] = None
            \/ bcast'[l].msg = it.msg /\ it.seen \subseteq bcast'[l].seen
         /\ got' = got \/ \E c \in Conn : Delivers(l, it, c)
<1>0. ProcOf[l] \in Proc
  BY ConnAssumption
<1>1. CASE SendNext(l, it)
  <2>1. PICK c \in Targets(l, it), skipped \in SUBSET (Unseen(l, it) \ Targets(l, it)) :
          \/ /\ bcast' = [bcast EXCEPT ![l] = [it EXCEPT !.seen = it.seen \cup {c} \cup skipped]]
             /\ Sent(c, it.msg)
          \/ /\ bcast' = [bcast EXCEPT ![l] = [it EXCEPT !.seen = it.seen \cup {c} \cup skipped,
                                                         !.dead = @ \cup {c}]]
             /\ UNCHANGED sentVars
    BY <1>1 DEF SendNext
  <2>2. c \in reg[ProcOf[l]] /\ c \notin it.seen
    BY DEF Targets, Unseen
  <2>3. c \in Local(ProcOf[l]) /\ c \in Conn
    BY <2>2, <1>0 DEF ListenerInv, RegistryMembers, Local, TypeOK, ManagerTypeOK
  <2>4. bcast'[l].msg = it.msg /\ bcast'[l].seen = it.seen \cup {c} \cup skipped
    <3> DEFINE sent == [it EXCEPT !.seen = it.seen \cup {c} \cup skipped]
               lost == [it EXCEPT !.seen = it.seen \cup {c} \cup skipped,
                                  !.dead = @ \cup {c}]
    <3>1. /\ sent.msg = it.msg /\ sent.seen = it.seen \cup {c} \cup skipped
          /\ lost.msg = it.msg /\ lost.seen = it.seen \cup {c} \cup skipped
      BY DEF Iteration
    <3>2. bcast' = [bcast EXCEPT ![l] = sent] \/ bcast' = [bcast EXCEPT ![l] = lost]
      BY <2>1
    <3> HIDE DEF sent, lost
    <3>3. bcast'[l] = sent \/ bcast'[l] = lost
      BY <3>2 DEF TypeOK, ManagerTypeOK
    <3> QED BY <3>1, <3>3
  <2>5. CASE UNCHANGED sentVars
    BY <2>4, <2>5 DEF sentVars
  <2>6. CASE Sent(c, it.msg)
    BY <2>2, <2>3, <2>4, <2>6 DEF Sent, Delivers, IsMessage
  <2> QED BY <2>1, <2>5, <2>6
<1>2. CASE FinishIteration(l, it) \/ AbortIteration(l, it)
  BY <1>2 DEF FinishIteration, AbortIteration, TypeOK, ManagerTypeOK, sentVars
<1> QED BY <1>1, <1>2 DEF Advance

(* A move of a broadcast in its place keeps every order, whether or not its   *)
(* payload has just been taken from the inbox.                                *)
LEMMA AdvanceOrdered ==
  ASSUME TypeOK, ListenerInv, OrderInv, NEW l \in Conn, NEW it \in Iteration,
         Advance(l, it), lst[l] # "none", log' = log,
         \A k \in Conn : k # l => inbox'[k] = inbox[k] /\ bcast'[k] = bcast[k],
         \/ inbox'[l] = inbox[l]
         \/ inbox[l] # <<>> /\ inbox'[l] = Tail(inbox[l]),
         IsMessage(it.msg) =>
           /\ it.msg.at \in 1..Len(log)
           /\ \A i \in 1..Len(inbox'[l]) :
                IsMessage(inbox'[l][i]) => it.msg.at < inbox'[l][i].at
           /\ \A c \in Local(ProcOf[l]) \ it.seen :
                \A k \in 1..Len(got[c]) : got[c][k] < it.msg.at
  PROVE  SentBounded' /\ InOrder' /\ InboxOrdered' /\ BroadcastOrdered'
<1> USE DEF OrderInv
<1>0. \A k \in Conn : k # l /\ ProcOf[k] = ProcOf[l] => inbox[k] = <<>> /\ bcast[k] = None
  BY DEF ListenerInv, SingleListener, IdleListener
<1>1. /\ \/ bcast'[l] = None
         \/ bcast'[l].msg = it.msg /\ it.seen \subseteq bcast'[l].seen
      /\ got' = got \/ \E c \in Conn : Delivers(l, it, c)
  BY AdvanceEffect
<1>2. \A c \in Conn : got[c] \in Seq(Nat)
  BY DEF TypeOK, ManagerTypeOK
<1>3. got \in [Conn -> Seq(Nat)] /\ inbox[l] \in Seq(Payload) /\ Len(log) \in Nat
  BY DEF TypeOK, ManagerTypeOK, BroadcasterTypeOK
<1> DEFINE n == it.msg.at
<1>4. \A c \in Conn : \A k \in 1..Len(got'[c]) :
        \/ k \in 1..Len(got[c]) /\ got'[c][k] = got[c][k]
        \/ /\ Delivers(l, it, c) /\ k = Len(got[c]) + 1 /\ got'[c][k] = n
           /\ c \in Local(ProcOf[l]) /\ IsMessage(it.msg)
  <2>1. CASE got' = got
    BY <2>1
  <2>2. ASSUME NEW c \in Conn, Delivers(l, it, c)
        PROVE  \A d \in Conn : got'[d] = IF d = c THEN Append(got[c], n) ELSE got[d]
    BY <2>2, <1>3 DEF Delivers
  <2>3. ASSUME NEW c \in Conn, Delivers(l, it, c), NEW d \in Conn, NEW k \in 1..Len(got'[d])
        PROVE  \/ k \in 1..Len(got[d]) /\ got'[d][k] = got[d][k]
               \/ /\ Delivers(l, it, d) /\ k = Len(got[d]) + 1 /\ got'[d][k] = n
                  /\ d \in Local(ProcOf[l]) /\ IsMessage(it.msg)
    <3>0. got'[d] = IF d = c THEN Append(got[c], n) ELSE got[d]
      BY <2>2, <2>3
    <3>1. CASE d # c
      BY <3>0, <3>1, <2>3
    <3>2. CASE d = c
      <4>1. got'[d] = Append(got[d], n) /\ Len(got[d]) \in Nat
        BY <3>0, <3>2, <1>2
      <4>2. d \in Local(ProcOf[l]) /\ IsMessage(it.msg)
        BY <3>2, <2>3 DEF Delivers
      <4>3. n \in Nat
        BY <4>2, <1>3
      <4> HIDE DEF n
      <4>4. Len(got'[d]) = Len(got[d]) + 1
        BY <4>1, <4>3, <1>2
      <4>5. /\ \A i \in 1..Len(got[d]) : got'[d][i] = got[d][i]
            /\ got'[d][Len(got[d]) + 1] = n
        BY <4>1, <4>3, <1>2
      <4>6. k \in 1..Len(got[d]) \/ k = Len(got[d]) + 1
        BY <4>1, <4>4
      <4> QED BY <3>2, <4>2, <4>5, <4>6, <2>3
    <3> QED BY <3>1, <3>2
  <2>4. CASE \E c \in Conn : Delivers(l, it, c)
    <3>1. PICK e \in Conn : Delivers(l, it, e)
      BY <2>4
    <3> QED BY <3>1, <2>3
  <2> QED BY <2>1, <2>4, <1>1
<1>5. SentBounded'
  BY <1>4 DEF SentBounded
<1>6. InOrder'
  <2> SUFFICES ASSUME NEW c \in Conn, NEW i \in 1..Len(got'[c]), NEW j \in 1..Len(got'[c]), i < j
               PROVE  got'[c][i] < got'[c][j]
    BY DEF InOrder
  <2>1. CASE j \in 1..Len(got[c]) /\ got'[c][j] = got[c][j]
    BY <2>1, <1>2, <1>4 DEF InOrder
  <2>2. CASE Delivers(l, it, c) /\ j = Len(got[c]) + 1 /\ got'[c][j] = n
    <3>1. i \in 1..Len(got[c]) /\ got'[c][i] = got[c][i]
      BY <2>2, <1>2, <1>4
    <3> QED BY <2>2, <3>1 DEF Delivers
  <2> QED BY <2>1, <2>2, <1>4
<1>7. InboxOrdered'
  <2> SUFFICES ASSUME NEW k \in Conn, NEW i \in 1..Len(inbox'[k]), IsMessage(inbox'[k][i])
               PROVE  /\ inbox'[k][i].at \in 1..Len(log)
                      /\ \A j \in 1..Len(inbox'[k]) :
                           i < j /\ IsMessage(inbox'[k][j]) => inbox'[k][i].at < inbox'[k][j].at
                      /\ \A c \in Local(ProcOf[k]) : \A m \in 1..Len(got'[c]) :
                           got'[c][m] < inbox'[k][i].at
    BY DEF InboxOrdered, IsMessage
  <2>1. \E o \in {0, 1} :
          /\ i + o \in 1..Len(inbox[k]) /\ inbox'[k][i] = inbox[k][i + o]
          /\ \A j \in 1..Len(inbox'[k]) :
               j + o \in 1..Len(inbox[k]) /\ inbox'[k][j] = inbox[k][j + o]
    <3>1. CASE inbox'[k] = inbox[k]
      BY <3>1
    <3>2. CASE k = l /\ inbox[l] # <<>> /\ inbox'[l] = Tail(inbox[l])
      BY <3>2, <1>3
    <3> QED BY <3>1, <3>2
  <2>2. /\ inbox'[k][i].at \in 1..Len(log)
        /\ \A j \in 1..Len(inbox'[k]) :
             i < j /\ IsMessage(inbox'[k][j]) => inbox'[k][i].at < inbox'[k][j].at
        /\ \A c \in Local(ProcOf[k]) : \A m \in 1..Len(got[c]) : got[c][m] < inbox'[k][i].at
    <3>1. PICK o \in {0, 1} :
            /\ i + o \in 1..Len(inbox[k]) /\ inbox'[k][i] = inbox[k][i + o]
            /\ \A j \in 1..Len(inbox'[k]) :
                 j + o \in 1..Len(inbox[k]) /\ inbox'[k][j] = inbox[k][j + o]
      BY <2>1
    <3>2. /\ inbox[k][i + o].at \in 1..Len(log)
          /\ \A j \in 1..Len(inbox[k]) :
               i + o < j /\ IsMessage(inbox[k][j]) => inbox[k][i + o].at < inbox[k][j].at
          /\ \A c \in Local(ProcOf[k]) : \A m \in 1..Len(got[c]) : got[c][m] < inbox[k][i + o].at
      BY <3>1 DEF InboxOrdered
    <3>3. ASSUME NEW j \in 1..Len(inbox'[k]), i < j, IsMessage(inbox'[k][j])
          PROVE  inbox'[k][i].at < inbox'[k][j].at
      <4>1. i + o < j + o
        BY <3>3
      <4> QED BY <3>1, <3>2, <3>3, <4>1
    <3> QED BY <3>1, <3>2, <3>3
  <2>3. ASSUME NEW c \in Local(ProcOf[k]), NEW m \in 1..Len(got'[c])
        PROVE  got'[c][m] < inbox'[k][i].at
    <3>1. c \in Conn /\ ProcOf[c] = ProcOf[k]
      BY DEF Local
    <3>2. CASE m \in 1..Len(got[c]) /\ got'[c][m] = got[c][m]
      BY <3>2, <2>2
    <3>3. CASE Delivers(l, it, c) /\ got'[c][m] = n
      <4>1. k = l
        BY <3>1, <3>3, <2>1, <1>0 DEF Delivers, Local
      <4> QED BY <3>3, <4>1 DEF Delivers
    <3> QED BY <3>1, <3>2, <3>3, <1>4
  <2> QED BY <2>2, <2>3
<1>8. BroadcastOrdered'
  <2> SUFFICES ASSUME NEW k \in Conn, bcast'[k] # None, IsMessage(bcast'[k].msg)
               PROVE  /\ bcast'[k].msg.at \in 1..Len(log)
                      /\ \A i \in 1..Len(inbox'[k]) :
                           IsMessage(inbox'[k][i]) => bcast'[k].msg.at < inbox'[k][i].at
                      /\ \A c \in Local(ProcOf[k]) \ bcast'[k].seen :
                           \A m \in 1..Len(got'[c]) : got'[c][m] < bcast'[k].msg.at
    BY DEF BroadcastOrdered, InPlace, IsMessage
  <2>1. CASE k = l
    <3>1. bcast'[l].msg = it.msg /\ it.seen \subseteq bcast'[l].seen /\ IsMessage(it.msg)
      BY <2>1, <1>1
    <3>2. ASSUME NEW c \in Local(ProcOf[l]) \ bcast'[l].seen, NEW m \in 1..Len(got'[c])
          PROVE  got'[c][m] < n
      <4>1. c \in Conn /\ c \notin it.seen /\ ~Delivers(l, it, c)
        BY <3>1 DEF Delivers, Local
      <4>2. m \in 1..Len(got[c]) /\ got'[c][m] = got[c][m]
        BY <4>1, <1>4
      <4> QED BY <3>1, <4>1, <4>2
    <3> QED BY <2>1, <3>1, <3>2
  <2>2. CASE k # l
    <3>1. bcast'[k] = bcast[k] /\ inbox'[k] = inbox[k] /\ ProcOf[k] # ProcOf[l]
      BY <2>2, <1>0
    <3>2. ASSUME NEW c \in Local(ProcOf[k]) PROVE c \in Conn /\ ~Delivers(l, it, c)
      BY <3>1 DEF Delivers, Local
    <3>3. \A c \in Local(ProcOf[k]) : \A m \in 1..Len(got'[c]) :
            m \in 1..Len(got[c]) /\ got'[c][m] = got[c][m]
      BY <3>2, <1>4
    <3> QED BY <3>1, <3>3 DEF BroadcastOrdered, InPlace
  <2> QED BY <2>1, <2>2
<1> QED BY <1>5, <1>6, <1>7, <1>8

LEMMA ListenOrdered ==
  ASSUME TypeInv, ListenerInv, OrderInv, NEW l \in Conn, Listen(l)
  PROVE  OrderInv'
<1> USE DEF OrderInv
<1>1. CASE ListenTake(l)
  <2> DEFINE m  == Head(inbox[l])
             it == FreshIteration(l, m)
  <2>1. inbox[l] # <<>> /\ inbox[l] \in Seq(Payload) /\ inbox' = [inbox EXCEPT ![l] = Tail(@)]
    BY <1>1 DEF ListenTake, TypeInv, TypeOK, BroadcasterTypeOK
  <2>2. /\ m = inbox[l][1] /\ 1 \in 1..Len(inbox[l]) /\ m \in Payload
        /\ inbox'[l] = Tail(inbox[l])
        /\ \A i \in 1..Len(inbox'[l]) : i + 1 \in 1..Len(inbox[l]) /\ 1 < i + 1
                                       /\ inbox'[l][i] = inbox[l][i + 1]
    BY <2>1 DEF TypeInv, TypeOK, BroadcasterTypeOK
  <2>3. it \in Iteration /\ it.msg = m /\ it.seen = {}
    BY <2>2, ConnAssumption DEF FreshIteration, Iteration, TypeInv, TypeOK, ManagerTypeOK
  <2>4. Advance(l, it) /\ lst[l] # "none" /\ log' = log
    BY <1>1 DEF ListenTake
  <2>5. \A k \in Conn : k # l => inbox'[k] = inbox[k] /\ bcast'[k] = bcast[k]
    BY <2>1, <2>4, AdvanceOthers DEF TypeInv, TypeOK, BroadcasterTypeOK
  <2>6. IsMessage(m) =>
          /\ m.at \in 1..Len(log)
          /\ \A i \in 1..Len(inbox'[l]) : IsMessage(inbox'[l][i]) => m.at < inbox'[l][i].at
          /\ \A c \in Local(ProcOf[l]) : \A k \in 1..Len(got[c]) : got[c][k] < m.at
    BY <2>2 DEF InboxOrdered
  <2> HIDE DEF it, m
  <2>7. SentBounded' /\ InOrder' /\ InboxOrdered' /\ BroadcastOrdered'
    BY <2>1, <2>2, <2>3, <2>4, <2>5, <2>6, AdvanceOrdered DEF TypeInv
  <2>8. IdleListener'
    BY <1>1, <2>5 DEF ListenTake, IdleListener, TypeInv, TypeOK, BroadcasterTypeOK
  <2> QED BY <2>7, <2>8
<1>2. CASE ListenContinue(l)
  <2>1. bcast[l] \in Iteration /\ bcast[l] # None
    BY <1>2 DEF ListenContinue, TypeInv, TypeOK, ManagerTypeOK, SendingHasBroadcast
  <2>2. Advance(l, bcast[l]) /\ lst[l] # "none" /\ log' = log /\ inbox' = inbox
    BY <1>2 DEF ListenContinue, redisVars
  <2>3. \A k \in Conn : k # l => bcast'[k] = bcast[k]
    BY <2>2, AdvanceOthers DEF TypeInv, TypeOK
  <2>4. InPlace(l, bcast[l])
    BY <2>1 DEF BroadcastOrdered
  <2>5. SentBounded' /\ InOrder' /\ InboxOrdered' /\ BroadcastOrdered'
    BY <2>1, <2>2, <2>3, <2>4, AdvanceOrdered DEF InPlace, TypeInv
  <2>6. IdleListener'
    BY <1>2, <2>3 DEF ListenContinue, redisVars, IdleListener, TypeInv, TypeOK, BroadcasterTypeOK
  <2> QED BY <2>5, <2>6
<1>3. CASE ListenFail(l) \/ Reconnected(l)
  <2>1. UNCHANGED <<got, inbox, log, bcast>>
    BY <1>3 DEF ListenFail, Reconnected, managerVars, sentVars
  <2>2. SentBounded' /\ InOrder' /\ InboxOrdered' /\ BroadcastOrdered'
    BY <2>1 DEF SentBounded, InOrder, InboxOrdered, BroadcastOrdered, InPlace
  <2>3. IdleListener'
    BY <1>3, <2>1 DEF ListenFail, Reconnected, IdleListener, TypeInv, TypeOK, BroadcasterTypeOK
  <2> QED BY <2>2, <2>3
<1> QED BY <1>1, <1>2, <1>3 DEF Listen, ListenStep

LEMMA FinallyOrdered ==
  ASSUME TypeOK, OrderInv, NEW c \in Conn, Finally(c)
  PROVE  OrderInv'
<1>1. ProcOf[c] \in Proc /\ UNCHANGED got
  BY ConnAssumption DEF Finally, sentVars
<1>2. CASE StopListening(ProcOf[c])
  BY <1>1, <1>2, StopOrdered
<1>3. CASE UNCHANGED <<bcast, taskVars, redisVars>>
  BY <1>1, <1>3, OrderUnaffected DEF taskVars, redisVars
<1> QED BY <1>2, <1>3 DEF Finally

(* A subscriber's listener starts with an empty inbox and no broadcast.       *)
LEMMA SubscribedOrdered ==
  ASSUME TypeOK, ListenerInv, OrderInv, NEW c \in Conn, Subscribed(c)
  PROVE  OrderInv'
<1> USE DEF OrderInv
<1>1. UNCHANGED <<got, inbox, log, bcast>>
  BY DEF Subscribed, StartListening, sentVars
<1>2. lst[c] = "none" /\ bcast[c] = None
  BY NoneAssumption
  DEF Subscribed, ListenerInv, NoListenerBefore, InSubscribe, SingleListener, IdleListener
<1>3. IdleListener'
  BY <1>1, <1>2 DEF Subscribed, StartListening, IdleListener, TypeOK, BroadcasterTypeOK
<1>4. SentBounded' /\ InOrder' /\ InboxOrdered' /\ BroadcastOrdered'
  BY <1>1 DEF SentBounded, InOrder, InboxOrdered, BroadcastOrdered, InPlace
<1> QED BY <1>3, <1>4

LEMMA OrderNext == TypeInv /\ ListenerInv /\ OrderInv /\ [Next]_vars => OrderInv'
<1> SUFFICES ASSUME TypeInv, ListenerInv, OrderInv, [Next]_vars PROVE OrderInv'
  OBVIOUS
<1>0. TypeOK
  BY DEF TypeInv
<1>1. ASSUME NEW c \in Conn,
             \/ Reject(c) \/ Register(c) \/ SubscribeFail(c) \/ Unsubscribed(c)
             \/ RecvMessage(c) \/ Commit(c) \/ PeerDrop(c)
      PROVE  OrderInv'
  BY <1>1, OrderUnaffected
  DEF Reject, Register, SubscribeFail, Unsubscribed, RecvMessage, Commit, PeerDrop,
      taskVars, redisVars, managerVars, sentVars
<1>2. ASSUME NEW c \in Conn, Joined(c) \/ JoinFail(c) \/ Left(c) PROVE OrderInv'
  <2>1. UNCHANGED <<got, bcast, lst, link, log>>
    BY <1>2 DEF Joined, JoinFail, Left, taskVars, managerVars, sentVars
  <2>2. CASE UNCHANGED inbox
    BY <2>1, <2>2, OrderUnaffected
  <2>3. CASE Push(PresenceBroadcast)
    <3>1. PresenceBroadcast \in Payload /\ ~IsMessage(PresenceBroadcast)
      BY PayloadsTyped DEF PresenceBroadcast, IsMessage
    <3>2. log' \in Seq(Nat) /\ Len(log) <= Len(log')
      BY <2>1, <1>0 DEF TypeOK, BroadcasterTypeOK
    <3> QED BY <2>1, <2>3, <3>1, <3>2, <1>0, PushOrdered
  <2> QED BY <1>2, <2>2, <2>3 DEF Joined, JoinFail, Left
<1>3. ASSUME NEW c \in Conn, RecvTyping(c) PROVE OrderInv'
  <2>1. UNCHANGED <<got, bcast, lst, link, log>> /\ Push(TypingBroadcast(c))
    BY <1>3 DEF RecvTyping, taskVars, managerVars, sentVars
  <2>2. TypingBroadcast(c) \in Payload /\ ~IsMessage(TypingBroadcast(c))
    BY PayloadsTyped DEF TypingBroadcast, IsMessage
  <2>3. log' \in Seq(Nat) /\ Len(log) <= Len(log')
    BY <2>1, <1>0 DEF TypeOK, BroadcasterTypeOK
  <2> QED BY <2>1, <2>2, <2>3, <1>0, PushOrdered
<1>4. ASSUME NEW c \in Conn, PublishMessage(c) \/ PublishRepeat(c) PROVE OrderInv'
  <2> DEFINE m == MessageBroadcast(Len(log) + 1)
  <2>1. UNCHANGED <<got, bcast, lst, link>> /\ Push(m) /\ log' = Append(log, held[c])
    BY <1>4 DEF PublishMessage, PublishRepeat, PushMessage, taskVars, managerVars, sentVars
  <2>2. log \in Seq(Nat) /\ held[c] \in Nat /\ Len(log) \in Nat
    BY <1>0 DEF TypeOK, BroadcasterTypeOK
  <2>3. log' \in Seq(Nat) /\ Len(log') = Len(log) + 1 /\ Len(log) <= Len(log')
    BY <2>1, <2>2
  <2>4. m \in Payload /\ m.at = Len(log')
    BY <2>2, <2>3, PayloadsTyped DEF MessageBroadcast
  <2> HIDE DEF m
  <2> QED BY <2>1, <2>3, <2>4, <1>0, PushOrdered
<1>5. ASSUME NEW c \in Conn, CommitFail(c) \/ PublishFail(c) \/ Leave(c) \/ TypingFail(c)
      PROVE  OrderInv'
  BY <1>5, <1>0, FinallyOrdered DEF CommitFail, PublishFail, Leave, TypingFail
<1>6. ASSUME NEW l \in Conn, Activate(l) \/ Drop(l) PROVE OrderInv'
  BY <1>6, <1>0, OrderUnaffected
  DEF Activate, RedisActivate, Drop, RedisDrop, taskVars, managerVars, sentVars,
      TypeOK, BroadcasterTypeOK
<1>7. ASSUME NEW p \in Proc, Crash(p) PROVE OrderInv'
  BY <1>7, <1>0, StopOrdered DEF Crash, sentVars
<1>8. CASE UNCHANGED vars
  BY <1>8, OrderUnaffected DEF vars, taskVars, redisVars, managerVars, sentVars
<1> QED
  BY <1>0, <1>1, <1>2, <1>3, <1>4, <1>5, <1>6, <1>7, <1>8, SubscribedOrdered, ListenOrdered
  DEF Next, Handshake, Step, Frame

LEMMA OrderCorrect == Spec => [](TypeInv /\ ListenerInv /\ OrderInv)
BY OrderInit, OrderNext, ListenerCorrect, PTL DEF Spec

(* No socket is sent a message twice or out of the room's order, whatever     *)
(* Redis drops, retries and crashes do.                                       *)
THEOREM DeliveredInOrder == Spec => []InOrder
BY OrderCorrect, PTL DEF OrderInv

-------------------------------------------------------------------------------
(* Refinement of BestEffortRoom. The one more thing to know is that a handler *)
(* publishes what it has committed.                                           *)
HeldInv ==
  \A c \in Conn :
    /\ pc[c] = "committing" => held[c] \in 1..MaxMsg
    /\ pc[c] = "publishing" => held[c] \in stored

LEMMA HeldInit == Init => HeldInv
BY DEF Init, HeldInv

LEMMA HeldNext == TypeOK /\ HeldInv /\ [Next]_vars => HeldInv'
<1> SUFFICES ASSUME TypeOK, HeldInv, [Next]_vars PROVE HeldInv'
  OBVIOUS
<1> USE DEF HeldInv, TypeOK
<1>1. ASSUME NEW c \in Conn, UNCHANGED <<held, stored>>,
             NEW label \in Before \cup {"joining", "open"} \cup After \cup Finished, Goto(c, label)
      PROVE  HeldInv'
  BY <1>1 DEF Goto, Before, After, Finished
<1>2. ASSUME NEW c \in Conn, Handshake(c) PROVE HeldInv'
  BY <1>1, <1>2 DEF Handshake, Reject, Register, Before, Finished
<1>3. ASSUME NEW c \in Conn, Finally(c) PROVE HeldInv'
  BY <1>3 DEF Finally, Goto
<1>4. ASSUME NEW c \in Conn, Step(c) PROVE HeldInv'
  <2>1. CASE Commit(c)
    BY <2>1 DEF Commit, Goto
  <2>2. CASE PublishMessage(c)
    BY <2>2 DEF PublishMessage, Goto
  <2>3. CASE CommitFail(c) \/ PublishFail(c) \/ Leave(c)
    BY <2>3, <1>3 DEF CommitFail, PublishFail, Leave
  <2>4. CASE \/ Subscribed(c) \/ SubscribeFail(c) \/ Joined(c) \/ JoinFail(c)
             \/ Unsubscribed(c) \/ Left(c)
    BY <2>4, <1>1
    DEF Subscribed, SubscribeFail, Joined, JoinFail, Unsubscribed, Left, Before, After, Finished
  <2> QED BY <1>4, <2>1, <2>2, <2>3, <2>4 DEF Step
<1>5. ASSUME NEW c \in Conn, RecvMessage(c) PROVE HeldInv'
  <2>1. nextId + 1 \in 1..MaxMsg
    BY <1>5, BoundsAssumption DEF RecvMessage
  <2> QED BY <1>5, <2>1 DEF RecvMessage, Goto
<1>6. ASSUME NEW c \in Conn, TypingFail(c) PROVE HeldInv'
  BY <1>6, <1>3 DEF TypingFail
<1>7. ASSUME NEW p \in Proc, Crash(p) PROVE HeldInv'
  BY <1>7 DEF Crash
<1>8. ASSUME UNCHANGED <<pc, held, stored>> PROVE HeldInv'
  BY <1>8
<1>9. ASSUME NEW c \in Conn,
             \/ RecvTyping(c) \/ PublishRepeat(c) \/ PeerDrop(c) \/ Activate(c)
             \/ Drop(c) \/ Listen(c)
      PROVE  HeldInv'
  BY <1>8, <1>9
  DEF RecvTyping, PublishRepeat, PeerDrop, Activate, Drop, Listen, handlerVars
<1>10. CASE UNCHANGED vars
  BY <1>8, <1>10 DEF vars, handlerVars
<1> QED BY <1>2, <1>4, <1>5, <1>6, <1>7, <1>9, <1>10 DEF Next, Frame

(* Every step of the fan-out is a step of the best-effort room, or nothing    *)
(* that it sees: COMMIT persists, PUBLISH publishes, a send delivers.         *)
LEMMA StepRefines ==
  ASSUME TypeInv, ListenerInv, OrderInv, HeldInv, [Next]_vars
  PROVE  [BestEffort!Next]_(BestEffort!vars)
<1>0. TypeOK
  BY DEF TypeInv
<1>1. ASSUME UNCHANGED <<stored, log, got>> PROVE UNCHANGED BestEffort!vars
  BY <1>1 DEF BestEffort!vars
<1>2. ASSUME NEW c \in Conn, Commit(c) PROVE [BestEffort!Next]_(BestEffort!vars)
  <2>1. held[c] \in 1..MaxMsg /\ stored' = stored \cup {held[c]} /\ UNCHANGED <<log, got>>
    BY <1>2 DEF Commit, HeldInv, redisVars, managerVars, sentVars
  <2>2. CASE held[c] \in stored
    BY <2>1, <2>2, <1>1
  <2>3. CASE held[c] \notin stored
    <3>1. BestEffort!Persist(held[c])
      BY <2>1, <2>3 DEF BestEffort!Persist
    <3> QED BY <2>1, <3>1 DEF BestEffort!Next
  <2> QED BY <2>2, <2>3
<1>3. ASSUME NEW c \in Conn, PublishMessage(c) \/ PublishRepeat(c)
      PROVE  [BestEffort!Next]_(BestEffort!vars)
  <2>1. held[c] \in stored /\ log' = Append(log, held[c]) /\ UNCHANGED <<stored, got>>
    BY <1>3 DEF PublishMessage, PublishRepeat, PushMessage, HeldInv, managerVars, sentVars, handlerVars
  <2>2. BestEffort!Publish(held[c])
    BY <2>1 DEF BestEffort!Publish
  <2> QED BY <2>1, <2>2 DEF BestEffort!Next
<1>4. ASSUME NEW l \in Conn, Listen(l) PROVE [BestEffort!Next]_(BestEffort!vars)
  <2>1. UNCHANGED <<stored, log>>
    BY <1>4 DEF Listen, ListenStep, ListenTake, ListenContinue, ListenFail, Reconnected,
                handlerVars, redisVars
  <2>2. ASSUME NEW it \in Iteration, Advance(l, it),
               IsMessage(it.msg) =>
                 /\ it.msg.at \in 1..Len(log)
                 /\ \A c \in Local(ProcOf[l]) \ it.seen :
                      \A k \in 1..Len(got[c]) : got[c][k] < it.msg.at
        PROVE  got' = got \/ BestEffort!Next
    <3>1. CASE got' = got
      BY <3>1
    <3>2. CASE \E c \in Conn : Delivers(l, it, c)
      <4>1. PICK c \in Conn : Delivers(l, it, c)
        BY <3>2
      <4>2. BestEffort!Deliver(c, it.msg.at) /\ it.msg.at \in 1..Len(log)
        BY <2>1, <2>2, <4>1 DEF Delivers, BestEffort!Deliver
      <4> QED BY <4>2 DEF BestEffort!Next
    <3> QED BY <2>2, <1>0, <3>1, <3>2, AdvanceEffect
  <2>3. CASE ListenTake(l)
    <3> DEFINE m == Head(inbox[l])
               it == FreshIteration(l, m)
    <3>1. inbox[l] # <<>> /\ inbox[l] \in Seq(Payload) /\ Advance(l, it)
      BY <2>3, <1>0 DEF ListenTake, TypeOK, BroadcasterTypeOK
    <3>2. m = inbox[l][1] /\ 1 \in 1..Len(inbox[l]) /\ m \in Payload
      BY <3>1
    <3>3. it \in Iteration /\ it.msg = m /\ it.seen = {}
      BY <3>2, <1>0, ConnAssumption DEF FreshIteration, Iteration, TypeOK, ManagerTypeOK
    <3>4. IsMessage(m) =>
            /\ m.at \in 1..Len(log)
            /\ \A c \in Local(ProcOf[l]) : \A k \in 1..Len(got[c]) : got[c][k] < m.at
      BY <3>2 DEF OrderInv, InboxOrdered
    <3> HIDE DEF it, m
    <3> QED BY <3>1, <3>3, <3>4, <2>1, <2>2, <1>1
  <2>4. CASE ListenContinue(l)
    <3>1. bcast[l] \in Iteration /\ bcast[l] # None /\ Advance(l, bcast[l])
      BY <2>4, <1>0 DEF ListenContinue, TypeInv, TypeOK, ManagerTypeOK, SendingHasBroadcast
    <3>2. InPlace(l, bcast[l])
      BY <3>1 DEF OrderInv, BroadcastOrdered
    <3> QED BY <3>1, <3>2, <2>1, <2>2, <1>1 DEF InPlace
  <2>5. CASE ListenFail(l) \/ Reconnected(l)
    BY <2>1, <2>5, <1>1 DEF ListenFail, Reconnected, managerVars, sentVars
  <2> QED BY <1>4, <2>3, <2>4, <2>5 DEF Listen, ListenStep
<1>5. ASSUME NEW c \in Conn,
             \/ Handshake(c) \/ Subscribed(c) \/ SubscribeFail(c) \/ Joined(c) \/ JoinFail(c)
             \/ Unsubscribed(c) \/ Left(c)
             \/ RecvMessage(c) \/ RecvTyping(c) \/ PeerDrop(c) \/ Activate(c) \/ Drop(c)
      PROVE  UNCHANGED <<stored, log, got>>
  BY <1>5
  DEF Handshake, Reject, Register, Subscribed, StartListening, SubscribeFail, Joined, JoinFail,
      Unsubscribed, Left, RecvMessage, RecvTyping, PeerDrop, Activate, RedisActivate, Drop,
      RedisDrop, handlerVars, redisVars, managerVars, sentVars
<1>6. ASSUME NEW c \in Conn, CommitFail(c) \/ PublishFail(c) \/ Leave(c) \/ TypingFail(c)
      PROVE  UNCHANGED <<stored, log, got>>
  BY <1>6
  DEF CommitFail, PublishFail, Leave, TypingFail, Finally, StopListening, redisVars, sentVars
<1>7. ASSUME NEW p \in Proc, Crash(p) PROVE UNCHANGED <<stored, log, got>>
  BY <1>7 DEF Crash, StopListening, sentVars
<1>8. CASE UNCHANGED vars
  BY <1>8, <1>1 DEF vars, handlerVars, redisVars, managerVars, sentVars
<1> QED
  BY <1>1, <1>2, <1>3, <1>4, <1>5, <1>6, <1>7, <1>8 DEF Next, Step, Frame

(* The fan-out of every number of processes and connections implements the    *)
(* best-effort room: only stored messages are published, and every socket is  *)
(* sent a subsequence of what was published.                                  *)
THEOREM ImplementsBestEffort == Spec => RefinesBestEffort
<1>1. Init => BestEffort!Init
  BY DEF Init, ManagerInit, BroadcasterInit, BestEffort!Init
<1>2. Spec => []HeldInv
  BY HeldInit, HeldNext, TypeCorrect, PTL DEF Spec
<1>3. TypeInv /\ ListenerInv /\ OrderInv /\ HeldInv /\ [Next]_vars
        => [BestEffort!Next]_(BestEffort!vars)
  BY StepRefines
<1> QED
  BY <1>1, <1>2, <1>3, OrderCorrect, PTL DEF Spec, RefinesBestEffort, BestEffort!Spec
===============================================================================
