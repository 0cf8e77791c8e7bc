------------------------------ MODULE ChatProofs ------------------------------
(* Proofs about the chat client, for every number of connects, messages and   *)
(* faults, whatever the interleaving of its handlers.                         *)
EXTENDS ChatSafety, FunctionTheorems, FiniteSetTheorems, TLAPS

(* No row is shown twice, no content is queued or sent twice or forgotten.    *)

NoRepeats(s) == \A i, j \in 1..Len(s) : s[i] = s[j] => i = j
RowsOnce     == NoRepeats(shown)
ContentsOnce ==
  /\ NoRepeats(wire) /\ NoRepeats(outbox)
  /\ Elems(wire) \cap Elems(outbox) = {}
  /\ Elems(wire) \cup Elems(outbox) = 1..composed

(* Attempts begin in order. What a connect closes was dialed before it, and   *)
(* a connection that was dialed is open until it is noticed to end, which     *)
(* ends a room that is not shown.                                             *)
OnItsWay(k) == phase[k] \in {"closing", "reading", "dialing"}
Dialed(k)   == phase[k] \in {"open", "done"}
CallsFit ==
  /\ conn # 0 => Dialed(conn)
  /\ \A k \in Attempt :
       /\ phase[k] # "none" => \A j \in Attempt : j < k => phase[j] # "none"
       /\ greeted[k] => Dialed(k)
       /\ phase[k] = "closing" => closes[k] # 0 /\ Dialed(closes[k])
       /\ phase[k] = "open" => link[k] \in {"up", "lost", "closing", "ended"}
       /\ phase[k] = "open" /\ view = "connecting" => link[k] # "ended"

(* Unless two connects crossed, the bloc knows its connection: the one that   *)
(* is open, or is being closed, and none while another is being opened. A     *)
(* room that is shown as connected has one or is getting one, and the outbox  *)
(* waits only for one that has not greeted.                                   *)
OneOnItsWay == \A j, k \in Attempt : OnItsWay(j) /\ OnItsWay(k) => j = k
OpenIsHeld ==
  \A k \in Attempt :
    /\ phase[k] = "open" => conn = k
    /\ phase[k] = "closing" => closes[k] = conn
    /\ phase[k] \in {"reading", "dialing"} => conn = 0
OnlineIsHeld ==
  view = "active" /\ online => (\E k \in Attempt : OnItsWay(k)) \/ (conn # 0 /\ Hears(conn))
OutboxWaits == outbox # <<>> /\ conn # 0 /\ link[conn] = "up" => ~greeted[conn]
KnowsItsLink == ~astray => OneOnItsWay /\ OpenIsHeld /\ OnlineIsHeld /\ OutboxWaits

(* Only a room that is shown has rows.                                        *)
ShownOnly == view # "active" => shown = <<>>

(* What was due is stored when it is asked for; when it is answered it is in  *)
(* the page or beyond it; when the page is merged the room is shown with it.  *)
BeyondPage(f, id) ==
  \/ id <= f.after
  \/ id \in f.page
  \/ Cardinality(f.page) = PageLimit /\ \A x \in f.page : x < id
PageFits(f) ==
  /\ f.state # "none" => f.due \subseteq stored
  /\ f.state \in {"answered", "merged"} => \A id \in f.due : BeyondPage(f, id)
MergedIsShown(f) == f.state = "merged" => view = "active" /\ f.page \subseteq Elems(shown)
PagesFit ==
  /\ Elems(log) \subseteq stored
  /\ \A k \in Attempt : PageFits(fetch[k]) /\ MergedIsShown(fetch[k])

ChatInv ==
  /\ TypeOK
  /\ RowsOnce
  /\ ContentsOnce
  /\ CallsFit
  /\ KnowsItsLink
  /\ ShownOnly
  /\ PagesFit
  /\ BannerIsHonest

-------------------------------------------------------------------------------
(* Sets of ids: ranks, sorted lists and pages.                                *)
LEMMA IdsFinite ==
  ASSUME NEW S \in SUBSET Msg
  PROVE  /\ IsFiniteSet(S) /\ Cardinality(S) \in Nat
         /\ \A x \in S : x \in Nat
<1>1. IsFiniteSet(Msg)
  BY SizeAssumption, FS_Interval DEF Msg
<1>2. IsFiniteSet(S)
  BY <1>1, FS_Subset
<1>3. Cardinality(S) \in Nat
  BY <1>2, FS_CardinalityType
<1>4. \A x \in S : x \in Nat
  BY SizeAssumption DEF Msg
<1> QED BY <1>2, <1>3, <1>4

LEMMA RankGrows ==
  ASSUME NEW S \in SUBSET Msg, NEW x \in S, NEW y \in S, x < y
  PROVE  Cardinality({z \in S : z <= x}) < Cardinality({z \in S : z <= y})
<1> DEFINE X == {z \in S : z <= x}
           Y == {z \in S : z <= y}
<1>1. x \in Nat /\ y \in Nat /\ \A z \in S : z \in Nat
  BY IdsFinite
<1>2. X \subseteq Y /\ y \in Y /\ y \notin X
  <2>1. ASSUME NEW z \in S, z <= x PROVE z <= y
    BY <1>1, <2>1
  <2>2. y <= y /\ ~(y <= x)
    BY <1>1
  <2> QED BY <2>1, <2>2
<1>3. IsFiniteSet(Y) /\ Cardinality(Y) \in Nat /\ Cardinality(X) \in Nat
  BY IdsFinite
<1>4. Cardinality(X) <= Cardinality(Y) /\ (Cardinality(Y) = Cardinality(X) => Y = X)
  BY <1>2, <1>3, FS_Subset
<1>5. Y # X
  BY <1>2
<1>6. Cardinality(X) < Cardinality(Y)
  <2> HIDE DEF X, Y
  <2> QED BY <1>3, <1>4, <1>5
<1> QED BY <1>6

(* Each number up to the size of S is the rank of one of its elements.        *)
LEMMA RankIsBijection ==
  ASSUME NEW S \in SUBSET Msg
  PROVE  [x \in S |-> Cardinality({z \in S : z <= x})] \in Bijection(S, 1..Cardinality(S))
<1> DEFINE Upto(x) == {z \in S : z <= x}
           n == Cardinality(S)
           rank == [x \in S |-> Cardinality(Upto(x))]
<1>1. n \in Nat /\ IsFiniteSet(S) /\ \A x \in S : x \in Nat
  BY IdsFinite
<1>2. ASSUME NEW x \in S PROVE Cardinality(Upto(x)) \in 1..n
  <2>1. Upto(x) \subseteq S /\ x \in Upto(x)
    BY <1>1
  <2>2. Cardinality(Upto(x)) \in Nat /\ Cardinality(Upto(x)) <= n /\ IsFiniteSet(Upto(x))
    BY <1>1, <2>1, FS_Subset, FS_CardinalityType
  <2>3. Cardinality(Upto(x)) # 0
    BY <2>1, <2>2, FS_EmptySet
  <2> QED BY <2>2, <2>3, <1>1
<1>3. ASSUME NEW x \in S, NEW y \in S, rank[x] = rank[y] PROVE x = y
  <2>1. rank[x] \in Nat /\ rank[y] \in Nat
    BY <1>2
  <2>2. x < y => rank[x] < rank[y]
    BY RankGrows
  <2>3. y < x => rank[y] < rank[x]
    BY RankGrows
  <2> QED BY <1>1, <1>3, <2>1, <2>2, <2>3
<1>4. rank \in [S -> 1..n]
  BY <1>2
<1>5. rank \in Injection(S, 1..n)
  <2> HIDE DEF rank
  <2> QED BY <1>3, <1>4, Fun_IsInj
<1>6. IsFiniteSet(1..n) /\ Cardinality(1..n) = n
  BY <1>1, FS_Interval
<1>7. rank \in Surjection(S, 1..n)
  BY <1>5, <1>6, FS_Injection
<1>8. rank \in Bijection(S, 1..n)
  <2> HIDE DEF rank
  <2> QED BY <1>5, <1>7, Fun_IsBij
<1> QED BY <1>8

(* Sorted() lists each element once, the lower ones first.                    *)
IsSortedList(s, S) ==
  /\ s \in [1..Cardinality(S) -> S]
  /\ \A i, j \in 1..Cardinality(S) : i < j => s[i] < s[j]

LEMMA SortedListExists ==
  ASSUME NEW S \in SUBSET Msg
  PROVE  \E s : IsSortedList(s, S)
<1> DEFINE n == Cardinality(S)
           rank == [x \in S |-> Cardinality({z \in S : z <= x})]
           list == [i \in 1..n |-> CHOOSE x \in S : rank[x] = i]
<1>1. n \in Nat /\ \A x \in S : x \in Nat
  BY IdsFinite
<1>2. rank \in [S -> 1..n] /\ \A i \in 1..n : \E x \in S : rank[x] = i
  <2>1. rank \in Bijection(S, 1..n)
    BY RankIsBijection
  <2> HIDE DEF rank
  <2>2. rank \in [S -> 1..n]
    BY <2>1 DEF Bijection, Injection
  <2>3. \A i \in 1..n : \E x \in S : rank[x] = i
    BY <2>1 DEF Bijection, Surjection
  <2> QED BY <2>2, <2>3
<1>3. \A i \in 1..n : list[i] \in S /\ rank[list[i]] = i
  <2> HIDE DEF rank
  <2> QED BY <1>2
<1>4. ASSUME NEW i \in 1..n, NEW j \in 1..n, i < j PROVE list[i] < list[j]
  <2>1. list[i] \in S /\ list[j] \in S /\ rank[list[i]] = i /\ rank[list[j]] = j
    BY <1>3
  <2> DEFINE a == list[i]
             b == list[j]
  <2>2. b < a => rank[b] < rank[a]
    <3> HIDE DEF list
    <3> QED BY <2>1, RankGrows
  <2> HIDE DEF rank, list
  <2>3. a # b
    BY <2>1, <1>4
  <2>4. ~(b < a)
    BY <2>1, <2>2, <1>4, <1>1
  <2> QED BY <2>1, <2>3, <2>4, <1>1
<1>5. list \in [1..n -> S]
  <2> HIDE DEF rank
  <2> QED BY <1>3
<1>6. IsSortedList(list, S)
  <2> HIDE DEF list
  <2> QED BY <1>4, <1>5 DEF IsSortedList
<1> QED BY <1>6

LEMMA SortedIsList ==
  ASSUME NEW S \in SUBSET Msg
  PROVE  IsSortedList(Sorted(S), S)
<1>1. PICK s : IsSortedList(s, S)
  BY SortedListExists
<1> QED BY <1>1 DEF IsSortedList, Sorted

LEMMA SortedProperties ==
  ASSUME NEW S \in SUBSET Msg
  PROVE  /\ Sorted(S) \in Seq(Msg) /\ Len(Sorted(S)) = Cardinality(S)
         /\ \A i, j \in 1..Cardinality(S) : i < j => Sorted(S)[i] < Sorted(S)[j]
         /\ NoRepeats(Sorted(S))
         /\ Elems(Sorted(S)) = S
<1> DEFINE n == Cardinality(S)
           s == Sorted(S)
<1>1. /\ n \in Nat /\ IsFiniteSet(S) /\ \A x \in S : x \in Nat
  BY IdsFinite
<1>2. s \in [1..n -> S] /\ \A i, j \in 1..n : i < j => s[i] < s[j]
  BY SortedIsList DEF IsSortedList
<1> HIDE DEF s, n
<1>3. s \in Seq(Msg) /\ Len(s) = n
  BY <1>1, <1>2
<1>4. ASSUME NEW i \in 1..n, NEW j \in 1..n, s[i] = s[j] PROVE i = j
  <2>1. s[i] \in Nat /\ s[j] \in Nat /\ i \in Nat /\ j \in Nat
    BY <1>1, <1>2
  <2> QED BY <1>2, <1>4, <2>1
<1>5. IsFiniteSet(1..n) /\ Cardinality(1..n) = n
  BY <1>1, FS_Interval
<1>6. s \in Surjection(1..n, S)
  <2>1. s \in Injection(1..n, S)
    BY <1>2, <1>4, Fun_IsInj
  <2> QED BY <2>1, <1>1, <1>5, FS_Injection DEF n
<1>7. \A x \in S : \E i \in 1..n : s[i] = x
  BY <1>6 DEF Surjection
<1>8. Elems(s) = S
  BY <1>2, <1>3, <1>7 DEF Elems
<1> QED BY <1>2, <1>3, <1>4, <1>8 DEF NoRepeats, s, n

LEMMA HighestProperties ==
  ASSUME NEW S \in SUBSET Msg, S # {}
  PROVE  Highest(S) \in S /\ \A y \in S : y <= Highest(S)
<1> DEFINE n == Cardinality(S)
           s == Sorted(S)
<1>1. n \in Nat /\ n # 0 /\ \A x \in S : x \in Nat
  BY IdsFinite, FS_EmptySet
<1>2. /\ s \in Seq(Msg) /\ Len(s) = n /\ Elems(s) = S
      /\ \A i, j \in 1..n : i < j => s[i] < s[j]
  BY SortedProperties
<1> HIDE DEF n, s
<1>3. s[n] \in S /\ n \in 1..n
  BY <1>1, <1>2 DEF Elems
<1>4. ASSUME NEW y \in S PROVE y <= s[n]
  <2>1. PICK i \in 1..n : s[i] = y
    BY <1>2 DEF Elems
  <2> QED BY <1>1, <1>2, <1>3, <2>1
<1> QED BY <1>3, <1>4 DEF Highest

(* A row above a page of S lies beyond it, and the page is full.              *)
LEMMA PageIsLowest ==
  ASSUME NEW S \in SUBSET Msg, NEW id \in S,
         ~(Cardinality({j \in S : j < id}) < PageLimit)
  PROVE  LET page == {x \in S : Cardinality({j \in S : j < x}) < PageLimit}
         IN  Cardinality(page) = PageLimit /\ \A x \in page : x < id
<1> DEFINE n == Cardinality(S)
           s == Sorted(S)
           Below(x) == {j \in S : j < x}
           page == {x \in S : Cardinality(Below(x)) < PageLimit}
<1>1. n \in Nat /\ IsFiniteSet(S) /\ (\A x \in S : x \in Nat) /\ PageLimit \in Nat
  BY IdsFinite, LimitAssumption
<1>2. /\ s \in Seq(Msg) /\ Len(s) = n /\ Elems(s) = S
      /\ \A i, j \in 1..n : i < j => s[i] < s[j]
  BY SortedProperties
<1> HIDE DEF n, s
<1>3. \A i \in 1..n : s[i] \in S /\ s[i] \in Nat
  BY <1>1, <1>2 DEF Elems
<1>4. \A i, j \in 1..n : s[i] < s[j] => i < j
  BY <1>1, <1>2, <1>3
<1>5. ASSUME NEW i \in 1..n PROVE Cardinality(Below(s[i])) = i - 1
  <2> DEFINE f == [m \in 1..(i - 1) |-> s[m]]
  <2>1. i \in Nat /\ i - 1 \in Nat /\ \A m \in 1..(i - 1) : m \in 1..n /\ m < i
    BY <1>1
  <2>2. f \in [1..(i - 1) -> Below(s[i])]
    BY <1>2, <1>3, <2>1
  <2>3. ASSUME NEW a \in 1..(i - 1), NEW b \in 1..(i - 1), f[a] = f[b] PROVE a = b
    BY <1>2, <1>3, <2>1, <2>3
  <2>4. ASSUME NEW t \in Below(s[i]) PROVE \E m \in 1..(i - 1) : f[m] = t
    <3>1. PICK m \in 1..n : s[m] = t
      BY <1>2, <2>4 DEF Elems
    <3>2. m < i
      BY <1>4, <3>1, <2>4
    <3> QED BY <1>1, <3>1, <3>2
  <2>5. f \in Bijection(1..(i - 1), Below(s[i]))
    <3> HIDE DEF f, Below
    <3> QED BY <2>2, <2>3, <2>4, Fun_IsBij
  <2>6. ExistsBijection(1..(i - 1), Below(s[i]))
    <3> HIDE DEF f, Below
    <3> QED BY <2>5 DEF ExistsBijection
  <2> HIDE DEF Below
  <2> QED BY <2>1, <2>6, FS_CountingElements
<1> HIDE DEF Below
<1>6. PICK m \in 1..n : s[m] = id
  BY <1>2 DEF Elems
<1>7. m > PageLimit
  <2>1. ~(Cardinality(Below(id)) < PageLimit)
    BY DEF Below
  <2> QED BY <2>1, <1>1, <1>5, <1>6
<1>8. \A i \in 1..n : s[i] \in page <=> i <= PageLimit
  BY <1>1, <1>3, <1>5
<1>9. \A x \in page : \E i \in 1..n : s[i] = x /\ i <= PageLimit
  <2> SUFFICES ASSUME NEW x \in page PROVE \E i \in 1..n : s[i] = x /\ i <= PageLimit
    OBVIOUS
  <2>1. PICK i \in 1..n : s[i] = x
    BY <1>2 DEF Elems
  <2> QED BY <2>1, <1>8
<1>10. Cardinality(page) = PageLimit
  <2> DEFINE f == [i \in 1..PageLimit |-> s[i]]
  <2>1. \A i \in 1..PageLimit : i \in 1..n /\ i <= PageLimit
    BY <1>1, <1>7
  <2> HIDE DEF page
  <2>2. f \in [1..PageLimit -> page]
    BY <2>1, <1>8
  <2>3. ASSUME NEW a \in 1..PageLimit, NEW b \in 1..PageLimit, f[a] = f[b] PROVE a = b
    <3>1. s[a] \in Nat /\ s[b] \in Nat /\ a \in 1..n /\ b \in 1..n /\ s[a] = s[b]
      BY <1>3, <2>1, <2>3
    <3> QED BY <1>1, <1>2, <3>1
  <2>4. \A t \in page : \E i \in 1..PageLimit : f[i] = t
    BY <1>9, <1>1
  <2>5. f \in Bijection(1..PageLimit, page)
    <3> HIDE DEF f
    <3> QED BY <2>2, <2>3, <2>4, Fun_IsBij
  <2>6. ExistsBijection(1..PageLimit, page)
    <3> HIDE DEF f
    <3> QED BY <2>5 DEF ExistsBijection
  <2> QED BY <1>1, <2>6, FS_CountingElements
<1>11. ASSUME NEW x \in page PROVE x < id
  BY <1>11, <1>1, <1>2, <1>6, <1>7, <1>9
<1> QED BY <1>10, <1>11 DEF Below

-------------------------------------------------------------------------------
(* Lists.                                                                     *)
LEMMA ElemsInside ==
  ASSUME NEW T, NEW s \in Seq(T)
  PROVE  Elems(s) \subseteq T
BY DEF Elems

LEMMA ElemsAppend ==
  ASSUME NEW T, NEW s \in Seq(T), NEW e \in T
  PROVE  /\ Append(s, e) \in Seq(T)
         /\ Elems(Append(s, e)) = Elems(s) \cup {e}
         /\ NoRepeats(s) /\ e \notin Elems(s) => NoRepeats(Append(s, e))
<1>1. /\ Append(s, e) \in Seq(T) /\ Len(Append(s, e)) = Len(s) + 1 /\ Len(s) \in Nat
      /\ Append(s, e)[Len(s) + 1] = e
      /\ \A i \in 1..Len(s) : Append(s, e)[i] = s[i]
  OBVIOUS
<1>2. Elems(s) \cup {e} \subseteq Elems(Append(s, e))
  <2>1. ASSUME NEW x \in Elems(s) PROVE x \in Elems(Append(s, e))
    <3>1. PICK i \in 1..Len(s) : s[i] = x
      BY <2>1 DEF Elems
    <3>2. i \in 1..Len(Append(s, e)) /\ Append(s, e)[i] = x
      BY <1>1, <3>1
    <3> QED BY <3>2 DEF Elems
  <2>2. Len(s) + 1 \in 1..Len(Append(s, e))
    BY <1>1
  <2> QED BY <1>1, <2>1, <2>2 DEF Elems
<1>3. Elems(Append(s, e)) \subseteq Elems(s) \cup {e}
  <2> SUFFICES ASSUME NEW i \in 1..Len(Append(s, e)) PROVE Append(s, e)[i] \in Elems(s) \cup {e}
    BY DEF Elems
  <2>1. i \in 1..Len(s) \/ i = Len(s) + 1
    BY <1>1
  <2> QED BY <1>1, <2>1 DEF Elems
<1>4. ASSUME NoRepeats(s), e \notin Elems(s) PROVE NoRepeats(Append(s, e))
  <2> SUFFICES ASSUME NEW i \in 1..Len(Append(s, e)), NEW j \in 1..Len(Append(s, e)),
                      Append(s, e)[i] = Append(s, e)[j]
               PROVE  i = j
    BY DEF NoRepeats
  <2>1. \A k \in 1..Len(s) : s[k] # e
    BY <1>4 DEF Elems
  <2>2. (i \in 1..Len(s) \/ i = Len(s) + 1) /\ (j \in 1..Len(s) \/ j = Len(s) + 1)
    BY <1>1
  <2> QED BY <1>1, <1>4, <2>1, <2>2 DEF NoRepeats
<1> QED BY <1>1, <1>2, <1>3, <1>4

-------------------------------------------------------------------------------
(* Types.                                                                     *)
LEMMA DeliverTypes ==
  ASSUME TypeOK, NEW k \in Attempt, NEW n \in 1..Len(log), Server!Deliver(k, n)
  PROVE  got' \in [Attempt -> Seq(Nat)] /\ UNCHANGED <<stored, log>>
<1>1. n \in Nat /\ got \in [Attempt -> Seq(Nat)]
  BY DEF TypeOK
<1>2. Append(got[k], n) \in Seq(Nat)
  BY <1>1
<1> QED BY <1>1, <1>2 DEF Server!Deliver

LEMMA RoomTypes ==
  ASSUME TypeOK, NEW id \in Msg, Server!Persist(id) \/ Server!Publish(id)
  PROVE  stored' \in SUBSET Msg /\ log' \in Seq(Msg) /\ UNCHANGED got
<1>1. stored \in SUBSET Msg /\ log \in Seq(Msg)
  BY DEF TypeOK
<1>2. Append(log, id) \in Seq(Msg)
  BY <1>1
<1> QED BY <1>1, <1>2 DEF Server!Persist, Server!Publish

LEMMA FetchTyped ==
  ASSUME TypeOK, NEW k \in Attempt
  PROVE  /\ fetch[k] \in Backfill
         /\ \A st \in {"none", "asked", "answered", "merged", "over"} :
              [fetch[k] EXCEPT !.state = st] \in Backfill
         /\ \A f \in Backfill : [fetch EXCEPT ![k] = f] \in [Attempt -> Backfill]
<1>1. fetch \in [Attempt -> Backfill]
  BY DEF TypeOK
<1>2. fetch[k] \in Backfill
  BY <1>1
<1>3. \A st \in {"none", "asked", "answered", "merged", "over"} :
        [fetch[k] EXCEPT !.state = st] \in Backfill
  BY <1>2 DEF Backfill
<1> QED BY <1>1, <1>2, <1>3

LEMMA OutboxTyped ==
  ASSUME TypeOK, FlushOutbox
  PROVE  outbox' \in Seq(Nat) /\ wire' \in Seq(Nat)
<1>1. outbox \in Seq(Nat) /\ wire \in Seq(Nat) /\ <<>> \in Seq(Nat)
  BY DEF TypeOK
<1>2. wire \o outbox \in Seq(Nat)
  BY <1>1
<1> QED BY <1>1, <1>2 DEF FlushOutbox, Taken

LEMMA PageTyped ==
  ASSUME TypeOK, NEW after \in Nat
  PROVE  Page(after) \in SUBSET Msg
BY DEF TypeOK, Page

LEMMA TypeNext == TypeOK /\ [Next]_vars => TypeOK'
<1> SUFFICES ASSUME TypeOK, [Next]_vars PROVE TypeOK'
  OBVIOUS
<1>1. ASSUME NEW k \in Attempt, Connect(k), timer' \in BOOLEAN,
             spent' \in [{"fault", "retry", "reopen"} -> Nat]
      PROVE  TypeOK'
  BY <1>1 DEF Connect, TypeOK, serverVars, viewVars, sendVars
<1>2. ASSUME NEW k \in Attempt, TimerFires(k) PROVE TypeOK'
  BY <1>1, <1>2 DEF TimerFires, TypeOK
<1>3. ASSUME NEW k \in Attempt, Retry(k) PROVE TypeOK'
  <2>1. spent' \in [{"fault", "retry", "reopen"} -> Nat] /\ timer' \in BOOLEAN
    <3>1. spent \in [{"fault", "retry", "reopen"} -> Nat]
      BY DEF TypeOK
    <3>2. spent' = [spent EXCEPT !["retry"] = @ + 1] /\ timer' = FALSE
      BY <1>3 DEF Retry
    <3>3. spent["retry"] + 1 \in Nat
      BY <3>1
    <3> QED BY <3>1, <3>2, <3>3
  <2> QED BY <1>1, <1>3, <2>1 DEF Retry
<1>4. ASSUME NEW k \in Attempt, CloseReturns(k) PROVE TypeOK'
  BY <1>4 DEF CloseReturns, TypeOK, serverVars, viewVars, sendVars
<1>5. ASSUME NEW k \in Attempt, ReadCache(k) PROVE TypeOK'
  <2>1. PICK cached \in {{}, LatestCached} : ShowCached(cached)
    BY <1>5 DEF ReadCache
  <2>2. cached \in SUBSET Msg
    BY DEF TypeOK, LatestCached
  <2>3. Sorted(cached) \in Seq(Msg)
    BY <2>2, SortedProperties
  <2>4. cached # {} => Highest(cached) \in Msg
    BY <2>2, HighestProperties
  <2>5. last' \in 0..MaxMsg
    <3>1. last \in 0..MaxMsg
      BY DEF TypeOK
    <3> QED BY <2>1, <2>4, <3>1, SizeAssumption DEF ShowCached, Larger, Msg
  <2>6. view' \in {"connecting", "active", "failed"} /\ online' \in BOOLEAN /\ shown' \in Seq(Msg)
    BY <2>1, <2>3 DEF ShowCached, viewVars, TypeOK
  <2> QED BY <1>5, <2>5, <2>6 DEF ReadCache, TypeOK, serverVars, sendVars
<1>6. ASSUME NEW k \in Attempt, Dial(k) PROVE TypeOK'
  <2>1. Elems(log) \in SUBSET Msg /\ last \in Nat
    <3>1. log \in Seq(Msg) /\ last \in 0..MaxMsg
      BY DEF TypeOK
    <3> QED BY <3>1, ElemsInside
  <2>2. [state |-> "asked", after |-> last, page |-> {}, due |-> Elems(log)] \in Backfill
    BY <2>1 DEF Backfill
  <2>3. fetch' \in [Attempt -> Backfill]
    BY <1>6, <2>2, FetchTyped DEF Dial
  <2> QED BY <1>6, <2>3 DEF Dial, TypeOK, serverVars, viewVars, sendVars
<1>7. ASSUME NEW k \in Attempt, DialFails(k) PROVE TypeOK'
  <2>1. /\ view' \in {"active", "failed"} /\ online' \in BOOLEAN /\ timer' \in BOOLEAN
        /\ UNCHANGED shown
    BY <1>7 DEF DialFails, ShowDisconnected, TypeOK
  <2>2. spent' \in [{"fault", "retry", "reopen"} -> Nat]
    BY <1>7 DEF DialFails, Fault, TypeOK
  <2> QED BY <1>7, <2>1, <2>2 DEF DialFails, TypeOK, serverVars, sendVars
<1>8. ASSUME NEW k \in Attempt, Greet(k) PROVE TypeOK'
  <2>1. outbox' \in Seq(Nat) /\ wire' \in Seq(Nat)
    BY <1>8, OutboxTyped DEF Greet
  <2>2. shown' \in Seq(Msg) /\ view' \in {"active"} /\ online' \in BOOLEAN
    <3>1. shown \in Seq(Msg) /\ <<>> \in Seq(Msg)
      BY DEF TypeOK
    <3> QED BY <1>8, <3>1 DEF Greet, ShowConnected
  <2> QED BY <1>8, <2>1, <2>2 DEF Greet, TypeOK, serverVars
<1>9. ASSUME NEW k \in Attempt, NEW n \in 1..Len(log), Receive(k, n) PROVE TypeOK'
  <2>1. log[n] \in Msg
    BY DEF TypeOK
  <2>2. shown' \in Seq(Msg) /\ last' \in 0..MaxMsg /\ cache' \in SUBSET Msg
    <3>1. shown \in Seq(Msg) /\ last \in 0..MaxMsg /\ cache \in SUBSET Msg
      BY DEF TypeOK
    <3>2. Append(shown, log[n]) \in Seq(Msg)
      BY <2>1, <3>1
    <3>3. Larger(log[n], last) \in 0..MaxMsg
      BY <2>1, <3>1, SizeAssumption DEF Larger, Msg
    <3> QED BY <1>9, <2>1, <3>1, <3>2, <3>3 DEF Receive
  <2>3. got' \in [Attempt -> Seq(Nat)] /\ UNCHANGED <<stored, log>>
    BY <1>9, DeliverTypes DEF Receive
  <2> QED BY <1>9, <2>2, <2>3 DEF Receive, TypeOK, sendVars, callVars
<1>10. ASSUME NEW k \in Attempt, Lose(k) PROVE TypeOK'
  BY <1>10 DEF Lose, Fault, TypeOK, serverVars, viewVars, sendVars
<1>11. ASSUME NEW k \in Attempt, Ended(k) PROVE TypeOK'
  BY <1>11 DEF Ended, ShowDisconnected, TypeOK, serverVars, sendVars
<1>12. ASSUME NEW k \in Attempt, Answer(k) PROVE TypeOK'
  <2>1. [fetch[k] EXCEPT !.state = "answered", !.page = Page(fetch[k].after)] \in Backfill
    <3>1. fetch[k] \in Backfill
      BY FetchTyped
    <3>2. Page(fetch[k].after) \in SUBSET Msg
      BY <3>1, PageTyped DEF Backfill
    <3> QED BY <3>1, <3>2 DEF Backfill
  <2>2. fetch' \in [Attempt -> Backfill]
    BY <1>12, <2>1, FetchTyped DEF Answer
  <2> QED BY <1>12, <2>2 DEF Answer, TypeOK, serverVars, viewVars, sendVars
<1>13. ASSUME NEW k \in Attempt, FetchFails(k) PROVE TypeOK'
  <2>1. fetch' \in [Attempt -> Backfill]
    BY <1>13, FetchTyped DEF FetchFails
  <2>2. spent' \in [{"fault", "retry", "reopen"} -> Nat]
    BY <1>13 DEF FetchFails, Fault, TypeOK
  <2> QED BY <1>13, <2>1, <2>2 DEF FetchFails, TypeOK, serverVars, viewVars, sendVars
<1>14. ASSUME NEW k \in Attempt, Merge(k) PROVE TypeOK'
  <2>1. fetch[k].page \in SUBSET Msg /\ Merged(k) \in SUBSET Msg
    BY ElemsInside DEF TypeOK, Backfill, Merged
  <2>2. Sorted(Merged(k)) \in Seq(Msg) /\ (Merged(k) # {} => Highest(Merged(k)) \in Msg)
    BY <2>1, SortedProperties, HighestProperties
  <2>3. fetch' \in [Attempt -> Backfill]
    BY <1>14, FetchTyped DEF Merge
  <2>4. cache' \in SUBSET Msg
    BY <1>14, <2>1 DEF Merge, TypeOK
  <2>5. shown' \in Seq(Msg) /\ last' \in 0..MaxMsg
    <3>1. shown \in Seq(Msg) /\ last \in 0..MaxMsg
      BY DEF TypeOK
    <3> QED BY <1>14, <2>2, <3>1 DEF Merge, viewVars, Msg
  <2>6. view' \in {"connecting", "active", "failed"} /\ online' \in BOOLEAN /\ astray' \in BOOLEAN
    BY <1>14 DEF Merge, TypeOK, viewVars
  <2> QED BY <1>14, <2>3, <2>4, <2>5, <2>6 DEF Merge, TypeOK, serverVars, sendVars
<1>15. ASSUME Send PROVE TypeOK'
  <2>1. composed' \in Nat /\ outbox' \in Seq(Nat) /\ wire' \in Seq(Nat)
    <3>1. outbox \in Seq(Nat) /\ wire \in Seq(Nat) /\ composed \in Nat
      BY DEF TypeOK
    <3>2. /\ composed + 1 \in Nat /\ wire \o <<composed + 1>> \in Seq(Nat)
          /\ Append(outbox, composed + 1) \in Seq(Nat)
      BY <3>1
    <3> QED BY <1>15, <3>1, <3>2 DEF Send, Taken
  <2> QED BY <1>15, <2>1 DEF Send, TypeOK, serverVars, viewVars, callVars
<1>16. ASSUME NEW k \in Attempt, Reopen(k) PROVE TypeOK'
  <2>1. fetch' \in [Attempt -> Backfill]
    <3>1. \A j \in Attempt : fetch[j] \in Backfill /\ [fetch[j] EXCEPT !.state = "over"] \in Backfill
      BY FetchTyped
    <3> QED BY <1>16, <3>1 DEF Reopen
  <2>2. /\ phase' \in [Attempt -> {"none", "closing", "reading", "dialing", "open", "done"}]
        /\ link' \in [Attempt -> {"none", "up", "lost", "closing", "ended", "closed"}]
        /\ closes' \in [Attempt -> {0} \cup Attempt]
        /\ spent' \in [{"fault", "retry", "reopen"} -> Nat]
    BY <1>16 DEF Reopen, TypeOK
  <2>3. <<>> \in Seq(Msg) /\ <<>> \in Seq(Nat) /\ 0 \in 0..MaxMsg /\ 0 \in Nat
    BY SizeAssumption
  <2> QED BY <1>16, <2>1, <2>2, <2>3 DEF Reopen, TypeOK, serverVars
<1>17. ASSUME NEW id \in Msg, Persist(id) \/ Publish(id) PROVE TypeOK'
  <2>1. stored' \in SUBSET Msg /\ log' \in Seq(Msg) /\ UNCHANGED got
    BY <1>17, RoomTypes DEF Persist, Publish
  <2> QED BY <1>17, <2>1 DEF Persist, Publish, TypeOK, clientVars, viewVars, sendVars, callVars
<1>18. CASE UNCHANGED vars
  BY <1>18 DEF vars, TypeOK, serverVars, viewVars, sendVars, callVars
<1> QED
  BY <1>2, <1>3, <1>4, <1>5, <1>6, <1>7, <1>8, <1>9, <1>10, <1>11, <1>12, <1>13, <1>14,
     <1>15, <1>16, <1>17, <1>18 DEF Next, Handler, Reply, Failure

-------------------------------------------------------------------------------
(* What is shown.                                                             *)
LEMMA ViewStays ==
  ASSUME [Next]_vars
  PROVE  \/ UNCHANGED viewVars
         \/ \E k \in Attempt : \/ ReadCache(k) \/ DialFails(k) \/ Greet(k) \/ Ended(k)
                              \/ Merge(k) \/ Reopen(k)
                              \/ \E n \in 1..Len(log) : Receive(k, n)
<1>1. ASSUME NEW k \in Attempt, TimerFires(k) \/ Retry(k) PROVE UNCHANGED viewVars
  BY <1>1 DEF TimerFires, Retry, Connect
<1>2. ASSUME NEW k \in Attempt, CloseReturns(k) \/ Dial(k) \/ Lose(k) \/ Answer(k) \/ FetchFails(k)
      PROVE  UNCHANGED viewVars
  BY <1>2 DEF CloseReturns, Dial, Lose, Answer, FetchFails
<1>3. ASSUME Send PROVE UNCHANGED viewVars
  BY <1>3 DEF Send
<1>4. ASSUME NEW id \in Msg, Persist(id) \/ Publish(id) PROVE UNCHANGED viewVars
  BY <1>4 DEF Persist, Publish, clientVars
<1>5. CASE UNCHANGED vars
  BY <1>5 DEF vars
<1> QED BY <1>1, <1>2, <1>3, <1>4, <1>5 DEF Next, Handler, Reply, Failure

(* What a step shows it adds to what is shown; only a reopened screen starts  *)
(* anew.                                                                      *)
Grows ==
  /\ Elems(shown) \subseteq Elems(shown')
  /\ NoRepeats(shown) => NoRepeats(shown')
  /\ view = "active" => view' = "active"
  /\ ShownOnly'

LEMMA ShownGrows ==
  ASSUME TypeOK, ShownOnly, [Next]_vars, ~\E k \in Attempt : Reopen(k)
  PROVE  Grows
<1> USE DEF Grows
<1>1. shown \in Seq(Msg) /\ Elems(<<>>) = {} /\ NoRepeats(<<>>)
  BY DEF TypeOK, Elems, NoRepeats
<1>2. CASE UNCHANGED viewVars
  BY <1>2 DEF viewVars, ShownOnly
<1>3. ASSUME NEW k \in Attempt, ReadCache(k) PROVE Grows
  <2>1. PICK cached \in {{}, LatestCached} : ShowCached(cached)
    BY <1>3 DEF ReadCache
  <2>2. cached \in SUBSET Msg
    BY DEF TypeOK, LatestCached
  <2>3. NoRepeats(Sorted(cached))
    BY <2>2, SortedProperties
  <2>4. UNCHANGED viewVars \/ (view # "active" /\ view' = "active" /\ shown' = Sorted(cached))
    BY <2>1 DEF ShowCached
  <2> QED BY <1>1, <1>2, <2>3, <2>4 DEF ShownOnly
<1>4. ASSUME NEW k \in Attempt, DialFails(k) \/ Ended(k) PROVE Grows
  BY <1>4 DEF DialFails, Ended, ShowDisconnected, ShownOnly
<1>5. ASSUME NEW k \in Attempt, Greet(k) PROVE Grows
  BY <1>1, <1>5 DEF Greet, ShowConnected, ShownOnly
<1>6. ASSUME NEW k \in Attempt, NEW n \in 1..Len(log), Receive(k, n) PROVE Grows
  <2>1. UNCHANGED viewVars
        \/ (view = "active" /\ log[n] \notin Elems(shown) /\ shown' = Append(shown, log[n])
            /\ view' = view)
    BY <1>6 DEF Receive, IsNew, viewVars
  <2>2. log[n] \in Msg
    BY DEF TypeOK
  <2>3. Elems(shown) \subseteq Elems(Append(shown, log[n]))
    BY <1>1, <2>2, ElemsAppend
  <2>4. log[n] \notin Elems(shown) /\ NoRepeats(shown) => NoRepeats(Append(shown, log[n]))
    BY <1>1, <2>2, ElemsAppend
  <2> QED BY <1>2, <2>1, <2>3, <2>4 DEF ShownOnly
<1>7. ASSUME NEW k \in Attempt, Merge(k) PROVE Grows
  <2>1. Merged(k) \in SUBSET Msg /\ Elems(shown) \subseteq Merged(k)
    <3>1. fetch[k] \in Backfill
      BY FetchTyped
    <3> QED BY <1>1, <3>1, ElemsInside DEF Backfill, Merged
  <2>2. NoRepeats(Sorted(Merged(k))) /\ Elems(Sorted(Merged(k))) = Merged(k)
    BY <2>1, SortedProperties
  <2>3. UNCHANGED viewVars \/ (view' = "active" /\ shown' = Sorted(Merged(k)))
    BY <1>7 DEF Merge
  <2> QED BY <1>2, <2>1, <2>2, <2>3 DEF ShownOnly
<1> QED BY <1>2, <1>3, <1>4, <1>5, <1>6, <1>7, ViewStays

LEMMA ReopenClears ==
  ASSUME NEW k \in Attempt, Reopen(k)
  PROVE  view' = "connecting" /\ shown' = <<>>
BY DEF Reopen

LEMMA RowsNext ==
  ASSUME TypeOK, ShownOnly, RowsOnce, [Next]_vars
  PROVE  RowsOnce' /\ ShownOnly'
<1>1. NoRepeats(<<>>)
  BY DEF NoRepeats
<1>2. ASSUME NEW k \in Attempt, Reopen(k) PROVE RowsOnce' /\ ShownOnly'
  BY <1>1, <1>2, ReopenClears DEF RowsOnce, ShownOnly
<1>3. ASSUME ~\E k \in Attempt : Reopen(k) PROVE RowsOnce' /\ ShownOnly'
  BY <1>3, ShownGrows DEF Grows, RowsOnce
<1> QED BY <1>2, <1>3

LEMMA ShownStaysNext ==
  ASSUME TypeOK, ShownOnly, [Next]_vars
  PROVE  view' = "connecting" \/ Elems(shown) \subseteq Elems(shown')
<1>1. ASSUME ~\E k \in Attempt : Reopen(k) PROVE Elems(shown) \subseteq Elems(shown')
  BY <1>1, ShownGrows DEF Grows
<1> QED BY <1>1, ReopenClears

LEMMA RowsAreCounted ==
  ASSUME TypeOK, RowsOnce
  PROVE  NoDuplicateRow
<1> DEFINE n == Len(shown)
<1>1. shown \in Seq(Msg) /\ n \in Nat
  BY DEF TypeOK
<1>2. shown \in [1..n -> Elems(shown)]
  BY <1>1 DEF Elems
<1>3. \A i, j \in 1..n : shown[i] = shown[j] => i = j
  BY DEF RowsOnce, NoRepeats
<1>4. \A x \in Elems(shown) : \E i \in 1..n : shown[i] = x
  BY DEF Elems
<1> HIDE DEF n
<1>5. shown \in Bijection(1..n, Elems(shown))
  BY <1>2, <1>3, <1>4, Fun_IsBij
<1>6. ExistsBijection(1..n, Elems(shown))
  BY <1>5 DEF ExistsBijection
<1>7. Cardinality(Elems(shown)) = n
  BY <1>1, <1>6, FS_CountingElements
<1> QED BY <1>7 DEF NoDuplicateRow, n

-------------------------------------------------------------------------------
(* Pages.                                                                     *)
LEMMA FetchStays ==
  ASSUME [Next]_vars
  PROVE  \/ UNCHANGED <<stored, log, fetch>>
         \/ \E id \in Msg : Persist(id) \/ (id \in stored /\ Publish(id))
         \/ \E k \in Attempt : Dial(k) \/ Answer(k) \/ FetchFails(k) \/ Merge(k) \/ Reopen(k)
<1>1. ASSUME NEW k \in Attempt, TimerFires(k) \/ Retry(k) PROVE UNCHANGED <<stored, log, fetch>>
  BY <1>1 DEF TimerFires, Retry, Connect, serverVars
<1>2. ASSUME NEW k \in Attempt, CloseReturns(k) \/ ReadCache(k) \/ DialFails(k) \/ Greet(k)
      PROVE  UNCHANGED <<stored, log, fetch>>
  BY <1>2 DEF CloseReturns, ReadCache, DialFails, Greet, serverVars
<1>3. ASSUME NEW k \in Attempt, Lose(k) \/ Ended(k) PROVE UNCHANGED <<stored, log, fetch>>
  BY <1>3 DEF Lose, Ended, serverVars
<1>4. ASSUME NEW k \in Attempt, NEW n \in 1..Len(log), Receive(k, n)
      PROVE  UNCHANGED <<stored, log, fetch>>
  BY <1>4 DEF Receive, Server!Deliver, callVars
<1>5. ASSUME Send PROVE UNCHANGED <<stored, log, fetch>>
  BY <1>5 DEF Send, serverVars, callVars
<1>6. CASE UNCHANGED vars
  BY <1>6 DEF vars, serverVars, callVars
<1> QED BY <1>1, <1>2, <1>3, <1>4, <1>5, <1>6 DEF Next, Handler, Reply, Failure

LEMMA AnswerFits ==
  ASSUME TypeOK, NEW k \in Attempt, Answer(k), fetch[k].due \subseteq stored
  PROVE  \A id \in fetch[k].due : BeyondPage(fetch'[k], id)
<1> DEFINE f == fetch[k]
           rows == {id \in stored : id > f.after}
<1>1. f \in Backfill /\ stored \in SUBSET Msg /\ fetch \in [Attempt -> Backfill]
  BY DEF TypeOK
<1>2. /\ fetch'[k].after = f.after /\ fetch'[k].page = Page(f.after)
  BY <1>1 DEF Answer, Backfill
<1> SUFFICES ASSUME NEW id \in f.due, ~(id <= f.after), id \notin Page(f.after)
             PROVE  Cardinality(Page(f.after)) = PageLimit /\ \A x \in Page(f.after) : x < id
  BY <1>2 DEF BeyondPage
<1>3. rows \in SUBSET Msg /\ id \in rows
  <2>1. f.after \in Nat /\ id \in Msg /\ id \in stored
    BY <1>1 DEF Backfill
  <2>2. id > f.after
    BY <2>1, SizeAssumption DEF Msg
  <2> QED BY <1>1, <2>1, <2>2
<1>4. Page(f.after) = {x \in rows : Cardinality({j \in rows : j < x}) < PageLimit}
  BY DEF Page
<1> HIDE DEF rows
<1>5. ~(Cardinality({j \in rows : j < id}) < PageLimit)
  BY <1>3, <1>4
<1> QED BY <1>3, <1>4, <1>5, PageIsLowest

LEMMA PagesNext ==
  ASSUME TypeOK, ShownOnly, PagesFit, [Next]_vars
  PROVE  PagesFit'
<1>1. ASSUME ~\E k \in Attempt : Reopen(k), NEW f, MergedIsShown(f) PROVE MergedIsShown(f)'
  <2>1. Grows
    BY <1>1, ShownGrows
  <2> QED BY <1>1, <2>1 DEF Grows, MergedIsShown
<1>2. ASSUME UNCHANGED <<stored, log, fetch>>, ~\E k \in Attempt : Reopen(k) PROVE PagesFit'
  BY <1>1, <1>2 DEF PagesFit, PageFits
<1>3. ASSUME NEW id \in Msg, Persist(id) \/ (id \in stored /\ Publish(id)) PROVE PagesFit'
  <2>1. UNCHANGED <<fetch, view, shown>>
    BY <1>3 DEF Persist, Publish, clientVars, viewVars, callVars
  <2>2. stored \subseteq stored'
    BY <1>3 DEF Persist, Publish, Server!Persist, Server!Publish
  <2>3. Elems(log') \subseteq stored'
    <3>1. CASE Persist(id)
      BY <2>2, <3>1 DEF Persist, Server!Persist, PagesFit
    <3>2. CASE id \in stored /\ Publish(id)
      <4>1. log' = Append(log, id) /\ log \in Seq(Msg)
        BY <3>2 DEF Publish, Server!Publish, TypeOK
      <4>2. Elems(log') = Elems(log) \cup {id}
        BY <4>1, ElemsAppend
      <4> QED BY <2>2, <3>2, <4>2 DEF PagesFit
    <3> QED BY <1>3, <3>1, <3>2
  <2> QED BY <2>1, <2>2, <2>3 DEF PagesFit, PageFits, MergedIsShown
<1>4. ASSUME NEW k \in Attempt, Dial(k) \/ Answer(k) \/ FetchFails(k) \/ Merge(k),
             PageFits(fetch[k])', MergedIsShown(fetch[k])', ~\E j \in Attempt : Reopen(j)
      PROVE  PagesFit'
  <2>1. UNCHANGED <<stored, log>> /\ \A j \in Attempt : j # k => fetch'[j] = fetch[j]
    BY <1>4 DEF Dial, Answer, FetchFails, Merge, serverVars, TypeOK
  <2>2. ASSUME NEW j \in Attempt, j # k PROVE PageFits(fetch[j])' /\ MergedIsShown(fetch[j])'
    BY <1>1, <1>4, <2>1, <2>2 DEF PagesFit, PageFits
  <2> QED BY <1>4, <2>1, <2>2 DEF PagesFit
<1>5. \A k \in Attempt : fetch[k] \in Backfill /\ fetch \in [Attempt -> Backfill]
  BY DEF TypeOK
<1>6. ASSUME NEW k \in Attempt, Dial(k) PROVE PageFits(fetch[k])' /\ MergedIsShown(fetch[k])'
  <2>1. fetch'[k].state = "asked" /\ fetch'[k].due = Elems(log) /\ UNCHANGED stored
    BY <1>5, <1>6 DEF Dial, serverVars
  <2> QED BY <2>1 DEF PageFits, MergedIsShown, PagesFit
<1>7. ASSUME NEW k \in Attempt, Answer(k) PROVE PageFits(fetch[k])' /\ MergedIsShown(fetch[k])'
  <2>1. /\ fetch'[k].state = "answered" /\ fetch'[k].due = fetch[k].due /\ UNCHANGED stored
        /\ fetch[k].state = "asked"
    BY <1>5, <1>7 DEF Answer, Backfill, serverVars
  <2>2. fetch[k].due \subseteq stored
    BY <2>1 DEF PagesFit, PageFits
  <2>3. \A id \in fetch[k].due : BeyondPage(fetch'[k], id)
    BY <1>7, <2>2, AnswerFits
  <2> QED BY <2>1, <2>2, <2>3 DEF PageFits, MergedIsShown, BeyondPage
<1>8. ASSUME NEW k \in Attempt, FetchFails(k) PROVE PageFits(fetch[k])' /\ MergedIsShown(fetch[k])'
  <2>1. /\ fetch'[k].state = "over" /\ fetch'[k].due = fetch[k].due /\ UNCHANGED stored
        /\ fetch[k].state # "none"
    BY <1>5, <1>8 DEF FetchFails, Backfill, serverVars
  <2> QED BY <2>1 DEF PagesFit, PageFits, MergedIsShown
<1>9. ASSUME NEW k \in Attempt, Merge(k) PROVE PageFits(fetch[k])' /\ MergedIsShown(fetch[k])'
  <2>1. /\ fetch[k].state = "answered" /\ UNCHANGED stored /\ fetch'[k].due = fetch[k].due
        /\ fetch'[k].page = fetch[k].page /\ fetch'[k].after = fetch[k].after
        /\ fetch'[k].state \in {"merged", "over"}
    BY <1>5, <1>9 DEF Merge, Backfill, serverVars
  <2>2. PageFits(fetch[k])'
    BY <2>1 DEF PagesFit, PageFits, BeyondPage
  <2>3. ASSUME fetch'[k].state = "merged"
        PROVE  view' = "active" /\ fetch[k].page \subseteq Elems(shown')
    <3>1. phase[k] = "open"
      BY <1>5, <1>9, <2>3 DEF Merge, Backfill
    <3>2. Merged(k) \in SUBSET Msg /\ fetch[k].page \subseteq Merged(k)
      BY <1>5, ElemsInside DEF TypeOK, Backfill, Merged
    <3>3. Elems(Sorted(Merged(k))) = Merged(k)
      BY <3>2, SortedProperties
    <3>4. view' = "active" /\ shown' = Sorted(Merged(k))
      BY <1>9, <3>1 DEF Merge
    <3> QED BY <3>2, <3>3, <3>4
  <2> QED BY <2>1, <2>2, <2>3 DEF MergedIsShown
<1>10. ASSUME NEW k \in Attempt, Reopen(k) PROVE PagesFit'
  <2>1. UNCHANGED <<stored, log>>
    BY <1>10 DEF Reopen, serverVars
  <2>2. ASSUME NEW j \in Attempt PROVE PageFits(fetch[j])' /\ MergedIsShown(fetch[j])'
    <3>1. CASE fetch[j].state = "merged"
      <4>1. fetch'[j].state = "over" /\ fetch'[j].due = fetch[j].due
        BY <1>5, <1>10, <3>1 DEF Reopen, Backfill
      <4> QED BY <2>1, <3>1, <4>1 DEF PagesFit, PageFits, MergedIsShown
    <3>2. CASE fetch[j].state # "merged"
      <4>1. fetch'[j] = fetch[j]
        BY <1>10, <3>2 DEF Reopen
      <4> QED BY <2>1, <3>2, <4>1 DEF PagesFit, PageFits, MergedIsShown, BeyondPage
    <3> QED BY <3>1, <3>2
  <2> QED BY <2>1, <2>2 DEF PagesFit
<1>11. ASSUME ~\E k \in Attempt : Reopen(k) PROVE PagesFit'
  BY <1>11, <1>2, <1>3, <1>4, <1>6, <1>7, <1>8, <1>9, FetchStays
<1> QED BY <1>10, <1>11

LEMMA PagesAreShown ==
  ASSUME TypeOK, PagesFit
  PROVE  BackfilledIsShown
<1> SUFFICES ASSUME NEW k \in Attempt, fetch[k].state = "merged", NEW id \in fetch[k].due
             PROVE  \/ id <= fetch[k].after
                    \/ id > Highest(fetch[k].page) /\ Cardinality(fetch[k].page) = PageLimit
                    \/ id \in Elems(shown)
  BY DEF BackfilledIsShown
<1>1. fetch[k].page \in SUBSET Msg /\ fetch[k].due \in SUBSET Msg
  BY DEF TypeOK, Backfill
<1>2. BeyondPage(fetch[k], id) /\ fetch[k].page \subseteq Elems(shown)
  BY DEF PagesFit, PageFits, MergedIsShown
<1>3. ASSUME Cardinality(fetch[k].page) = PageLimit, \A x \in fetch[k].page : x < id
      PROVE  id > Highest(fetch[k].page)
  <2>1. fetch[k].page # {}
    BY <1>3, FS_EmptySet, LimitAssumption
  <2>2. Highest(fetch[k].page) \in fetch[k].page
    BY <1>1, <2>1, HighestProperties
  <2>3. Highest(fetch[k].page) < id /\ id \in Nat /\ Highest(fetch[k].page) \in Nat
    BY <1>1, <1>3, <2>2, SizeAssumption DEF Msg
  <2> QED BY <2>3
<1> QED BY <1>2, <1>3 DEF BeyondPage

-------------------------------------------------------------------------------
(* What the user wrote.                                                       *)
LEMMA ElemsConcat ==
  ASSUME NEW s \in Seq(Nat), NEW t \in Seq(Nat)
  PROVE  /\ s \o t \in Seq(Nat)
         /\ Elems(s \o t) = Elems(s) \cup Elems(t)
         /\ NoRepeats(s) /\ NoRepeats(t) /\ Elems(s) \cap Elems(t) = {} => NoRepeats(s \o t)
<1> DEFINE u == s \o t
           m == Len(s)
           n == Len(t)
<1>1. /\ u \in Seq(Nat) /\ Len(u) = m + n /\ m \in Nat /\ n \in Nat
      /\ \A i \in 1..m : u[i] = s[i]
      /\ \A i \in 1..(m + n) : i > m => u[i] = t[i - m]
  OBVIOUS
<1> HIDE DEF u
<1>2. Elems(u) = Elems(s) \cup Elems(t)
  <2>1. ASSUME NEW i \in 1..m PROVE s[i] \in Elems(u)
    BY <1>1 DEF Elems
  <2>2. ASSUME NEW i \in 1..n PROVE t[i] \in Elems(u)
    <3>1. i + m \in 1..Len(u) /\ i + m > m /\ (i + m) - m = i
      BY <1>1
    <3>2. u[i + m] = t[i]
      BY <1>1, <3>1
    <3> QED BY <3>1, <3>2 DEF Elems
  <2>3. ASSUME NEW i \in 1..Len(u) PROVE u[i] \in Elems(s) \cup Elems(t)
    <3>1. i \in 1..m \/ (i > m /\ i - m \in 1..n)
      BY <1>1
    <3> QED BY <1>1, <3>1 DEF Elems
  <2> QED BY <2>1, <2>2, <2>3 DEF Elems
<1>3. ASSUME NoRepeats(s), NoRepeats(t), Elems(s) \cap Elems(t) = {} PROVE NoRepeats(u)
  <2> SUFFICES ASSUME NEW i \in 1..Len(u), NEW j \in 1..Len(u), u[i] = u[j] PROVE i = j
    BY DEF NoRepeats
  <2>1. \A a \in 1..m, b \in 1..n : s[a] # t[b]
    BY <1>3 DEF Elems
  <2>2. i \in 1..m \/ (i > m /\ i - m \in 1..n)
    BY <1>1
  <2>3. j \in 1..m \/ (j > m /\ j - m \in 1..n)
    BY <1>1
  <2>4. CASE i \in 1..m /\ j \in 1..m
    BY <1>1, <1>3, <2>4 DEF NoRepeats
  <2>5. CASE i > m /\ i - m \in 1..n /\ j > m /\ j - m \in 1..n
    <3>1. t[i - m] = t[j - m]
      BY <1>1, <2>5
    <3>2. i - m = j - m
      BY <1>3, <2>5, <3>1 DEF NoRepeats
    <3> QED BY <1>1, <3>2
  <2>6. CASE i \in 1..m /\ j > m /\ j - m \in 1..n
    BY <1>1, <2>1, <2>6
  <2>7. CASE j \in 1..m /\ i > m /\ i - m \in 1..n
    BY <1>1, <2>1, <2>7
  <2> QED BY <2>2, <2>3, <2>4, <2>5, <2>6, <2>7
<1> QED BY <1>1, <1>2, <1>3 DEF u

LEMMA SendStays ==
  ASSUME [Next]_vars
  PROVE  UNCHANGED sendVars \/ Send \/ \E k \in Attempt : Greet(k) \/ Reopen(k)
<1>1. ASSUME NEW k \in Attempt, TimerFires(k) \/ Retry(k) PROVE UNCHANGED sendVars
  BY <1>1 DEF TimerFires, Retry, Connect
<1>2. ASSUME NEW k \in Attempt, CloseReturns(k) \/ ReadCache(k) \/ Dial(k) \/ DialFails(k)
      PROVE  UNCHANGED sendVars
  BY <1>2 DEF CloseReturns, ReadCache, Dial, DialFails
<1>3. ASSUME NEW k \in Attempt, Lose(k) \/ Ended(k) \/ Answer(k) \/ FetchFails(k) \/ Merge(k)
      PROVE  UNCHANGED sendVars
  BY <1>3 DEF Lose, Ended, Answer, FetchFails, Merge
<1>4. ASSUME NEW k \in Attempt, NEW n \in 1..Len(log), Receive(k, n) PROVE UNCHANGED sendVars
  BY <1>4 DEF Receive
<1>5. ASSUME NEW id \in Msg, Persist(id) \/ Publish(id) PROVE UNCHANGED sendVars
  BY <1>5 DEF Persist, Publish, clientVars
<1>6. CASE UNCHANGED vars
  BY <1>6 DEF vars
<1> QED BY <1>1, <1>2, <1>3, <1>4, <1>5, <1>6 DEF Next, Handler, Reply, Failure

LEMMA ContentsNext ==
  ASSUME TypeOK, ContentsOnce, [Next]_vars
  PROVE  ContentsOnce'
<1>1. /\ wire \in Seq(Nat) /\ outbox \in Seq(Nat) /\ composed \in Nat
      /\ Elems(<<>>) = {} /\ NoRepeats(<<>>) /\ <<>> \in Seq(Nat)
  BY DEF TypeOK, Elems, NoRepeats
<1>2. CASE UNCHANGED sendVars
  BY <1>2 DEF sendVars, ContentsOnce
<1>3. ASSUME Send PROVE ContentsOnce'
  <2> DEFINE c == composed + 1
  <2>1. c \in Nat /\ c \notin 1..composed /\ 1..c = 1..composed \cup {c} /\ composed' = c
    BY <1>1, <1>3 DEF Send
  <2>2. c \notin Elems(wire) /\ c \notin Elems(outbox)
    BY <2>1 DEF ContentsOnce
  <2>3. wire \o <<c>> = Append(wire, c)
    BY <1>1, <2>1
  <2>4. \/ wire' = Append(wire, c) /\ UNCHANGED outbox
        \/ outbox' = Append(outbox, c) /\ UNCHANGED wire
    BY <1>3, <2>3 DEF Send, Taken
  <2> HIDE DEF c
  <2>5. /\ Elems(Append(wire, c)) = Elems(wire) \cup {c} /\ NoRepeats(Append(wire, c))
        /\ Elems(Append(outbox, c)) = Elems(outbox) \cup {c} /\ NoRepeats(Append(outbox, c))
    BY <1>1, <2>1, <2>2, ElemsAppend DEF ContentsOnce
  <2> QED BY <2>1, <2>2, <2>4, <2>5 DEF ContentsOnce
<1>4. ASSUME NEW k \in Attempt, Greet(k) PROVE ContentsOnce'
  <2>1. composed' = composed /\ \/ UNCHANGED <<outbox, wire>>
                                \/ wire' = wire \o outbox /\ outbox' = <<>>
    BY <1>4 DEF Greet, FlushOutbox, Taken
  <2>2. CASE UNCHANGED <<outbox, wire>>
    BY <2>1, <2>2 DEF ContentsOnce
  <2>3. CASE wire' = wire \o outbox /\ outbox' = <<>>
    <3>1. NoRepeats(wire \o outbox) /\ Elems(wire \o outbox) = Elems(wire) \cup Elems(outbox)
      BY <1>1, ElemsConcat DEF ContentsOnce
    <3> QED BY <1>1, <2>1, <2>3, <3>1 DEF ContentsOnce
  <2> QED BY <2>1, <2>2, <2>3
<1>5. ASSUME NEW k \in Attempt, Reopen(k) PROVE ContentsOnce'
  <2>1. wire' = <<>> /\ outbox' = <<>> /\ composed' = 0 /\ 1..0 = {}
    BY <1>5 DEF Reopen
  <2> QED BY <1>1, <2>1 DEF ContentsOnce
<1> QED BY <1>2, <1>3, <1>4, <1>5, SendStays

LEMMA ContentsAreQueued ==
  ASSUME TypeOK, ContentsOnce
  PROVE  QueuedOnce
<1> DEFINE all == wire \o outbox
<1>1. wire \in Seq(Nat) /\ outbox \in Seq(Nat)
  BY DEF TypeOK
<1>2. NoRepeats(all) /\ Elems(all) = 1..composed
  BY <1>1, ElemsConcat DEF ContentsOnce
<1> HIDE DEF all
<1>3. ASSUME NEW c \in 1..composed PROVE Cardinality({i \in 1..Len(all) : all[i] = c}) = 1
  <2>1. PICK i \in 1..Len(all) : all[i] = c
    BY <1>2 DEF Elems
  <2>2. {j \in 1..Len(all) : all[j] = c} = {i}
    BY <1>2, <2>1 DEF NoRepeats
  <2> QED BY <2>2, FS_Singleton
<1> QED BY <1>3 DEF QueuedOnce, all

-------------------------------------------------------------------------------
(* Connects and their links.                                                  *)
linkVars == <<view, online, timer, conn, outbox, phase, closes, link, greeted, astray>>

LEMMA LinkStays ==
  ASSUME [Next]_vars
  PROVE  \/ UNCHANGED linkVars \/ Send
         \/ \E k \in Attempt : \/ TimerFires(k) \/ Retry(k) \/ CloseReturns(k) \/ ReadCache(k)
                              \/ Dial(k) \/ DialFails(k) \/ Greet(k) \/ Lose(k) \/ Ended(k)
                              \/ Merge(k) \/ Reopen(k)
<1>1. ASSUME NEW k \in Attempt, Answer(k) \/ FetchFails(k) PROVE UNCHANGED linkVars
  BY <1>1 DEF Answer, FetchFails, linkVars, viewVars, sendVars
<1>2. ASSUME NEW k \in Attempt, NEW n \in 1..Len(log), Receive(k, n) PROVE UNCHANGED linkVars
  BY <1>2 DEF Receive, linkVars, callVars, sendVars
<1>3. ASSUME NEW id \in Msg, Persist(id) \/ Publish(id) PROVE UNCHANGED linkVars
  BY <1>3 DEF Persist, Publish, clientVars, linkVars, viewVars, callVars, sendVars
<1>4. CASE UNCHANGED vars
  BY <1>4 DEF vars, linkVars, viewVars, callVars, sendVars
<1> QED BY <1>1, <1>2, <1>3, <1>4 DEF Next, Handler, Reply, Failure

LinkTypes ==
  /\ conn \in {0} \cup Attempt /\ 0 \notin Attempt
  /\ phase \in [Attempt -> {"none", "closing", "reading", "dialing", "open", "done"}]
  /\ closes \in [Attempt -> {0} \cup Attempt]
  /\ link \in [Attempt -> {"none", "up", "lost", "closing", "ended", "closed"}]
  /\ greeted \in [Attempt -> BOOLEAN]
  /\ view \in {"connecting", "active", "failed"}

LEMMA LinksTyped == TypeOK => LinkTypes
BY DEF TypeOK, LinkTypes, Attempt

LEMMA CallsNext ==
  ASSUME TypeOK, CallsFit, [Next]_vars
  PROVE  CallsFit'
<1> USE DEF Dialed
<1>0. LinkTypes
  BY LinksTyped
<1>1. CASE UNCHANGED linkVars
  BY <1>1 DEF linkVars, CallsFit
<1>2. ASSUME Send PROVE CallsFit'
  BY <1>2 DEF Send, viewVars, callVars, CallsFit
<1>3. ASSUME NEW k \in Attempt, TimerFires(k) \/ Retry(k) PROVE CallsFit'
  <2>1. Connect(k)
    BY <1>3 DEF TimerFires, Retry
  <2> QED BY <1>0, <2>1 DEF Connect, Unused, LinkTypes, viewVars, CallsFit
<1>4. ASSUME NEW k \in Attempt, CloseReturns(k) PROVE CallsFit'
  BY <1>0, <1>4 DEF CloseReturns, LinkTypes, viewVars, CallsFit
<1>5. ASSUME NEW k \in Attempt, ReadCache(k) PROVE CallsFit'
  <2>1. view' = view \/ view' = "active"
    BY <1>5 DEF ReadCache, ShowCached, viewVars
  <2> QED BY <1>0, <1>5, <2>1 DEF ReadCache, LinkTypes, CallsFit
<1>6. ASSUME NEW k \in Attempt, Dial(k) PROVE CallsFit'
  BY <1>0, <1>6 DEF Dial, LinkTypes, viewVars, CallsFit
<1>7. ASSUME NEW k \in Attempt, DialFails(k) PROVE CallsFit'
  <2>1. view' \in {"active", "failed"}
    BY <1>7 DEF DialFails, ShowDisconnected
  <2> QED BY <1>0, <1>7, <2>1 DEF DialFails, LinkTypes, CallsFit
<1>8. ASSUME NEW k \in Attempt, Greet(k) PROVE CallsFit'
  <2>1. view' = "active"
    BY <1>8 DEF Greet, ShowConnected
  <2> QED BY <1>0, <1>8, <2>1 DEF Greet, Hears, LinkTypes, CallsFit
<1>9. ASSUME NEW k \in Attempt, Lose(k) PROVE CallsFit'
  BY <1>0, <1>9 DEF Lose, LinkTypes, viewVars, CallsFit
<1>10. ASSUME NEW k \in Attempt, Ended(k) PROVE CallsFit'
  <2>1. view' \in {"active", "failed"}
    BY <1>10 DEF Ended, ShowDisconnected
  <2> QED BY <1>0, <1>10, <2>1 DEF Ended, Hears, LinkTypes, CallsFit
<1>11. ASSUME NEW k \in Attempt, Merge(k) PROVE CallsFit'
  <2>1. view' = view \/ view' = "active"
    BY <1>11 DEF Merge, viewVars
  <2> QED BY <1>0, <1>11, <2>1 DEF Merge, LinkTypes, CallsFit
<1>12. ASSUME NEW k \in Attempt, Reopen(k) PROVE CallsFit'
  <2>1. /\ conn' = 0 /\ UNCHANGED greeted /\ phase[k] = "none"
        /\ \A j \in Attempt : phase'[j] = IF j < k THEN "done" ELSE IF j = k THEN "reading" ELSE "none"
    BY <1>12 DEF Reopen, Unused
  <2>2. \A j \in Attempt : j \in Nat
    BY DEF Attempt
  <2>3. \A j \in Attempt : phase[j] # "none" => j < k
    BY <2>1, <2>2 DEF CallsFit
  <2>4. \A j \in Attempt : greeted[j] => j < k
    BY <2>3 DEF CallsFit
  <2>5. \A i, j \in Attempt : phase'[j] # "none" /\ i < j => phase'[i] # "none"
    BY <2>1, <2>2
  <2>6. \A j \in Attempt : phase'[j] \notin {"closing", "open"} /\ (greeted'[j] => phase'[j] = "done")
    BY <2>1, <2>4
  <2> QED BY <2>1, <2>5, <2>6 DEF CallsFit
<1> QED BY <1>1, <1>2, <1>3, <1>4, <1>5, <1>6, <1>7, <1>8, <1>9, <1>10, <1>11, <1>12, LinkStays

LEMMA KnowsNext ==
  ASSUME TypeOK, CallsFit, KnowsItsLink, [Next]_vars
  PROVE  KnowsItsLink'
<1> DEFINE Knows == OneOnItsWay /\ OpenIsHeld /\ OnlineIsHeld /\ OutboxWaits
<1> USE DEF OnItsWay
<1>0. LinkTypes
  BY LinksTyped
<1>1. CASE UNCHANGED linkVars
  BY <1>1 DEF linkVars, KnowsItsLink, OneOnItsWay, OpenIsHeld, OnlineIsHeld, OutboxWaits, Hears
<1>2. ASSUME Send PROVE KnowsItsLink'
  <2>1. UNCHANGED <<phase, closes, link, greeted, conn, view, online, astray>>
    BY <1>2 DEF Send, viewVars, callVars
  <2>2. UNCHANGED outbox \/ conn = 0 \/ link[conn] # "up"
    BY <1>2 DEF Send, Raises
  <2> QED BY <2>1, <2>2 DEF KnowsItsLink, OneOnItsWay, OpenIsHeld, OnlineIsHeld, OutboxWaits, Hears
<1> SUFFICES ASSUME ~astray' PROVE Knows'
  BY DEF KnowsItsLink
<1>3. ASSUME NEW k \in Attempt, TimerFires(k) \/ Retry(k) PROVE Knows'
  <2>1. Connect(k)
    BY <1>3 DEF TimerFires, Retry
  <2>2. /\ ~astray /\ conn' = conn /\ UNCHANGED <<greeted, outbox>>
        /\ \A j \in Attempt : ~OnItsWay(j)
    BY <2>1 DEF Connect, sendVars
  <2>3. /\ phase'[k] = IF conn = 0 THEN "reading" ELSE "closing"
        /\ \A j \in Attempt : j # k => phase'[j] = phase[j]
        /\ closes'[k] = conn
        /\ \A j \in Attempt : link'[j] = IF j = conn /\ link[j] = "up" THEN "closing" ELSE link[j]
    BY <1>0, <2>1 DEF Connect, LinkTypes
  <2>4. OpenIsHeld
    BY <2>2 DEF KnowsItsLink
  <2>5. OneOnItsWay' /\ OpenIsHeld'
    BY <2>2, <2>3, <2>4 DEF OneOnItsWay, OpenIsHeld
  <2>6. OnlineIsHeld'
    BY <2>3 DEF OnlineIsHeld
  <2>7. OutboxWaits'
    BY <1>0, <2>2, <2>3 DEF OutboxWaits, LinkTypes
  <2> QED BY <2>5, <2>6, <2>7
<1>4. ASSUME NEW k \in Attempt, CloseReturns(k) PROVE Knows'
  <2>1. ~astray /\ Knows
    BY <1>4 DEF CloseReturns, KnowsItsLink
  <2>2. /\ phase[k] = "closing" /\ conn' = 0 /\ closes[k] # k /\ closes[k] = conn
        /\ phase'[k] = "reading"
        /\ \A j \in Attempt : j # k => phase'[j] = IF j = conn THEN "done" ELSE phase[j]
        /\ \A j \in Attempt : j # k => closes'[j] = closes[j]
    BY <1>0, <1>4, <2>1 DEF CloseReturns, LinkTypes, CallsFit, Dialed, OpenIsHeld
  <2>3. \A j \in Attempt : j # k => ~OnItsWay(j)
    BY <2>1, <2>2 DEF OneOnItsWay
  <2>4. \A j \in Attempt : j # k => phase'[j] \notin {"closing", "reading", "dialing", "open"}
    BY <2>1, <2>2, <2>3 DEF OpenIsHeld
  <2> QED BY <2>2, <2>4 DEF OneOnItsWay, OpenIsHeld, OnlineIsHeld, OutboxWaits
<1>5. ASSUME NEW k \in Attempt, ReadCache(k) PROVE Knows'
  <2>1. ~astray /\ Knows
    BY <1>5 DEF ReadCache, KnowsItsLink
  <2>2. /\ UNCHANGED <<conn, outbox, closes, link, greeted>>
        /\ phase[k] = "reading" /\ phase'[k] = "dialing"
        /\ \A j \in Attempt : j # k => phase'[j] = phase[j]
    BY <1>0, <1>5 DEF ReadCache, sendVars, LinkTypes
  <2>3. OneOnItsWay' /\ OpenIsHeld'
    BY <2>1, <2>2 DEF OneOnItsWay, OpenIsHeld
  <2> QED BY <2>1, <2>2, <2>3 DEF OnlineIsHeld, OutboxWaits
<1>6. ASSUME NEW k \in Attempt, Dial(k) PROVE Knows'
  <2>1. ~astray /\ Knows
    BY <1>6 DEF Dial, KnowsItsLink
  <2>2. /\ UNCHANGED <<closes, greeted, outbox>> /\ conn' = k /\ conn = 0
        /\ phase[k] = "dialing" /\ phase'[k] = "open" /\ link'[k] = "up"
        /\ \A j \in Attempt : j # k => phase'[j] = phase[j]
    BY <1>0, <1>6, <2>1 DEF Dial, sendVars, LinkTypes, OpenIsHeld
  <2>3. ~greeted[k]
    BY <2>2 DEF CallsFit, Dialed
  <2>4. \A j \in Attempt : j # k => phase'[j] \notin {"closing", "reading", "dialing", "open"}
    BY <1>0, <2>1, <2>2 DEF OneOnItsWay, OpenIsHeld, LinkTypes
  <2> QED BY <1>0, <2>2, <2>3, <2>4
          DEF OneOnItsWay, OpenIsHeld, OnlineIsHeld, OutboxWaits, Hears, LinkTypes
<1>7. ASSUME NEW k \in Attempt, DialFails(k) PROVE Knows'
  <2>1. ~astray /\ Knows
    BY <1>7 DEF DialFails, KnowsItsLink
  <2>2. /\ UNCHANGED <<conn, outbox, closes, link, greeted>>
        /\ phase[k] = "dialing" /\ phase'[k] = "done"
        /\ \A j \in Attempt : j # k => phase'[j] = phase[j]
    BY <1>0, <1>7 DEF DialFails, sendVars, LinkTypes
  <2>3. OneOnItsWay' /\ OpenIsHeld' /\ OutboxWaits'
    BY <2>1, <2>2 DEF OneOnItsWay, OpenIsHeld, OutboxWaits
  <2>4. ~online'
    BY <1>7 DEF DialFails, ShowDisconnected
  <2> QED BY <2>3, <2>4 DEF OnlineIsHeld
<1>8. ASSUME NEW k \in Attempt, Greet(k) PROVE Knows'
  <2>1. ~astray /\ Knows
    BY <1>8 DEF Greet, KnowsItsLink
  <2>2. UNCHANGED <<phase, closes, link, conn>> /\ Hears(k) /\ k # 0
    BY <1>0, <1>8 DEF Greet, LinkTypes
  <2>3. conn = k
    BY <2>1, <2>2 DEF OpenIsHeld, Hears
  <2>4. outbox' = <<>> \/ link[conn] # "up"
    BY <1>8, <2>2, <2>3 DEF Greet, FlushOutbox, Raises
  <2>5. OneOnItsWay' /\ OpenIsHeld'
    BY <2>1, <2>2 DEF OneOnItsWay, OpenIsHeld
  <2>6. OnlineIsHeld' /\ OutboxWaits'
    BY <2>2, <2>3, <2>4 DEF OnlineIsHeld, OutboxWaits, Hears
  <2> QED BY <2>5, <2>6
<1>9. ASSUME NEW k \in Attempt, Lose(k) PROVE Knows'
  <2>1. ~astray /\ Knows
    BY <1>9 DEF Lose, KnowsItsLink
  <2>2. /\ UNCHANGED <<view, online, conn, outbox, phase, closes, greeted>>
        /\ link[k] = "up" /\ link'[k] = "lost"
        /\ \A j \in Attempt : j # k => link'[j] = link[j]
    BY <1>0, <1>9 DEF Lose, viewVars, sendVars, LinkTypes
  <2>3. OneOnItsWay' /\ OpenIsHeld'
    BY <2>1, <2>2 DEF OneOnItsWay, OpenIsHeld
  <2>4. OnlineIsHeld'
    BY <1>0, <2>1, <2>2 DEF OnlineIsHeld, Hears, LinkTypes
  <2>5. OutboxWaits'
    BY <1>0, <2>1, <2>2 DEF OutboxWaits, LinkTypes
  <2> QED BY <2>3, <2>4, <2>5
<1>10. ASSUME NEW k \in Attempt, Ended(k) PROVE Knows'
  <2>1. ~astray /\ Knows
    BY <1>10 DEF Ended, KnowsItsLink
  <2>2. /\ UNCHANGED <<conn, outbox, phase, closes, greeted>> /\ link'[k] = "ended"
        /\ \A j \in Attempt : j # k => link'[j] = link[j]
    BY <1>0, <1>10 DEF Ended, sendVars, LinkTypes
  <2>3. OneOnItsWay' /\ OpenIsHeld'
    BY <2>1, <2>2 DEF OneOnItsWay, OpenIsHeld
  <2>4. ~online'
    BY <1>10 DEF Ended, ShowDisconnected
  <2>5. OutboxWaits'
    BY <1>0, <2>1, <2>2 DEF OutboxWaits, LinkTypes
  <2> QED BY <2>3, <2>4, <2>5 DEF OnlineIsHeld
<1>11. ASSUME NEW k \in Attempt, Merge(k) PROVE Knows'
  <2>1. UNCHANGED <<conn, outbox, phase, closes, link, greeted>>
    BY <1>11 DEF Merge, sendVars
  <2>2. ~astray /\ Knows
    BY <1>11 DEF Merge, KnowsItsLink
  <2>3. OneOnItsWay' /\ OpenIsHeld' /\ OutboxWaits'
    BY <2>1, <2>2 DEF OneOnItsWay, OpenIsHeld, OutboxWaits
  <2>4. ASSUME view' = "active" /\ online' => view = "active" /\ online PROVE OnlineIsHeld'
    BY <2>1, <2>2, <2>4 DEF OnlineIsHeld, Hears
  <2>5. ASSUME ~(phase[k] = "open" /\ view # "active") PROVE OnlineIsHeld'
    <3>1. view' = "active" /\ online' => view = "active" /\ online
      BY <1>11, <2>5 DEF Merge, viewVars
    <3> QED BY <2>4, <3>1
  <2>6. ASSUME phase[k] = "open", view # "active" PROVE OnlineIsHeld'
    <3>1. view = "connecting"
      BY <1>0, <1>11, <2>6 DEF Merge, LinkTypes
    <3>2. link[k] \in {"up", "lost", "closing"} /\ conn = k
      BY <2>2, <2>6, <3>1 DEF CallsFit, OpenIsHeld
    <3> QED BY <1>0, <2>1, <2>6, <3>2 DEF OnlineIsHeld, Hears, LinkTypes
  <2>7. OnlineIsHeld'
    BY <2>5, <2>6
  <2> QED BY <2>3, <2>7
<1>12. ASSUME NEW k \in Attempt, Reopen(k) PROVE Knows'
  <2>1. /\ conn' = 0 /\ view' = "connecting"
        /\ \A j \in Attempt : phase'[j] = IF j < k THEN "done" ELSE IF j = k THEN "reading" ELSE "none"
    BY <1>12 DEF Reopen
  <2>2. \A j \in Attempt : j # k => phase'[j] \notin {"closing", "reading", "dialing", "open"}
    BY <2>1
  <2>3. phase'[k] = "reading"
    BY <2>1 DEF Attempt
  <2> QED BY <2>1, <2>2, <2>3 DEF OneOnItsWay, OpenIsHeld, OnlineIsHeld, OutboxWaits
<1> QED BY <1>1, <1>2, <1>3, <1>4, <1>5, <1>6, <1>7, <1>8, <1>9, <1>10, <1>11, <1>12, LinkStays
        DEF KnowsItsLink

LEMMA BannerNext ==
  ASSUME TypeOK, CallsFit, BannerIsHonest, [Next]_vars
  PROVE  BannerIsHonest'
<1> DEFINE Unreported(k) == Hears(k) /\ ~(greeted[k] /\ link[k] = "up")
<1> USE DEF OnItsWay
<1>0. LinkTypes
  BY LinksTyped
<1> SUFFICES ASSUME view' = "active", ~online'
             PROVE  timer' \/ (\E k \in Attempt : OnItsWay(k))' \/ (\E k \in Attempt : Unreported(k))'
  BY DEF BannerIsHonest
<1> DEFINE Honest == timer' \/ (\E k \in Attempt : OnItsWay(k))' \/ (\E k \in Attempt : Unreported(k))'
           Before == timer \/ (\E k \in Attempt : OnItsWay(k)) \/ (\E k \in Attempt : Unreported(k))
<1>1. view = "active" /\ ~online => Before
  BY DEF BannerIsHonest
<1>2. ASSUME UNCHANGED <<view, online, timer, phase, link, greeted>> PROVE Honest
  BY <1>1, <1>2 DEF Hears
<1>3. ASSUME NEW k \in Attempt, phase'[k] \in {"closing", "reading", "dialing"} PROVE Honest
  BY <1>3
<1>4. CASE UNCHANGED linkVars
  BY <1>2, <1>4 DEF linkVars
<1>5. CASE Send
  BY <1>2, <1>5 DEF Send, viewVars, callVars
<1>6. ASSUME NEW k \in Attempt, TimerFires(k) \/ Retry(k) PROVE Honest
  <2>1. phase'[k] \in {"closing", "reading"}
    BY <1>0, <1>6 DEF TimerFires, Retry, Connect, LinkTypes
  <2> QED BY <1>3, <2>1
<1>7. ASSUME NEW k \in Attempt, CloseReturns(k) PROVE Honest
  <2>1. closes[k] # k
    BY <1>7 DEF CloseReturns, CallsFit, Dialed
  <2>2. phase'[k] = "reading"
    BY <1>0, <1>7, <2>1 DEF CloseReturns, LinkTypes
  <2> QED BY <1>3, <2>2
<1>8. ASSUME NEW k \in Attempt, ReadCache(k) PROVE Honest
  <2>1. phase'[k] = "dialing"
    BY <1>0, <1>8 DEF ReadCache, LinkTypes
  <2> QED BY <1>3, <2>1
<1>9. ASSUME NEW k \in Attempt, Dial(k) PROVE Honest
  <2>1. phase'[k] = "open" /\ link'[k] = "up" /\ UNCHANGED greeted /\ ~greeted[k]
    BY <1>0, <1>9 DEF Dial, LinkTypes, CallsFit, Dialed
  <2> QED BY <2>1 DEF Hears
<1>10. ASSUME NEW k \in Attempt, DialFails(k) \/ Ended(k) PROVE Honest
  BY <1>10 DEF DialFails, Ended, ShowDisconnected
<1>11. ASSUME NEW k \in Attempt, Greet(k) PROVE Honest
  BY <1>11 DEF Greet, ShowConnected
<1>12. ASSUME NEW k \in Attempt, Lose(k) PROVE Honest
  <2>1. /\ UNCHANGED <<view, online, timer, phase, greeted>>
        /\ link[k] = "up" /\ link'[k] = "lost"
        /\ \A j \in Attempt : j # k => link'[j] = link[j]
    BY <1>0, <1>12 DEF Lose, viewVars, LinkTypes
  <2>2. ASSUME NEW j \in Attempt, Unreported(j) PROVE Unreported(j)'
    BY <2>1, <2>2 DEF Hears
  <2> QED BY <1>1, <2>1, <2>2
<1>13. ASSUME NEW k \in Attempt, Merge(k) PROVE Honest
  <2>1. UNCHANGED <<timer, phase, link, greeted>>
    BY <1>13 DEF Merge
  <2>2. view = "active" /\ ~online
    BY <1>13 DEF Merge, viewVars
  <2> QED BY <1>1, <2>1, <2>2 DEF Hears
<1>14. ASSUME NEW k \in Attempt, Reopen(k) PROVE Honest
  BY <1>14 DEF Reopen
<1> QED BY <1>4, <1>5, <1>6, <1>7, <1>8, <1>9, <1>10, <1>11, <1>12, <1>13, <1>14, LinkStays

-------------------------------------------------------------------------------
LEMMA ChatInit == Init => ChatInv
<1> SUFFICES ASSUME Init PROVE ChatInv
  OBVIOUS
<1>1. /\ <<>> \in Seq(Msg) /\ <<>> \in Seq(Nat) /\ 0 \in 0..MaxMsg /\ Elems(<<>>) = {}
      /\ NoRepeats(<<>>) /\ 1..0 = {}
  BY SizeAssumption DEF Elems, NoRepeats
<1>2. stored = {} /\ log = <<>> /\ got = [c \in Attempt |-> <<>>]
  BY DEF Init, Server!Init
<1>3. NoBackfill \in Backfill /\ NoBackfill.state = "none"
  BY DEF NoBackfill, Backfill
<1>4. TypeOK
  BY <1>1, <1>2, <1>3 DEF Init, TypeOK
<1>5. RowsOnce /\ ContentsOnce /\ ShownOnly
  BY <1>1 DEF Init, RowsOnce, ContentsOnce, ShownOnly
<1>6. \A k \in Attempt : phase[k] = (IF k = 1 THEN "reading" ELSE "none") /\ ~greeted[k] /\ k \in Nat
  BY DEF Init, Attempt
<1>7. CallsFit
  BY <1>6 DEF Init, CallsFit, Dialed, Attempt
<1>8. KnowsItsLink
  BY <1>6 DEF Init, KnowsItsLink, OneOnItsWay, OpenIsHeld, OnlineIsHeld, OutboxWaits, OnItsWay
<1>9. PagesFit
  BY <1>1, <1>2, <1>3 DEF Init, PagesFit, PageFits, MergedIsShown
<1>10. BannerIsHonest
  BY DEF Init, BannerIsHonest
<1> QED BY <1>4, <1>5, <1>7, <1>8, <1>9, <1>10 DEF ChatInv

LEMMA ChatNext == ChatInv /\ [Next]_vars => ChatInv'
<1> SUFFICES ASSUME ChatInv, [Next]_vars PROVE ChatInv'
  OBVIOUS
<1>1. TypeOK'
  BY TypeNext DEF ChatInv
<1>2. RowsOnce' /\ ShownOnly'
  BY RowsNext DEF ChatInv
<1>3. ContentsOnce'
  BY ContentsNext DEF ChatInv
<1>4. CallsFit'
  BY CallsNext DEF ChatInv
<1>5. KnowsItsLink'
  BY KnowsNext DEF ChatInv
<1>6. PagesFit'
  BY PagesNext DEF ChatInv
<1>7. BannerIsHonest'
  BY BannerNext DEF ChatInv
<1> QED BY <1>1, <1>2, <1>3, <1>4, <1>5, <1>6, <1>7 DEF ChatInv

LEMMA ChatAlways == Spec => []ChatInv
BY ChatInit, ChatNext, PTL DEF Spec

LEMMA HeldLink == ChatInv => OnlineHasLink
<1> SUFFICES ASSUME ChatInv, view = "active", online, Quiet, ~astray
             PROVE  conn # 0 /\ link[conn] = "up"
  BY DEF OnlineHasLink
<1>1. OnlineIsHeld /\ LinkTypes
  BY LinksTyped DEF ChatInv, KnowsItsLink
<1>2. \A k \in Attempt : ~OnItsWay(k)
  BY DEF Quiet, OnItsWay
<1>3. conn # 0 /\ Hears(conn)
  BY <1>1, <1>2 DEF OnlineIsHeld
<1> QED BY <1>1, <1>3 DEF Quiet, LinkTypes

LEMMA SendWaits ==
  ASSUME ChatInv, [Next]_vars, composed' > composed, wire' # wire, outbox # <<>>, ~astray
  PROVE  ~greeted[conn] \/ link[conn] # "up"
<1>1. CASE Send
  <2>1. conn # 0
    BY <1>1 DEF Send
  <2> QED BY <2>1 DEF ChatInv, KnowsItsLink, OutboxWaits
<1>2. CASE UNCHANGED sendVars
  BY <1>2 DEF sendVars
<1>3. ASSUME NEW k \in Attempt, Greet(k) PROVE FALSE
  <2>1. composed' = composed /\ composed \in Nat
    BY <1>3 DEF Greet, ChatInv, TypeOK
  <2> QED BY <2>1
<1>4. ASSUME NEW k \in Attempt, Reopen(k) PROVE FALSE
  <2>1. composed' = 0 /\ composed \in Nat
    BY <1>4 DEF Reopen, ChatInv, TypeOK
  <2> QED BY <2>1
<1> QED BY <1>1, <1>2, <1>3, <1>4, SendStays

-------------------------------------------------------------------------------
(* The steps of this module's server are steps of the promise.                *)
LEMMA ServerNext == TypeOK /\ [Next]_vars => [Server!Next]_(Server!vars)
<1> SUFFICES ASSUME TypeOK, [Next]_vars PROVE Server!Next \/ UNCHANGED serverVars
  BY DEF Server!vars, serverVars
<1>1. ASSUME NEW k \in Attempt, NEW n \in 1..Len(log), Receive(k, n) PROVE Server!Next
  BY <1>1 DEF Receive, Server!Next
<1>2. ASSUME NEW id \in Msg, Persist(id) PROVE Server!Next
  BY <1>2 DEF Persist, Server!Next
<1>3. ASSUME NEW id \in stored, Publish(id) PROVE Server!Next
  BY <1>3 DEF Publish, Server!Next
<1>4. ASSUME NEW k \in Attempt, TimerFires(k) \/ Retry(k) \/ Reopen(k) \/ Handler(k) \/ Greet(k)
      PROVE  UNCHANGED serverVars
  BY <1>4 DEF TimerFires, Retry, Connect, Reopen, Handler, CloseReturns, ReadCache, Dial, Ended, Greet
<1>5. ASSUME NEW k \in Attempt, Reply(k) \/ Failure(k) PROVE UNCHANGED serverVars
  BY <1>5 DEF Reply, Answer, Merge, Failure, DialFails, Lose, FetchFails
<1>6. CASE Send
  BY <1>6 DEF Send
<1>7. CASE UNCHANGED vars
  BY <1>7 DEF vars
<1> QED BY <1>1, <1>2, <1>3, <1>4, <1>5, <1>6, <1>7 DEF Next

-------------------------------------------------------------------------------
(* The state of the bloc is what its code takes it to be.                     *)
THEOREM ChatTypes == Spec => []TypeOK
BY ChatAlways, PTL DEF ChatInv

(* A message is one row of the list.                                          *)
THEOREM OneRowEach == Spec => []NoDuplicateRow
<1>1. ChatInv => NoDuplicateRow
  BY RowsAreCounted DEF ChatInv
<1> QED BY <1>1, ChatAlways, PTL

(* What a merged backfill answered for is shown.                              *)
THEOREM BackfillIsShown == Spec => []BackfilledIsShown
<1>1. ChatInv => BackfilledIsShown
  BY PagesAreShown DEF ChatInv
<1> QED BY <1>1, ChatAlways, PTL

(* While the banner says so, a reconnect is on its way.                       *)
THEOREM HonestBanner == Spec => []BannerIsHonest
BY ChatAlways, PTL DEF ChatInv

(* Each content is queued or was given to a sink, once.                       *)
THEOREM NothingForgotten == Spec => []QueuedOnce
<1>1. ChatInv => QueuedOnce
  BY ContentsAreQueued DEF ChatInv
<1> QED BY <1>1, ChatAlways, PTL

(* A room that is shown as connected has a live connection.                   *)
THEOREM ConnectedMeansLink == Spec => []OnlineHasLink
BY HeldLink, ChatAlways, PTL

(* The outbox is not overtaken on a connection that reported itself.          *)
THEOREM OrderIsKept == Spec => SentInOrder
<1>1. ASSUME ChatInv, [Next]_vars
      PROVE  [composed' > composed /\ wire' # wire /\ outbox # <<>> /\ ~astray =>
                ~greeted[conn] \/ link[conn] # "up"]_vars
  BY <1>1, SendWaits
<1> QED BY <1>1, ChatAlways, PTL DEF Spec, SentInOrder

(* What is shown stays shown until the screen is closed.                      *)
THEOREM RowsStay == Spec => ShownStays
<1>1. ASSUME ChatInv, [Next]_vars
      PROVE  [view' = "connecting" \/ Elems(shown) \subseteq Elems(shown')]_vars
  BY <1>1, ShownStaysNext DEF ChatInv
<1> QED BY <1>1, ChatAlways, PTL DEF Spec, ShownStays

(* The server that the client is checked against is the promise that          *)
(* RoomSocket implements: an attempt of the client is a socket of the room.   *)
THEOREM ServerIsBestEffort == Spec => Server!Spec
<1>1. Init => Server!Init
  BY DEF Init
<1>2. ChatInv => TypeOK
  BY DEF ChatInv
<1> QED BY <1>1, <1>2, ServerNext, ChatAlways, PTL DEF Spec, Server!Spec
===============================================================================
