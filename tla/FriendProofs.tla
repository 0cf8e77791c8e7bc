----------------------------- MODULE FriendProofs -----------------------------
(* Proofs about concurrent requests of one pair, for every number of handlers *)
(* and of rows: what the row lock of accept guarantees without reservation,   *)
(* and what all requests guarantee as long as none of them was too late.      *)
EXTENDS FriendSafety, TLAPS

Active(h) == job[h] # Idle
Reads(h)  == Active(h) /\ job[h].seen # None

(* A request that has read no row is a send; the others go on only from the   *)
(* status that concerns them, and sever only what was accepted.               *)
Fits(j) ==
  /\ j.op = "send" <=> j.seen = None
  /\ j.op \in {"accept", "decline"} => j.seen.status = "pending" /\ j.seen.actor # j.by
  /\ j.op = "remove" => j.seen.status = "accepted"
  /\ j.op = "block" => j.seen.status # "blocked"
  /\ j.op = "unblock" => j.seen.status = "blocked" /\ j.seen.actor = j.by
  /\ j.at = "sever" \/ j.severed => j.op \in {"remove", "block"} /\ j.seen.status = "accepted"
  /\ j.at = "sever" => ~j.severed

ReadsFit == \A h \in Handler : Active(h) => Fits(job[h])

(* Ids are fresh, and the row of one id only goes forward.                    *)
IdsDrawn ==
  /\ rel # None => rel.id <= lastId
  /\ \A h \in Handler : Reads(h) => job[h].seen.id <= lastId

Forward ==
  \A h \in Handler : Reads(h) /\ SameRow(h) =>
    /\ job[h].seen.status = "accepted" => rel.status # "pending"
    /\ job[h].seen.status = "blocked" => rel.status = "blocked"

(* Locks have one holder, and what they lock stays as it was.                 *)
AcceptHolds ==
  \A h \in Handler : Doing(h, "accept") =>
    /\ job[h].seen = rel
    /\ \A g \in Handler : Doing(g, "accept") => g = h

SeverHolds ==
  \A h \in Handler : HasSevered(h) =>
    /\ members # {}
    /\ \A g \in Handler : HasSevered(g) => g = h

(* A request that found nothing to sever has read a row that is gone, or      *)
(* another request was too late.                                              *)
NothingToSever ==
  raced \/ \A h \in Handler :
    Active(h) /\ job[h].op \in {"remove", "block"} /\ job[h].seen.status = "accepted"
      /\ job[h].at = "commit" /\ ~job[h].severed => job[h].seen # rel

FriendInv ==
  /\ TypeOK
  /\ ReadsFit
  /\ IdsDrawn
  /\ Forward
  /\ AcceptHolds
  /\ SeverHolds
  /\ FriendsHaveRoom
  /\ OpenToFriends
  /\ NothingToSever

LEMMA FriendInit == Init => FriendInv
<1> SUFFICES ASSUME Init PROVE FriendInv
  OBVIOUS
<1>1. \A h \in Handler : job[h] = Idle /\ job[h].op = "idle"
  BY DEF Init, Idle
<1>2. TypeOK
  BY DEF Init, TypeOK
<1>3. ReadsFit /\ Forward /\ SeverHolds /\ NothingToSever
  BY <1>1 DEF ReadsFit, Forward, SeverHolds, NothingToSever, Active, Reads, HasSevered
<1>4. IdsDrawn /\ AcceptHolds
  BY <1>1 DEF Init, IdsDrawn, AcceptHolds, Active, Reads, Doing
<1>5. FriendsHaveRoom /\ OpenToFriends
  BY DEF Init, FriendsHaveRoom, OpenToFriends, Status
<1> QED BY <1>2, <1>3, <1>4, <1>5 DEF FriendInv

-------------------------------------------------------------------------------
(* The shape of a request.                                                    *)
LEMMA Shapes ==
  ASSUME TypeOK, NEW h \in Handler
  PROVE  /\ Active(h) <=> job[h] \in Request
         /\ Active(h) <=> job[h].op # "idle"
         /\ Active(h) => job[h].seen \in Row \cup {None}
BY DEF TypeOK, Active, Request, Idle

LEMMA RowIsSomething == \A r \in Row : r # None
BY PairAssumption

(* A request begins: it has read the row as it is.                            *)
LEMMA BeginKeeps ==
  ASSUME FriendInv, NEW h \in Handler, NEW u \in User,
         NEW op \in {"send", "accept", "decline", "remove", "block", "unblock"},
         NEW at \in {"sever", "commit"},
         Begin(h, u, op, at),
         Fits([op |-> op, by |-> u, at |-> at, seen |-> rel, severed |-> FALSE]),
         op = "accept" => ~RowLocked(h, rel.id),
         op \in {"remove", "block"} /\ rel.status = "accepted" => at = "sever"
  PROVE  FriendInv'
<1> DEFINE new == [op |-> op, by |-> u, at |-> at, seen |-> rel, severed |-> FALSE]
<1>0. TypeOK
  BY DEF FriendInv
<1>1. UNCHANGED <<rel, lastId, room, members, raced>> /\ job[h] = Idle
  BY DEF Begin, dbVars
<1>2. new \in Request
  BY <1>0 DEF TypeOK, Request
<1>3. \A g \in Handler : job'[g] = IF g = h THEN new ELSE job[g]
  BY <1>0 DEF Begin, TypeOK
<1>4. TypeOK'
  BY <1>0, <1>1, <1>2 DEF Begin, TypeOK
<1>5. /\ new.op = op /\ new.by = u /\ new.at = at /\ new.seen = rel /\ ~new.severed
      /\ new # Idle
  BY DEF Idle
<1> HIDE DEF new
<1>6. ReadsFit'
  BY <1>3 DEF new, FriendInv, ReadsFit, Active
<1>7. IdsDrawn'
  BY <1>1, <1>3, <1>5 DEF FriendInv, IdsDrawn, Reads, Active
<1>8. Forward'
  BY <1>1, <1>3, <1>5 DEF FriendInv, Forward, Reads, Active, SameRow
<1>9. AcceptHolds'
  <2>1. op = "accept" => \A g \in Handler \ {h} : ~Doing(g, "accept")
    BY DEF FriendInv, AcceptHolds, RowLocked, Doing
  <2> QED BY <2>1, <1>1, <1>3, <1>5 DEF FriendInv, AcceptHolds, Doing, Idle
<1>10. SeverHolds'
  BY <1>1, <1>3, <1>5 DEF FriendInv, SeverHolds, HasSevered, Idle
<1>11. FriendsHaveRoom' /\ OpenToFriends'
  BY <1>1 DEF FriendInv, FriendsHaveRoom, OpenToFriends, Status
<1>12. NothingToSever'
  BY <1>1, <1>3, <1>5 DEF FriendInv, NothingToSever, Active
<1> QED BY <1>4, <1>6, <1>7, <1>8, <1>9, <1>10, <1>11, <1>12 DEF FriendInv
(* A request ends without an effect.                                          *)
LEMMA EndKeeps ==
  ASSUME FriendInv, NEW h \in Handler, Finish(h), UNCHANGED <<dbVars, raced>>
  PROVE  FriendInv'
<1>0. TypeOK /\ UNCHANGED <<rel, lastId, room, members, raced>>
  BY DEF FriendInv, dbVars
<1>1. \A g \in Handler : job'[g] = IF g = h THEN Idle ELSE job[g]
  BY <1>0 DEF Finish, TypeOK
<1>2. TypeOK'
  BY <1>0 DEF Finish, TypeOK
<1>3. Idle.op = "idle"
  BY DEF Idle
<1>4. ReadsFit' /\ IdsDrawn' /\ Forward'
  BY <1>0, <1>1 DEF FriendInv, ReadsFit, IdsDrawn, Forward, Active, Reads, SameRow
<1>5. AcceptHolds' /\ SeverHolds'
  BY <1>0, <1>1, <1>3 DEF FriendInv, AcceptHolds, SeverHolds, Doing, HasSevered
<1>6. FriendsHaveRoom' /\ OpenToFriends'
  BY <1>0 DEF FriendInv, FriendsHaveRoom, OpenToFriends, Status
<1>7. NothingToSever'
  BY <1>0, <1>1 DEF FriendInv, NothingToSever, Active
<1> QED BY <1>2, <1>4, <1>5, <1>6, <1>7 DEF FriendInv

LEMMA SeverKeeps ==
  ASSUME FriendInv, NEW h \in Handler, Sever(h)
  PROVE  FriendInv'
<1>0. /\ TypeOK /\ UNCHANGED <<rel, lastId, room, members, raced>>
      /\ Active(h) /\ job[h].at = "sever" /\ ~MembersLocked(h)
  BY DEF FriendInv, Sever, dbVars, Active
<1> DEFINE new == [job[h] EXCEPT !.at = "commit", !.severed = members # {}]
<1>1. job[h] \in Request /\ new \in Request
  BY <1>0, Shapes DEF Request
<1>2. \A g \in Handler : job'[g] = IF g = h THEN new ELSE job[g]
  BY <1>0 DEF Sever, TypeOK
<1>3. TypeOK'
  BY <1>0, <1>1 DEF Sever, TypeOK
<1>4. /\ new.op = job[h].op /\ new.by = job[h].by /\ new.at = "commit"
      /\ new.seen = job[h].seen /\ new.severed = (members # {})
      /\ new # Idle
  BY <1>1 DEF Request, Idle
<1> HIDE DEF new
<1>5. Fits(job[h]) /\ job[h].op \in {"remove", "block"} /\ job[h].seen.status = "accepted"
  BY <1>0 DEF FriendInv, ReadsFit, Fits
<1>6. ReadsFit'
  BY <1>2, <1>4, <1>5 DEF FriendInv, ReadsFit, Fits, Active
<1>7. IdsDrawn' /\ Forward'
  BY <1>0, <1>2, <1>4 DEF FriendInv, IdsDrawn, Forward, Active, Reads, SameRow
<1>8. AcceptHolds'
  BY <1>0, <1>2, <1>4, <1>5 DEF FriendInv, AcceptHolds, Doing
<1>9. SeverHolds'
  <2>1. \A g \in Handler \ {h} : ~HasSevered(g)
    BY <1>0 DEF MembersLocked
  <2> QED BY <2>1, <1>0, <1>2, <1>4 DEF FriendInv, SeverHolds, HasSevered
<1>10. FriendsHaveRoom' /\ OpenToFriends'
  BY <1>0 DEF FriendInv, FriendsHaveRoom, OpenToFriends, Status
<1>11. NothingToSever'
  <2>1. ~raced /\ members = {} => job[h].seen # rel
    BY <1>5, PairAssumption DEF FriendInv, OpenToFriends, Status, Fits
  <2> QED BY <2>1, <1>0, <1>2, <1>4 DEF FriendInv, NothingToSever, Active
<1> QED BY <1>3, <1>6, <1>7, <1>8, <1>9, <1>10, <1>11 DEF FriendInv

(* The insert of a new row, whose id nobody has read.                         *)
LEMMA SendKeeps ==
  ASSUME FriendInv, NEW h \in Handler, SendCommits(h)
  PROVE  FriendInv'
<1>0. TypeOK /\ Doing(h, "send") /\ Finish(h) /\ UNCHANGED <<room, members>>
  BY DEF FriendInv, SendCommits
<1>1. CASE rel # None
  <2>1. UNCHANGED <<dbVars, raced>>
    BY <1>0, <1>1 DEF SendCommits, Notice, dbVars, TypeOK
  <2> QED BY <2>1, <1>0, EndKeeps
<1>2. CASE rel = None
  <2>1. job[h] \in Request /\ Active(h) /\ job[h].seen = None
    BY <1>0, Shapes DEF FriendInv, ReadsFit, Fits, Doing
  <2>2. rel' = [id |-> lastId + 1, status |-> "pending", actor |-> job[h].by] /\ lastId' = lastId + 1
    BY <1>2 DEF SendCommits
  <2>3. /\ rel' \in Row /\ lastId' \in Nat /\ lastId \in Nat
        /\ rel'.id = lastId + 1 /\ rel'.status = "pending"
    BY <2>1, <2>2, <1>0 DEF Row, Request, TypeOK
  <2>4. rel' # None
    BY <2>3, RowIsSomething
  <2>5. raced' = raced
    BY <2>1, <1>0, <1>2 DEF SendCommits, Notice, TypeOK
  <2>6. \A g \in Handler : job'[g] = IF g = h THEN Idle ELSE job[g]
    BY <1>0 DEF Finish, TypeOK
  <2>7. TypeOK'
    BY <1>0, <2>3, <2>5 DEF Finish, TypeOK
  <2>8. ReadsFit'
    BY <2>6 DEF FriendInv, ReadsFit, Active
  <2>9. IdsDrawn' /\ Forward'
    <3>1. \A g \in Handler : Reads(g)' => Reads(g) /\ job'[g] = job[g] /\ job[g].seen.id \in Nat
      BY <2>6, <1>0, Shapes DEF Reads, Active, Row
    <3>2. \A g \in Handler : Reads(g)' => job'[g].seen.id <= lastId
      BY <3>1 DEF FriendInv, IdsDrawn
    <3> QED BY <3>1, <3>2, <2>2, <2>3, <2>4 DEF IdsDrawn, Forward, SameRow
  <2>10. AcceptHolds'
    <3>1. \A g \in Handler : ~Doing(g, "accept")
      BY <1>2, <1>0, Shapes DEF FriendInv, AcceptHolds, ReadsFit, Fits, Doing, Active
    <3> QED BY <3>1, <2>6 DEF AcceptHolds, Doing, Idle
  <2>11. SeverHolds'
    BY <1>0, <2>6 DEF FriendInv, SeverHolds, HasSevered
  <2>12. FriendsHaveRoom' /\ OpenToFriends'
    BY <1>0, <1>2, <2>3, <2>4, <2>5 DEF FriendInv, FriendsHaveRoom, OpenToFriends, Status
  <2>13. NothingToSever'
    BY <2>3, <2>6 DEF FriendInv, NothingToSever, Active
  <2> QED BY <2>7, <2>8, <2>9, <2>10, <2>11, <2>12, <2>13 DEF FriendInv
<1> QED BY <1>1, <1>2

(* The accept that holds the row makes it a friendship, or ends.              *)
LEMMA AcceptKeeps ==
  ASSUME FriendInv, NEW h \in Handler, AcceptCommits(h)
  PROVE  FriendInv'
<1>0. TypeOK /\ Doing(h, "accept") /\ Finish(h) /\ lastId' = lastId
  BY DEF FriendInv, AcceptCommits
<1>1. /\ job[h] \in Request /\ Active(h) /\ Fits(job[h]) /\ job[h].seen = rel
      /\ \A g \in Handler : Doing(g, "accept") => g = h
  BY <1>0, Shapes DEF FriendInv, ReadsFit, AcceptHolds, Doing
<1>2. rel # None /\ rel \in Row /\ rel.status = "pending" /\ ~job[h].severed /\ SameRow(h)
  BY <1>0, <1>1 DEF Fits, Doing, TypeOK, SameRow
<1>3. CASE members # {}
  <2>1. UNCHANGED <<dbVars, raced>>
    BY <1>0, <1>3 DEF AcceptCommits, Notice, dbVars, TypeOK
  <2> QED BY <2>1, <1>0, EndKeeps
<1>4. CASE members = {}
  <2>1. /\ rel' = [rel EXCEPT !.status = "accepted"]
        /\ room' = TRUE /\ members' = User
    BY <1>4, <1>2 DEF AcceptCommits
  <2>2. /\ rel' \in Row /\ rel'.id = rel.id /\ rel'.status = "accepted"
        /\ rel'.actor = rel.actor
    BY <2>1, <1>2 DEF Row
  <2>3. rel' # None
    BY <2>2, RowIsSomething
  <2>4. raced' = raced
    BY <1>0, <1>1 DEF AcceptCommits, Notice, TypeOK
  <2>5. \A g \in Handler : job'[g] = IF g = h THEN Idle ELSE job[g]
    BY <1>0 DEF Finish, TypeOK
  <2>6. TypeOK'
    BY <1>0, <2>1, <2>2, <2>4 DEF Finish, TypeOK
  <2>7. ReadsFit'
    BY <2>5 DEF FriendInv, ReadsFit, Active
  <2>8. IdsDrawn'
    BY <1>0, <1>2, <2>2, <2>5 DEF FriendInv, IdsDrawn, Reads, Active
  <2>9. Forward'
    BY <1>2, <2>2, <2>5 DEF FriendInv, Forward, Reads, Active, SameRow
  <2>10. AcceptHolds'
    BY <1>1, <2>5 DEF AcceptHolds, Doing, Idle
  <2>11. SeverHolds'
    BY <1>4, <2>5 DEF FriendInv, SeverHolds, HasSevered
  <2>12. FriendsHaveRoom' /\ OpenToFriends'
    BY <2>1, <2>2, <2>3 DEF FriendsHaveRoom, OpenToFriends, Status
  <2>13. NothingToSever'
    <3>1. ASSUME NEW g \in Handler, Active(g), job[g].seen.status = "accepted",
                 job[g].op \in {"remove", "block"}
          PROVE  job[g].seen # rel'
      <4>1. job[g].seen # None
        BY <3>1 DEF FriendInv, ReadsFit, Fits
      <4> QED BY <4>1, <3>1, <1>2, <2>2 DEF FriendInv, Forward, Reads, SameRow
    <3> QED BY <3>1, <2>5 DEF NothingToSever, Active
  <2> QED BY <2>6, <2>7, <2>8, <2>9, <2>10, <2>11, <2>12, <2>13 DEF FriendInv
<1> QED BY <1>3, <1>4

-------------------------------------------------------------------------------
(* What a remove, decline, unblock or block finds when the row is still what  *)
(* it read: nothing was severed, or everything that there was.                *)
Writer(h) ==
  /\ Active(h) /\ job[h].at = "commit"
  /\ job[h].op \in {"decline", "remove", "block", "unblock"}

LEMMA WriterInTime ==
  ASSUME FriendInv, NEW h \in Handler, Writer(h), ~raced, job[h].seen = rel
  PROVE  /\ rel.status \in {"pending", "blocked"} => members = {}
         /\ CommitMembers(h) => members' = {}
<1>1. rel # None /\ rel \in Row
  BY DEF FriendInv, TypeOK, ReadsFit, Fits, Writer
<1>2. rel.status # "accepted" => members = {}
  BY <1>1 DEF FriendInv, OpenToFriends, Status
<1>3. rel.status = "accepted" => job[h].severed
  BY DEF FriendInv, NothingToSever, ReadsFit, Fits, Writer
<1> QED BY <1>1, <1>2, <1>3 DEF CommitMembers, Row

(* The row that was read and the memberships that were severed are deleted.   *)
LEMMA DeleteKeeps ==
  ASSUME FriendInv, NEW h \in Handler, Writer(h), DeleteRow(h)
  PROVE  FriendInv'
<1>0. /\ TypeOK /\ Finish(h) /\ UNCHANGED <<lastId, room>> /\ Active(h)
      /\ job[h] \in Request /\ Fits(job[h])
      /\ rel' = IF SameRow(h) THEN None ELSE rel
      /\ members' = IF job[h].severed THEN {} ELSE members
  BY Shapes DEF FriendInv, DeleteRow, CommitMembers, Writer, ReadsFit
<1>1. raced' = (raced \/ (job[h].seen # rel /\ (rel' # rel \/ members' # members)))
  BY DEF DeleteRow, Notice
<1>2. \A g \in Handler : job'[g] = IF g = h THEN Idle ELSE job[g]
  BY <1>0 DEF Finish, TypeOK
<1>3. TypeOK'
  BY <1>0, <1>1 DEF Finish, TypeOK
<1>4. ReadsFit' /\ IdsDrawn' /\ Forward'
  BY <1>0, <1>2 DEF FriendInv, ReadsFit, IdsDrawn, Forward, Active, Reads, SameRow
<1>5. AcceptHolds'
  <2>1. ASSUME NEW g \in Handler, Doing(g, "accept"), g # h PROVE rel' = rel
    BY <2>1, <1>0 DEF FriendInv, AcceptHolds, DeleteRow, RowLocked, SameRow
  <2> QED BY <2>1, <1>2 DEF FriendInv, AcceptHolds, Doing, Idle
<1>6. SeverHolds'
  <2>1. ASSUME NEW g \in Handler, HasSevered(g), g # h PROVE members' = members
    BY <2>1, <1>0 DEF FriendInv, SeverHolds, HasSevered, Active
  <2> QED BY <2>1, <1>2 DEF FriendInv, SeverHolds, HasSevered
<1>7. FriendsHaveRoom'
  BY <1>0 DEF FriendInv, FriendsHaveRoom, Status
<1>8. OpenToFriends'
  <2>1. CASE raced'
    BY <2>1 DEF OpenToFriends
  <2>2. CASE ~raced' /\ job[h].seen = rel
    <3>1. rel # None /\ SameRow(h)
      BY <2>2, <1>0 DEF Fits, SameRow, Writer
    <3>2. members' = {}
      BY <2>2, <1>1, WriterInTime DEF DeleteRow
    <3> QED BY <3>1, <3>2, <1>0 DEF OpenToFriends, Status
  <2>3. CASE ~raced' /\ job[h].seen # rel
    BY <2>3, <1>1 DEF FriendInv, OpenToFriends, Status
  <2> QED BY <2>1, <2>2, <2>3
<1>9. NothingToSever'
  <2>1. ASSUME NEW g \in Handler, Active(g), job[g].op \in {"remove", "block"} PROVE job[g].seen # None
    BY <2>1 DEF FriendInv, ReadsFit, Fits
  <2> QED BY <2>1, <1>0, <1>1, <1>2 DEF FriendInv, NothingToSever, Active
<1> QED BY <1>3, <1>4, <1>5, <1>6, <1>7, <1>8, <1>9 DEF FriendInv

LEMMA BlockKeeps ==
  ASSUME FriendInv, NEW h \in Handler, BlockCommits(h)
  PROVE  FriendInv'
<1>0. /\ TypeOK /\ Finish(h) /\ UNCHANGED <<lastId, room>> /\ Writer(h) /\ Active(h)
      /\ job[h] \in Request /\ Fits(job[h]) /\ job[h].op = "block"
      /\ raced' = (raced \/ (job[h].seen # rel /\ (rel' # rel \/ members' # members)))
      /\ ~RowLocked(h, job[h].seen.id)
  BY Shapes DEF FriendInv, BlockCommits, Writer, ReadsFit, Doing, Notice
<1>1. CASE ~SameRow(h)
  <2>1. UNCHANGED <<dbVars, raced>>
    BY <1>0, <1>1 DEF BlockCommits, dbVars, TypeOK
  <2> QED BY <2>1, <1>0, EndKeeps
<1>2. CASE SameRow(h)
  <2>0. rel \in Row /\ rel # None /\ job[h].by \in User /\ CommitMembers(h)
    BY <1>0, <1>2 DEF SameRow, TypeOK, Request, BlockCommits
  <2>1. /\ rel' \in Row /\ rel'.id = rel.id /\ rel'.status = "blocked"
        /\ members' = IF job[h].severed THEN {} ELSE members
    BY <2>0, <1>2 DEF BlockCommits, Row, CommitMembers
  <2>2. rel' # None
    BY <2>1, RowIsSomething
  <2>3. \A g \in Handler : job'[g] = IF g = h THEN Idle ELSE job[g]
    BY <1>0 DEF Finish, TypeOK
  <2>4. TypeOK'
    BY <1>0, <2>1 DEF Finish, TypeOK
  <2>5. ReadsFit'
    BY <2>3 DEF FriendInv, ReadsFit, Active
  <2>6. IdsDrawn'
    BY <1>0, <2>0, <2>1, <2>3 DEF FriendInv, IdsDrawn, Reads, Active
  <2>7. Forward'
    BY <2>1, <2>3 DEF FriendInv, Forward, Reads, Active, SameRow
  <2>8. AcceptHolds'
    <3>1. ASSUME NEW g \in Handler, g # h PROVE ~Doing(g, "accept")
      BY <3>1, <1>0, <1>2 DEF FriendInv, AcceptHolds, RowLocked, SameRow
    <3> QED BY <3>1, <2>3 DEF AcceptHolds, Doing, Idle
  <2>9. SeverHolds'
    <3>1. ASSUME NEW g \in Handler, HasSevered(g), g # h PROVE members' = members
      BY <3>1, <1>0, <2>1 DEF FriendInv, SeverHolds, HasSevered, Active
    <3> QED BY <3>1, <2>3 DEF FriendInv, SeverHolds, HasSevered
  <2>10. FriendsHaveRoom'
    BY <2>1, <2>2 DEF FriendsHaveRoom, Status
  <2>11. OpenToFriends'
    <3>1. CASE raced'
      BY <3>1 DEF OpenToFriends
    <3>2. CASE ~raced' /\ job[h].seen = rel
      <4>1. members' = {}
        BY <3>2, <1>0, <2>0, WriterInTime
      <4> QED BY <4>1, <2>1, <2>2 DEF OpenToFriends, Status
    <3>3. CASE ~raced' /\ job[h].seen # rel
      BY <3>3, <1>0, <2>0, <2>1, <2>2 DEF FriendInv, OpenToFriends, Status
    <3> QED BY <3>1, <3>2, <3>3
  <2>12. NothingToSever'
    BY <2>1, <2>3 DEF NothingToSever, Active
  <2> QED BY <2>4, <2>5, <2>6, <2>7, <2>8, <2>9, <2>10, <2>11, <2>12 DEF FriendInv
<1> QED BY <1>1, <1>2

LEMMA StartKeeps ==
  ASSUME FriendInv, NEW h \in Handler, NEW u \in User, Start(h, u)
  PROVE  FriendInv'
<1>1. rel # None => rel \in Row
  BY DEF FriendInv, TypeOK
<1>2. CASE Send(h, u)
  BY <1>2, BeginKeeps DEF Send, Fits
<1>3. CASE Accept(h, u)
  BY <1>1, <1>3, BeginKeeps DEF Accept, IncomingRequest, Fits
<1>4. CASE Decline(h, u)
  BY <1>1, <1>4, BeginKeeps DEF Decline, IncomingRequest, Fits
<1>5. CASE Remove(h, u)
  BY <1>1, <1>5, BeginKeeps DEF Remove, Fits
<1>6. CASE Block(h, u)
  BY <1>1, <1>6, BeginKeeps DEF Block, Fits
<1>7. CASE Unblock(h, u)
  BY <1>1, <1>7, BeginKeeps DEF Unblock, Fits
<1> QED BY <1>2, <1>3, <1>4, <1>5, <1>6, <1>7 DEF Start

(* decline, remove and unblock commit in the same way. *)
Deletes(h) == DeclineCommits(h) \/ RemoveCommits(h) \/ UnblockCommits(h)

LEMMA DeletesIsDeleteRow ==
  ASSUME FriendInv, NEW h \in Handler, Deletes(h)
  PROVE  Writer(h) /\ DeleteRow(h) /\ job[h].op \in {"decline", "remove", "unblock"}
<1>1. DeleteRow(h) /\ job[h].op \in {"decline", "remove", "unblock"}
  BY DEF Deletes, DeclineCommits, RemoveCommits, UnblockCommits, Doing
<1>2. job[h] \in Request /\ Active(h)
  BY <1>1, Shapes DEF FriendInv
<1>3. job[h].at = "commit"
  BY <1>1, <1>2 DEF FriendInv, ReadsFit, Fits, Deletes, DeclineCommits, RemoveCommits,
                    UnblockCommits, Doing, Request
<1> QED BY <1>1, <1>2, <1>3 DEF Writer

LEMMA FriendNext == FriendInv /\ [Next]_vars => FriendInv'
<1> SUFFICES ASSUME FriendInv, [Next]_vars PROVE FriendInv'
  OBVIOUS
<1>1. ASSUME NEW h \in Handler, Proceed(h) PROVE FriendInv'
  <2>1. CASE Deletes(h)
    BY <2>1, DeletesIsDeleteRow, DeleteKeeps
  <2> QED BY <1>1, <2>1, SeverKeeps, SendKeeps, AcceptKeeps, BlockKeeps DEF Proceed, Deletes
<1>2. ASSUME NEW h \in Handler, Abort(h) PROVE FriendInv'
  BY <1>2, EndKeeps DEF Abort
<1>3. CASE UNCHANGED vars
  BY <1>3 DEF vars, dbVars, FriendInv, TypeOK, ReadsFit, IdsDrawn, Forward, AcceptHolds,
              SeverHolds, FriendsHaveRoom, OpenToFriends, NothingToSever, Active, Reads,
              SameRow, Doing, HasSevered, Status
<1> QED BY <1>1, <1>2, <1>3, StartKeeps DEF Next

LEMMA FriendCorrect == Spec => []FriendInv
BY FriendInit, FriendNext, PTL DEF Spec

-------------------------------------------------------------------------------
(* Type correctness: no interleaving leaves a handler with a request that is  *)
(* none, or the pair with a row that is none.                                 *)
THEOREM FriendTypes == Spec => []TypeOK
BY FriendCorrect, PTL DEF FriendInv

(* The DM is a friends' room as long as no request was too late: whatever     *)
(* overlaps, it takes a write over a row that has changed to open or to leave *)
(* it to somebody else.                                                       *)
THEOREM DmFollowsFriendship == Spec => []OpenToFriends
BY FriendCorrect, PTL DEF FriendInv

(* Whatever is too late, an accepted pair has its room.                       *)
THEOREM FriendsHaveTheirRoom == Spec => []FriendsHaveRoom
BY FriendCorrect, PTL DEF FriendInv

(* Accept locks row, then memberships; remove and block do it the other way   *)
(* round. They cannot wait for each other, because a row id that was read as  *)
(* accepted is never pending again.                                           *)
THEOREM NoDeadlock == Spec => []NoCircularWait
<1>1. FriendInv => NoCircularWait
  <2> SUFFICES ASSUME FriendInv, NEW g \in Handler, NEW h \in Handler,
                      Doing(g, "accept"), HasSevered(h), job[g].seen.id = job[h].seen.id
               PROVE  FALSE
    BY DEF NoCircularWait
  <2>1. Active(g) /\ Active(h) /\ job[g].seen = rel
    BY Shapes DEF FriendInv, AcceptHolds, Doing, HasSevered, Active
  <2>2. rel # None /\ rel.status = "pending"
    BY <2>1 DEF FriendInv, ReadsFit, Fits, Doing
  <2>3. job[h].seen # None /\ job[h].seen.status = "accepted"
    BY <2>1 DEF FriendInv, ReadsFit, Fits, HasSevered
  <2> QED BY <2>1, <2>2, <2>3 DEF FriendInv, Forward, Reads, SameRow
<1> QED BY <1>1, FriendCorrect, PTL

(* A friendship needs both users, always: the lock makes the row that an      *)
(* accept has read the row that it changes.                                   *)
THEOREM ConsentIsNeeded == Spec => FriendsByConsent
<1> DEFINE Consented == Status' = "accepted" /\ Status # "accepted" =>
             /\ Status = "pending" /\ rel'.id = rel.id
             /\ \E h \in Handler : Doing(h, "accept") /\ job[h].by # rel.actor
<1>1. FriendInv /\ [Next]_vars => [Consented]_vars
  <2> SUFFICES ASSUME FriendInv, Next, Status' = "accepted", Status # "accepted"
               PROVE  /\ Status = "pending" /\ rel'.id = rel.id
                      /\ \E h \in Handler : Doing(h, "accept") /\ job[h].by # rel.actor
    OBVIOUS
  <2>1. rel' # rel
    BY DEF Status
  <2>2. PICK h \in Handler : SendCommits(h) \/ AcceptCommits(h) \/ Deletes(h) \/ BlockCommits(h)
    BY <2>1 DEF Next, Start, Send, Accept, Decline, Remove, Block, Unblock, Begin, Abort,
                Proceed, Sever, Deletes, dbVars
  <2>3. CASE SendCommits(h)
    <3>1. rel' = [id |-> lastId + 1, status |-> "pending", actor |-> job[h].by]
      BY <2>1, <2>3 DEF SendCommits
    <3> QED BY <3>1 DEF Status
  <2>4. CASE Deletes(h)
    BY <2>1, <2>4, DeletesIsDeleteRow DEF DeleteRow, Status
  <2>5. CASE BlockCommits(h)
    <3>1. rel \in Row
      BY <2>1, <2>5 DEF BlockCommits, SameRow, FriendInv, TypeOK
    <3>2. rel'.status = "blocked"
      BY <2>1, <2>5, <3>1 DEF BlockCommits, Row
    <3> QED BY <3>2 DEF Status
  <2>6. CASE AcceptCommits(h)
    <3>1. /\ Active(h) /\ Fits(job[h]) /\ job[h].seen = rel /\ Doing(h, "accept")
      BY <2>6, Shapes DEF FriendInv, ReadsFit, AcceptHolds, AcceptCommits, Doing
    <3>2. rel # None /\ rel \in Row /\ rel.status = "pending" /\ rel.actor # job[h].by
      BY <3>1 DEF Fits, Doing, FriendInv, TypeOK
    <3>3. rel'.id = rel.id
      BY <2>1, <2>6, <3>2 DEF AcceptCommits, Row
    <3> QED BY <3>1, <3>2, <3>3 DEF Status
  <2> QED BY <2>2, <2>3, <2>4, <2>5, <2>6
<1> QED BY <1>1, FriendCorrect, PTL DEF Spec, FriendsByConsent

(* Whatever overlaps, each change of the pair is the one transition that the  *)
(* finished request asked for, until a request is too late: the handlers      *)
(* implement the atomic state machine, step by step.                          *)
LEMMA ChangeInTime ==
  ASSUME FriendInv, NEW h \in Handler, Finish(h), Notice(h), ~raced',
         <<Status, Actor, members>>' # <<Status, Actor, members>>
  PROVE  ~raced /\ job[h].seen = rel /\ job'[h] = Idle
<1>1. rel' # rel \/ members' # members
  BY DEF Status, Actor
<1> QED BY <1>1 DEF Notice, Finish, FriendInv, TypeOK

LEMMA DeleteIsAtomic ==
  ASSUME FriendInv, NEW h \in Handler, Deletes(h), ~raced',
         <<Status, Actor, members>>' # <<Status, Actor, members>>
  PROVE  job'[h] = Idle /\ Pair!Does(job[h].by, job[h].op)
<1>1. Writer(h) /\ DeleteRow(h) /\ job[h].op \in {"decline", "remove", "unblock"}
  BY DeletesIsDeleteRow
<1>2. ~raced /\ job[h].seen = rel /\ job'[h] = Idle
  BY <1>1, ChangeInTime DEF DeleteRow
<1>3. Fits(job[h]) /\ rel # None
  BY <1>1, <1>2 DEF FriendInv, ReadsFit, Fits, Writer
<1>4. rel' = None /\ members' = {}
  BY <1>1, <1>2, <1>3, WriterInTime DEF DeleteRow, SameRow
<1>5. Pair!Vanish
  BY <1>4 DEF Pair!Vanish, Status, Actor
<1> QED BY <1>1, <1>2, <1>3, <1>5
        DEF Fits, Pair!Does, Pair!Decline, Pair!Remove, Pair!Unblock, Status, Actor

LEMMA BlockIsAtomic ==
  ASSUME FriendInv, NEW h \in Handler, BlockCommits(h), ~raced',
         <<Status, Actor, members>>' # <<Status, Actor, members>>
  PROVE  job'[h] = Idle /\ Pair!Does(job[h].by, job[h].op)
<1>1. Writer(h) /\ job[h].op = "block" /\ job[h].by \in User
  BY Shapes DEF FriendInv, BlockCommits, Writer, Doing, Request
<1>2. ~raced /\ job[h].seen = rel /\ job'[h] = Idle
  BY ChangeInTime DEF BlockCommits
<1>3. /\ Fits(job[h]) /\ rel \in Row /\ rel # None
  BY <1>1, <1>2 DEF FriendInv, TypeOK, ReadsFit, Fits, Writer
<1>4. /\ rel' = [rel EXCEPT !.status = "blocked",
                   !.actor = IF job[h].seen.actor = job[h].by THEN @ ELSE job[h].by]
      /\ CommitMembers(h)
  BY <1>2, <1>3 DEF BlockCommits, SameRow
<1>5. rel' \in Row /\ rel'.status = "blocked" /\ rel'.actor = job[h].by
  BY <1>1, <1>2, <1>3, <1>4 DEF Row
<1>6. rel' # None /\ members' = {}
  BY <1>1, <1>2, <1>4, <1>5, WriterInTime, RowIsSomething
<1>7. rel.status \in {"pending", "accepted"}
  BY <1>1, <1>2, <1>3 DEF Fits, Row
<1> QED BY <1>1, <1>2, <1>3, <1>5, <1>6, <1>7 DEF Pair!Does, Pair!Block, Status, Actor

LEMMA AcceptIsAtomic ==
  ASSUME FriendInv, NEW h \in Handler, AcceptCommits(h), ~raced',
         <<Status, Actor, members>>' # <<Status, Actor, members>>
  PROVE  job'[h] = Idle /\ Pair!Does(job[h].by, job[h].op)
<1>1. Active(h) /\ Fits(job[h]) /\ job[h].op = "accept"
  BY Shapes DEF FriendInv, ReadsFit, AcceptCommits, Doing
<1>2. job[h].seen = rel /\ job'[h] = Idle
  BY ChangeInTime DEF AcceptCommits
<1>3. rel # None /\ rel \in Row /\ rel.status = "pending" /\ rel.actor # job[h].by
  BY <1>1, <1>2 DEF Fits, FriendInv, TypeOK
<1>4. rel' = [rel EXCEPT !.status = "accepted"] /\ members' = User
  BY DEF AcceptCommits, Status, Actor
<1>5. rel' \in Row /\ rel'.status = "accepted" /\ rel'.actor = rel.actor
  BY <1>3, <1>4 DEF Row
<1> QED BY <1>1, <1>2, <1>3, <1>4, <1>5, RowIsSomething
        DEF Pair!Does, Pair!Accept, Status, Actor

LEMMA SendIsAtomic ==
  ASSUME FriendInv, NEW h \in Handler, SendCommits(h), ~raced',
         <<Status, Actor, members>>' # <<Status, Actor, members>>
  PROVE  job'[h] = Idle /\ Pair!Does(job[h].by, job[h].op)
<1>1. Active(h) /\ job[h] \in Request /\ job[h].op = "send" /\ job'[h] = Idle
  BY Shapes, ChangeInTime DEF FriendInv, SendCommits, Doing
<1>2. rel = None /\ rel' = [id |-> lastId + 1, status |-> "pending", actor |-> job[h].by]
  BY DEF SendCommits, Status, Actor
<1>3. rel' \in Row /\ rel'.status = "pending" /\ rel'.actor = job[h].by
  BY <1>1, <1>2 DEF Row, Request, FriendInv, TypeOK
<1>4. rel' # None /\ members' = members
  BY <1>3, RowIsSomething DEF SendCommits
<1> QED BY <1>1, <1>2, <1>3, <1>4 DEF Pair!Does, Pair!Send, Status, Actor

THEOREM ChangesAreAtomic == Spec => AtomicUnlessRaced
<1> DEFINE Atomic == raced' \/ \E h \in Handler : /\ job[h] # Idle /\ job'[h] = Idle
                                                   /\ Pair!Does(job[h].by, job[h].op)
<1>1. Init => Pair!Init
  BY DEF Init, Pair!Init, Status, Actor
<1>2. FriendInv /\ [Next]_vars => [Atomic]_<<Status, Actor, members>>
  <2> SUFFICES ASSUME FriendInv, [Next]_vars, ~raced',
                      <<Status, Actor, members>>' # <<Status, Actor, members>>
               PROVE  \E h \in Handler : /\ job[h] # Idle /\ job'[h] = Idle
                                         /\ Pair!Does(job[h].by, job[h].op)
    OBVIOUS
  <2>1. rel' # rel \/ members' # members
    BY DEF Status, Actor
  <2>2. PICK h \in Handler : SendCommits(h) \/ AcceptCommits(h) \/ Deletes(h) \/ BlockCommits(h)
    BY <2>1 DEF Next, Start, Send, Accept, Decline, Remove, Block, Unblock, Begin, Abort,
                Proceed, Sever, Deletes, dbVars, vars
  <2>3. Active(h)
    BY <2>2, Shapes, DeletesIsDeleteRow
       DEF FriendInv, SendCommits, AcceptCommits, BlockCommits, Doing
  <2>4. job'[h] = Idle /\ Pair!Does(job[h].by, job[h].op)
    BY <2>2, SendIsAtomic, AcceptIsAtomic, DeleteIsAtomic, BlockIsAtomic
  <2> QED BY <2>3, <2>4 DEF Active
<1> QED BY <1>1, <1>2, FriendCorrect, PTL DEF Spec, AtomicUnlessRaced
===============================================================================
