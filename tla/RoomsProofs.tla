------------------------------ MODULE RoomsProofs ------------------------------
(* Proofs about the rooms table and the rooms list, for any accounts, rooms,  *)
(* names and events of the bloc.                                              *)
EXTENDS RoomsSafety, NamesProofs

Texted  == Typed \cup {<<>>}
AnyName == {Canonical(text) : text \in Texted} \cup {NewNames[i] : i \in DOMAIN Legacy}
             \cup {DmName(Low, High)}
RoomRow == [name : AnyName, kind : Kind]
Ids     == DOMAIN rooms

TableTypes ==
  /\ rooms \in Seq(RoomRow)
  /\ member \in [Account -> SUBSET (1..Len(rooms))]

TableInv == TableTypes /\ DmRoomIsClosed

(* Rooms are only added, and memberships of group rooms too.                  *)
Grows ==
  /\ Ids \subseteq Ids'
  /\ \A r \in Ids : rooms'[r] = rooms[r]
  /\ \A a \in Account : member[a] \cap Groups \subseteq member'[a]

-------------------------------------------------------------------------------
LEMMA IdsAreNumbers == TableTypes => Ids = 1..Len(rooms) /\ Len(rooms) \in Nat
BY DEF TableTypes, Ids

LEMMA NamesAreTexts == AnyName \subseteq Seq(STRING)
<1>1. Texted \subseteq Seq(STRING)
  <2>1. <<>> \in Seq(STRING)
    OBVIOUS
  <2> QED BY <2>1, UserAssumption DEF Texted
<1>2. ASSUME NEW text \in Texted PROVE Canonical(text) \in Seq(STRING)
  BY <1>1, SlugIsClean, SlugIsText
<1>3. ASSUME NEW i \in DOMAIN Legacy PROVE NewNames[i] \in Seq(STRING)
  BY OldRoomsRenamed, SlugIsText
<1> QED BY <1>2, <1>3, DmNameIsText DEF AnyName

(* A name that the API accepts is no DM's.                                    *)
LEMMA GroupsAreNoDms == ASSUME NEW slug, ValidGroupSlug(slug) PROVE slug # DmName(Low, High)
BY DEF ValidGroupSlug, Reserved, DmName

LEMMA TableInitial == TableInit => TableInv
<1> SUFFICES ASSUME TableInit PROVE TableInv
  OBVIOUS
<1>1. DOMAIN Legacy = 1..Len(Legacy) /\ Len(Legacy) \in Nat
  BY LegacyAssumption
<1>2. \A i \in DOMAIN Legacy : [name |-> NewNames[i], kind |-> "group"] \in RoomRow
  BY DEF RoomRow, AnyName, Kind
<1>3. rooms \in Seq(RoomRow) /\ Len(rooms) = Len(Legacy) /\ DOMAIN rooms = DOMAIN Legacy
  BY <1>1, <1>2 DEF TableInit
<1>4. member \in [Account -> SUBSET (1..Len(rooms))]
  BY <1>1, <1>3 DEF TableInit
<1>5. \A r \in DOMAIN rooms : rooms[r].kind = "group" /\ rooms[r].name = NewNames[r]
  BY <1>3 DEF TableInit
<1>6. DmRoomIsClosed
  BY <1>3, <1>5, OldRoomsRenamed DEF DmRoomIsClosed
<1> QED BY <1>3, <1>4, <1>6 DEF TableInv, TableTypes

LEMMA TableSame == ASSUME TableInv, UNCHANGED tableVars PROVE TableInv' /\ Grows
BY DEF TableInv, TableTypes, DmRoomIsClosed, Grows, Ids, tableVars

(* A new row, with its first members.                                         *)
LEMMA RowAdded ==
  ASSUME TableInv, NEW row \in RoomRow, rooms' = Append(rooms, row),
         Named(row.name) = {}, row.kind = "dm" <=> row.name = DmName(Low, High),
         NEW who \in SUBSET Account, row.kind = "dm" => who \subseteq {Low, High},
         member' = [a \in Account |-> IF a \in who THEN member[a] \cup {Len(rooms) + 1}
                                      ELSE member[a]]
  PROVE  TableInv' /\ Grows
<1>1. /\ rooms \in Seq(RoomRow) /\ Len(rooms) \in Nat /\ Ids = 1..Len(rooms)
      /\ member \in [Account -> SUBSET (1..Len(rooms))]
  BY IdsAreNumbers DEF TableInv, TableTypes
<1>2. /\ rooms' \in Seq(RoomRow) /\ Len(rooms') = Len(rooms) + 1
      /\ Ids' = 1..(Len(rooms) + 1)
      /\ rooms'[Len(rooms) + 1] = row
      /\ \A r \in 1..Len(rooms) : rooms'[r] = rooms[r]
  BY <1>1 DEF Ids
<1>3. member' \in [Account -> SUBSET (1..Len(rooms'))]
  BY <1>1, <1>2
<1>4. \A r \in 1..Len(rooms) : rooms[r].name # row.name
  BY <1>1 DEF Named, Ids
<1>5. DmRoomIsClosed'
  <2>1. \A r \in Ids' : rooms'[r].kind = "dm" <=> rooms'[r].name = DmName(Low, High)
    BY <1>1, <1>2 DEF TableInv, DmRoomIsClosed, Ids
  <2>2. \A r, s \in Ids' : rooms'[r].name = rooms'[s].name => r = s
    BY <1>1, <1>2, <1>4 DEF TableInv, DmRoomIsClosed, Ids
  <2>3. ASSUME NEW a \in Account, NEW r \in Ids', rooms'[r].kind = "dm", r \in member'[a]
        PROVE  a \in {Low, High}
    <3>1. CASE r = Len(rooms) + 1
      BY <1>1, <1>2, <2>3, <3>1
    <3>2. CASE r \in 1..Len(rooms)
      BY <1>1, <1>2, <2>3, <3>2 DEF TableInv, DmRoomIsClosed, Ids
    <3> QED BY <1>1, <1>2, <3>1, <3>2
  <2> QED BY <2>1, <2>2, <2>3 DEF DmRoomIsClosed, Ids
<1>6. Grows
  BY <1>1, <1>2 DEF Grows, Groups
<1> QED BY <1>2, <1>3, <1>5, <1>6 DEF TableInv, TableTypes

(* New members of a room.                                                     *)
LEMMA MembersAdded ==
  ASSUME TableInv, UNCHANGED rooms, NEW r \in Ids, NEW who \in SUBSET Account,
         rooms[r].kind = "dm" => who \subseteq {Low, High},
         member' = [a \in Account |-> IF a \in who THEN member[a] \cup {r} ELSE member[a]]
  PROVE  TableInv' /\ Grows
<1>1. TableTypes' /\ Grows
  BY DEF TableInv, TableTypes, Grows, Ids
<1>2. DmRoomIsClosed'
  BY DEF TableInv, TableTypes, DmRoomIsClosed, Ids
<1> QED BY <1>1, <1>2 DEF TableInv

LEMMA Created ==
  ASSUME TableInv, NEW a \in Account, NEW text \in Texted, NEW reply, CreateRoom(a, text, reply)
  PROVE  /\ TableInv' /\ Grows
         /\ reply.ok => reply.rooms # {} /\ reply.rooms \subseteq (Groups \cap member[a])'
<1> DEFINE slug == Canonical(text)
           row  == [name |-> slug, kind |-> "group"]
<1>1. CASE reply = Refused /\ UNCHANGED tableVars
  BY <1>1, TableSame DEF Refused
<1>2. CASE ValidGroupSlug(slug) /\ reply # Refused
  <2>1. /\ Named(slug) = {} /\ rooms' = Append(rooms, row)
        /\ member' = [member EXCEPT ![a] = @ \cup {Len(rooms) + 1}]
        /\ reply = [ok |-> TRUE, rooms |-> {Len(rooms) + 1}]
    BY <1>2 DEF CreateRoom, Given
  <2>2. row \in RoomRow
    BY DEF RoomRow, AnyName, Kind
  <2>3. slug # DmName(Low, High)
    BY <1>2, GroupsAreNoDms
  <2>4. member' = [b \in Account |-> IF b \in {a} THEN member[b] \cup {Len(rooms) + 1}
                                    ELSE member[b]]
    BY <2>1 DEF TableInv, TableTypes
  <2>5. TableInv' /\ Grows
    <3>1. row.kind = "group" /\ row.name = slug /\ {a} \in SUBSET Account
      OBVIOUS
    <3> HIDE DEF row, slug
    <3> QED BY <2>1, <2>2, <2>3, <2>4, <3>1, RowAdded
  <2>6. Len(rooms) + 1 \in Ids' /\ rooms'[Len(rooms) + 1] = row
    BY <2>1, <2>2 DEF TableInv, TableTypes, Ids
  <2>7. Len(rooms) + 1 \in (Groups \cap member[a])'
    BY <2>4, <2>6 DEF Groups, Ids
  <2>8. reply.rooms = {Len(rooms) + 1}
    BY <2>1
  <2> HIDE DEF slug, row
  <2> QED BY <2>5, <2>7, <2>8
<1> QED BY <1>1, <1>2 DEF CreateRoom, Given, Refused

LEMMA Joined ==
  ASSUME TableInv, NEW a \in Account, NEW id, NEW reply, JoinRoom(a, id, reply)
  PROVE  /\ TableInv' /\ Grows
         /\ reply.ok => reply.rooms = {id} /\ id \in (Groups \cap member[a])'
<1>1. CASE reply = Refused /\ UNCHANGED tableVars
  BY <1>1, TableSame DEF Refused
<1>2. CASE id \in Groups /\ reply = Given({id}) /\ UNCHANGED rooms
           /\ member' = [member EXCEPT ![a] = @ \cup {id}]
  <2>1. member' = [b \in Account |-> IF b \in {a} THEN member[b] \cup {id} ELSE member[b]]
    BY <1>2 DEF TableInv, TableTypes
  <2>2. id \in Ids /\ rooms[id].kind # "dm"
    BY <1>2 DEF Groups, Ids
  <2>3. TableInv' /\ Grows
    BY <1>2, <2>1, <2>2, MembersAdded
  <2> QED BY <1>2, <2>1, <2>3 DEF Groups, Given
<1> QED BY <1>1, <1>2 DEF JoinRoom

LEMMA Befriended == ASSUME TableInv, Befriend PROVE TableInv' /\ Grows
<1>0. Low \in Account /\ High \in Account
  BY AccountAssumption
<1>1. CASE DmRooms = {}
  <2> DEFINE row == [name |-> DmName(Low, High), kind |-> "dm"]
  <2>1. /\ rooms' = Append(rooms, row) /\ Named(row.name) = {}
        /\ member' = [a \in Account |-> IF a \in {Low, High} THEN member[a] \cup {Len(rooms) + 1}
                                        ELSE member[a]]
    BY <1>1 DEF Befriend, DmRooms
  <2>2. row \in RoomRow
    BY DEF RoomRow, AnyName, Kind
  <2> QED BY <1>0, <2>1, <2>2, RowAdded
<1>2. CASE DmRooms # {}
  <2> DEFINE id == CHOOSE r \in DmRooms : TRUE
  <2>1. id \in DmRooms
    BY <1>2
  <2>2. /\ UNCHANGED rooms
        /\ member' = [a \in Account |-> IF a \in {Low, High} THEN member[a] \cup {id}
                                        ELSE member[a]]
    BY <1>2 DEF Befriend
  <2>3. id \in Ids
    BY <2>1 DEF DmRooms, Named, Ids
  <2> HIDE DEF id
  <2>4. {Low, High} \in SUBSET Account
    BY <1>0
  <2> QED BY <2>2, <2>3, <2>4, MembersAdded
<1> QED BY <1>1, <1>2

LEMMA Parted == ASSUME TableInv, Part PROVE TableInv' /\ Grows
<1>1. UNCHANGED rooms /\ member' = [a \in Account |-> member[a] \ DmRooms]
  BY DEF Part
<1>2. DmRooms \cap Groups = {}
  BY DEF TableInv, DmRoomIsClosed, DmRooms, Named, Groups
<1>3. TableTypes'
  BY <1>1 DEF TableInv, TableTypes
<1>4. DmRoomIsClosed'
  BY <1>1 DEF TableInv, TableTypes, DmRoomIsClosed
<1>5. Grows
  BY <1>1, <1>2 DEF Grows, Ids, Groups
<1> QED BY <1>3, <1>4, <1>5 DEF TableInv

-------------------------------------------------------------------------------
(* The jobs, and the calls that a job of a kind makes.                        *)
Kinds  == {"load", "create", "join", "find"}
Calls  == {"none", "cache", "list", "create", "find", "join", "get", "over"}
Anyone == User \cup {NoOne}
JobRow == [kind : Kinds, call : Calls, who : Anyone, text : Texted, base : SUBSET Nat,
           room : Nat, reply : Reply, first : Anyone, lone : BOOLEAN]
IsJob(x) ==
  /\ x \in JobRow
  /\ x.kind = "load" => x.call \in {"none", "cache", "list", "over"}
  /\ x.kind # "load" => x.call \in {"create", "find", "join", "list", "get"}
  /\ x.call \in {"create", "find"} /\ x.reply.ok => x.reply.rooms # {}

ListRow == [phase : {"initial", "loading", "loaded", "failed"}, shown : SUBSET Nat,
            busy : BOOLEAN, error : BOOLEAN]

Types ==
  /\ TableTypes
  /\ token \in Anyone
  /\ screen \in {"login", "rooms", "leaving"}
  /\ list \in ListRow
  /\ cache \in SUBSET Nat
  /\ job \in [Job -> JobRow] /\ \A j \in Job : IsJob(job[j])
  /\ mixed \in BOOLEAN
  /\ spent \in [{"fault", "login", "other"} -> Nat]

-------------------------------------------------------------------------------
LEMMA NothingYet == IsJob(NoJob) /\ IsJob(Over)
<1>1. Waiting \in Reply
  BY DEF Waiting, Reply
<1>2. NoJob \in JobRow
  BY <1>1 DEF NoJob, JobRow, Kinds, Calls, Anyone, Texted
<1>3. Over \in JobRow /\ Over.kind = "load" /\ Over.call = "over"
  BY <1>2 DEF Over, NoJob, JobRow, Kinds, Calls
<1>4. NoJob.kind = "load" /\ NoJob.call = "none"
  BY DEF NoJob
<1> QED BY <1>2, <1>3, <1>4 DEF IsJob

(* One job goes on or returns; one begins beside the others.                  *)
LEMMA OneGoesOn ==
  ASSUME Types, NEW j \in Job, NEW x, IsJob(x), job' = [job EXCEPT ![j] = x]
  PROVE  /\ job' \in [Job -> JobRow] /\ \A i \in Job : IsJob(job[i])'
         /\ job'[j] = x /\ \A i \in Job : i # j => job'[i] = job[i]
BY DEF Types, IsJob

LEMMA AloneOrNot ==
  ASSUME NEW x, IsJob(x), NEW b \in BOOLEAN, NEW y, y = [x EXCEPT !.lone = b]
  PROVE  /\ IsJob(y) /\ y.lone = b
         /\ y.kind = x.kind /\ y.call = x.call /\ y.who = x.who /\ y.text = x.text
         /\ y.base = x.base /\ y.room = x.room /\ y.reply = x.reply /\ y.first = x.first
BY DEF IsJob, JobRow

(* But for "lone", the others are not changed.                                *)
Same(x, y) ==
  /\ y.kind = x.kind /\ y.call = x.call /\ y.who = x.who /\ y.text = x.text
  /\ y.base = x.base /\ y.room = x.room /\ y.reply = x.reply /\ y.first = x.first

LEMMA OneBegins ==
  ASSUME Types, NEW j \in Job, NEW x, IsJob(x), Begin(j, x)
  PROVE  /\ job' \in [Job -> JobRow] /\ \A i \in Job : IsJob(job[i])'
         /\ job'[j] = x
         /\ \A i \in Job : i # j => /\ Same(job[i], job'[i])
                                    /\ job'[i].lone => job[i].lone /\ (Runs(i) => job[i].kind = "load")
<1> DEFINE b(i) == job[i].lone /\ ~(Runs(i) /\ job[i].kind # "load")
           y(i) == [job[i] EXCEPT !.lone = b(i)]
<1>1. job' = [i \in Job |-> IF i = j THEN x ELSE y(i)]
  BY DEF Begin
<1>2. ASSUME NEW i \in Job
      PROVE  IsJob(y(i)) /\ y(i).lone = b(i) /\ Same(job[i], y(i))
  <2>1. b(i) \in BOOLEAN /\ IsJob(job[i])
    BY DEF Types, JobRow
  <2>2. y(i) = [job[i] EXCEPT !.lone = b(i)]
    OBVIOUS
  <2> HIDE DEF b, y
  <2> QED BY <2>1, <2>2, AloneOrNot DEF Same
<1> HIDE DEF y
<1>3. \A i \in Job : job'[i] = IF i = j THEN x ELSE y(i)
  BY <1>1
<1>4. \A i \in Job : IsJob(job'[i])
  BY <1>2, <1>3
<1>5. job' \in [Job -> JobRow]
  BY <1>1, <1>2 DEF IsJob
<1> QED BY <1>2, <1>3, <1>4, <1>5

-------------------------------------------------------------------------------
(* The tables keep their types.                                               *)
LEMMA RowTyped ==
  ASSUME TableTypes, NEW row \in RoomRow, rooms' = Append(rooms, row), NEW who \in SUBSET Account,
         member' = [a \in Account |-> IF a \in who THEN member[a] \cup {Len(rooms) + 1}
                                      ELSE member[a]]
  PROVE  TableTypes'
<1>1. rooms' \in Seq(RoomRow) /\ Len(rooms') = Len(rooms) + 1 /\ Len(rooms) \in Nat
  BY DEF TableTypes
<1>2. member' \in [Account -> SUBSET (1..Len(rooms'))]
  BY <1>1 DEF TableTypes
<1> QED BY <1>1, <1>2 DEF TableTypes

LEMMA MembersTyped ==
  ASSUME TableTypes, UNCHANGED rooms, NEW r \in Ids, NEW who \in SUBSET Account,
         member' = [a \in Account |-> IF a \in who THEN member[a] \cup {r} ELSE member[a]]
  PROVE  TableTypes'
BY DEF TableTypes, Ids

LEMMA SameTyped == TableTypes /\ UNCHANGED tableVars => TableTypes'
BY DEF TableTypes, tableVars

LEMMA CreatedTyped ==
  ASSUME TableTypes, NEW a \in Account, NEW text \in Texted, NEW reply, CreateRoom(a, text, reply)
  PROVE  TableTypes' /\ (reply.ok => reply.rooms # {})
<1> DEFINE row == [name |-> Canonical(text), kind |-> "group"]
<1>1. CASE reply = Refused /\ UNCHANGED tableVars
  BY <1>1, SameTyped DEF Refused
<1>2. CASE /\ rooms' = Append(rooms, row) /\ reply = Given({Len(rooms) + 1})
           /\ member' = [member EXCEPT ![a] = @ \cup {Len(rooms) + 1}]
  <2>1. row \in RoomRow
    BY DEF RoomRow, AnyName, Kind
  <2>2. member' = [b \in Account |-> IF b \in {a} THEN member[b] \cup {Len(rooms) + 1}
                                    ELSE member[b]]
    BY <1>2 DEF TableTypes
  <2>3. TableTypes'
    BY <1>2, <2>1, <2>2, RowTyped
  <2> QED BY <1>2, <2>3 DEF Given
<1> QED BY <1>1, <1>2 DEF CreateRoom

LEMMA JoinedTyped ==
  ASSUME TableTypes, NEW a \in Account, NEW id, NEW reply, JoinRoom(a, id, reply)
  PROVE  TableTypes'
<1>1. CASE UNCHANGED tableVars
  BY <1>1, SameTyped
<1>2. CASE id \in Groups /\ UNCHANGED rooms /\ member' = [member EXCEPT ![a] = @ \cup {id}]
  <2>1. member' = [b \in Account |-> IF b \in {a} THEN member[b] \cup {id} ELSE member[b]]
    BY <1>2 DEF TableTypes
  <2> QED BY <1>2, <2>1, MembersTyped DEF Groups, Ids
<1> QED BY <1>1, <1>2 DEF JoinRoom

LEMMA FriendsTyped == ASSUME TableTypes, Befriend \/ Part PROVE TableTypes'
<1>0. Low \in Account /\ High \in Account
  BY AccountAssumption
<1>1. CASE Part
  BY <1>1 DEF Part, TableTypes
<1>2. CASE Befriend /\ DmRooms = {}
  <2> DEFINE row == [name |-> DmName(Low, High), kind |-> "dm"]
  <2>1. row \in RoomRow
    BY DEF RoomRow, AnyName, Kind
  <2> QED BY <1>0, <1>2, <2>1, RowTyped DEF Befriend
<1>3. CASE Befriend /\ DmRooms # {}
  <2> DEFINE id == CHOOSE r \in DmRooms : TRUE
  <2>1. id \in Ids
    BY <1>3 DEF DmRooms, Named, Ids
  <2>2. UNCHANGED rooms /\ member' = [a \in Account |-> IF a \in {Low, High} THEN member[a] \cup {id}
                                        ELSE member[a]]
    BY <1>3 DEF Befriend
  <2> HIDE DEF id
  <2>3. {Low, High} \in SUBSET Account
    BY <1>0
  <2> QED BY <2>1, <2>2, <2>3, MembersTyped
<1> QED BY <1>1, <1>2, <1>3

-------------------------------------------------------------------------------
(* The jobs, as they begin, wait, are answered and return.                    *)
CacheJob(read) == [NoJob EXCEPT !.call = "cache", !.reply = Given(read)]

LEMMA LoadIsJob ==
  ASSUME NEW read \in SUBSET Nat, NEW x, x = CacheJob(read)
  PROVE  /\ IsJob(x)
         /\ x.kind = "load" /\ x.call = "cache" /\ x.who = NoOne /\ x.base = {}
         /\ x.reply = Given(read) /\ x.first = NoOne
<1>1. NoJob \in JobRow /\ NoJob.kind = "load" /\ NoJob.base = {} /\ NoJob.who = NoOne
      /\ NoJob.first = NoOne
  BY NothingYet DEF IsJob, NoJob
<1>2. Given(read) \in Reply
  BY DEF Given, Reply
<1> QED BY <1>1, <1>2 DEF CacheJob, IsJob, JobRow, Calls, Kinds

LEMMA LoadBegins ==
  ASSUME Types, NEW j \in Job, StartLoad(j)
  PROVE  /\ list' = Loading
         /\ job' \in [Job -> JobRow] /\ \A i \in Job : IsJob(job[i])'
         /\ \A i \in Job : i # j => /\ Same(job[i], job'[i])
                                    /\ job'[i].lone => job[i].lone /\ (Runs(i) => job[i].kind = "load")
         /\ \E read \in {cache, {}} : job'[j] = CacheJob(read)
<1>1. PICK read \in {cache, {}} : Begin(j, CacheJob(read))
  BY DEF StartLoad, CacheJob
<1>2. read \in SUBSET Nat
  BY DEF Types
<1>3. IsJob(CacheJob(read))
  BY <1>2, LoadIsJob
<1>4. job'[j] = CacheJob(read)
  BY <1>1, <1>3, OneBegins
<1>5. list' = Loading
  BY DEF StartLoad, Emit
<1> QED BY <1>1, <1>3, <1>4, <1>5, OneBegins

LEMMA SubmitBegins ==
  ASSUME Types, NEW j \in Job, Submit(j)
  PROVE  /\ list' = Submitting(list.shown)
         /\ job' \in [Job -> JobRow] /\ \A i \in Job : IsJob(job[i])'
         /\ \A i \in Job : i # j => /\ Same(job[i], job'[i])
                                    /\ job'[i].lone => job[i].lone /\ (Runs(i) => job[i].kind = "load")
         /\ job'[j].kind # "load" /\ job'[j].call \in {"create", "join", "find"}
         /\ job'[j].base = list.shown /\ job'[j].reply = Waiting
         /\ job'[j].who = token /\ job'[j].first = token
         /\ job'[j].lone => \A i \in Job : ~Runs(i)
<1>1. PICK kind \in {"create", "join", "find"}, text \in Texted, id \in TypedId \cup {0} :
        StartSubmit(j, kind, text, id)
  <2>1. CASE \E text \in Typed : StartSubmit(j, "create", text, 0)
    BY <2>1 DEF Texted
  <2>2. CASE \E id \in TypedId : StartSubmit(j, "join", <<>>, id)
    BY <2>2 DEF Texted
  <2>3. CASE \E text \in Typed : StartSubmit(j, "find", text, 0)
    BY <2>3 DEF Texted
  <2> QED BY <2>1, <2>2, <2>3 DEF Submit
<1> DEFINE alone == \A i \in Job : ~Runs(i)
           x == [NoJob EXCEPT !.kind = kind, !.call = kind, !.who = token, !.text = text,
                              !.room = id, !.base = list.shown, !.first = token, !.lone = alone]
<1>2. Begin(j, x) /\ list' = Submitting(list.shown)
  BY <1>1 DEF StartSubmit, Emit
<1>3. alone \in BOOLEAN /\ list.shown \in SUBSET Nat /\ token \in Anyone
  BY DEF Types, ListRow
<1>4. NoJob \in JobRow /\ NoJob.reply = Waiting
  BY NothingYet DEF IsJob, NoJob
<1>5. x.lone = alone
  BY <1>4 DEF JobRow
<1> HIDE DEF alone
<1> DEFINE y == [NoJob EXCEPT !.kind = kind, !.call = kind, !.who = token, !.text = text,
                              !.room = id, !.base = list.shown, !.first = token]
<1>6. /\ y \in JobRow
      /\ y.kind = kind /\ y.call = kind /\ y.who = token /\ y.base = list.shown
      /\ y.first = token /\ y.reply = Waiting
  <2>1. kind \in Kinds /\ kind \in Calls /\ id \in Nat
    BY UserAssumption DEF Kinds, Calls
  <2>2. DOMAIN NoJob = {"kind", "call", "who", "text", "base", "room", "reply", "first", "lone"}
    BY <1>4 DEF JobRow
  <2>3. y.kind = kind /\ y.call = kind /\ y.who = token
    BY <2>2
  <2>4. y.base = list.shown /\ y.first = token
    BY <2>2
  <2>5. y.reply = Waiting
    BY <2>2, <1>4
  <2>6. y \in JobRow
    BY <2>1, <1>3, <1>4 DEF JobRow
  <2> QED BY <2>3, <2>4, <2>5, <2>6
<1>7. x = [y EXCEPT !.lone = alone]
  OBVIOUS
<1> HIDE DEF x
<1> HIDE DEF y
<1>8. IsJob(y)
  BY <1>6 DEF IsJob, Waiting
<1>9. IsJob(x) /\ Same(y, x)
  BY <1>3, <1>7, <1>8, AloneOrNot DEF Same
<1>10. job'[j] = x
  BY <1>2, <1>9, OneBegins
<1>11. job'[j].lone => \A i \in Job : ~Runs(i)
  BY <1>5, <1>10 DEF alone
<1>12. /\ job' \in [Job -> JobRow] /\ \A i \in Job : IsJob(job[i])'
       /\ \A i \in Job : i # j => /\ Same(job[i], job'[i])
                                  /\ job'[i].lone => job[i].lone /\ (Runs(i) => job[i].kind = "load")
  BY <1>2, <1>9, OneBegins
<1> QED BY <1>2, <1>6, <1>9, <1>10, <1>11, <1>12 DEF Same

(* A call is answered, or fails.                                              *)
LEMMA ReplyComes ==
  ASSUME Types, NEW j \in Job, NEW reply \in Reply, job' = [job EXCEPT ![j].reply = reply],
         job[j].call \in {"create", "find"} /\ reply.ok => reply.rooms # {}
  PROVE  /\ job' \in [Job -> JobRow] /\ \A i \in Job : IsJob(job[i])'
         /\ \A i \in Job : i # j => job'[i] = job[i]
         /\ job'[j].reply = reply
         /\ job'[j].kind = job[j].kind /\ job'[j].call = job[j].call /\ job'[j].who = job[j].who
         /\ job'[j].base = job[j].base /\ job'[j].room = job[j].room
         /\ job'[j].first = job[j].first /\ job'[j].lone = job[j].lone
<1> DEFINE x == [job[j] EXCEPT !.reply = reply]
<1>1. IsJob(job[j]) /\ job[j] \in JobRow
  BY DEF Types
<1>2. /\ x \in JobRow /\ x.reply = reply
      /\ x.kind = job[j].kind /\ x.call = job[j].call /\ x.who = job[j].who
      /\ x.base = job[j].base /\ x.room = job[j].room
      /\ x.first = job[j].first /\ x.lone = job[j].lone
  BY <1>1 DEF JobRow
<1>3. job' = [job EXCEPT ![j] = x]
  OBVIOUS
<1> HIDE DEF x
<1>4. IsJob(x)
  BY <1>1, <1>2 DEF IsJob
<1> QED BY <1>2, <1>3, <1>4, OneGoesOn

(* A create, a find or a join makes its next call.                            *)
LEMMA NextCall ==
  ASSUME Types, NEW j \in Job, job[j].kind # "load", NEW call \in {"list", "join", "get"},
         NEW room \in Nat, Await(j, call, room)
  PROVE  /\ job' \in [Job -> JobRow] /\ \A i \in Job : IsJob(job[i])'
         /\ \A i \in Job : i # j => job'[i] = job[i]
         /\ job'[j].call = call /\ job'[j].room = room /\ job'[j].who = token
         /\ job'[j].reply = Waiting
         /\ job'[j].first = IF job[j].first = token THEN token ELSE NoOne
         /\ job'[j].kind = job[j].kind /\ job'[j].base = job[j].base /\ job'[j].lone = job[j].lone
<1> DEFINE x == [job[j] EXCEPT !.call = call, !.room = room, !.who = token, !.reply = Waiting,
                               !.first = IF @ = token THEN token ELSE NoOne]
<1>1. /\ IsJob(job[j]) /\ job[j] \in JobRow /\ token \in Anyone /\ NoOne \in Anyone
      /\ Waiting \in Reply
  BY DEF Types, Anyone, Waiting, Reply
<1>2. /\ x \in JobRow /\ x.reply = Waiting
      /\ x.call = call /\ x.room = room /\ x.who = token
      /\ x.first = IF job[j].first = token THEN token ELSE NoOne
      /\ x.kind = job[j].kind /\ x.base = job[j].base /\ x.lone = job[j].lone
  BY <1>1 DEF JobRow, Calls
<1>3. job' = [job EXCEPT ![j] = x]
  BY <1>1 DEF Await, Types
<1> HIDE DEF x
<1>4. IsJob(x)
  BY <1>1, <1>2 DEF IsJob, Waiting
<1> QED BY <1>2, <1>3, <1>4, OneGoesOn

LEMMA Returns ==
  ASSUME Types, NEW j \in Job, Return(j)
  PROVE  /\ job' \in [Job -> JobRow] /\ \A i \in Job : IsJob(job[i])'
         /\ \A i \in Job : i # j => job'[i] = job[i]
         /\ job'[j] = Over
BY NothingYet, OneGoesOn DEF Return

LEMMA ReadsCache ==
  ASSUME Types, NEW j \in Job, CacheRead(j)
  PROVE  /\ job' \in [Job -> JobRow] /\ \A i \in Job : IsJob(job[i])'
         /\ \A i \in Job : i # j => job'[i] = job[i]
         /\ job[j].kind = "load" /\ job[j].call = "cache"
         /\ job'[j].kind = "load" /\ job'[j].call = "list" /\ job'[j].base = Got(j)
         /\ job'[j].who = token /\ job'[j].reply = Waiting
         /\ Got(j) \in SUBSET Nat
         /\ (UNCHANGED list /\ Got(j) = {}) \/ list' = Loaded(Got(j))
<1> DEFINE x == [job[j] EXCEPT !.call = "list", !.base = Got(j), !.who = token, !.reply = Waiting]
<1>1. /\ IsJob(job[j]) /\ job[j] \in JobRow /\ token \in Anyone /\ Waiting \in Reply
      /\ job[j].call = "cache"
  BY DEF Types, Waiting, Reply, CacheRead, Answered
<1>2. job[j].kind = "load" /\ Got(j) \in SUBSET Nat
  BY <1>1 DEF IsJob, Got, JobRow, Reply
<1>3. /\ x \in JobRow /\ x.kind = "load" /\ x.call = "list" /\ x.base = Got(j) /\ x.who = token
      /\ x.reply = Waiting
  BY <1>1, <1>2 DEF JobRow, Calls
<1>4. job' = [job EXCEPT ![j] = x]
  BY <1>1 DEF CacheRead, Types
<1>5. (UNCHANGED list /\ Got(j) = {}) \/ list' = Loaded(Got(j))
  BY DEF CacheRead, Emit
<1> HIDE DEF x
<1>6. IsJob(x)
  BY <1>3 DEF IsJob
<1> QED BY <1>1, <1>2, <1>3, <1>4, <1>5, <1>6, OneGoesOn

-------------------------------------------------------------------------------
(* A spinner or a progress bar is shown for a handler that will take it away. *)
Loads(x) == x.kind = "load" /\ (x.call = "cache" \/ (x.call = "list" /\ x.base = {}))
Spins ==
  /\ list.phase = "loading" => \E j \in Job : Loads(job[j])
  /\ list.busy => \E j \in Job : job[j].kind # "load"
SpinInv == Types /\ Spins

LEMMA ListRows ==
  /\ Loading \in ListRow /\ Loading.shown = {} /\ ~Loading.busy
  /\ LoadFailed \in ListRow /\ LoadFailed.shown = {} /\ ~LoadFailed.busy
       /\ LoadFailed.phase = "failed"
  /\ \A ids \in SUBSET Nat :
       /\ Loaded(ids) \in ListRow /\ Loaded(ids).shown = ids /\ Loaded(ids).phase = "loaded"
            /\ ~Loaded(ids).busy /\ ~Loaded(ids).error
       /\ Submitting(ids) \in ListRow /\ Submitting(ids).shown = ids
            /\ Submitting(ids).phase = "loaded"
       /\ Failed(ids) \in ListRow /\ Failed(ids).shown = ids /\ Failed(ids).phase = "loaded"
            /\ ~Failed(ids).busy
BY DEF ListRow, Loading, LoadFailed, Loaded, Submitting, Failed

LEMMA SettledWhenIdle == SpinInv => Settled
BY DEF SpinInv, Types, IsJob, Spins, Loads, Settled, Idle, Runs

LEMMA LoadSpins ==
  ASSUME SpinInv, NEW j \in Job, StartLoad(j), TableTypes', token' \in Anyone,
         screen' \in {"login", "rooms", "leaving"}, mixed' \in BOOLEAN, UNCHANGED cache,
         spent' \in [{"fault", "login", "other"} -> Nat]
  PROVE  SpinInv'
<1>0. Types
  BY DEF SpinInv
<1>1. PICK read \in {cache, {}} : job'[j] = CacheJob(read)
  BY <1>0, LoadBegins
<1>2. job'[j].kind = "load" /\ job'[j].call = "cache"
  BY <1>0, <1>1, LoadIsJob DEF Types
<1>3. list' = Loading /\ job' \in [Job -> JobRow] /\ \A i \in Job : IsJob(job[i])'
  BY <1>0, LoadBegins
<1>4. Types'
  BY <1>0, <1>3, ListRows DEF Types
<1>5. Spins'
  BY <1>2, <1>3, ListRows DEF Spins, Loads
<1> QED BY <1>4, <1>5 DEF SpinInv

LEMMA SubmitSpins == ASSUME SpinInv, NEW j \in Job, Submit(j) PROVE SpinInv'
<1>0. Types
  BY DEF SpinInv
<1>1. /\ UNCHANGED <<tableVars, token, screen, cache, mixed, spent>>
      /\ list' = Submitting(list.shown) /\ list.shown \in SUBSET Nat
      /\ job' \in [Job -> JobRow] /\ \A i \in Job : IsJob(job[i])'
      /\ job'[j].kind # "load"
  BY <1>0, SubmitBegins DEF Submit, Types, ListRow
<1>2. list' \in ListRow /\ list'.phase = "loaded"
  BY <1>1, ListRows
<1>3. Types'
  BY <1>0, <1>1, <1>2, SameTyped DEF Types
<1>4. Spins'
  BY <1>1, <1>2 DEF Spins
<1> QED BY <1>3, <1>4 DEF SpinInv

(* The witness of a spinner is a job that goes on waiting.                    *)
LEMMA StillSpins ==
  ASSUME SpinInv, NEW j \in Job, UNCHANGED list, \A i \in Job : i # j => job'[i] = job[i],
         job[j].kind # "load" => job'[j].kind # "load", Loads(job[j]) => Loads(job'[j])
  PROVE  Spins'
BY DEF SpinInv, Spins, Loads

LEMMA ReplySpins ==
  ASSUME SpinInv, NEW j \in Job, NEW reply \in Reply, job' = [job EXCEPT ![j].reply = reply],
         job[j].call \in {"create", "find"} /\ reply.ok => reply.rooms # {},
         TableTypes', UNCHANGED <<token, screen, list, cache, mixed>>,
         spent' \in [{"fault", "login", "other"} -> Nat]
  PROVE  SpinInv'
<1>0. Types
  BY DEF SpinInv
<1>1. /\ job' \in [Job -> JobRow] /\ \A i \in Job : IsJob(job[i])'
      /\ \A i \in Job : i # j => job'[i] = job[i]
      /\ job'[j].kind = job[j].kind /\ job'[j].call = job[j].call
      /\ job'[j].base = job[j].base
  BY <1>0, ReplyComes
<1>2. Types'
  BY <1>0, <1>1 DEF Types
<1>3. Spins'
  BY <1>1, StillSpins DEF Loads
<1> QED BY <1>2, <1>3 DEF SpinInv

(* What the server replies.                                                   *)
LEMMA ServedTyped ==
  ASSUME Types, NEW j \in Job, NEW reply, Served(j, reply)
  PROVE  TableTypes' /\ (job[j].call \in {"create", "find"} /\ reply.ok => reply.rooms # {})
<1>0. TableTypes /\ job[j].who \in Anyone /\ job[j].text \in Texted
  BY DEF Types, JobRow
<1>1. CASE job[j].who = NoOne
  BY <1>0, <1>1, SameTyped DEF Served, Refused
<1>2. CASE job[j].who # NoOne
  <2>1. job[j].who \in Account
    BY <1>0, <1>2, UserAssumption DEF Anyone
  <2>2. CASE job[j].call = "create" /\ CreateRoom(job[j].who, job[j].text, reply)
    BY <1>0, <2>1, <2>2, CreatedTyped
  <2>3. CASE job[j].call = "join" /\ JoinRoom(job[j].who, job[j].room, reply)
    BY <1>0, <2>1, <2>3, JoinedTyped
  <2>4. CASE job[j].call = "find" /\ FindRoom(job[j].who, job[j].text, reply)
    BY <1>0, <2>4, SameTyped DEF FindRoom, Given, Refused
  <2>5. CASE \/ job[j].call = "list" /\ ListRooms(job[j].who, reply)
             \/ job[j].call = "get" /\ GetRoom(job[j].who, job[j].room, reply)
    BY <1>0, <2>5, SameTyped DEF ListRooms, GetRoom
  <2> QED BY <1>2, <2>2, <2>3, <2>4, <2>5 DEF Served
<1> QED BY <1>1, <1>2

LEMMA ServeSpins == ASSUME SpinInv, NEW j \in Job, Serve(j) PROVE SpinInv'
<1>0. Types
  BY DEF SpinInv
<1>1. PICK reply \in {Refused} \cup {Given(ids) : ids \in SUBSET (1..(Len(rooms) + 1))} :
        Served(j, reply) /\ job' = [job EXCEPT ![j].reply = reply]
  BY DEF Serve
<1>2. reply \in Reply
  <2>1. Len(rooms) \in Nat
    BY <1>0 DEF Types, TableTypes
  <2>2. 1..(Len(rooms) + 1) \subseteq Nat
    BY <2>1
  <2>3. CASE reply = Refused
    BY <2>3 DEF Refused, Reply
  <2>4. CASE \E ids \in SUBSET (1..(Len(rooms) + 1)) : reply = Given(ids)
    BY <2>2, <2>4 DEF Given, Reply
  <2> QED BY <2>3, <2>4
<1>3. TableTypes' /\ (job[j].call \in {"create", "find"} /\ reply.ok => reply.rooms # {})
  BY <1>0, <1>1, ServedTyped
<1>4. UNCHANGED <<token, screen, list, cache, mixed>> /\ spent' \in [{"fault", "login", "other"} -> Nat]
  BY <1>0 DEF Serve, Types
<1> QED BY <1>1, <1>2, <1>3, <1>4, ReplySpins

LEMMA SpentTyped ==
  ASSUME Types, NEW b \in {"fault", "login", "other"}, NEW max, Spend(b, max)
  PROVE  spent' \in [{"fault", "login", "other"} -> Nat] /\ spent' # spent
BY DEF Types, Spend

LEMMA FailSpins == ASSUME SpinInv, NEW j \in Job, Fail(j) PROVE SpinInv'
<1>0. Types
  BY DEF SpinInv
<1>1. Refused \in Reply /\ ~Refused.ok
  BY DEF Refused, Reply
<1>2. /\ TableTypes' /\ UNCHANGED <<token, screen, list, cache, mixed>>
      /\ job' = [job EXCEPT ![j].reply = Refused]
  BY <1>0, SameTyped DEF Fail, Types
<1>3. spent' \in [{"fault", "login", "other"} -> Nat]
  BY <1>0, SpentTyped DEF Fail
<1> QED BY <1>1, <1>2, <1>3, ReplySpins

-------------------------------------------------------------------------------
(* What a handler does when it goes on: it keeps the list and calls, or emits *)
(* a list without a bar and returns.                                          *)
LEMMA GotTyped ==
  ASSUME Types, NEW j \in Job
  PROVE  Got(j) \in SUBSET Nat /\ job[j].base \in SUBSET Nat /\ job[j].room \in Nat
BY DEF Types, JobRow, Reply, Got

LEMMA AcceptedCalls ==
  ASSUME Types, NEW j \in Job, Accepted(j)
  PROVE  /\ UNCHANGED <<list, cache>> /\ job[j].kind # "load" /\ Ok(j)
         /\ \E call \in {"list", "join"}, room \in Nat :
              /\ Await(j, call, room)
              /\ \/ job[j].call = "create" /\ call = "list" /\ room \in Got(j)
                 \/ job[j].call = "find" /\ call = "join" /\ room \in Got(j)
                 \/ job[j].call = "join" /\ call = "list" /\ room = job[j].room
<1>1. IsJob(job[j]) /\ Got(j) \subseteq Nat /\ job[j].room \in Nat
  BY GotTyped DEF Types
<1>2. /\ UNCHANGED <<list, cache>> /\ Ok(j)
      /\ \/ job[j].call = "create" /\ Await(j, "list", TheRoom(j))
         \/ job[j].call = "find" /\ Await(j, "join", TheRoom(j))
         \/ job[j].call = "join" /\ Await(j, "list", job[j].room)
  BY DEF Accepted, Answered
<1>3. job[j].kind # "load"
  BY <1>1, <1>2 DEF IsJob
<1>4. job[j].call \in {"create", "find"} => Got(j) # {}
  BY <1>1, <1>2 DEF IsJob, Ok, Got
<1>5. job[j].call \in {"create", "find"} => TheRoom(j) \in Got(j)
  BY <1>4 DEF TheRoom
<1> QED BY <1>1, <1>2, <1>3, <1>5

ResumeTypes(j) ==
  /\ job' \in [Job -> JobRow] /\ \A i \in Job : IsJob(job[i])'
  /\ \A i \in Job : i # j => job'[i] = job[i]
  /\ list' \in ListRow /\ cache' \in SUBSET Nat
  /\ \/ list'.phase # "loading" /\ ~list'.busy
     \/ /\ UNCHANGED list
        /\ job[j].kind # "load" => job'[j].kind # "load"
        /\ Loads(job[j]) => Loads(job'[j])

LEMMA ResumeTyped == ASSUME Types, NEW j \in Job, Resume(j) PROVE ResumeTypes(j)
<1>0. /\ IsJob(job[j]) /\ Got(j) \in SUBSET Nat /\ job[j].base \in SUBSET Nat
      /\ job[j].room \in Nat /\ list \in ListRow /\ cache \in SUBSET Nat
  BY GotTyped DEF Types
<1>1. CASE CacheRead(j)
  <2>1. UNCHANGED cache
    BY <1>1 DEF CacheRead
  <2> QED BY <1>0, <1>1, <2>1, ReadsCache, ListRows DEF ResumeTypes, Loads
<1>2. CASE LoadAnswered(j)
  <2>1. Return(j) /\ cache' \in SUBSET Nat /\ job[j].kind = "load" /\ job[j].call = "list"
    BY <1>0, <1>2 DEF LoadAnswered, Answered
  <2>2. \/ list' = Loaded(Got(j)) \/ list' = LoadFailed
        \/ UNCHANGED list /\ job[j].base # {}
    BY <1>2 DEF LoadAnswered, Emit
  <2> QED BY <1>0, <2>1, <2>2, Returns, ListRows DEF ResumeTypes, Loads
<1>3. CASE Refusal(j)
  <2>1. Return(j) /\ UNCHANGED cache /\ list' = Failed(job[j].base)
    BY <1>3 DEF Refusal, Emit
  <2> QED BY <1>0, <2>1, Returns, ListRows DEF ResumeTypes
<1>4. CASE Accepted(j)
  <2>1. /\ UNCHANGED <<list, cache>> /\ job[j].kind # "load"
        /\ \E call \in {"list", "join"}, room \in Nat : Await(j, call, room)
    BY <1>4, AcceptedCalls
  <2>2. /\ job' \in [Job -> JobRow] /\ \A i \in Job : IsJob(job[i])'
        /\ \A i \in Job : i # j => job'[i] = job[i]
        /\ job'[j].kind = job[j].kind
    BY <2>1, NextCall
  <2> QED BY <1>0, <2>1, <2>2 DEF ResumeTypes, Loads
<1>5. CASE Refreshed(j) /\ Await(j, "get", job[j].room) /\ UNCHANGED list
  <2>1. UNCHANGED cache /\ job[j].kind # "load"
    BY <1>5 DEF Refreshed
  <2>2. /\ job' \in [Job -> JobRow] /\ \A i \in Job : IsJob(job[i])'
        /\ \A i \in Job : i # j => job'[i] = job[i]
        /\ job'[j].kind = job[j].kind
    BY <1>0, <1>5, <2>1, NextCall
  <2> QED BY <1>0, <1>5, <2>1, <2>2 DEF ResumeTypes, Loads
<1>6. CASE \/ Refreshed(j) /\ ~(Await(j, "get", job[j].room) /\ UNCHANGED list)
           \/ Fetched(j)
  <2>1. UNCHANGED cache /\ Return(j) /\ \E ids \in {Got(j), job[j].base \cup {job[j].room}} : list' = Loaded(ids)
    BY <1>6 DEF Refreshed, Fetched, Emit
  <2> QED BY <1>0, <2>1, Returns, ListRows DEF ResumeTypes
<1> QED BY <1>1, <1>2, <1>3, <1>4, <1>5, <1>6 DEF Resume

LEMMA ResumeSpins == ASSUME SpinInv, NEW j \in Job, Resume(j) PROVE SpinInv'
<1>0. Types /\ UNCHANGED <<tableVars, token, screen, mixed, spent>>
  BY DEF SpinInv, Resume
<1>1. ResumeTypes(j)
  BY <1>0, ResumeTyped
<1>2. Types'
  BY <1>0, <1>1, SameTyped DEF Types, ResumeTypes
<1>3. Spins'
  <2>1. CASE list'.phase # "loading" /\ ~list'.busy
    BY <2>1 DEF Spins
  <2>2. CASE UNCHANGED list /\ ~(list'.phase # "loading" /\ ~list'.busy)
    BY <1>1, <2>2, StillSpins DEF ResumeTypes
  <2> QED BY <1>1, <2>1, <2>2 DEF ResumeTypes
<1> QED BY <1>2, <1>3 DEF SpinInv

(* The jobs of an app that was killed.                                        *)
LEMMA JobsEnd ==
  ASSUME Types, NEW i \in Job
  PROVE  IsJob(Ended(i)) /\ Ended(i).kind = "load" /\ Ended(i).call \in {"none", "over"}
BY NothingYet DEF Ended, NoJob, Over

LEMMA RestartJobs ==
  ASSUME Types, NEW j \in Job, Restart(j)
  PROVE  /\ UNCHANGED <<tableVars, cache>>
         /\ spent' \in [{"fault", "login", "other"} -> Nat] /\ spent' # spent
         /\ job' \in [Job -> JobRow] /\ \A i \in Job : IsJob(job[i])'
         /\ \A i \in Job : i # j => job'[i] = Ended(i)
         /\ \/ /\ token # NoOne /\ screen' = "rooms" /\ list' = Loading
               /\ \E read \in {cache, {}} : job'[j] = CacheJob(read)
               /\ UNCHANGED <<token, mixed>>
            \/ /\ screen' = "login" /\ token' \in {token, NoOne}
               /\ list' = [Loading EXCEPT !.phase = "initial"]
               /\ job'[j] = Ended(j)
               /\ mixed' = (mixed \/ cache # {})
<1>1. UNCHANGED <<tableVars, cache>> /\ Spend("fault", MaxFault)
  BY DEF Restart
<1>2. spent' \in [{"fault", "login", "other"} -> Nat] /\ spent' # spent
  BY <1>1, SpentTyped
<1>3. ASSUME NEW read \in {cache, {}},
             job' = [i \in Job |-> IF i = j THEN CacheJob(read) ELSE Ended(i)]
      PROVE  /\ job' \in [Job -> JobRow] /\ \A i \in Job : IsJob(job'[i])
             /\ job'[j] = CacheJob(read) /\ \A i \in Job : i # j => job'[i] = Ended(i)
  <2>1. read \in SUBSET Nat
    BY DEF Types
  <2>2. IsJob(CacheJob(read))
    BY <2>1, LoadIsJob
  <2> QED BY <1>3, <2>2, JobsEnd DEF IsJob
<1>4. ASSUME job' = [i \in Job |-> Ended(i)]
      PROVE  /\ job' \in [Job -> JobRow] /\ \A i \in Job : IsJob(job'[i])
             /\ \A i \in Job : job'[i] = Ended(i)
  BY <1>4, JobsEnd DEF IsJob
<1>5. \/ /\ token # NoOne /\ screen' = "rooms" /\ list' = Loading
         /\ \E read \in {cache, {}} :
              job' = [i \in Job |-> IF i = j THEN CacheJob(read) ELSE Ended(i)]
         /\ UNCHANGED <<token, mixed>>
      \/ /\ screen' = "login" /\ token' \in {token, NoOne}
         /\ list' = [Loading EXCEPT !.phase = "initial"]
         /\ job' = [i \in Job |-> Ended(i)]
         /\ mixed' = (mixed \/ cache # {})
  BY DEF Restart, Emit, CacheJob
<1>6. CASE \E read \in {cache, {}} :
              job' = [i \in Job |-> IF i = j THEN CacheJob(read) ELSE Ended(i)]
  <2>1. /\ job' \in [Job -> JobRow] /\ \A i \in Job : IsJob(job'[i])
        /\ \E read \in {cache, {}} : job'[j] = CacheJob(read)
        /\ \A i \in Job : i # j => job'[i] = Ended(i)
    BY <1>3, <1>6
  <2> QED BY <1>1, <1>2, <1>4, <1>5, <2>1
<1>7. CASE job' = [i \in Job |-> Ended(i)] /\ ~\E read \in {cache, {}} :
              job' = [i \in Job |-> IF i = j THEN CacheJob(read) ELSE Ended(i)]
  BY <1>1, <1>2, <1>4, <1>5, <1>7
<1> QED BY <1>5, <1>6, <1>7

LEMMA RestartSpins == ASSUME SpinInv, NEW j \in Job, Restart(j) PROVE SpinInv'
<1>0. Types /\ token \in Anyone /\ mixed \in BOOLEAN /\ NoOne \in Anyone
  BY DEF SpinInv, Types, Anyone
<1>1. /\ UNCHANGED <<tableVars, cache>>
      /\ spent' \in [{"fault", "login", "other"} -> Nat]
      /\ job' \in [Job -> JobRow] /\ \A i \in Job : IsJob(job[i])'
  BY <1>0, RestartJobs
<1>2. CASE /\ screen' = "rooms" /\ list' = Loading
           /\ \E read \in {cache, {}} : job'[j] = CacheJob(read)
           /\ UNCHANGED <<token, mixed>>
  <2>1. job'[j].kind = "load" /\ job'[j].call = "cache"
    BY <1>0, <1>2, LoadIsJob DEF Types
  <2>2. Spins'
    BY <1>2, <2>1, ListRows DEF Spins, Loads
  <2>3. Types'
    BY <1>0, <1>1, <1>2, SameTyped, ListRows DEF Types
  <2> QED BY <2>2, <2>3 DEF SpinInv
<1>3. CASE /\ screen' = "login" /\ token' \in {token, NoOne}
           /\ list' = [Loading EXCEPT !.phase = "initial"]
           /\ mixed' = (mixed \/ cache # {})
  <2>1. list' \in ListRow /\ list'.phase = "initial" /\ ~list'.busy
    BY <1>3 DEF Loading, ListRow
  <2>2. mixed' \in BOOLEAN
    BY <1>3
  <2>3. Spins'
    BY <2>1 DEF Spins
  <2>4. Types'
    BY <1>0, <1>1, <1>3, <2>1, <2>2, SameTyped DEF Types
  <2> QED BY <2>3, <2>4 DEF SpinInv
<1> QED BY <1>0, <1>2, <1>3, RestartJobs

LEMMA OtherTyped == ASSUME Types, Other PROVE TableTypes'
<1>1. TableTypes
  BY DEF Types
<1>2. CASE Befriend \/ Part
  BY <1>1, <1>2, FriendsTyped
<1>3. ASSUME NEW a \in Peer, NEW text \in Typed, CreateRoom(a, text, Given({Len(rooms) + 1}))
      PROVE  TableTypes'
  <2>1. a \in Account /\ text \in Texted
    BY UserAssumption DEF Texted
  <2> QED BY <1>1, <1>3, <2>1, CreatedTyped
<1>4. ASSUME NEW a \in Peer, NEW id \in TypedId, JoinRoom(a, id, Given({id}))
      PROVE  TableTypes'
  <2>1. a \in Account
    BY UserAssumption
  <2> QED BY <1>1, <1>4, <2>1, JoinedTyped
<1> QED BY <1>2, <1>3, <1>4 DEF Other

LEMMA OtherSpins == ASSUME SpinInv, Other PROVE SpinInv'
<1>1. Types /\ UNCHANGED clientVars
  BY DEF SpinInv, Other
<1>2. spent' \in [{"fault", "login", "other"} -> Nat]
  BY <1>1, SpentTyped DEF Other
<1>3. TableTypes'
  BY <1>1, OtherTyped
<1>4. Types'
  BY <1>1, <1>2, <1>3 DEF Types, clientVars
<1>5. Spins'
  BY <1>1 DEF SpinInv, Spins, clientVars
<1> QED BY <1>4, <1>5 DEF SpinInv

LEMMA SpinInit == Init => SpinInv
<1> SUFFICES ASSUME Init PROVE SpinInv
  OBVIOUS
<1>1. TableTypes
  <2>1. DOMAIN Legacy = 1..Len(Legacy) /\ Len(Legacy) \in Nat
    BY LegacyAssumption
  <2>2. \A i \in DOMAIN Legacy : [name |-> NewNames[i], kind |-> "group"] \in RoomRow
    BY DEF RoomRow, AnyName, Kind
  <2>3. rooms \in Seq(RoomRow) /\ Len(rooms) = Len(Legacy)
    BY <2>1, <2>2 DEF Init, TableInit
  <2> QED BY <2>1, <2>3 DEF Init, TableInit, TableTypes
<1>2. job \in [Job -> JobRow] /\ \A j \in Job : IsJob(job[j])
  BY NothingYet DEF Init, IsJob
<1>3. list \in ListRow /\ list.phase = "initial" /\ ~list.busy
  BY DEF Init, ListRow
<1>4. Types
  BY <1>1, <1>2, <1>3 DEF Init, Types, Anyone
<1>5. Spins
  BY <1>3 DEF Spins
<1> QED BY <1>4, <1>5 DEF SpinInv

LEMMA SpinNext == SpinInv /\ [Next]_vars => SpinInv'
<1> SUFFICES ASSUME SpinInv, [Next]_vars PROVE SpinInv'
  OBVIOUS
<1>0. Types /\ token \in Anyone /\ mixed \in BOOLEAN
  BY DEF SpinInv, Types
<1>1. CASE UNCHANGED vars
  <2>1. UNCHANGED tableVars /\ UNCHANGED clientVars /\ UNCHANGED spent
    BY <1>1 DEF vars
  <2>2. TableTypes'
    BY <1>0, <2>1, SameTyped DEF Types
  <2>3. Types'
    BY <1>0, <2>1, <2>2 DEF Types, clientVars
  <2>4. Spins'
    BY <2>1 DEF SpinInv, Spins, clientVars
  <2> QED BY <2>3, <2>4 DEF SpinInv
<1>2. ASSUME NEW j \in Job, RetryLoad(j) \/ OpenPane(j) PROVE SpinInv'
  <2>1. StartLoad(j) /\ UNCHANGED <<tableVars, token, screen, cache, mixed, spent>>
    BY <1>2 DEF RetryLoad, OpenPane
  <2>2. TableTypes' /\ screen' \in {"login", "rooms", "leaving"}
        /\ spent' \in [{"fault", "login", "other"} -> Nat]
    BY <1>0, <2>1, SameTyped DEF Types
  <2> QED BY <1>0, <2>1, <2>2, LoadSpins
<1>3. ASSUME NEW j \in Job, Login(j) PROVE SpinInv'
  <2>1. /\ StartLoad(j) /\ UNCHANGED <<tableVars, cache, mixed>>
        /\ token' \in Anyone /\ screen' = "rooms" /\ Spend("login", MaxLogin)
    BY <1>3 DEF Login, Anyone
  <2>2. TableTypes' /\ spent' \in [{"fault", "login", "other"} -> Nat]
    BY <1>0, <2>1, SameTyped, SpentTyped DEF Types
  <2> QED BY <1>0, <2>1, <2>2, LoadSpins
<1>4. CASE Logout \/ ClearCaches
  <2>1. /\ UNCHANGED <<tableVars, list, job, spent>>
        /\ token' \in Anyone /\ screen' \in {"login", "rooms", "leaving"}
        /\ cache' \in SUBSET Nat
    BY <1>0, <1>4 DEF Logout, ClearCaches, Types, Anyone
  <2>2. mixed' \in BOOLEAN
    <3>1. CASE Logout
      BY <1>0, <3>1 DEF Logout
    <3>2. CASE ClearCaches
      BY <3>2 DEF ClearCaches
    <3> QED BY <1>4, <3>1, <3>2
  <2>3. TableTypes'
    BY <1>0, <2>1, SameTyped DEF Types
  <2>4. Types'
    BY <1>0, <2>1, <2>2, <2>3 DEF Types
  <2>5. Spins'
    BY <2>1 DEF SpinInv, Spins
  <2> QED BY <2>4, <2>5 DEF SpinInv
<1> QED BY <1>1, <1>2, <1>3, <1>4, SubmitSpins, ServeSpins, FailSpins, ResumeSpins, RestartSpins,
           OtherSpins DEF Next

(* Every value that the tables, the bloc, its handlers and the session hold   *)
(* has its type; the rooms' names are slugs.                                  *)
THEOREM RoomsTyped == Spec => []TypeOK
<1>1. Types => TypeOK
  <2> SUFFICES ASSUME Types PROVE TypeOK
    OBVIOUS
  <2>1. TableTypeOK
    <3>1. RoomRow \subseteq [name : Seq(STRING), kind : Kind]
      BY NamesAreTexts DEF RoomRow
    <3>2. \A S, U : S \subseteq U /\ rooms \in Seq(S) => rooms \in Seq(U)
      OBVIOUS
    <3> QED BY <3>1, <3>2 DEF Types, TableTypes, TableTypeOK
  <2>2. ASSUME NEW j \in Job
        PROVE  /\ job[j].kind \in Kinds /\ job[j].call \in Calls
               /\ job[j].who \in Anyone /\ job[j].first \in Anyone
               /\ job[j].base \in SUBSET Nat /\ job[j].room \in Nat
               /\ job[j].reply \in Reply /\ job[j].lone \in BOOLEAN
    <3>1. job[j] \in JobRow
      BY DEF Types
    <3> QED BY <3>1 DEF JobRow
  <2> QED BY <2>1, <2>2 DEF Types, TypeOK, Kinds, Calls, Anyone, ListRow
<1>2. Spec => []SpinInv
  BY SpinInit, SpinNext, PTL DEF Spec
<1>3. SpinInv => TypeOK
  BY <1>1 DEF SpinInv
<1> QED BY <1>2, <1>3, PTL

(* No spinner and no progress bar is left when no handler runs, for any       *)
(* number of events, faults and logins.                                       *)
THEOREM ListSettles == Spec => []Settled
BY SpinInit, SpinNext, SettledWhenIdle, PTL DEF Spec

-------------------------------------------------------------------------------
(* Whose rooms a job holds. What it has to show are rooms that exist. As long *)
(* as its requests were of one account, the room that it adds is a group room *)
(* of that account, and, unless an account left rooms behind, the list that   *)
(* it falls back on is of that account too; while somebody is signed in, all  *)
(* that it will show is theirs.                                               *)
Quiet(x) == x.call \in {"none", "over"}
Shows(x) == x.reply.ok \/ x.call = "cache"

JobFits(x) ==
  /\ x.base \subseteq Ids
  /\ Shows(x) => x.reply.rooms \subseteq Ids
  /\ x.reply.ok /\ x.call # "cache" => x.who \in Account
  /\ x.kind # "load" =>
       /\ x.call \in {"create", "join", "find"} /\ x.first # NoOne => x.who = x.first
       /\ x.call = "create" /\ x.reply.ok => x.reply.rooms \subseteq Groups \cap member[x.who]
       /\ x.call = "join" /\ x.reply.ok => x.room \in Groups \cap member[x.who]
       /\ x.call \in {"list", "get"} =>
            x.room \in Groups /\ (x.first # NoOne => x.room \in member[x.first])
       /\ x.call = "list" /\ x.reply.ok /\ x.who = x.first => x.room \in x.reply.rooms

JobIsMine(x) ==
  ~mixed /\ x.kind # "load" /\ x.first # NoOne =>
    /\ x.base \cap Groups \subseteq member[x.first]
    /\ x.call = "list" /\ x.reply.ok /\ x.who = x.first
         => x.base \cap Groups \subseteq x.reply.rooms

JobIsOurs(x) ==
  ~mixed /\ screen = "rooms" /\ ~Quiet(x) =>
    /\ x.call # "cache" => x.who = token
    /\ x.base \cap Groups \subseteq member[token]
    /\ Shows(x) /\ x.call \in {"cache", "list"} => x.reply.rooms \cap Groups \subseteq member[token]
    /\ x.kind # "load" /\ x.call \in {"list", "get"} => x.room \in member[token]

JobInv(x) == JobFits(x) /\ JobIsMine(x) /\ JobIsOurs(x)
JobsInv   == \A j \in Job : JobInv(job[j])

(* The session, and what was left when nobody is signed in.                   *)
Screens ==
  /\ screen = "leaving" => token = NoOne
  /\ screen = "rooms" => token \in User
  /\ screen = "login" /\ ~mixed => cache = {} /\ \A j \in Job : Quiet(job[j])

RoomsExist == list.shown \subseteq Ids /\ cache \subseteq Ids

(* A handler that is alone shows what it falls back on.                       *)
LoneFits ==
  \A j \in Job : job[j].kind # "load" /\ job[j].lone =>
    /\ list.shown = job[j].base
    /\ \A i \in Job : i # j => Quiet(job[i])

ListInv  == Screens /\ RoomsExist /\ OwnRooms /\ LoneFits
RoomsInv == SpinInv /\ DmRoomIsClosed /\ JobsInv /\ ListInv

-------------------------------------------------------------------------------
LEMMA UsersHaveAccounts == Types => \A a \in Anyone : a # NoOne => a \in User /\ a \in Account
BY UserAssumption DEF Anyone

(* Nothing of this is lost when the table grows, nobody signs in and nobody's *)
(* rooms are left behind; nor does it speak of jobs that wait for nothing.    *)
LEMMA KeptJob ==
  ASSUME Types, Screens, Grows, NEW x, IsJob(x), JobInv(x),
         \/ mixed' \/ Quiet(x)
         \/ mixed' = mixed /\ (screen' # "rooms" \/ (screen' = screen /\ token' = token))
  PROVE  JobInv(x)'
<1>1. Ids \subseteq Ids' /\ Groups \subseteq Groups' /\ Groups' \cap Ids \subseteq Groups
  BY DEF Grows, Groups, Ids
<1>2. /\ x.first # NoOne => x.first \in Account
      /\ screen = "rooms" => token \in Account
      /\ x.kind = "load" \/ ~Quiet(x)
  <2>1. x.first \in Anyone
    BY DEF IsJob, JobRow
  <2> QED BY <2>1, UsersHaveAccounts, UserAssumption DEF Screens, IsJob, Quiet
<1>3. \A a \in Account : member[a] \cap Groups \subseteq member'[a]
  BY DEF Grows
<1>4. JobFits(x)'
  <2>1. JobFits(x)
    BY DEF JobInv
  <2>2. ASSUME x.kind # "load", x.call = "create" \/ x.call = "join", x.reply.ok
        PROVE  x.who \in Account
    BY <2>1, <2>2 DEF JobFits
  <2> QED BY <1>1, <1>2, <1>3, <2>1, <2>2 DEF JobFits
<1>5. JobIsMine(x)'
  <2>1. JobFits(x) /\ JobIsMine(x)
    BY DEF JobInv
  <2> QED BY <1>1, <1>2, <1>3, <2>1 DEF JobFits, JobIsMine
<1>6. JobIsOurs(x)'
  <2>1. JobFits(x) /\ JobIsOurs(x)
    BY DEF JobInv
  <2>2. CASE mixed' \/ Quiet(x) \/ screen' # "rooms"
    BY <2>2 DEF JobIsOurs, Quiet
  <2>3. CASE ~mixed' /\ mixed' = mixed /\ screen' = screen /\ token' = token /\ screen = "rooms"
             /\ ~Quiet(x)
    <3>1. token \in Account /\ x.base \subseteq Ids
          /\ (Shows(x) => x.reply.rooms \subseteq Ids)
          /\ (x.kind # "load" /\ x.call \in {"list", "get"} => x.room \in Groups)
      BY <1>2, <2>1, <2>3 DEF JobFits
    <3>2. /\ x.call # "cache" => x.who = token
          /\ x.base \cap Groups \subseteq member[token]
          /\ Shows(x) /\ x.call \in {"cache", "list"} => x.reply.rooms \cap Groups \subseteq member[token]
          /\ x.kind # "load" /\ x.call \in {"list", "get"} => x.room \in member[token]
      BY <2>1, <2>3 DEF JobIsOurs
    <3>3. /\ x.base \cap Groups' \subseteq member'[token]
          /\ Shows(x) /\ x.call \in {"cache", "list"} => x.reply.rooms \cap Groups' \subseteq member'[token]
          /\ x.kind # "load" /\ x.call \in {"list", "get"} => x.room \in member'[token]
      BY <1>1, <1>3, <3>1, <3>2
    <3> QED BY <2>3, <3>2, <3>3 DEF JobIsOurs, Shows
  <2> QED BY <2>2, <2>3
<1> QED BY <1>4, <1>5, <1>6 DEF JobInv

LEMMA QuietJobs ==
  /\ JobInv(NoJob) /\ JobInv(Over) /\ JobInv(NoJob)' /\ JobInv(Over)'
  /\ Quiet(NoJob) /\ Quiet(Over)
<1>1. /\ NoJob.kind = "load" /\ NoJob.call = "none" /\ NoJob.base = {} /\ ~NoJob.reply.ok
      /\ Over.kind = "load" /\ Over.call = "over" /\ Over.base = {} /\ ~Over.reply.ok
  BY DEF NoJob, Over, Waiting
<1>2. JobInv(NoJob) /\ JobInv(Over)
  BY <1>1 DEF JobInv, JobFits, JobIsMine, JobIsOurs, Quiet, Shows
<1>3. JobInv(NoJob)' /\ JobInv(Over)'
  BY <1>1 DEF JobInv, JobFits, JobIsMine, JobIsOurs, Quiet, Shows
<1> QED BY <1>1, <1>2, <1>3 DEF Quiet

(* From each job to all of them.                                              *)
LEMMA EachJob ==
  ASSUME \A i \in Job : \E x : Same(x, job'[i]) /\ JobInv(x)'
  PROVE  JobsInv'
<1> SUFFICES ASSUME NEW i \in Job PROVE JobInv(job[i])'
  BY DEF JobsInv
<1>1. PICK x : Same(x, job'[i]) /\ JobInv(x)'
  OBVIOUS
<1> QED BY <1>1 DEF Same, JobInv, JobFits, JobIsMine, JobIsOurs, Quiet, Shows

-------------------------------------------------------------------------------
(* The jobs after a step in which one of them, j, goes on or begins.          *)
LEMMA JobsAfter ==
  ASSUME RoomsInv, Grows, NEW j \in Job,
         \/ mixed'
         \/ mixed' = mixed /\ (screen' # "rooms" \/ (screen' = screen /\ token' = token))
         \/ \A i \in Job : i # j => Quiet(job[i]),
         \A i \in Job : i # j => Same(job[i], job'[i]),
         NEW x, x = job'[j], JobInv(x)'
  PROVE  JobsInv'
<1>1. Types /\ Screens /\ JobsInv
  BY DEF RoomsInv, SpinInv, ListInv
<1>2. ASSUME NEW i \in Job, i # j PROVE \E y : Same(y, job'[i]) /\ JobInv(y)'
  <2>1. IsJob(job[i]) /\ JobInv(job[i])
    BY <1>1 DEF Types, JobsInv
  <2>2. PICK y : y = job[i]
    OBVIOUS
  <2>3. JobInv(y)'
    BY <1>1, <1>2, <2>1, <2>2, KeptJob
  <2> QED BY <1>2, <2>2, <2>3
<1>3. Same(x, job'[j])
  BY DEF Same
<1> QED BY <1>2, <1>3, EachJob

LEMMA KeptJobs ==
  ASSUME RoomsInv, Grows, UNCHANGED job,
         \/ mixed'
         \/ mixed' = mixed /\ (screen' # "rooms" \/ (screen' = screen /\ token' = token))
         \/ \A i \in Job : Quiet(job[i])
  PROVE  JobsInv'
<1>1. Types /\ Screens /\ JobsInv
  BY DEF RoomsInv, SpinInv, ListInv
<1>2. ASSUME NEW i \in Job PROVE \E y : Same(y, job'[i]) /\ JobInv(y)'
  <2>1. IsJob(job[i]) /\ JobInv(job[i])
    BY <1>1 DEF Types, JobsInv
  <2>2. PICK y : y = job[i]
    OBVIOUS
  <2>3. JobInv(y)'
    BY <1>1, <2>1, <2>2, KeptJob
  <2>4. y = job'[i]
    BY <2>2
  <2> QED BY <2>3, <2>4 DEF Same
<1> QED BY <1>2, EachJob

LEMMA LoadFits ==
  ASSUME RoomsInv, NEW read \in {cache, {}}, NEW x, x = CacheJob(read),
         UNCHANGED <<tableVars, mixed>>,
         ~mixed' /\ screen' = "rooms" => (screen = "rooms" /\ token' = token) \/ cache = {}
  PROVE  JobInv(x)'
<1>1. read \in SUBSET Nat /\ cache \subseteq Ids
  BY DEF RoomsInv, SpinInv, Types, ListInv, RoomsExist
<1>2. x.kind = "load" /\ x.call = "cache" /\ x.base = {} /\ x.reply.rooms = read
  <2>1. /\ x.kind = "load" /\ x.call = "cache" /\ x.base = {} /\ x.reply = Given(read)
    BY <1>1, LoadIsJob
  <2> QED BY <2>1 DEF Given
<1>3. Ids' = Ids /\ Groups' = Groups /\ member' = member
  BY DEF Ids, Groups, tableVars
<1>4. JobFits(x)'
  BY <1>1, <1>2, <1>3 DEF JobFits
<1>5. JobIsMine(x)'
  BY <1>2 DEF JobIsMine
<1>6. ASSUME ~mixed', screen' = "rooms" PROVE read \cap Groups' \subseteq member'[token']
  <2>1. CASE screen = "rooms" /\ token' = token
    <3>1. cache \cap Groups \subseteq member[token]
      BY <1>6, <2>1 DEF RoomsInv, ListInv, OwnRooms
    <3> QED BY <1>3, <2>1, <3>1
  <2>2. CASE cache = {}
    BY <2>2
  <2> QED BY <1>6, <2>1, <2>2
<1>7. JobIsOurs(x)'
  BY <1>2, <1>6 DEF JobIsOurs
<1> QED BY <1>4, <1>5, <1>7 DEF JobInv

(* What is shown is shown to whom it belongs.                                 *)
LEMMA SubmitFits ==
  ASSUME RoomsInv, NEW x, x.kind # "load", x.call \in {"create", "join", "find"},
         x.base = list.shown, x.reply = Waiting, x.who = token, x.first = token,
         screen \in {"rooms", "leaving"}
  PROVE  JobInv(x)
<1>1. /\ list.shown \subseteq Ids /\ ~x.reply.ok
      /\ token # NoOne => screen = "rooms"
      /\ ~mixed /\ screen = "rooms" => list.shown \cap Groups \subseteq member[token]
  BY DEF RoomsInv, ListInv, RoomsExist, Screens, OwnRooms, Waiting
<1>2. JobFits(x)
  BY <1>1 DEF JobFits, Shows
<1>3. JobIsMine(x)
  BY <1>1 DEF JobIsMine
<1>4. JobIsOurs(x)
  BY <1>1 DEF JobIsOurs, Shows
<1> QED BY <1>2, <1>3, <1>4 DEF JobInv

-------------------------------------------------------------------------------
(* What the server replies to an account are its rooms, as they are after the *)
(* request.                                                                   *)
LEMMA ServedWell ==
  ASSUME TableInv, Types, NEW j \in Job, NEW reply, Served(j, reply),
         NEW a, a = job[j].who, NEW call, call = job[j].call, NEW id, id = job[j].room
  PROVE  /\ TableInv' /\ Grows
         /\ reply.ok =>
              /\ a \in Account /\ reply.rooms \subseteq Ids'
              /\ call = "list" => reply.rooms = member'[a]
              /\ call = "create" => reply.rooms \subseteq Groups' \cap member'[a]
              /\ call = "join" => id \in Groups' \cap member'[a]
<1>0. a \in Anyone /\ job[j].text \in Texted
  BY DEF Types, JobRow
<1>1. CASE a = NoOne
  BY <1>1, TableSame DEF Served, Refused
<1>2. CASE a # NoOne
  <2>1. a \in Account
    BY <1>0, <1>2, UserAssumption DEF Anyone
  <2>2. CASE call = "create" /\ CreateRoom(a, job[j].text, reply)
    BY <1>0, <2>1, <2>2, Created DEF Groups, Ids
  <2>3. CASE call = "join" /\ JoinRoom(a, id, reply)
    BY <2>1, <2>3, Joined DEF Groups, Ids
  <2>4. CASE call = "find" /\ FindRoom(a, job[j].text, reply)
    <3>1. UNCHANGED tableVars /\ (reply.ok => reply.rooms \subseteq Ids)
      BY <2>4 DEF FindRoom, Given, Refused, Named, Ids
    <3> QED BY <2>1, <2>4, <3>1, TableSame DEF Ids, tableVars
  <2>5. CASE call = "list" /\ ListRooms(a, reply)
    <3>1. UNCHANGED tableVars /\ reply.rooms = member[a]
      BY <2>5 DEF ListRooms, Given
    <3>2. member[a] \subseteq Ids
      BY <2>1 DEF TableInv, TableTypes, Ids
    <3> QED BY <2>1, <2>5, <3>1, <3>2, TableSame DEF Ids, tableVars
  <2>6. CASE call = "get" /\ GetRoom(a, id, reply)
    <3>1. UNCHANGED tableVars /\ (reply.ok => reply.rooms = {id} /\ id \in Groups \cup member[a])
      BY <2>6 DEF GetRoom, Given, Refused
    <3>2. Groups \cup member[a] \subseteq Ids
      BY <2>1 DEF TableInv, TableTypes, Ids, Groups
    <3> QED BY <2>1, <2>6, <3>1, <3>2, TableSame DEF Ids, tableVars
  <2> QED BY <1>2, <2>2, <2>3, <2>4, <2>5, <2>6 DEF Served
<1> QED BY <1>1, <1>2

LEMMA ReplyFits ==
  ASSUME NEW w, IsJob(w), JobInv(w)', w.call # "cache", NEW x, NEW reply,
         x.kind = w.kind, x.call = w.call, x.who = w.who, x.base = w.base, x.room = w.room,
         x.first = w.first, x.reply = reply,
         reply.ok =>
           /\ w.who \in Account /\ reply.rooms \subseteq Ids'
           /\ w.call = "list" => reply.rooms = member'[w.who]
           /\ w.call = "create" => reply.rooms \subseteq Groups' \cap member'[w.who]
           /\ w.call = "join" => w.room \in Groups' \cap member'[w.who]
  PROVE  JobInv(x)'
<1>1. JobFits(w)' /\ JobIsMine(w)' /\ JobIsOurs(w)'
  BY DEF JobInv
<1>2. NoOne \notin Account
  BY AccountAssumption
<1>3. JobFits(x)'
  BY <1>1, <1>2 DEF JobFits, Shows
<1>4. JobIsMine(x)'
  BY <1>1 DEF JobIsMine
<1>5. JobIsOurs(x)'
  BY <1>1 DEF JobIsOurs, Shows, Quiet
<1> QED BY <1>3, <1>4, <1>5 DEF JobInv

(* The list is kept, and nobody comes or goes.                                *)
LEMMA ListKept ==
  ASSUME RoomsInv, Grows, UNCHANGED <<token, screen, list, cache, mixed>>,
         NEW j \in Job, \A i \in Job : i # j => Same(job[i], job'[i]) /\ (job'[i].lone => job[i].lone),
         job'[j].kind = job[j].kind, job'[j].base = job[j].base, job'[j].lone => job[j].lone,
         Quiet(job[j]) <=> Quiet(job'[j])
  PROVE  ListInv'
<1>0. Types /\ Screens /\ RoomsExist /\ OwnRooms /\ LoneFits
  BY DEF RoomsInv, SpinInv, ListInv
<1>1. Ids \subseteq Ids' /\ Groups' \cap Ids \subseteq Groups
      /\ \A a \in Account : member[a] \cap Groups \subseteq member'[a]
  BY DEF Grows, Groups, Ids
<1>2. \A i \in Job : /\ job'[i].kind = job[i].kind /\ job'[i].base = job[i].base
                     /\ job'[i].lone => job[i].lone
                     /\ Quiet(job[i]) <=> Quiet(job'[i])
  BY DEF Same, Quiet
<1>3. Screens'
  BY <1>0, <1>2 DEF Screens, Quiet
<1>4. RoomsExist'
  BY <1>0, <1>1 DEF RoomsExist
<1>5. OwnRooms'
  <2>1. screen = "rooms" => token \in Account
    BY <1>0, UserAssumption DEF Screens
  <2> QED BY <1>0, <1>1, <2>1 DEF OwnRooms, RoomsExist
<1>6. LoneFits'
  BY <1>0, <1>2 DEF LoneFits, Quiet
<1> QED BY <1>3, <1>4, <1>5, <1>6 DEF ListInv

LEMMA ReplyKeeps ==
  ASSUME RoomsInv, SpinInv', TableInv', Grows, UNCHANGED <<token, screen, list, cache, mixed>>,
         NEW j \in Job, NEW reply, job' = [job EXCEPT ![j].reply = reply],
         NEW w, w = job[j], w.call # "cache",
         reply.ok =>
           /\ w.who \in Account /\ reply.rooms \subseteq Ids'
           /\ w.call = "list" => reply.rooms = member'[w.who]
           /\ w.call = "create" => reply.rooms \subseteq Groups' \cap member'[w.who]
           /\ w.call = "join" => w.room \in Groups' \cap member'[w.who]
  PROVE  RoomsInv'
<1>1. Types /\ Screens /\ IsJob(w) /\ JobInv(w)
  BY DEF RoomsInv, SpinInv, ListInv, Types, JobsInv, JobInv, JobFits, JobIsMine, JobIsOurs
<1>2. JobInv(w)'
  BY <1>1, KeptJob
<1>3. job[j] \in JobRow /\ job \in [Job -> JobRow]
  BY <1>1 DEF Types
<1>4. /\ \A i \in Job : i # j => job'[i] = job[i]
      /\ job'[j].reply = reply
      /\ job'[j].kind = job[j].kind /\ job'[j].call = job[j].call /\ job'[j].who = job[j].who
      /\ job'[j].base = job[j].base /\ job'[j].room = job[j].room
      /\ job'[j].first = job[j].first /\ job'[j].lone = job[j].lone
  BY <1>3 DEF JobRow
<1>5. PICK x : x = job'[j]
  OBVIOUS
<1>6. JobInv(x)'
  BY <1>1, <1>2, <1>4, <1>5, ReplyFits
<1>7. \A i \in Job : i # j => Same(job[i], job'[i]) /\ (job'[i].lone => job[i].lone)
  BY <1>4 DEF Same
<1>8. JobsInv'
  BY <1>5, <1>6, <1>7, JobsAfter
<1>9. Quiet(job[j]) <=> Quiet(job'[j])
  BY <1>4 DEF Quiet
<1>10. ListInv'
  BY <1>4, <1>7, <1>9, ListKept
<1> QED BY <1>8, <1>10 DEF RoomsInv, TableInv

LEMMA ServeKeeps == ASSUME RoomsInv, NEW j \in Job, Serve(j) PROVE RoomsInv'
<1>1. Types /\ TableInv
  BY DEF RoomsInv, SpinInv, TableInv, Types
<1>2. PICK reply \in {Refused} \cup {Given(ids) : ids \in SUBSET (1..(Len(rooms) + 1))} :
        Served(j, reply) /\ job' = [job EXCEPT ![j].reply = reply]
  BY DEF Serve
<1>3. UNCHANGED <<token, screen, list, cache, mixed>> /\ job[j].call # "cache" /\ SpinInv'
  BY ServeSpins DEF Serve, RoomsInv
<1>4. PICK w : w = job[j]
  OBVIOUS
<1>5. TableInv' /\ Grows /\ (reply.ok =>
           /\ w.who \in Account /\ reply.rooms \subseteq Ids'
           /\ w.call = "list" => reply.rooms = member'[w.who]
           /\ w.call = "create" => reply.rooms \subseteq Groups' \cap member'[w.who]
           /\ w.call = "join" => w.room \in Groups' \cap member'[w.who])
  BY <1>1, <1>2, <1>4, ServedWell
<1> QED BY <1>2, <1>3, <1>4, <1>5, ReplyKeeps

LEMMA FailKeeps == ASSUME RoomsInv, NEW j \in Job, Fail(j) PROVE RoomsInv'
<1>1. TableInv /\ job' = [job EXCEPT ![j].reply = Refused] /\ ~Refused.ok
  BY DEF Fail, Refused, RoomsInv, SpinInv, Types, TableInv
<1>2. /\ UNCHANGED <<token, screen, list, cache, mixed>> /\ job[j].call # "cache" /\ SpinInv'
      /\ TableInv' /\ Grows
  BY <1>1, FailSpins, TableSame DEF Fail, RoomsInv
<1>3. PICK w : w = job[j]
  OBVIOUS
<1> QED BY <1>1, <1>2, <1>3, ReplyKeeps

-------------------------------------------------------------------------------
(* A handler begins.                                                          *)
LEMMA LoadKeeps ==
  ASSUME RoomsInv, SpinInv', NEW j \in Job, StartLoad(j), UNCHANGED <<tableVars, cache, mixed>>,
         \/ screen = "rooms" /\ UNCHANGED <<screen, token>>
         \/ screen = "leaving" /\ UNCHANGED <<screen, token>>
         \/ screen = "login" /\ screen' = "rooms" /\ token' \in User
  PROVE  RoomsInv'
<1>1. Types /\ TableInv /\ Screens
  BY DEF RoomsInv, SpinInv, TableInv, Types, ListInv
<1>2. TableInv' /\ Grows
  BY <1>1, TableSame
<1>3. PICK read \in {cache, {}} : job'[j] = CacheJob(read)
  BY <1>1, LoadBegins
<1>4. PICK x : x = job'[j]
  OBVIOUS
<1>5. ~mixed' /\ screen' = "rooms" => (screen = "rooms" /\ token' = token) \/ cache = {}
  BY <1>1 DEF Screens
<1>6. JobInv(x)'
  BY <1>3, <1>4, <1>5, LoadFits
<1>7. /\ list' = Loading
      /\ \A i \in Job : i # j => /\ Same(job[i], job'[i])
                                 /\ job'[i].lone => job[i].lone /\ (Runs(i) => job[i].kind = "load")
  BY <1>1, LoadBegins
<1>8. JobsInv'
  <2>1. \/ mixed'
        \/ mixed' = mixed /\ (screen' # "rooms" \/ (screen' = screen /\ token' = token))
        \/ \A i \in Job : i # j => Quiet(job[i])
    BY <1>1 DEF Screens
  <2> QED BY <1>2, <1>4, <1>6, <1>7, <2>1, JobsAfter
<1>9. ListInv'
  <2>1. Screens'
    BY <1>1 DEF Screens
  <2>2. list'.shown = {}
    BY <1>7, ListRows
  <2>3. RoomsExist'
    BY <2>2 DEF RoomsInv, ListInv, RoomsExist, Ids, tableVars
  <2>4. OwnRooms'
    BY <1>1, <2>2 DEF RoomsInv, ListInv, OwnRooms, Screens, Groups, tableVars
  <2>5. LoneFits'
    <3>1. job'[j].kind = "load"
      BY <1>1, <1>3, LoadIsJob DEF Types
    <3>2. ASSUME NEW i \in Job, i # j, job'[i].kind # "load", job'[i].lone PROVE FALSE
      <4>1. job[i].kind # "load" /\ ~Runs(i)
        BY <1>7, <3>2 DEF Same
      <4>2. IsJob(job[i])
        BY <1>1 DEF Types
      <4> QED BY <4>1, <4>2 DEF Runs, IsJob
    <3> QED BY <3>1, <3>2 DEF LoneFits
  <2> QED BY <2>1, <2>3, <2>4, <2>5 DEF ListInv
<1> QED BY <1>2, <1>8, <1>9 DEF RoomsInv, TableInv

LEMMA SubmitKeeps == ASSUME RoomsInv, NEW j \in Job, Submit(j) PROVE RoomsInv'
<1>1. /\ Types /\ TableInv /\ Screens /\ SpinInv'
      /\ UNCHANGED <<tableVars, token, screen, cache, mixed>> /\ screen \in {"rooms", "leaving"}
  BY SubmitSpins DEF RoomsInv, SpinInv, TableInv, Types, ListInv, Submit
<1>2. TableInv' /\ Grows
  BY <1>1, TableSame
<1>3. PICK x : x = job'[j]
  OBVIOUS
<1>4. /\ list' = Submitting(list.shown) /\ list.shown \in SUBSET Nat
      /\ \A i \in Job : i # j => /\ Same(job[i], job'[i])
                                 /\ job'[i].lone => job[i].lone /\ (Runs(i) => job[i].kind = "load")
      /\ job'[j].kind # "load" /\ job'[j].call \in {"create", "join", "find"}
      /\ job'[j].base = list.shown /\ job'[j].reply = Waiting
      /\ job'[j].who = token /\ job'[j].first = token
      /\ job'[j].lone => \A i \in Job : ~Runs(i)
  BY <1>1, SubmitBegins DEF Types, ListRow
<1>5. JobInv(x)'
  <2>1. JobInv(x)
    BY <1>1, <1>3, <1>4, SubmitFits
  <2> QED BY <1>1, <2>1 DEF JobInv, JobFits, JobIsMine, JobIsOurs, Groups, Ids, tableVars
<1>6. JobsInv'
  BY <1>1, <1>2, <1>3, <1>4, <1>5, JobsAfter
<1>7. ListInv'
  <2>1. Screens'
    BY <1>1 DEF Screens
  <2>2. list'.shown = list.shown
    BY <1>4, ListRows
  <2>3. RoomsExist'
    BY <1>1, <2>2 DEF RoomsInv, ListInv, RoomsExist, Ids, tableVars
  <2>4. OwnRooms'
    BY <1>1, <2>2 DEF RoomsInv, ListInv, OwnRooms, Groups, tableVars
  <2>5. LoneFits'
    <3>1. ASSUME NEW i \in Job, i # j, job'[i].kind # "load", job'[i].lone PROVE FALSE
      <4>1. job[i].kind # "load" /\ ~Runs(i)
        BY <1>4, <3>1 DEF Same
      <4>2. IsJob(job[i])
        BY <1>1 DEF Types
      <4> QED BY <4>1, <4>2 DEF Runs, IsJob
    <3>2. job'[j].lone => \A i \in Job : i # j => Quiet(job'[i])
      BY <1>4 DEF Same, Runs, Quiet
    <3> QED BY <1>4, <2>2, <3>1, <3>2 DEF LoneFits
  <2> QED BY <2>1, <2>3, <2>4, <2>5 DEF ListInv
<1> QED BY <1>1, <1>2, <1>6, <1>7 DEF RoomsInv, TableInv

-------------------------------------------------------------------------------
(* A handler goes on.                                                         *)
LEMMA GoesOn ==
  ASSUME RoomsInv, SpinInv', UNCHANGED <<tableVars, token, screen, mixed>>,
         NEW j \in Job, ~Quiet(job[j]), \A i \in Job : i # j => job'[i] = job[i],
         NEW x, x = job'[j], JobInv(x),
         list'.shown \subseteq Ids, cache' \subseteq Ids,
         screen = "rooms" /\ ~mixed => (list'.shown \cup cache') \cap Groups \subseteq member[token],
         x.kind # "load" /\ x.lone =>
           job[j].kind # "load" /\ job[j].lone /\ list'.shown = x.base
  PROVE  RoomsInv'
<1>0. TableInv /\ Screens /\ LoneFits
  BY DEF RoomsInv, SpinInv, Types, TableInv, ListInv
<1>1. TableInv' /\ Grows
  BY <1>0, TableSame
<1>2. JobInv(x)'
  BY DEF JobInv, JobFits, JobIsMine, JobIsOurs, Groups, Ids, tableVars
<1>3. JobsInv'
  BY <1>1, <1>2, JobsAfter DEF Same
<1>4. Screens'
  BY <1>0 DEF Screens
<1>5. RoomsExist' /\ OwnRooms'
  BY DEF RoomsExist, OwnRooms, Ids, Groups, tableVars
<1>6. LoneFits'
  BY <1>0 DEF LoneFits
<1> QED BY <1>1, <1>3, <1>4, <1>5, <1>6 DEF RoomsInv, TableInv, ListInv

(* What it needs of itself and of the list.                                   *)
LEMMA BeforeGoingOn ==
  ASSUME RoomsInv, NEW j \in Job, NEW w, w = job[j]
  PROVE  /\ Types /\ IsJob(w) /\ JobFits(w) /\ JobIsMine(w) /\ JobIsOurs(w)
         /\ list.shown \subseteq Ids /\ cache \subseteq Ids
         /\ screen = "rooms" /\ ~mixed => (list.shown \cup cache) \cap Groups \subseteq member[token]
         /\ w.kind # "load" /\ w.lone => list.shown = w.base
         /\ Ids \subseteq Nat
<1>1. Types /\ IsJob(w) /\ JobInv(job[j]) /\ RoomsExist /\ OwnRooms /\ LoneFits
  BY DEF RoomsInv, SpinInv, Types, ListInv, JobsInv
<1>2. JobFits(w) /\ JobIsMine(w) /\ JobIsOurs(w)
  BY <1>1 DEF JobInv, JobFits, JobIsMine, JobIsOurs
<1>3. Ids \subseteq Nat
  BY <1>1, IdsAreNumbers DEF Types
<1> QED BY <1>1, <1>2, <1>3 DEF RoomsExist, OwnRooms, LoneFits

LEMMA ReturnKeeps ==
  ASSUME RoomsInv, SpinInv', UNCHANGED <<tableVars, token, screen, mixed>>,
         NEW j \in Job, ~Quiet(job[j]), Return(j),
         list'.shown \subseteq Ids, cache' \subseteq Ids,
         screen = "rooms" /\ ~mixed => (list'.shown \cup cache') \cap Groups \subseteq member[token]
  PROVE  RoomsInv'
<1>1. /\ \A i \in Job : i # j => job'[i] = job[i]
      /\ job'[j] = Over /\ Over.kind = "load"
  BY Returns DEF RoomsInv, SpinInv, Over, NoJob
<1> QED BY <1>1, QuietJobs, GoesOn

LEMMA CacheReadKeeps ==
  ASSUME RoomsInv, SpinInv', UNCHANGED <<tableVars, token, screen, mixed>>,
         NEW j \in Job, CacheRead(j)
  PROVE  RoomsInv'
<1>1. PICK w : w = job[j]
  OBVIOUS
<1>2. PICK x : x = job'[j]
  OBVIOUS
<1>3. /\ Types /\ JobFits(w) /\ JobIsOurs(w) /\ Ids \subseteq Nat
      /\ list.shown \subseteq Ids /\ cache \subseteq Ids
      /\ screen = "rooms" /\ ~mixed => (list.shown \cup cache) \cap Groups \subseteq member[token]
  BY <1>1, BeforeGoingOn
<1>4. /\ \A i \in Job : i # j => job'[i] = job[i]
      /\ w.call = "cache"
      /\ x.kind = "load" /\ x.call = "list" /\ x.base = w.reply.rooms
      /\ x.who = token /\ x.reply = Waiting
      /\ UNCHANGED list \/ list' = Loaded(w.reply.rooms)
  BY <1>1, <1>2, <1>3, ReadsCache DEF Got
<1>5. UNCHANGED cache
  BY DEF CacheRead
<1>6. /\ w.reply.rooms \subseteq Ids
      /\ ~mixed /\ screen = "rooms" => w.reply.rooms \cap Groups \subseteq member[token]
  BY <1>3, <1>4 DEF JobFits, JobIsOurs, Shows, Quiet
<1>7. JobInv(x)
  <2>1. ~x.reply.ok
    BY <1>4 DEF Waiting
  <2>2. JobFits(x) /\ JobIsMine(x)
    BY <1>4, <1>6, <2>1 DEF JobFits, JobIsMine, Shows
  <2>3. JobIsOurs(x)
    BY <1>4, <1>6, <2>1 DEF JobIsOurs, Shows
  <2> QED BY <2>2, <2>3 DEF JobInv
<1>8. list'.shown = list.shown \/ list'.shown = w.reply.rooms
  BY <1>3, <1>4, <1>6, ListRows
<1>9. ~Quiet(job[j])
  BY <1>1, <1>4 DEF Quiet
<1> QED BY <1>2, <1>3, <1>4, <1>5, <1>6, <1>7, <1>8, <1>9, GoesOn

LEMMA LoadAnsweredKeeps ==
  ASSUME RoomsInv, SpinInv', UNCHANGED <<tableVars, token, screen, mixed>>,
         NEW j \in Job, LoadAnswered(j)
  PROVE  RoomsInv'
<1>1. PICK w : w = job[j]
  OBVIOUS
<1>3. /\ JobFits(w) /\ JobIsOurs(w) /\ Ids \subseteq Nat
      /\ list.shown \subseteq Ids /\ cache \subseteq Ids
      /\ screen = "rooms" /\ ~mixed => (list.shown \cup cache) \cap Groups \subseteq member[token]
  BY <1>1, BeforeGoingOn
<1>4. /\ Return(j) /\ w.call = "list"
      /\ \/ w.reply.ok /\ list' = Loaded(w.reply.rooms) /\ cache' = cache \cup w.reply.rooms
         \/ UNCHANGED <<list, cache>>
         \/ list' = LoadFailed /\ UNCHANGED cache
  BY <1>1 DEF LoadAnswered, Answered, Emit, Ok, Got
<1>5. w.reply.ok => /\ w.reply.rooms \subseteq Ids
                    /\ ~mixed /\ screen = "rooms" => w.reply.rooms \cap Groups \subseteq member[token]
  BY <1>3, <1>4 DEF JobFits, JobIsOurs, Shows, Quiet
<1>6. ~Quiet(job[j])
  BY <1>1, <1>4 DEF Quiet
<1>7. CASE w.reply.ok /\ list' = Loaded(w.reply.rooms) /\ cache' = cache \cup w.reply.rooms
  <2>1. list'.shown = w.reply.rooms
    BY <1>3, <1>5, <1>7, ListRows
  <2> QED BY <1>3, <1>4, <1>5, <1>6, <1>7, <2>1, ReturnKeeps
<1>8. CASE UNCHANGED <<list, cache>>
  BY <1>3, <1>4, <1>6, <1>8, ReturnKeeps
<1>9. CASE list' = LoadFailed /\ UNCHANGED cache
  <2>1. list'.shown = {}
    BY <1>9, ListRows
  <2> QED BY <1>3, <1>4, <1>6, <1>9, <2>1, ReturnKeeps
<1> QED BY <1>4, <1>7, <1>8, <1>9

(* The end of a create or a join: the list it falls back on, with or without  *)
(* the room, or a fresh one.                                                  *)
LEMMA SubmitEndKeeps ==
  ASSUME RoomsInv, SpinInv', UNCHANGED <<tableVars, token, screen, mixed, cache>>,
         NEW j \in Job, NEW w, w = job[j], ~Quiet(w), Return(j), w.call # "cache",
         \/ list'.shown = w.base
         \/ w.kind # "load" /\ w.call \in {"list", "get"} /\ list'.shown = w.base \cup {w.room}
         \/ w.call = "list" /\ w.reply.ok /\ list'.shown = w.reply.rooms
  PROVE  RoomsInv'
<1>1. /\ JobFits(w) /\ JobIsOurs(w) /\ cache \subseteq Ids
      /\ screen = "rooms" /\ ~mixed => cache \cap Groups \subseteq member[token]
  BY BeforeGoingOn
<1>2. list'.shown \subseteq Ids
  BY <1>1 DEF JobFits, Shows, Groups, Ids
<1>3. screen = "rooms" /\ ~mixed => list'.shown \cap Groups \subseteq member[token]
  BY <1>1 DEF JobIsOurs, Shows
<1> QED BY <1>1, <1>2, <1>3, ReturnKeeps

LEMMA NextCallKeeps ==
  ASSUME RoomsInv, SpinInv', UNCHANGED <<tableVars, token, screen, mixed, cache, list>>,
         NEW j \in Job, NEW w, w = job[j], w.kind # "load",
         NEW call \in {"list", "join", "get"}, NEW room \in Nat, Await(j, call, room),
         \/ w.call = "create" /\ w.reply.ok /\ call = "list" /\ room \in w.reply.rooms
         \/ w.call = "find" /\ w.reply.ok /\ call = "join" /\ room \in w.reply.rooms
         \/ w.call = "join" /\ w.reply.ok /\ call = "list" /\ room = w.room
         \/ w.call = "list" /\ call = "get" /\ room = w.room
  PROVE  RoomsInv'
<1>1. /\ Types /\ IsJob(w) /\ JobFits(w) /\ JobIsMine(w) /\ JobIsOurs(w)
      /\ list.shown \subseteq Ids /\ cache \subseteq Ids
      /\ screen = "rooms" /\ ~mixed => (list.shown \cup cache) \cap Groups \subseteq member[token]
      /\ w.kind # "load" /\ w.lone => list.shown = w.base
  BY BeforeGoingOn
<1>2. PICK x : x = job'[j]
  OBVIOUS
<1>3. /\ \A i \in Job : i # j => job'[i] = job[i]
      /\ x.call = call /\ x.room = room /\ x.who = token /\ ~x.reply.ok
      /\ x.first = IF w.first = token THEN token ELSE NoOne
      /\ x.kind = w.kind /\ x.base = w.base /\ x.lone = w.lone
  BY <1>1, <1>2, NextCall DEF Waiting
<1>4. x.first # NoOne => x.first = token /\ w.first = token
  BY <1>3
<1>5. w.call \in {"create", "join"} /\ w.reply.ok /\ w.first # NoOne => w.who = w.first
  BY <1>1 DEF JobFits
<1>6. call \in {"list", "get"} => room \in Groups /\ (x.first # NoOne => room \in member[x.first])
  BY <1>1, <1>4, <1>5 DEF JobFits
<1>7. JobFits(x)
  BY <1>1, <1>3, <1>4, <1>6 DEF JobFits, Shows
<1>8. JobIsMine(x)
  BY <1>1, <1>3, <1>4 DEF JobIsMine
<1>9. JobIsOurs(x)
  <2>1. ~mixed /\ screen = "rooms" =>
          w.who = token /\ w.base \cap Groups \subseteq member[token]
    BY <1>1 DEF JobIsOurs, Quiet, IsJob
  <2>2. ~mixed /\ screen = "rooms" /\ call \in {"list", "get"} => room \in member[token]
    BY <1>1, <2>1 DEF JobFits, JobIsOurs, Quiet
  <2> QED BY <1>3, <2>1, <2>2 DEF JobIsOurs, Shows
<1>10. ~Quiet(job[j])
  BY <1>1 DEF IsJob, Quiet
<1> QED BY <1>1, <1>2, <1>3, <1>7, <1>8, <1>9, <1>10, GoesOn DEF JobInv

LEMMA ResumeKeeps == ASSUME RoomsInv, NEW j \in Job, Resume(j) PROVE RoomsInv'
<1>1. PICK w : w = job[j]
  OBVIOUS
<1>2. /\ SpinInv' /\ UNCHANGED <<tableVars, token, screen, mixed>>
      /\ Types /\ IsJob(w) /\ Got(j) = w.reply.rooms /\ Ok(j) = w.reply.ok
      /\ w.base \in SUBSET Nat /\ w.room \in Nat /\ w.reply.rooms \in SUBSET Nat
  <2>1. SpinInv' /\ UNCHANGED <<tableVars, token, screen, mixed>>
    BY ResumeSpins DEF RoomsInv, Resume
  <2>2. Types /\ IsJob(w)
    BY <1>1, BeforeGoingOn
  <2> QED BY <1>1, <2>1, <2>2, GotTyped DEF Got, Ok
<1>3. CASE CacheRead(j) \/ LoadAnswered(j)
  BY <1>2, <1>3, CacheReadKeeps, LoadAnsweredKeeps
<1>4. CASE Refusal(j)
  <2>1. /\ Return(j) /\ UNCHANGED cache /\ list' = Failed(w.base)
        /\ w.call \in {"create", "find", "join", "get"}
    BY <1>1, <1>4 DEF Refusal, Emit, Answered
  <2>2. list'.shown = w.base /\ ~Quiet(w)
    BY <1>2, <2>1, ListRows DEF Quiet
  <2> QED BY <1>1, <1>2, <2>1, <2>2, SubmitEndKeeps
<1>5. CASE Accepted(j)
  <2>1. /\ UNCHANGED <<list, cache>> /\ w.kind # "load" /\ w.reply.ok
        /\ \E call \in {"list", "join"}, room \in Nat :
              /\ Await(j, call, room)
              /\ \/ w.call = "create" /\ call = "list" /\ room \in w.reply.rooms
                 \/ w.call = "find" /\ call = "join" /\ room \in w.reply.rooms
                 \/ w.call = "join" /\ call = "list" /\ room = w.room
    BY <1>1, <1>2, <1>5, AcceptedCalls
  <2> QED BY <1>1, <1>2, <2>1, NextCallKeeps
<1>6. CASE Refreshed(j)
  <2>1. w.kind # "load" /\ w.call = "list" /\ UNCHANGED cache /\ ~Quiet(w)
    BY <1>1, <1>6 DEF Refreshed, Answered, Quiet
  <2>2. CASE Await(j, "get", w.room) /\ UNCHANGED list
    BY <1>1, <1>2, <2>1, <2>2, NextCallKeeps
  <2>3. CASE /\ Return(j)
             /\ \/ w.reply.ok /\ list' = Loaded(w.reply.rooms)
                \/ list' = Loaded(w.base \cup {w.room})
    <3>1. \/ w.reply.ok /\ list'.shown = w.reply.rooms
          \/ list'.shown = w.base \cup {w.room}
      BY <1>2, <2>3, ListRows
    <3> QED BY <1>1, <1>2, <2>1, <2>3, <3>1, SubmitEndKeeps
  <2> QED BY <1>1, <1>2, <1>6, <2>2, <2>3 DEF Refreshed, Emit
<1>7. CASE Fetched(j)
  <2>1. /\ w.call = "get" /\ Return(j) /\ UNCHANGED cache
        /\ list' = Loaded(w.base \cup {w.room})
    BY <1>1, <1>7 DEF Fetched, Answered, Emit
  <2>2. list'.shown = w.base \cup {w.room} /\ ~Quiet(w) /\ w.kind # "load"
    BY <1>2, <2>1, ListRows DEF Quiet, IsJob
  <2> QED BY <1>1, <1>2, <2>1, <2>2, SubmitEndKeeps
<1> QED BY <1>3, <1>4, <1>5, <1>6, <1>7 DEF Resume

-------------------------------------------------------------------------------
(* The session begins and ends.                                               *)
LEMMA LogoutKeeps == ASSUME RoomsInv, SpinInv', Logout PROVE RoomsInv'
<1>1. /\ Types /\ TableInv /\ Screens /\ JobsInv /\ RoomsExist /\ LoneFits
      /\ UNCHANGED <<tableVars, list, cache, job, mixed>> /\ screen' = "leaving" /\ token' = NoOne
  BY DEF RoomsInv, SpinInv, Types, TableInv, ListInv, Logout
<1>2. TableInv' /\ Grows
  BY <1>1, TableSame
<1>3. JobsInv'
  <2>1. UNCHANGED job /\ screen' # "rooms"
    BY <1>1
  <2>2. mixed' = mixed
    BY <1>1
  <2> QED BY <1>2, <2>1, <2>2, KeptJobs
<1>4. ListInv'
  BY <1>1 DEF ListInv, Screens, RoomsExist, OwnRooms, LoneFits, Ids, tableVars
<1> QED BY <1>2, <1>3, <1>4 DEF RoomsInv, TableInv

LEMMA ClearCachesKeeps == ASSUME RoomsInv, SpinInv', ClearCaches PROVE RoomsInv'
<1>1. /\ Types /\ TableInv /\ Screens /\ JobsInv /\ RoomsExist /\ LoneFits
      /\ UNCHANGED <<tableVars, list, job>> /\ screen' = "login" /\ token' = token /\ cache' = {}
      /\ ~mixed' => \A j \in Job : Quiet(job[j])
  BY DEF RoomsInv, SpinInv, Types, TableInv, ListInv, ClearCaches, Runs, Quiet
<1>2. TableInv' /\ Grows
  BY <1>1, TableSame
<1>3. JobsInv'
  BY <1>1, <1>2, KeptJobs
<1>4. ListInv'
  BY <1>1 DEF ListInv, Screens, RoomsExist, OwnRooms, LoneFits, Ids, tableVars
<1> QED BY <1>2, <1>3, <1>4 DEF RoomsInv, TableInv

LEMMA RestartKeeps == ASSUME RoomsInv, NEW j \in Job, Restart(j) PROVE RoomsInv'
<1>1. /\ Types /\ TableInv /\ Screens /\ RoomsExist /\ OwnRooms /\ SpinInv'
      /\ NoOne \notin User /\ token \in Anyone
  BY RestartSpins, AccountAssumption, UserAssumption
     DEF RoomsInv, SpinInv, Types, TableInv, ListInv
<1>2. UNCHANGED <<tableVars, cache>> /\ \A i \in Job : i # j => job'[i] = Ended(i)
  BY <1>1, RestartJobs
<1>3. TableInv' /\ Grows
  BY <1>1, <1>2, TableSame
<1>4. \A i \in Job : Ended(i) \in {NoJob, Over} /\ Quiet(Ended(i)) /\ Ended(i).kind = "load"
  BY <1>1, JobsEnd DEF Ended, Quiet
<1>5. CASE /\ token # NoOne /\ screen' = "rooms" /\ list' = Loading
           /\ \E read \in {cache, {}} : job'[j] = CacheJob(read)
           /\ UNCHANGED <<token, mixed>>
  <2>1. PICK x : x = job'[j]
    OBVIOUS
  <2>2. ~mixed' => screen = "rooms" \/ cache = {}
    BY <1>1, <1>5 DEF Screens, Types
  <2>3. JobInv(x)'
    <3>1. PICK read \in {cache, {}} : x = CacheJob(read)
      BY <1>5, <2>1
    <3>2. ~mixed' /\ screen' = "rooms" => (screen = "rooms" /\ token' = token) \/ cache = {}
      BY <1>5, <2>2
    <3> QED BY <1>2, <1>5, <3>1, <3>2, LoadFits
  <2>4. ASSUME NEW i \in Job PROVE \E y : Same(y, job'[i]) /\ JobInv(y)'
    BY <1>2, <1>4, <2>1, <2>3, QuietJobs DEF Same
  <2>5. JobsInv'
    BY <2>4, EachJob
  <2>6. list'.shown = {} /\ token \in User
    BY <1>1, <1>5, ListRows DEF Anyone
  <2>7. RoomsExist' /\ Screens'
    BY <1>1, <1>2, <1>5, <2>6 DEF RoomsExist, Screens, Ids, tableVars
  <2>8. OwnRooms'
    BY <1>1, <1>2, <1>5, <2>2, <2>6 DEF OwnRooms, Groups, tableVars
  <2>9. LoneFits'
    <3>1. job'[j].kind = "load"
      BY <1>1, <1>5, LoadIsJob DEF Types
    <3> QED BY <1>2, <1>4, <3>1 DEF LoneFits
  <2> QED BY <1>1, <1>3, <2>5, <2>7, <2>8, <2>9 DEF RoomsInv, TableInv, ListInv
<1>6. CASE /\ screen' = "login" /\ list' = [Loading EXCEPT !.phase = "initial"]
           /\ job'[j] = Ended(j)
           /\ mixed' = (mixed \/ cache # {})
  <2>1. \A i \in Job : job'[i] = Ended(i)
    BY <1>2, <1>6
  <2>2. ASSUME NEW i \in Job PROVE \E y : Same(y, job'[i]) /\ JobInv(y)'
    BY <1>4, <2>1, QuietJobs DEF Same
  <2>3. JobsInv'
    BY <2>2, EachJob
  <2>4. list'.shown = {}
    BY <1>6 DEF Loading
  <2>5. ~mixed' => cache = {}
    BY <1>6
  <2>6. Screens' /\ OwnRooms'
    BY <1>2, <1>4, <1>6, <2>1, <2>5 DEF Screens, OwnRooms
  <2>7. RoomsExist'
    BY <1>1, <1>2, <2>4 DEF RoomsExist, Ids, tableVars
  <2>8. LoneFits'
    BY <1>4, <2>1 DEF LoneFits
  <2> QED BY <1>1, <1>3, <2>3, <2>6, <2>7, <2>8 DEF RoomsInv, TableInv, ListInv
<1> QED BY <1>1, <1>5, <1>6, RestartJobs

(* Other devices only make the table grow.                                    *)
LEMMA OtherGrows == ASSUME TableInv, Other PROVE TableInv' /\ Grows
<1>1. ASSUME NEW a \in Peer, NEW text \in Typed, CreateRoom(a, text, Given({Len(rooms) + 1}))
      PROVE  TableInv' /\ Grows
  <2>1. a \in Account /\ text \in Texted
    BY UserAssumption DEF Texted
  <2> QED BY <1>1, <2>1, Created
<1>2. ASSUME NEW a \in Peer, NEW id \in TypedId, JoinRoom(a, id, Given({id}))
      PROVE  TableInv' /\ Grows
  <2>1. a \in Account
    BY UserAssumption
  <2> QED BY <1>2, <2>1, Joined
<1> QED BY <1>1, <1>2, Befriended, Parted DEF Other

LEMMA OtherKeeps ==
  ASSUME RoomsInv, SpinInv', TableInv', Grows, UNCHANGED clientVars PROVE RoomsInv'
<1>1. /\ Types /\ Screens /\ RoomsExist /\ OwnRooms /\ LoneFits /\ JobsInv
      /\ UNCHANGED <<token, screen, list, cache, job, mixed>>
  BY DEF RoomsInv, SpinInv, Types, ListInv, clientVars
<1>2. JobsInv'
  BY <1>1, KeptJobs
<1>3. Ids \subseteq Ids' /\ Groups' \cap Ids \subseteq Groups
      /\ \A a \in Account : member[a] \cap Groups \subseteq member'[a]
  BY DEF Grows, Groups, Ids
<1>4. RoomsExist' /\ Screens' /\ LoneFits'
  BY <1>1, <1>3 DEF RoomsExist, Screens, LoneFits
<1>5. OwnRooms'
  <2>1. screen = "rooms" => token \in Account
    BY <1>1, UserAssumption DEF Screens
  <2> QED BY <1>1, <1>3, <2>1 DEF OwnRooms, RoomsExist
<1> QED BY <1>2, <1>4, <1>5 DEF RoomsInv, TableInv, ListInv

-------------------------------------------------------------------------------
LEMMA RoomsInit == Init => RoomsInv
<1> SUFFICES ASSUME Init PROVE RoomsInv
  OBVIOUS
<1>1. SpinInv /\ DmRoomIsClosed
  BY SpinInit, TableInitial DEF Init, TableInv
<1>2. /\ \A j \in Job : job[j] = NoJob
      /\ list.shown = {} /\ cache = {} /\ screen = "login" /\ token = NoOne
  BY DEF Init
<1>3. JobsInv
  BY <1>2, QuietJobs DEF JobsInv
<1>4. Screens /\ RoomsExist /\ OwnRooms
  BY <1>2, QuietJobs DEF Screens, RoomsExist, OwnRooms
<1>5. LoneFits
  BY <1>2 DEF LoneFits, NoJob
<1> QED BY <1>1, <1>3, <1>4, <1>5 DEF RoomsInv, ListInv

LEMMA RoomsNext == RoomsInv /\ [Next]_vars => RoomsInv'
<1> SUFFICES ASSUME RoomsInv, [Next]_vars PROVE RoomsInv'
  OBVIOUS
<1>1. SpinInv' /\ TableInv /\ SpinInv
  BY SpinNext DEF RoomsInv, SpinInv, Types, TableInv
<1>2. CASE UNCHANGED vars
  <2>1. UNCHANGED tableVars /\ UNCHANGED clientVars
    BY <1>2 DEF vars
  <2> QED BY <1>1, <2>1, TableSame, OtherKeeps
<1>3. CASE Other
  <2>1. UNCHANGED clientVars
    BY <1>3 DEF Other
  <2> QED BY <1>1, <1>3, <2>1, OtherGrows, OtherKeeps
<1>4. ASSUME NEW j \in Job, RetryLoad(j) \/ OpenPane(j) PROVE RoomsInv'
  BY <1>1, <1>4, LoadKeeps DEF RetryLoad, OpenPane
<1>5. ASSUME NEW j \in Job, Login(j) PROVE RoomsInv'
  BY <1>1, <1>5, LoadKeeps DEF Login
<1> QED BY <1>1, <1>2, <1>3, <1>4, <1>5, SubmitKeeps, ServeKeeps, FailKeeps, ResumeKeeps,
           LogoutKeeps, ClearCachesKeeps, RestartKeeps DEF Next

LEMMA RoomsAlways == Spec => []RoomsInv
BY RoomsInit, RoomsNext, PTL DEF Spec

(* The pair's DM has one room, that nobody else is a member of, whatever is   *)
(* created, joined and renamed.                                               *)
THEOREM DmStaysClosed == Spec => []DmRoomIsClosed
<1>1. RoomsInv => DmRoomIsClosed
  BY DEF RoomsInv
<1> QED BY <1>1, RoomsAlways, PTL

(* The list and the cache of an account that is signed in hold its rooms.     *)
THEOREM RoomsAreOwn == Spec => []OwnRooms
<1>1. RoomsInv => OwnRooms
  BY DEF RoomsInv, ListInv
<1> QED BY <1>1, RoomsAlways, PTL

(* The old rooms keep the names that the migration gave them, and no other    *)
(* room gets one of these.                                                    *)
OldNames ==
  \A i \in DOMAIN Legacy : i \in Ids /\ rooms[i].name = NewNames[i]

LEMMA TableGrows == RoomsInv /\ [Next]_vars => Grows
<1> SUFFICES ASSUME RoomsInv, [Next]_vars PROVE Grows
  OBVIOUS
<1>1. TableInv /\ Types
  BY DEF RoomsInv, SpinInv, Types, TableInv
<1>2. CASE UNCHANGED tableVars
  BY <1>1, <1>2, TableSame
<1>3. CASE Other
  BY <1>1, <1>3, OtherGrows
<1>4. ASSUME NEW j \in Job, Serve(j) PROVE Grows
  <2>1. PICK reply : Served(j, reply)
    BY <1>4 DEF Serve
  <2> QED BY <1>1, <2>1, ServedWell
<1>5. ASSUME NEW j \in Job, RetryLoad(j) \/ OpenPane(j) \/ Submit(j) \/ Fail(j) \/ Resume(j)
                            \/ Login(j) \/ Restart(j)
      PROVE  UNCHANGED tableVars
  BY <1>5 DEF RetryLoad, OpenPane, Submit, Fail, Resume, Login, Restart
<1>6. ASSUME Logout \/ ClearCaches \/ UNCHANGED vars PROVE UNCHANGED tableVars
  BY <1>6 DEF Logout, ClearCaches, vars
<1> QED BY <1>2, <1>3, <1>4, <1>5, <1>6 DEF Next

(* The planner is sound, and its renames hold for good.                       *)
THEOREM RenamesHold == Spec => []NamesAreSound
<1>1. Init => OldNames
  <2>1. DOMAIN Legacy = 1..Len(Legacy) /\ Len(Legacy) \in Nat
    BY LegacyAssumption
  <2> QED BY <2>1 DEF Init, TableInit, OldNames, Ids
<1>2. RoomsInv /\ OldNames /\ [Next]_vars => OldNames'
  BY TableGrows DEF OldNames, Grows
<1>3. RoomsInv /\ OldNames => NamesAreSound
  BY SmallPlansAreSound DEF NamesAreSound, OldNames, RoomsInv, DmRoomIsClosed, Named, Ids
<1> QED BY <1>1, <1>2, <1>3, RoomsAlways, PTL DEF Spec

-------------------------------------------------------------------------------
(* A handler returns only when it goes on itself.                             *)
LEMMA EndsAlone ==
  ASSUME RoomsInv, [Next]_vars, NEW j \in Job, Ends(j) PROVE Resume(j)
<1>1. Types /\ job[j].call # "over" /\ job'[j].call = "over" /\ UNCHANGED spent
  BY DEF RoomsInv, SpinInv, Ends, Runs
<1>2. ASSUME UNCHANGED job PROVE FALSE
  BY <1>1, <1>2
<1>3. ASSUME NEW i \in Job, StartLoad(i) PROVE FALSE
  <2>1. job'[i].call = "cache" /\ (i # j => job'[j].call = job[j].call)
    BY <1>1, <1>3, LoadBegins, LoadIsJob DEF Types, Same
  <2> QED BY <1>1, <2>1
<1>4. ASSUME NEW i \in Job, Submit(i) PROVE FALSE
  <2>1. job'[i].call # "over" /\ (i # j => job'[j].call = job[j].call)
    BY <1>1, <1>4, SubmitBegins DEF Same
  <2> QED BY <1>1, <2>1
<1>5. ASSUME NEW i \in Job, NEW reply, job' = [job EXCEPT ![i].reply = reply] PROVE FALSE
  <2>1. job'[j].call = job[j].call
    BY <1>1, <1>5 DEF Types, JobRow
  <2> QED BY <1>1, <2>1
<1>6. ASSUME NEW i \in Job, Serve(i) \/ Fail(i) PROVE FALSE
  BY <1>5, <1>6 DEF Serve, Fail
<1>7. ASSUME NEW i \in Job, Restart(i) PROVE FALSE
  BY <1>1, <1>7, RestartJobs
<1>8. ASSUME NEW i \in Job, Resume(i), i # j PROVE FALSE
  BY <1>1, <1>8, ResumeTyped DEF ResumeTypes
<1>9. ASSUME Logout \/ ClearCaches \/ Other \/ UNCHANGED vars PROVE FALSE
  BY <1>2, <1>9 DEF Logout, ClearCaches, Other, clientVars, vars
<1> QED BY <1>3, <1>4, <1>6, <1>7, <1>8, <1>9 DEF Next, RetryLoad, OpenPane, Login

(* How a create, a find or a join ends.                                       *)
LEMMA HowItEnds ==
  ASSUME RoomsInv, [Next]_vars, NEW j \in Job, Ends(j), job[j].kind # "load",
         NEW w, w = job[j]
  PROVE  \/ ~w.reply.ok /\ w.call # "list" /\ list' = Failed(w.base)
         \/ w.call = "list" /\ w.reply.ok /\ list' = Loaded(w.reply.rooms)
         \/ w.call \in {"list", "get"} /\ list' = Loaded(w.base \cup {w.room})
<1>1. /\ Resume(j) /\ Types /\ IsJob(w) /\ job'[j].call = "over"
      /\ Ok(j) = w.reply.ok /\ Got(j) = w.reply.rooms /\ w.room \in Nat
  <2>1. Types /\ job'[j].call = "over"
    BY DEF RoomsInv, SpinInv, Ends
  <2> QED BY <2>1, EndsAlone, GotTyped DEF Types, Ok, Got
<1>2. ASSUME NEW call \in {"list", "join", "get"}, NEW room \in Nat, Await(j, call, room)
      PROVE  FALSE
  BY <1>1, <1>2, NextCall
<1>3. CASE CacheRead(j) \/ LoadAnswered(j)
  BY <1>1, <1>3, ReadsCache DEF LoadAnswered
<1>4. CASE Refusal(j)
  BY <1>1, <1>4 DEF Refusal, Emit, Answered
<1>5. CASE Accepted(j)
  BY <1>1, <1>2, <1>5, AcceptedCalls
<1>6. CASE Refreshed(j)
  BY <1>1, <1>2, <1>6 DEF Refreshed, Emit, Answered
<1>7. CASE Fetched(j)
  BY <1>1, <1>7 DEF Fetched, Emit, Answered
<1> QED BY <1>1, <1>3, <1>4, <1>5, <1>6, <1>7 DEF Resume

LEMMA EndsTyped ==
  ASSUME RoomsInv, NEW j \in Job, NEW w, w = job[j]
  PROVE  /\ JobFits(w) /\ JobIsMine(w)
         /\ w.base \in SUBSET Nat /\ w.room \in Nat /\ w.reply.rooms \in SUBSET Nat
         /\ Ok(j) = w.reply.ok
<1>1. Types
  BY DEF RoomsInv, SpinInv
<1> QED BY <1>1, BeforeGoingOn, GotTyped DEF Got, Ok

(* A create or a join that the server accepted ends with the room in the list *)
(* and no error, unless the account changed or both requests failed.          *)
THEOREM AcceptedShown == Spec => AcceptedIsShown
<1>1. ASSUME RoomsInv, [Next]_vars, NEW j \in Job,
             Ends(j), job[j].call \in {"list", "get"}, job[j].kind # "load",
             job[j].first = job[j].who, ~(job[j].call = "get" /\ ~Ok(j))
      PROVE  job[j].room \in list'.shown /\ ~list'.error
  <2>1. PICK w : w = job[j]
    OBVIOUS
  <2>2. /\ JobFits(w) /\ Ok(j) = w.reply.ok
        /\ w.base \cup {w.room} \in SUBSET Nat /\ w.reply.rooms \in SUBSET Nat
    BY <1>1, <2>1, EndsTyped
  <2>3. \/ w.call = "list" /\ w.reply.ok /\ list' = Loaded(w.reply.rooms)
        \/ list' = Loaded(w.base \cup {w.room})
    BY <1>1, <2>1, <2>2, HowItEnds
  <2>4. w.call = "list" /\ w.reply.ok => w.room \in w.reply.rooms
    BY <1>1, <2>1, <2>2 DEF JobFits
  <2> QED BY <2>1, <2>2, <2>3, <2>4, ListRows
<1>2. RoomsInv /\ [Next]_vars =>
        [\A j \in Job :
           Ends(j) /\ job[j].call \in {"list", "get"} /\ job[j].kind # "load"
           /\ job[j].first = job[j].who /\ ~(job[j].call = "get" /\ ~Ok(j))
             => job[j].room \in list'.shown /\ ~list'.error]_vars
  BY <1>1
<1> QED BY <1>2, RoomsAlways, PTL DEF Spec, AcceptedIsShown

(* A create or a join that ran alone takes no group room out of the list.     *)
THEOREM NothingIsLost == Spec => NothingVanishes
<1>1. ASSUME RoomsInv, [Next]_vars, NEW j \in Job,
             Ends(j), job[j].kind # "load", job[j].lone, job[j].first = job[j].who, ~mixed
      PROVE  list.shown \cap Groups \subseteq list'.shown
  <2>1. PICK w : w = job[j]
    OBVIOUS
  <2>2. /\ JobFits(w) /\ JobIsMine(w)
        /\ w.base \in SUBSET Nat /\ w.base \cup {w.room} \in SUBSET Nat
        /\ w.reply.rooms \in SUBSET Nat
    BY <1>1, <2>1, EndsTyped
  <2>3. list.shown = w.base
    BY <1>1, <2>1 DEF RoomsInv, ListInv, LoneFits
  <2>4. \/ list' = Failed(w.base)
        \/ w.call = "list" /\ w.reply.ok /\ list' = Loaded(w.reply.rooms)
        \/ list' = Loaded(w.base \cup {w.room})
    BY <1>1, <2>1, HowItEnds
  <2>5. ASSUME w.call = "list", w.reply.ok PROVE w.base \cap Groups \subseteq w.reply.rooms
    <3>1. w.who \in Account /\ NoOne \notin Account
      BY <2>2, <2>5, AccountAssumption DEF JobFits
    <3>2. w.first # NoOne /\ w.who = w.first /\ w.kind # "load" /\ ~mixed
      BY <1>1, <2>1, <3>1
    <3> QED BY <2>2, <2>5, <3>2 DEF JobIsMine
  <2> QED BY <2>2, <2>3, <2>4, <2>5, ListRows
<1>2. RoomsInv /\ [Next]_vars =>
        [\A j \in Job :
           Ends(j) /\ job[j].kind # "load" /\ job[j].lone /\ job[j].first = job[j].who /\ ~mixed
             => list.shown \cap Groups \subseteq list'.shown]_vars
  BY <1>1
<1> QED BY <1>2, RoomsAlways, PTL DEF Spec, NothingVanishes
===============================================================================
