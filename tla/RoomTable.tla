------------------------------ MODULE RoomTable ------------------------------
(* The rooms and room_memberships tables as the HTTP API uses them:           *)
(* backend/app/api/routes/rooms.py, and the part of accepting and ending a    *)
(* friendship (routes/friends.py, Friendship here) that makes, finds and      *)
(* leaves the DM room. A room's id is its position in rooms. Each handler is  *)
(* one transaction and the unique constraints decide its races, so each is    *)
(* one action; its reply is what the client is told.                          *)
EXTENDS RoomNames

CONSTANTS
  Account,   \* ids of users
  Low, High, \* the two of them who may be friends
  Legacy,    \* the rooms before migration b1e2c3d4a5f2: a sequence of [text, by]
  NoOne      \* a request without a token

ASSUME AccountAssumption ==
  /\ Account \subseteq Nat /\ NoOne \notin Account
  /\ Low \in Account /\ High \in Account /\ Low < High /\ High <= MaxNumeral

ASSUME LegacyAssumption ==
  Legacy \in Seq([text : Texts, by : Account]) /\ Len(Legacy) <= MaxNumeral

VARIABLES
  rooms,   \* the table rooms, by id
  member   \* member[a]: the ids of the rooms that a has a membership of

tableVars == <<rooms, member>>

Kind  == {"group", "dm"}
TableTypeOK ==
  /\ rooms \in Seq([name : Seq(STRING), kind : Kind])
  /\ member \in [Account -> SUBSET (1..Len(rooms))]

(* The migrations have run: what there was are group rooms under their new    *)
(* names.                                                                     *)
NewNames == Planned([i \in DOMAIN Legacy |-> Legacy[i].text])

TableInit ==
  /\ rooms = [i \in DOMAIN Legacy |-> [name |-> NewNames[i], kind |-> "group"]]
  /\ member = [a \in Account |-> {i \in DOMAIN Legacy : Legacy[i].by = a}]

Named(slug) == {r \in DOMAIN rooms : rooms[r].name = slug}
Groups      == {r \in DOMAIN rooms : rooms[r].kind = "group"}

Refused     == [ok |-> FALSE, rooms |-> {}]
Given(ids)  == [ok |-> TRUE, rooms |-> ids]

-------------------------------------------------------------------------------
(* POST /rooms: 422 for a name that is not valid, 409 for one that is taken.  *)
CreateRoom(a, text, reply) ==
  LET slug == Canonical(text)
      id   == Len(rooms) + 1
  IN  \/ /\ ~ValidGroupSlug(slug) \/ Named(slug) # {}
         /\ reply = Refused
         /\ UNCHANGED tableVars
      \/ /\ ValidGroupSlug(slug) /\ Named(slug) = {}
         /\ rooms' = Append(rooms, [name |-> slug, kind |-> "group"])
         /\ member' = [member EXCEPT ![a] = @ \cup {id}]
         /\ reply = Given({id})

(* GET /rooms/by-name: group rooms only.                                      *)
FindRoom(a, text, reply) ==
  LET found == Named(Canonical(text)) \cap Groups
  IN  /\ reply = IF found = {} THEN Refused ELSE Given(found)
      /\ UNCHANGED tableVars

(* Mutant: an id is not looked up.                                            *)
JoinUnchecked(a, id, reply) ==
  \/ id \in member[a] /\ reply = Refused /\ UNCHANGED tableVars
  \/ /\ id \notin member[a]
     /\ member' = [member EXCEPT ![a] = @ \cup {id}]
     /\ reply = Given({id}) /\ UNCHANGED rooms

(* POST /rooms/{id}/join: 404 for no room or a DM, 409 for a member.          *)
JoinRoom(a, id, reply) ==
  \/ /\ id \notin Groups \/ id \in member[a]
     /\ reply = Refused
     /\ UNCHANGED tableVars
  \/ /\ id \in Groups \ member[a]
     /\ member' = [member EXCEPT ![a] = @ \cup {id}]
     /\ reply = Given({id})
     /\ UNCHANGED rooms

(* GET /rooms: the rooms that the caller is a member of.                      *)
ListRooms(a, reply) == reply = Given(member[a]) /\ UNCHANGED tableVars

(* GET /rooms/{id}: any group room, a DM for its members.                     *)
GetRoom(a, id, reply) ==
  /\ reply = IF id \in Groups \cup member[a] THEN Given({id}) ELSE Refused
  /\ UNCHANGED tableVars

-------------------------------------------------------------------------------
(* The friends routes find the DM room by its name.                           *)
DmRooms == Named(DmName(Low, High))

(* Accepting makes the room or takes the one there is, and adds both.         *)
Befriend ==
  /\ \A r \in DmRooms : r \notin member[Low] \cup member[High]
  /\ LET id == IF DmRooms = {} THEN Len(rooms) + 1 ELSE CHOOSE r \in DmRooms : TRUE
     IN  member' = [a \in Account |-> IF a \in {Low, High} THEN member[a] \cup {id}
                                      ELSE member[a]]
  /\ rooms' = IF DmRooms = {} THEN Append(rooms, [name |-> DmName(Low, High), kind |-> "dm"])
              ELSE rooms

(* Ending the friendship (remove or block) deletes the room's memberships.    *)
Part ==
  /\ DmRooms # {} /\ DmRooms \subseteq member[Low]
  /\ member' = [a \in Account |-> member[a] \ DmRooms]
  /\ UNCHANGED rooms

-------------------------------------------------------------------------------
(* A room is the pair's DM if and only if it has the DM's name, there is one, *)
(* and nobody else is a member of it, though groups are made and joined under *)
(* names that users type, old rooms were renamed, and accepting a friend      *)
(* looks the room up by name alone. No two rooms have the same name.          *)
DmRoomIsClosed ==
  /\ \A r \in DOMAIN rooms : rooms[r].kind = "dm" <=> rooms[r].name = DmName(Low, High)
  /\ \A r, s \in DOMAIN rooms : rooms[r].name = rooms[s].name => r = s
  /\ \A a \in Account, r \in DOMAIN rooms :
       rooms[r].kind = "dm" /\ r \in member[a] => a \in {Low, High}

(* The migration's renames hold for good: PlanIsSound of every table that it  *)
(* may meet, and no later request renames an old room or takes its name.      *)
NamesAreSound ==
  /\ PlanIsSound
  /\ \A i \in DOMAIN Legacy : Named(NewNames[i]) = {i}
===============================================================================
