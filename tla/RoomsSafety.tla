----------------------------- MODULE RoomsSafety -----------------------------
(* What the rooms list must satisfy, whatever its handlers, the session and   *)
(* other devices do meanwhile.                                                *)
EXTENDS RoomsClient

Idle == \A j \in Job : ~Runs(j)

(* When no handler runs any more, no spinner and no progress bar is left,     *)
(* though each handler overwrites what the others emitted.                    *)
Settled == Idle => list.phase # "loading" /\ ~list.busy

(* auth_repository_impl.dart: a login "never briefly flashes the previous     *)
(* account's data". Once the pane's own load has started, the group rooms     *)
(* that are shown and those in the cache are the signed-in account's, unless  *)
(* a handler was still running when the caches were cleared, or the last      *)
(* session ended without a logout.                                            *)
OwnRooms ==
  screen = "rooms" /\ ~mixed =>
    (list.shown \cup cache) \cap Groups \subseteq member[token]

Ends(j) == Runs(j) /\ job'[j].call = "over" /\ UNCHANGED spent

(* rooms_bloc.dart: the new room is merged "instead of silently dropping it   *)
(* from the UI". A create or a join that the server accepted ends with the    *)
(* room in the list and no error, with or without a fresh list; except when   *)
(* the account changed on the way, or both requests after a join failed.      *)
AcceptedIsShown ==
  [][\A j \in Job :
       Ends(j) /\ job[j].call \in {"list", "get"} /\ job[j].kind # "load"
       /\ job[j].first = job[j].who /\ ~(job[j].call = "get" /\ ~Ok(j))
         => job[j].room \in list'.shown /\ ~list'.error]_vars

(* A create or a join that ran alone takes no room out of the list, however   *)
(* it ends.                                                                   *)
NothingVanishes ==
  [][\A j \in Job :
       Ends(j) /\ job[j].kind # "load" /\ job[j].lone /\ job[j].first = job[j].who /\ ~mixed
         => list.shown \cap Groups \subseteq list'.shown]_vars
===============================================================================
