-------------------------------- MODULE MCRoom --------------------------------
(* Instances of the room fan-out for TLC.                                     *)
EXTENDS RoomSafety, TLC

CONSTANTS p1, p2, c1, c2, c3, ann, bob

(* One process with three connections: the registry changes under running     *)
(* broadcasts, the last socket leaves while the next one arrives.             *)
OneProc     == {p1}
ThreeConns  == {c1, c2, c3}
AllOnOne    == [c \in ThreeConns |-> p1]
OneUser     == [c \in ThreeConns |-> ann]

(* Two processes with a connection each: what crosses the channel.            *)
TwoProcs    == {p1, p2}
TwoConns    == {c1, c2}
OneEach     == (c1 :> p1) @@ (c2 :> p2)
TwoUsers    == (c1 :> ann) @@ (c2 :> bob)
BothOnOne   == [c \in TwoConns |-> p1]

(* A user with a socket on each of two processes.                             *)
AnnTwice    == [c \in TwoConns |-> ann]

(* Connections of one process are interchangeable when there are no typing    *)
(* events, the only place where a socket's user matters.                      *)
AnyOrder == Permutations(ThreeConns)
===============================================================================
