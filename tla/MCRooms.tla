------------------------------- MODULE MCRooms -------------------------------
(* A small instance of RoomsSafety for TLC: accounts 1 and 2 may be friends,  *)
(* 1 and 3 share the device.                                                  *)
EXTENDS RoomsSafety

OldTexts == {<<>>, <<"-", "7">>, <<"room", "-", "7">>, <<"room">>, <<"-", "room", "-", "2">>,
             <<"DM", "-", "1", "-", "2">>, <<"DM">>, <<"dm", "-", "2">>,
             <<"room", "-", "dm", "-", "2">>, <<"ops">>}
OldRooms == << [text |-> <<"DM", "-", "1", "-", "2">>, by |-> 1] >>
NewTexts == {<<"ops">>, <<"DM", "-", "1", "-", "2">>}
===============================================================================
