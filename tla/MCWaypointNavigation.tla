------------------------ MODULE MCWaypointNavigation ------------------------
(***************************************************************************)
(* A small instance of WaypointNavigation for TLC: a sequential tour of    *)
(* two waypoints whose second has a talk and whose first lies near the map *)
(* origin, a random tour of two silent waypoints, and a file that cannot   *)
(* be opened.                                                              *)
(***************************************************************************)
EXTENDS NavigationProperties

CONSTANTS long, short, missing

LongOnly  == {long}
AllFiles  == {long, short, missing}
MCUnreadable == Files \cap {missing}
MCShort      == Files \cap {short}
MCCount      == [f \in Files |-> IF f = missing THEN 0 ELSE 2]
MCNamed      == [f \in Files |-> IF f = missing THEN {} ELSE {1}]
MCNearOrigin == [f \in Files |-> IF f = long THEN {0} ELSE {}]
MCGarbage    == {0, 1}
=============================================================================
