------------------------- MODULE MCRangeSensorLayer -------------------------
(* Three cells.  One cone has its target beyond its sides, as a wide field   *)
(* of view makes it; the other starts below the map and aims past it.       *)
EXTENDS RangeSensorLayer

ConeOf(o, t, s) == [origin |-> o, target |-> t, side |-> s]
MCCones == {ConeOf(1, 2, 1), ConeOf(-1, 3, 0)}
=============================================================================
