---------------------------- MODULE MCTourSystem ----------------------------
(***************************************************************************)
(* TourSystem with a sequential file of three waypoints with talks, the    *)
(* last of which has no audio file, and a random file of one waypoint,     *)
(* whose quip's name is only part of a file's path.                        *)
(***************************************************************************)
EXTENDS TourSystem

CONSTANTS long, short

MCFiles      == {long, short}
LongOnly     == {long}
MCCount      == [f \in Files |-> IF f = long THEN 3 ELSE 1]
MCNamed      == [f \in Files |-> 0..2]
MCNearOrigin == [f \in Files |-> {}]
MCAudioFiles == {<<"name", 0>>, <<"name", 1>>}
MCAllAudio   == MCAudioFiles \cup {<<"name", 2>>}
MCPartialNames == {<<"quip tail", 0>>}
=============================================================================
