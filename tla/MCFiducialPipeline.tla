------------------------- MODULE MCFiducialPipeline -------------------------
(***************************************************************************)
(* FiducialPipeline with a marker that is in the map file, one that is not *)
(* and one that is ignored (and in the file).                              *)
(***************************************************************************)
EXTENDS FiducialPipeline

CONSTANTS mapped, strange, hidden

MCIds     == {mapped, strange, hidden}
MCIgnored == {hidden}
MCMapFile == {mapped, hidden}
MCImages  == {<<strange, mapped>>, <<hidden, mapped>>}
=============================================================================
