--------------------------- MODULE MCFiducialMap ---------------------------
EXTENDS FiducialMap

CONSTANTS f1, f2, f3

\* No map file; and one with a surveyed fiducial, an estimated one that is
\* given twice, and the virtual one.
NoFile   == <<>>
Surveyed == << [id |-> f1, fixed |-> TRUE, links |-> {f2}],
               [id |-> f2, fixed |-> TRUE, links |-> {}],
               [id |-> Zero, fixed |-> TRUE, links |-> {}],
               [id |-> f2, fixed |-> FALSE, links |-> {f1}] >>
MapFiles == {NoFile, Surveyed}
NoFiles  == {NoFile}
=============================================================================
