----------------------------- MODULE SurveyNet ------------------------------
(***************************************************************************)
(* What class Map of fiducial_slam promises of its map: it is a net of     *)
(* surveyed points.  It is given, or it grows from one point, which is     *)
(* provisional until its pose has been fixed; nothing is added before      *)
(* that.  A point that is added is tied to one that was there already, no  *)
(* tie is taken back, and no other pose is fixed, until all is forgotten.  *)
(***************************************************************************)
CONSTANT Points

VARIABLES
    closed,         \* may the net not be extended?
    points,         \* those with a pose
    ties,           \* <<p, q>>: p was seen together with q
    fixed,          \* the points whose pose is final
    provisional     \* is the first point's pose still being estimated?

netVars == <<closed, points, ties, fixed, provisional>>

Init ==
    /\ closed \in BOOLEAN /\ provisional = FALSE
    /\ points \subseteq Points /\ fixed \subseteq points
    /\ ties \subseteq points \X Points

\* A first point; one look at it may be enough.
Start ==
    /\ points = {} /\ ties' = {}
    /\ \E p \in Points :
         /\ points' = {p}
         /\ \/ provisional' = TRUE /\ fixed' = {}
            \/ provisional' = FALSE /\ fixed' = {p}
    /\ UNCHANGED closed

Confirm ==
    /\ provisional /\ provisional' = FALSE
    /\ fixed' = points
    /\ UNCHANGED <<closed, points, ties>>

Extend ==
    /\ ~closed /\ ~provisional
    /\ points' \subseteq Points /\ points \subseteq points'
    /\ ties' \subseteq points' \X Points /\ ties \subseteq ties'
    /\ \A p \in points' \ points : \E q \in points : <<p, q>> \in ties'
    /\ UNCHANGED <<closed, fixed, provisional>>

Forget ==
    /\ points' = {} /\ ties' = {} /\ fixed' = {} /\ provisional' = FALSE
    /\ UNCHANGED closed

Next == Start \/ Confirm \/ Extend \/ Forget

NetSpec == Init /\ [][Next]_netVars
=============================================================================
