-------------------------------- MODULE Tour --------------------------------
(***************************************************************************)
(* What waypoint_navigation promises of a tour, whatever move_base, the    *)
(* audio player and the operator do: the stops of one plan are attempted   *)
(* once each, in the order of the file unless the tour is a random one;    *)
(* the base moves only once the tour has been started; a stop has at most  *)
(* one talk, given on arrival, and the base stands still throughout.       *)
(***************************************************************************)
EXTENDS Integers

CONSTANTS
    Plans,      \* the sets of stops a tour may have
    Nobody      \* "no stop yet"

VARIABLES
    phase,      \* boarding, between, travelling, talking or over
    ordered,    \* are the stops attempted in increasing order?
    left,       \* the stops not yet attempted
    here,       \* the stop of this leg
    told,       \* the stops whose talk has been started
    moving      \* is the base under way?

tourVars == <<phase, ordered, left, here, told, moving>>

Init ==
    /\ phase = "boarding" /\ ordered = FALSE
    /\ left = {} /\ here = Nobody /\ told = {} /\ moving = FALSE

Depart ==
    /\ phase = "boarding" /\ phase' = "between"
    /\ left' \in Plans /\ ordered' \in BOOLEAN
    /\ UNCHANGED <<here, told, moving>>

\* Leave for a stop not attempted before.
SetOut ==
    /\ phase = "between" /\ phase' = "travelling"
    /\ \E w \in left :
         /\ ordered => \A v \in left : w <= v
         /\ here' = w /\ left' = left \ {w}
    /\ UNCHANGED <<ordered, told, moving>>

\* Nothing is said there, or the stop was not reached.
PassOn ==
    /\ phase = "travelling" /\ phase' = "between"
    /\ UNCHANGED <<ordered, left, here, told, moving>>

Talk ==
    /\ phase = "travelling" /\ ~moving /\ phase' = "talking"
    /\ here \notin told /\ told' = told \cup {here}
    /\ UNCHANGED <<ordered, left, here, moving>>

TalkEnds ==
    /\ phase = "talking" /\ phase' = "between"
    /\ UNCHANGED <<ordered, left, here, told, moving>>

GiveUp ==
    /\ phase = "travelling" /\ phase' = "over"
    /\ UNCHANGED <<ordered, left, here, told, moving>>

Finish ==
    /\ phase = "between" /\ left = {} /\ phase' = "over"
    /\ UNCHANGED <<ordered, left, here, told, moving>>

StartOrStop ==
    /\ phase \notin {"boarding", "talking"}
    /\ moving' = ~moving
    /\ UNCHANGED <<phase, ordered, left, here, told>>

Next == Depart \/ SetOut \/ PassOn \/ Talk \/ TalkEnds \/ GiveUp \/ Finish \/ StartOrStop

TourSpec == Init /\ [][Next]_tourVars
=============================================================================
