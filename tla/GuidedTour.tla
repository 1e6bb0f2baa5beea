----------------------------- MODULE GuidedTour -----------------------------
(***************************************************************************)
(* What a visitor is promised by waypoint_navigation and audio_player      *)
(* together: a tour as module Tour describes it, and talks one can hear.   *)
(* Only the talk of the stop where the base stands is heard, once, from    *)
(* its start to its end, and the tour does not go on before that.          *)
(***************************************************************************)
EXTENDS Tour

VARIABLES
    sounding,   \* the stop whose talk can be heard, or Nobody
    given       \* the stops whose talk has been heard to its end

guidedVars == <<tourVars, sounding, given>>

GuidedInit == Init /\ sounding = Nobody /\ given = {}

\* A talk that was started need not come: its sound file may not exist.
SoundStarts ==
    /\ phase = "talking" /\ ~moving
    /\ sounding = Nobody /\ here \in told \ given
    /\ sounding' = here
    /\ UNCHANGED <<tourVars, given>>

SoundEnds ==
    /\ sounding # Nobody
    /\ sounding' = Nobody /\ given' = given \cup {sounding}
    /\ UNCHANGED tourVars

\* The tour goes on after a talk that was heard, and after no other.
GoOn == TalkEnds /\ sounding = Nobody /\ here \in given

Elsewhere == Depart \/ SetOut \/ PassOn \/ Talk \/ GiveUp \/ Finish \/ StartOrStop

GuidedNext ==
    \/ SoundStarts \/ SoundEnds
    \/ (GoOn \/ Elsewhere) /\ UNCHANGED <<sounding, given>>

GuidedSpec == GuidedInit /\ [][GuidedNext]_guidedVars
=============================================================================
