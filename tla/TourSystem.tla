----------------------------- MODULE TourSystem -----------------------------
(***************************************************************************)
(* waypoint_navigation and audio_player together, joined by the topics     *)
(* /audio_trigger and /audio_status.                                       *)
(***************************************************************************)
EXTENDS NavigationProperties

CONSTANTS
    AudioFiles, PartialNames, SlowStart, ShortClips     \* see AudioPlayer

VARIABLES apc, heard, vlc

P == INSTANCE AudioPlayer

\* The node understands whatever the player may say.
ASSUME PlayerAssumption == P!VlcStates \ {"NothingSpecial"} \subseteq Statuses

playerVars == <<apc, heard, vlc>>
sysVars == <<vars, playerVars>>

\* What the player leaves alone: triggers and statusQ are its interface.
notPlayer == <<pc, setupVars, finished, tourVars, countVars, timeVars, poseVars, mbVars>>

SysInit == Init /\ P!APInit
Player  == P!APNext /\ UNCHANGED notPlayer
SysNext == \/ TourNext /\ UNCHANGED playerVars
           \/ Player

\* Both processes run on, and libvlc gets to the end of a clip.
SysSpec == SysInit /\ [][SysNext]_sysVars
           /\ WF_sysVars(Main /\ UNCHANGED playerVars) /\ WF_sysVars(Player)

---------------------------------------------------------------------------

\* Every variable of both nodes keeps to its set.
SysTypeOK == TypeOK /\ P!APTypeOK

\* While a clip plays the node is waiting for it and the base stands still:
\* no leftover status of an earlier clip lets the tour go on.
PlaysAtStandstill == vlc = "Playing" => pc = "audio" /\ exec = NoWaypoint

\* The wait for the sound file ends once the player's loop has seen the clip
\* play, at the latest when the clip does.
PlayedClipEndsWait ==
    (pc = "audio" /\ apc = "poll" /\ vlc = "Playing") ~> (pc # "audio")

\* "Wait for sound file to finish before moving onto next waypoint"
\* (waypoint_navigation.cpp:336): the node leaves the wait only when the
\* player is through with the clip of this waypoint.
WaitsForThisClip ==
    [][(pc = "audio" /\ pc' = "next") =>
           (heard = Len(triggers) /\ vlc = "Ended")]_sysVars

\* The node's queue on /audio_status holds one message.  No later status takes
\* the place of the report that ends the wait before the node has read it, and
\* nothing takes back what it has read: once reported, the end gets through.
EndIsHeard ==
    [][pc = "audio" /\ (statusQ = "Ended" \/ finished) =>
           statusQ' = "Ended" \/ finished' \/ pc' = "next"]_sysVars

\* The talks of the two nodes: what can be heard now, what has been heard.
Sounding == IF vlc = "Playing" THEN P!Clip[2] ELSE NoWaypoint
PlayedOut == {i \in 1..heard : triggers[i] \in AudioFiles /\ (i < heard \/ vlc = "Ended")}
Given     == {triggers[i][2] : i \in PlayedOut}

G == INSTANCE GuidedTour WITH
    Plans    <- {0..(Count[f] - 1) : f \in Files} \cup {{}},
    Nobody   <- NoWaypoint,
    phase    <- AbstractPhase,
    ordered  <- Ordered,
    left     <- StopsLeft,
    here     <- current,
    told     <- Told,
    moving   <- Moving,
    sounding <- Sounding,
    given    <- Given

\* The two nodes lead a guided tour: the clip that plays is that of the stop
\* where the base stands, no clip plays twice, and the tour goes on only after
\* the clip of this stop has played to its end.
GuidesTour == G!GuidedSpec

\* The same comment, as liveness: the wait for the sound file ends.
AudioWaitEnds == (pc = "audio") ~> (pc # "audio")
=============================================================================
