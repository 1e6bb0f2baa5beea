------------------------ MODULE NavigationProperties ------------------------
(***************************************************************************)
(* What waypoint_navigation.cpp is expected to do: the properties that the *)
(* TLC runs check and the proof modules prove, and the fair specification  *)
(* that the liveness properties need.                                      *)
(***************************************************************************)
EXTENDS WaypointNavigation

OnTheWay == {"send", "pending", "pendingSleep", "rejected", "settle",
             "driving", "poll", "cancel", "cancelling"}
Boarding == {"file", "load", "server", "enable"}

ControlOK ==
    /\ pc \in PCs /\ goal \in GoalStates /\ view \in Views
    /\ file \in Files \cup {None} /\ loaded \in Files \cup {None}
    /\ fileQ \in Files \cup {None} /\ enableQ \in Enables \cup {None}
    /\ statusQ \in Statuses \cup {None}
    /\ {up, cancelReq, enabled, finished, stop, inBox, tfKnown} \subseteq BOOLEAN
CountersOK ==
    /\ crashes \in 0..MaxCrashes /\ mail \in 0..MaxMail
    /\ total \in Int /\ index \in Nat
    /\ attempt \in 0..MaxAttempts /\ abort \in 0..MaxAttempts /\ resends \in Nat
    /\ elapsed \in Nat /\ since \in Nat
PlacesOK ==
    /\ target \in Waypoints \cup {NoWaypoint}
    /\ exec \in Waypoints \cup {NoWaypoint}
    /\ robotAt \in Waypoints \cup {NoWaypoint}
    /\ current \in Waypoints \cup {NoWaypoint} /\ visited \subseteq Waypoints
    /\ triggers \in Seq(AudioNames)

\* Every variable keeps to its set; in particular a waypoint that is attempted,
\* sent or played is one of the files' waypoints, and no counter overruns.
TypeOK == ControlOK /\ CountersOK /\ PlacesOK

\* The base stands still for as long as a talk is waited for: whatever goals
\* were resent, aborted or lost before, none is alive when the sound file is
\* triggered after the wait for PREEMPTED.
StandsStillForTalk == pc = "audio" => exec = NoWaypoint

\* Once a goal has been seen ACTIVE the base drives to the current waypoint
\* or nowhere: no goal of an earlier waypoint, or one sent before a resend,
\* moves it while the pose loop and the cancel loop run.
DrivesToCurrent ==
    pc \in {"driving", "poll", "cancel", "cancelling"}
        => exec \in {NoWaypoint, current}

\* "Break from all movement if aborted 3 times for current goal" (:266): when
\* the tour ends so, no goal, resent or of an earlier waypoint, moves the base
\* or is on its way to do so.  Of the ends for other reasons this is not true
\* (GivingUpStopsTheBase).
AbortsStopTheBase ==
    abort = MaxAttempts => exec = NoWaypoint /\ goal \notin {"sent", "active"}

\* The PENDING loop resends once per ResendAfter seconds and gives up after
\* AbortAfter: with 5 s and 20 s, three times at most.
ResendsBounded == resends * ResendAfter < AbortAfter

\* No talk is started twice, in a random tour either.
EachTalkOnce ==
    \A i, j \in DOMAIN triggers : triggers[i] = triggers[j] => i = j

\* A random tour that was not given up, by the 20 s or by three aborts
\* (GivenUpForCause), has attempted every waypoint of its file, the ones
\* rejected three times included, and visited_waypoint[] was never indexed out
\* of bounds.
RandomTourComplete ==
    loaded \in Short \ Unreadable =>
        /\ visited \subseteq 0..(VisitedSlots - 1)
        /\ pc = "over" /\ ~stop => visited = 0..(Count[loaded] - 1)

\* stop_all_movement is set in three places (:198, :217, :271) and tested in
\* two: the tour is given up for a goal PENDING for 20 s or for three aborts,
\* and for nothing else.  No number of rejections ends it.
GivenUpForCause ==
    pc = "over" /\ stop => elapsed >= AbortAfter \/ abort = MaxAttempts

\* The loops on PENDING and REJECTED come to an end whatever move_base does:
\* the node gets to the test of ACTIVE, be it after three rejections, unless a
\* goal that stayed PENDING was given up after its 20 s.
AcceptPhaseEnds ==
    (pc = "pending") ~> \/ pc = "settle"
                        \/ pc = "over" /\ stop /\ elapsed >= AbortAfter

---------------------------------------------------------------------------
(* The node implements the abstract tour.                                  *)

StopsLeft ==
    IF pc \in Boarding \/ loaded \in Unreadable THEN {}
    ELSE IF Randomise THEN 0..(total - 1) \ visited
    ELSE index..(total - 1)

AbstractPhase ==
    CASE pc \in Boarding            -> "boarding"
      [] pc = "next"                -> "between"
      [] pc \in OnTheWay            -> "travelling"
      [] pc = "audio"               -> "talking"
      [] pc \in {"over", "crashed"} -> "over"

Ordered == pc \notin Boarding /\ ~Randomise
Told    == {triggers[i][2] : i \in DOMAIN triggers}
Moving  == exec # NoWaypoint

T == INSTANCE Tour WITH
    Plans   <- {0..(Count[f] - 1) : f \in Files} \cup {{}},
    Nobody  <- NoWaypoint,
    phase   <- AbstractPhase,
    ordered <- Ordered,
    left    <- StopsLeft,
    here    <- current,
    told    <- Told,
    moving  <- Moving

\* Each stop once and in order, no motion before the start or during a talk.
ImplementsTour == T!TourSpec

---------------------------------------------------------------------------
(* What comments in the code say and the code does not do.                 *)

\* The base obeys, the network delivers and the server answers; nothing here
\* makes a goal succeed or a robot arrive.
FairSpec ==
    /\ Spec
    /\ WF_vars(ServerStart /\ UNCHANGED navVars)
    /\ WF_vars(Cancel /\ UNCHANGED navVars)
    /\ WF_vars(StatusArrives /\ UNCHANGED navVars)

\* "abort movement if 20 seconds have passed" (waypoint_navigation.cpp:191):
\* when the tour has been given up the base does not move.
GivingUpStopsTheBase == pc = "over" /\ stop => exec = NoWaypoint

\* "Break from all movement if rejected 3 times for current goal" (:213), and
\* the message there, "ABORTING ALL MOVEMENT" (:216): once stop_all_movement is
\* set the node goes on to no other waypoint.
BreaksFromAllMovement == [][stop => pc' # "next"]_vars

\* "If the waypoint name isn't null, then play the associated sound file"
\* (:311): at a waypoint with a name the talk is triggered after the arrival.
TalkFollowsArrival ==
    (pc = "cancel" /\ current \in Named[loaded]) ~> (pc = "audio")
=============================================================================
