------------------------- MODULE WaypointNavigation -------------------------
(***************************************************************************)
(* waypoint_navigation.cpp: the node that leads the tour.  One thread runs *)
(* the constructor and destinationUpdate(); subscriber callbacks run only  *)
(* inside ros::spinOnce(), which the program calls in its three waiting    *)
(* loops and once in main().  The move_base client of module MoveBase      *)
(* changes state at any time.                                              *)
(*                                                                         *)
(* pc names the place the thread has reached:                              *)
(*   file, load, server     the constructor                                *)
(*   enable                 waiting for /navigation_enable                 *)
(*   next, send             the head of the waypoint loop, its 5 s sleep   *)
(*   pending, pendingSleep  the loop on PENDING and the sleep in it        *)
(*   rejected, settle       the loop on REJECTED, the 0.5 s sleep after it *)
(*   driving, poll          the loop on the robot's pose, its lower half   *)
(*   cancel, cancelling     cancelGoal and the loop until PREEMPTED        *)
(*   audio                  waiting for the sound file to finish           *)
(*   over, crashed          main() has returned; the process was killed    *)
(***************************************************************************)
EXTENDS MoveBase, FiniteSets, Sequences

CONSTANTS
    None,           \* an empty queue, no file
    Files,          \* what /waypoint_file may name
    Unreadable,     \* the files that cannot be opened
    Short,          \* the files whose name contains "short"
    Count,          \* Count[f]: how many waypoints file f holds
    Named,          \* Named[f]: those whose name is not "NULL"
    NearOrigin,     \* NearOrigin[f]: those whose box contains (0, 0)
    Garbage,        \* values an uninitialised _number_of_waypoints may have
    ResendAfter,    \* the 5 s of the PENDING loop and of the cancel loop
    AbortAfter,     \* the 20 s of the PENDING loop
    Stall,          \* the longest the 1 s sleep of the PENDING loop may last
    VisitedSlots,   \* the size of visited_waypoint[]
    Statuses,       \* what /audio_status may say
    MaxMail         \* bound: how many messages the operator sends

ASSUME FilesAssumption ==
    /\ None \notin Files
    /\ Unreadable \subseteq Files /\ Short \subseteq Files
    /\ Count \in [Files -> Nat]
    /\ Named \in [Files -> SUBSET Nat] /\ NearOrigin \in [Files -> SUBSET Nat]
    /\ Garbage \subseteq Int
\* A longer random tour would index visited_waypoint[] out of bounds.
ASSUME SlotsAssumption ==
    /\ VisitedSlots \in Nat
    /\ \A f \in Short \ Unreadable : Count[f] <= VisitedSlots
ASSUME TimeAssumption ==
    /\ ResendAfter \in Nat \ {0} /\ AbortAfter \in Nat \ {0} /\ Stall \in Nat \ {0}
ASSUME MailAssumption == MaxMail \in Nat /\ None \notin Statuses

Waypoints == UNION {0..(Count[f] - 1) : f \in Files}
MaxAttempts == 3    \* "Attempt goal 3 times total", twice in the code
Enables  == {"on", "off", "other"}      \* Int16 data: 1, 0, anything else
PCs == {"file", "load", "server", "enable", "next", "send", "pending",
        "pendingSleep", "rejected", "settle", "driving", "poll", "cancel",
        "cancelling", "audio", "over", "crashed"}

VARIABLES
    pc,
    file,           \* _waypoint_filename once _waypoint_file_selected, else None
    loaded,         \* the file the constructor has gone on with
    total,          \* _number_of_waypoints
    enabled,        \* _navigation_enable
    finished,       \* _finished_audio
    fileQ, enableQ, statusQ,    \* the subscribers' queues, of size 1
    mail,           \* how many messages the operator has sent
    triggers,       \* everything published on /audio_trigger
    index,          \* waypoint_number of the for loop
    visited,        \* the slots of visited_waypoint[] that are true
    current,        \* current_waypoint_number
    attempt, abort, \* attempt_number, abort_number
    stop,           \* the inner stop_all_movement, FALSE outside its scope
    elapsed,        \* seconds since first_send_goal_time
    since,          \* seconds since send_goal_time, or since cancelled_time
    inBox,          \* is t_mapBase_pose within the inflated waypoint?
    tfKnown,        \* has t_mapBase been looked up for this waypoint?
    resends         \* sends of the PENDING loop while it runs (history)

setupVars == <<file, loaded, total, enabled, fileQ, enableQ, mail>>
soundVars == <<finished, statusQ, triggers>>
tourVars  == <<index, visited, current>>
countVars == <<attempt, abort, stop, resends>>
timeVars  == <<elapsed, since>>
poseVars  == <<inBox, tfKnown>>
navVars == <<pc, setupVars, soundVars, tourVars, countVars, timeVars, poseVars>>
vars == <<navVars, mbVars>>

Randomise == loaded \in Short
\* What is published for waypoint w.  In a random tour the program adds the
\* number to a string literal: the name sent is "random_quip_" without its
\* first w characters.
AudioName(w) == IF Randomise THEN <<"quip tail", w>> ELSE <<"name", w>>
AudioNames   == {"quip tail", "quip", "name"} \X Waypoints

Init ==
    /\ MBInit
    /\ pc = "file" /\ file = None /\ loaded = None /\ total = 0
    /\ enabled = FALSE /\ finished = FALSE /\ mail = 0
    /\ fileQ = None /\ enableQ = None /\ statusQ = None /\ triggers = <<>>
    /\ index = 0 /\ visited = {} /\ current = NoWaypoint
    /\ attempt = 0 /\ abort = 0 /\ stop = FALSE /\ resends = 0
    /\ elapsed = 0 /\ since = 0 /\ inBox = FALSE /\ tfKnown = FALSE

---------------------------------------------------------------------------
(* ros::spinOnce(): the callbacks of everything that is queued.            *)

waypointFileSelectionCB == file' = IF fileQ = None THEN file ELSE fileQ

navigationEnableCB ==
    enabled' = CASE enableQ = "on"  -> TRUE
                 [] enableQ = "off" -> FALSE
                 [] OTHER           -> enabled

\* Mistakes: any status but "Playing" ends the wait; another word does.
AnyStatusEnds == finished' = IF statusQ = None THEN finished ELSE statusQ # "Playing"
StoppedEnds   == finished' = (statusQ = "Stopped" \/ (finished /\ statusQ # "Playing"))
audioStatusCB ==
    finished' = CASE statusQ = "Playing" -> FALSE
                  [] statusQ = "Ended"   -> TRUE
                  [] OTHER               -> finished

SpinOnce ==
    /\ waypointFileSelectionCB /\ navigationEnableCB /\ audioStatusCB
    /\ fileQ' = None /\ enableQ' = None /\ statusQ' = None

---------------------------------------------------------------------------
(* The constructor.                                                        *)

WaitFile ==
    /\ pc = "file"
    /\ \/ /\ file # None
          /\ pc' = "load"
          /\ UNCHANGED <<file, enabled, finished, fileQ, enableQ, statusQ>>
       \/ file = None /\ SpinOnce /\ pc' = pc
    /\ UNCHANGED <<loaded, total, mail, triggers, tourVars, countVars, timeVars,
                   poseVars, mbVars>>

\* loadWaypoints: a file that cannot be opened is only logged, and leaves
\* _number_of_waypoints as the allocator left it.
LoadWaypoints ==
    /\ pc = "load"
    /\ loaded' = file
    /\ total' \in IF file \in Unreadable THEN Garbage ELSE {Count[file]}
    /\ pc' = "server"
    /\ UNCHANGED <<file, enabled, fileQ, enableQ, mail, soundVars, tourVars,
                   countVars, timeVars, poseVars, mbVars>>

\* waitForServer returns, the initial pose is published, main() spins once.
WaitServer ==
    /\ pc = "server" /\ up
    /\ SpinOnce
    /\ pc' = "enable"
    /\ UNCHANGED <<loaded, total, mail, triggers, tourVars, countVars, timeVars,
                   poseVars, mbVars>>

---------------------------------------------------------------------------
(* destinationUpdate.                                                      *)

WaitEnable ==
    /\ pc = "enable"
    /\ \/ /\ enabled
          /\ pc' = "next"
          /\ UNCHANGED <<file, enabled, finished, fileQ, enableQ, statusQ>>
       \/ ~enabled /\ SpinOnce /\ pc' = pc
    /\ UNCHANGED <<loaded, total, mail, triggers, tourVars, countVars, timeVars,
                   poseVars, mbVars>>

MoreWaypointsButOne == index < total - 1
MoreWaypoints == index < total

\* Mistakes the properties must catch: waypoints counted from 1, visited ones
\* not left out, the file read from its end.
ChoicesFromOne == IF Randomise THEN 1..total \ visited ELSE {index + 1}
ChoicesAgain   == IF Randomise THEN 0..(total - 1) ELSE {index}
ChoicesFromEnd == IF Randomise THEN 0..(total - 1) \ visited ELSE {total - 1 - index}
\* rand() % _number_of_waypoints until it hits a waypoint not yet visited.
Choices == IF Randomise THEN 0..(total - 1) \ visited ELSE {index}

NextWaypoint ==
    /\ pc = "next" /\ MoreWaypoints /\ loaded \notin Unreadable
    /\ \E w \in Choices :
         /\ current' = w
         /\ visited' = IF Randomise THEN visited \cup {w} ELSE visited
    /\ index' = index + 1
    /\ attempt' = 0 /\ abort' = 0 /\ stop' = FALSE /\ resends' = 0
    /\ pc' = "send"
    /\ UNCHANGED <<setupVars, soundVars, timeVars, poseVars, mbVars>>

\* With no file the coordinates are read from empty vectors.
ReadPastEnd ==
    /\ pc = "next" /\ MoreWaypoints /\ loaded \in Unreadable
    /\ pc' = "crashed"
    /\ UNCHANGED <<setupVars, soundVars, tourVars, countVars, timeVars,
                   poseVars, mbVars>>

TourEnds ==
    /\ pc = "next" /\ ~MoreWaypoints
    /\ pc' = "over"
    /\ UNCHANGED <<setupVars, soundVars, tourVars, countVars, timeVars,
                   poseVars, mbVars>>

FirstSend ==
    /\ pc = "send"
    /\ SendGoal(current)
    /\ attempt' = attempt + 1
    /\ elapsed' = 0 /\ since' = 0
    /\ pc' = "pending"
    /\ UNCHANGED <<setupVars, soundVars, tourVars, abort, stop, resends, poseVars>>

PendingLoop ==
    /\ pc = "pending"
    /\ IF view = "PENDING"
       THEN pc' = "pendingSleep" /\ UNCHANGED <<timeVars, resends>>
       ELSE /\ pc' = "rejected"
            /\ elapsed' = 0 /\ since' = 0 /\ resends' = 0    \* not read again
    /\ UNCHANGED <<setupVars, soundVars, tourVars, attempt, abort, stop, poseVars,
                   mbVars>>

\* Mistake: the time of the last send is not waited for.
ResendAtOnce(s) == TRUE
ResendDue(s) == s >= ResendAfter

\* The state was read before the sleep; the goal is resent all the same.
PendingSleep ==
    /\ pc = "pendingSleep"
    /\ \E d \in 1..Stall :
         /\ elapsed' = elapsed + d
         /\ \/ /\ elapsed + d >= AbortAfter
               /\ stop' = TRUE /\ pc' = "over"
               /\ since' = since + d
               /\ UNCHANGED <<resends, mbVars>>
            \/ /\ elapsed + d < AbortAfter
               /\ pc' = "pending"
               /\ IF ResendDue(since + d)
                  THEN SendGoal(current) /\ since' = 0 /\ resends' = resends + 1
                  ELSE since' = since + d /\ UNCHANGED <<resends, mbVars>>
               /\ UNCHANGED stop
    /\ UNCHANGED <<setupVars, soundVars, tourVars, attempt, abort, poseVars>>

\* Mistake: the attempts at a rejected goal are not counted.
SameAttempt == attempt
NextAttempt == attempt + 1

\* Mistake: the third rejection ends the tour, as its message says.
BreakTour == pc' = "over"
\* The break leaves this loop and nothing else: the node goes on to the 0.5 s
\* sleep with the flag set.
BreakLoop == pc' = "settle"

RejectedLoop ==
    /\ pc = "rejected"
    /\ \/ /\ view = "REJECTED" /\ attempt = MaxAttempts
          /\ stop' = TRUE /\ BreakLoop
          /\ UNCHANGED <<attempt, mbVars>>
       \/ /\ view = "REJECTED" /\ attempt # MaxAttempts
          /\ attempt' = NextAttempt
          /\ SendGoal(current)
          /\ UNCHANGED <<stop, pc>>
       \/ /\ view # "REJECTED"
          /\ pc' = "settle"
          /\ UNCHANGED <<attempt, stop, mbVars>>
    /\ UNCHANGED <<setupVars, soundVars, tourVars, abort, resends, timeVars,
                   poseVars>>

\* Mistake: a goal that waits to be accepted counts as accepted.
NotEnded == view \notin ViewEnds
Accepted == view = "ACTIVE"

\* Only a goal that is ACTIVE right now is followed; any other state ends the
\* waypoint without a word, and the flag of the waypoint goes with it.
Settle ==
    /\ pc = "settle"
    /\ IF Accepted
       THEN /\ inBox' = (current \in NearOrigin[loaded])
            /\ tfKnown' = FALSE
            /\ pc' = "driving"
            /\ UNCHANGED stop
       ELSE /\ pc' = "next"
            /\ stop' = FALSE
            /\ UNCHANGED poseVars
    /\ UNCHANGED <<setupVars, soundVars, tourVars, attempt, abort, resends,
                   timeVars, mbVars>>

\* Loop while the pose is outside the box.  A failed lookup leaves t_mapBase
\* as it was, and as the stack left it if there was no lookup yet.  The flag
\* is tested after the loop.
DrivingLoop ==
    /\ pc = "driving"
    /\ \/ /\ inBox
          /\ pc' = IF stop THEN "over" ELSE "cancel"
          /\ inBox' = FALSE /\ tfKnown' = FALSE     \* end of their scope
       \/ /\ ~inBox
          /\ pc' = "poll"
          /\ \/ inBox' = (robotAt = current) /\ tfKnown' = TRUE
             \/ tfKnown /\ UNCHANGED poseVars
             \/ ~tfKnown /\ inBox' \in BOOLEAN /\ UNCHANGED tfKnown
    /\ UNCHANGED <<setupVars, soundVars, tourVars, countVars, timeVars, mbVars>>

\* Mistake: the goal is sent again before the aborts are counted.
SentAgain == SendGoal(current)
\* The third abort breaks off: nothing more is sent.
BreakOff  == UNCHANGED mbVars

PollState ==
    /\ pc = "poll"
    /\ \/ /\ view # "ABORTED"
          /\ pc' = "driving"
          /\ UNCHANGED <<abort, stop, mbVars>>
       \/ /\ view = "ABORTED" /\ abort + 1 = MaxAttempts
          /\ abort' = abort + 1 /\ stop' = TRUE
          /\ pc' = "over"
          /\ BreakOff
       \/ /\ view = "ABORTED" /\ abort + 1 # MaxAttempts
          /\ abort' = abort + 1
          /\ SendGoal(current)
          /\ pc' = "driving"
          /\ UNCHANGED stop
    /\ UNCHANGED <<setupVars, soundVars, tourVars, attempt, resends, timeVars,
                   poseVars>>

CancelReached ==
    /\ pc = "cancel"
    /\ CancelGoal
    /\ since' = 0
    /\ pc' = "cancelling"
    /\ UNCHANGED <<setupVars, soundVars, tourVars, countVars, elapsed, poseVars>>

\* Mistake: sending the request is taken for the cancellation.
CancelSent == cancelReq \/ view = "PREEMPTED"
Cancelled  == view = "PREEMPTED"

\* Leaves the loop on PREEMPTED only; it spins on the clock without sleeping.
CancelWait ==
    /\ pc = "cancelling" /\ ~Cancelled
    /\ IF since < ResendAfter
       THEN since' = since + 1 /\ UNCHANGED mbVars
       ELSE since' = 0 /\ CancelGoal
    /\ UNCHANGED <<pc, setupVars, soundVars, tourVars, countVars, elapsed,
                   poseVars>>

\* Mistake: the flag keeps what the last talk left in it.
TriggerOnly  == triggers' = Append(triggers, AudioName(current)) /\ UNCHANGED finished
TriggerAudio == triggers' = Append(triggers, AudioName(current)) /\ finished' = FALSE

Reached ==
    /\ pc = "cancelling" /\ Cancelled
    /\ IF current \in Named[loaded]
       THEN TriggerAudio /\ pc' = "audio"
       ELSE /\ pc' = "next"
            /\ UNCHANGED <<finished, triggers>>
    /\ since' = 0
    /\ UNCHANGED <<setupVars, statusQ, tourVars, countVars, elapsed,
                   poseVars, mbVars>>

WaitAudio ==
    /\ pc = "audio"
    /\ \/ /\ finished
          /\ pc' = "next"
          /\ UNCHANGED <<file, enabled, finished, fileQ, enableQ, statusQ>>
       \/ ~finished /\ SpinOnce /\ pc' = pc
    /\ UNCHANGED <<loaded, total, mail, triggers, tourVars, countVars, timeVars,
                   poseVars, mbVars>>

Main ==
    \/ WaitFile \/ LoadWaypoints \/ WaitServer \/ WaitEnable
    \/ NextWaypoint \/ ReadPastEnd \/ TourEnds
    \/ FirstSend \/ PendingLoop \/ PendingSleep \/ RejectedLoop \/ Settle
    \/ DrivingLoop \/ PollState \/ CancelReached \/ CancelWait \/ Reached
    \/ WaitAudio

---------------------------------------------------------------------------
(* The outside world: the operator's topics, the audio player's status.    *)

Running == pc \notin {"over", "crashed"}

SelectFile(f) ==
    /\ Running /\ mail < MaxMail /\ fileQ' = f /\ mail' = mail + 1
    /\ UNCHANGED <<pc, file, loaded, total, enabled, enableQ, soundVars, tourVars,
                   countVars, timeVars, poseVars, mbVars>>

Enable(e) ==
    /\ Running /\ mail < MaxMail /\ enableQ' = e /\ mail' = mail + 1
    /\ UNCHANGED <<pc, file, loaded, total, enabled, fileQ, soundVars, tourVars,
                   countVars, timeVars, poseVars, mbVars>>

AudioStatus(s) ==
    /\ Running /\ statusQ' = s
    /\ UNCHANGED <<pc, setupVars, finished, triggers, tourVars, countVars,
                   timeVars, poseVars, mbVars>>

Operator == (\E f \in Files : SelectFile(f)) \/ (\E e \in Enables : Enable(e))
Server   == MBNext /\ UNCHANGED navVars
TourNext == Main \/ Server \/ Operator

\* Any status at any time: what the node must live with whatever plays.
Next == TourNext \/ \E s \in Statuses : AudioStatus(s)

\* The node's thread always runs on.
Spec == Init /\ [][Next]_vars /\ WF_vars(Main)
=============================================================================
