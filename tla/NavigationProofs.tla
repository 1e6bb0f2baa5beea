-------------------------- MODULE NavigationProofs --------------------------
(***************************************************************************)
(* Proofs about waypoint_navigation for every set of files, every tour     *)
(* length and every setting of the timers.                                 *)
(***************************************************************************)
EXTENDS NavigationProperties, FiniteSetTheorems, TLAPS

Loaded  == pc \notin {"file", "load"}
HasGoal == {"pending", "pendingSleep", "rejected", "settle", "driving",
            "poll", "cancel", "cancelling", "audio"}

(***************************************************************************)
(* The inductive invariant.  TypeOK alone is not inductive: that a         *)
(* waypoint index is in range rests on PlanInv, that the counters stay     *)
(* small on CountInv.  That nothing moves during a talk needs what the     *)
(* client's state says of the server and of the base (GoalInv), the bound  *)
(* on the resends the seconds that each of them used up, and the causes    *)
(* that end a tour where the flag can be set (CauseInv).                   *)
(***************************************************************************)

\* The tour is the one of the loaded file.
PlanInv ==
    /\ pc = "load" => file \in Files
    /\ Loaded => loaded \in Files
    /\ Loaded /\ loaded \notin Unreadable => total = Count[loaded]
    /\ pc \in OnTheWay \cup {"audio"} => loaded \notin Unreadable /\ current \in Waypoints

\* The counters of one waypoint.
CountInv ==
    /\ pc = "send" => attempt = 0 /\ resends = 0
    /\ abort = MaxAttempts => pc = "over" /\ view = "ABORTED"

\* The client's goal, what its state says of the server, and what the base does.
GoalInv ==
    /\ pc \in HasGoal => target = current
    /\ goal = "active" => exec = target
    /\ goal \in {"preempted", "aborted"} => exec = NoWaypoint
    /\ view \in ViewEnds => goal \notin {"sent", "active"}
    /\ view = "PREEMPTED" => goal = "preempted"
    /\ view = "ABORTED" => goal = "aborted"
    /\ view = "ACTIVE" => exec \in {NoWaypoint, target}
    /\ pc = "audio" => view = "PREEMPTED"
    /\ DrivesToCurrent

\* In the PENDING loop every resend has used up ResendAfter seconds.
TimeInv ==
    /\ ResendsBounded
    /\ pc \in {"pending", "pendingSleep"} =>
           /\ resends * ResendAfter + since <= elapsed
           /\ elapsed < AbortAfter

\* stop_all_movement set by the third rejection is not tested: the client's
\* state stays REJECTED, so the only test in its scope is not reached.
CauseInv ==
    /\ stop => pc \in {"settle", "over"}
    /\ pc = "settle" /\ stop => view = "REJECTED"
    /\ GivenUpForCause

IInv == TypeOK /\ PlanInv /\ CountInv /\ GoalInv /\ TimeInv /\ CauseInv

---------------------------------------------------------------------------
(* The frames and the small tests are expanded everywhere.                 *)
USE DEF setupVars, soundVars, tourVars, countVars, timeVars, poseVars, navVars, mbVars,
        NextAttempt, ResendDue, BreakOff, BreakLoop, Accepted, Cancelled, TriggerAudio

\* All that is assumed of the constants.
LEMMA Constants ==
    /\ None \notin Files /\ Unreadable \subseteq Files /\ Short \subseteq Files
    /\ Count \in [Files -> Nat]
    /\ Garbage \subseteq Int
    /\ ResendAfter \in Nat /\ AbortAfter \in Nat /\ Stall \in Nat /\ MaxMail \in Nat
    /\ ResendAfter > 0 /\ AbortAfter > 0 /\ MaxCrashes \in Nat
  BY FilesAssumption, TimeAssumption, MailAssumption, CrashAssumption

\* An index below the count of a file is a waypoint.
LEMMA WaypointIndex ==
  ASSUME NEW f \in Files, NEW w \in 0..(Count[f] - 1)
  PROVE  w \in Waypoints
  BY DEF Waypoints

\* The callbacks keep flags and queues well-typed and a selected file selected.
LEMMA SpinControl ==
  ASSUME ControlOK, SpinOnce
  PROVE  /\ fileQ' \in Files \cup {None} /\ enableQ' \in Enables \cup {None}
         /\ statusQ' \in Statuses \cup {None} /\ file' \in Files \cup {None}
         /\ file \in Files => file' \in Files
         /\ enabled' \in BOOLEAN /\ finished' \in BOOLEAN
<1>1. /\ fileQ' \in Files \cup {None} /\ enableQ' \in Enables \cup {None}
      /\ statusQ' \in Statuses \cup {None} /\ file' \in Files \cup {None}
      /\ file \in Files => file' \in Files
  BY DEF ControlOK, SpinOnce, waypointFileSelectionCB
<1>2. enabled' \in BOOLEAN /\ finished' \in BOOLEAN
  BY DEF ControlOK, SpinOnce, navigationEnableCB, audioStatusCB
<1> QED
  BY <1>1, <1>2

\* Whatever the program may choose is a waypoint of the loaded file.
LEMMA ChoicesAreWaypoints ==
  ASSUME IInv, pc = "next", MoreWaypoints, loaded \notin Unreadable
  PROVE  Choices \subseteq 0..(total - 1) /\ Choices \subseteq Waypoints
<1>1. loaded \in Files /\ total = Count[loaded]
  BY DEF IInv, PlanInv, Loaded
<1>2. index \in 0..(total - 1)
  BY DEF IInv, TypeOK, CountersOK, MoreWaypoints
<1>3. Choices \subseteq 0..(total - 1)
  BY <1>2 DEF Choices
<1> QED
  BY <1>1, <1>3, WaypointIndex

LEMMA InitInv == Init => IInv
<1> SUFFICES ASSUME Init PROVE IInv
  OBVIOUS
<1>1. ControlOK
  BY DEF Init, MBInit, ControlOK, PCs, GoalStates, GoalEnds, Views, ViewEnds
<1>2. CountersOK
  BY Constants DEF Init, MBInit, CountersOK, MaxAttempts
<1>3. PlacesOK
  BY DEF Init, MBInit, PlacesOK
<1>4. PlanInv /\ CountInv /\ GoalInv
  BY DEF Init, MBInit, PlanInv, Loaded, CountInv, MaxAttempts, GoalInv, HasGoal,
         OnTheWay, DrivesToCurrent, ViewEnds
<1>5. TimeInv
  BY Constants DEF Init, TimeInv, ResendsBounded
<1>6. CauseInv
  BY DEF Init, CauseInv, GivenUpForCause
<1> QED
  BY <1>1, <1>2, <1>3, <1>4, <1>5, <1>6 DEF IInv, TypeOK

---------------------------------------------------------------------------
(* A step of the program keeps each part.                                  *)

LEMMA ControlStep ==
  ASSUME IInv, Main
  PROVE  ControlOK'
<1> USE DEF IInv, TypeOK, ControlOK, PCs, GoalStates, GoalEnds, Views, ViewEnds
<1>1. CASE WaitFile
  BY <1>1, SpinControl DEF WaitFile
<1>2. CASE LoadWaypoints
  BY <1>2, SpinControl DEF LoadWaypoints
<1>3. CASE WaitServer
  BY <1>3, SpinControl DEF WaitServer
<1>4. CASE WaitEnable
  BY <1>4, SpinControl DEF WaitEnable
<1>5. CASE NextWaypoint
  BY <1>5, SpinControl DEF NextWaypoint
<1>6. CASE ReadPastEnd
  BY <1>6, SpinControl DEF ReadPastEnd
<1>7. CASE TourEnds
  BY <1>7, SpinControl DEF TourEnds
<1>8. CASE FirstSend
  BY <1>8, SpinControl DEF FirstSend, SendGoal
<1>9. CASE PendingLoop
  BY <1>9, SpinControl DEF PendingLoop
<1>10. CASE PendingSleep
  <2>1. pc' \in PCs /\ goal' \in GoalStates /\ view' \in Views
    BY <1>10 DEF PendingSleep, SendGoal
  <2>2. {up', cancelReq', stop'} \subseteq BOOLEAN
    BY <1>10 DEF PendingSleep, SendGoal
  <2> QED
    BY <1>10, <2>1, <2>2 DEF PendingSleep
<1>11. CASE RejectedLoop
  BY <1>11, SpinControl DEF RejectedLoop, SendGoal
<1>12. CASE Settle
  <2>1. CASE view = "ACTIVE"
    <3>1. inBox' = TRUE \/ inBox' = FALSE
      BY <1>12, <2>1 DEF Settle
    <3> QED
      BY <1>12, <2>1, <3>1 DEF Settle
  <2>2. CASE view # "ACTIVE"
    BY <1>12, <2>2 DEF Settle
  <2> QED
    BY <2>1, <2>2
<1>13. CASE DrivingLoop
  <2>1. {inBox', tfKnown'} \subseteq BOOLEAN
    BY <1>13 DEF DrivingLoop
  <2> QED
    BY <1>13, <2>1 DEF DrivingLoop
<1>14. CASE PollState
  BY <1>14, SpinControl DEF PollState, SendGoal
<1>15. CASE CancelReached
  BY <1>15, SpinControl DEF CancelReached, CancelGoal
<1>16. CASE CancelWait
  BY <1>16, SpinControl DEF CancelWait, CancelGoal
<1>17. CASE Reached
  BY <1>17, SpinControl DEF Reached
<1>18. CASE WaitAudio
  BY <1>18, SpinControl DEF WaitAudio
<1> QED
  BY <1>1, <1>2, <1>3, <1>4, <1>5, <1>6, <1>7, <1>8, <1>9, <1>10, <1>11, <1>12, <1>13, <1>14, <1>15, <1>16, <1>17, <1>18 DEF Main

LEMMA CountersStep ==
  ASSUME IInv, Main
  PROVE  CountersOK'
<1> USE DEF IInv, TypeOK, CountersOK, MaxAttempts, CountInv
<1>1. CASE WaitFile
  BY <1>1, Constants DEF WaitFile
<1>2. CASE LoadWaypoints
  BY <1>2, Constants DEF LoadWaypoints
<1>3. CASE WaitServer
  BY <1>3, Constants DEF WaitServer
<1>4. CASE WaitEnable
  BY <1>4, Constants DEF WaitEnable
<1>5. CASE NextWaypoint
  BY <1>5, Constants DEF NextWaypoint
<1>6. CASE ReadPastEnd
  BY <1>6, Constants DEF ReadPastEnd
<1>7. CASE TourEnds
  BY <1>7, Constants DEF TourEnds
<1>8. CASE FirstSend
  BY <1>8, Constants DEF FirstSend, SendGoal
<1>9. CASE PendingLoop
  BY <1>9, Constants DEF PendingLoop
<1>10. CASE PendingSleep
  BY <1>10, Constants DEF PendingSleep, SendGoal
<1>11. CASE RejectedLoop
  BY <1>11, Constants DEF RejectedLoop, SendGoal
<1>12. CASE Settle
  BY <1>12, Constants DEF Settle
<1>13. CASE DrivingLoop
  BY <1>13, Constants DEF DrivingLoop
<1>14. CASE PollState
  BY <1>14, Constants DEF PollState, SendGoal
<1>15. CASE CancelReached
  BY <1>15, Constants DEF CancelReached, CancelGoal
<1>16. CASE CancelWait
  BY <1>16, Constants DEF CancelWait, CancelGoal
<1>17. CASE Reached
  BY <1>17, Constants DEF Reached
<1>18. CASE WaitAudio
  BY <1>18, Constants DEF WaitAudio
<1> QED
  BY <1>1, <1>2, <1>3, <1>4, <1>5, <1>6, <1>7, <1>8, <1>9, <1>10, <1>11, <1>12, <1>13, <1>14, <1>15, <1>16, <1>17, <1>18 DEF Main

LEMMA PlacesStep ==
  ASSUME IInv, Main
  PROVE  PlacesOK'
<1> USE DEF IInv, TypeOK, PlacesOK
<1>1. CASE WaitFile
  BY <1>1 DEF WaitFile
<1>2. CASE LoadWaypoints
  BY <1>2 DEF LoadWaypoints
<1>3. CASE WaitServer
  BY <1>3 DEF WaitServer
<1>4. CASE WaitEnable
  BY <1>4 DEF WaitEnable
<1>5. CASE NextWaypoint
  BY <1>5, ChoicesAreWaypoints DEF NextWaypoint
<1>6. CASE ReadPastEnd
  BY <1>6 DEF ReadPastEnd
<1>7. CASE TourEnds
  BY <1>7 DEF TourEnds
<1>8. CASE FirstSend
  BY <1>8 DEF FirstSend, SendGoal
<1>9. CASE PendingLoop
  BY <1>9 DEF PendingLoop
<1>10. CASE PendingSleep
  BY <1>10 DEF PendingSleep, SendGoal
<1>11. CASE RejectedLoop
  BY <1>11 DEF RejectedLoop, SendGoal
<1>12. CASE Settle
  BY <1>12 DEF Settle
<1>13. CASE DrivingLoop
  BY <1>13 DEF DrivingLoop
<1>14. CASE PollState
  BY <1>14 DEF PollState, SendGoal
<1>15. CASE CancelReached
  BY <1>15 DEF CancelReached, CancelGoal
<1>16. CASE CancelWait
  BY <1>16 DEF CancelWait, CancelGoal
<1>17. CASE Reached
  <2>1. CASE current \in Named[loaded]
    <3>1. current \in Waypoints
      BY <1>17 DEF PlanInv, Reached, OnTheWay
    <3>2. AudioName(current) \in AudioNames
      BY <3>1 DEF AudioName, AudioNames
    <3> QED
      BY <1>17, <2>1, <3>2 DEF Reached
  <2>2. CASE current \notin Named[loaded]
    BY <1>17, <2>2 DEF Reached
  <2> QED
    BY <2>1, <2>2
<1>18. CASE WaitAudio
  BY <1>18 DEF WaitAudio
<1> QED
  BY <1>1, <1>2, <1>3, <1>4, <1>5, <1>6, <1>7, <1>8, <1>9, <1>10, <1>11, <1>12, <1>13, <1>14, <1>15, <1>16, <1>17, <1>18 DEF Main

LEMMA PlanStep ==
  ASSUME IInv, Main
  PROVE  PlanInv'
<1> USE DEF IInv, PlanInv, Loaded, OnTheWay
<1>1. CASE WaitFile
  BY <1>1, SpinControl DEF WaitFile, TypeOK, ControlOK
<1>2. CASE LoadWaypoints
  BY <1>2 DEF LoadWaypoints
<1>3. CASE WaitServer
  BY <1>3, SpinControl DEF WaitServer, TypeOK
<1>4. CASE WaitEnable
  BY <1>4 DEF WaitEnable
<1>5. CASE NextWaypoint
  BY <1>5, ChoicesAreWaypoints DEF NextWaypoint
<1>6. CASE ReadPastEnd
  BY <1>6 DEF ReadPastEnd
<1>7. CASE TourEnds
  BY <1>7 DEF TourEnds
<1>8. CASE FirstSend
  BY <1>8 DEF FirstSend, SendGoal
<1>9. CASE PendingLoop
  BY <1>9 DEF PendingLoop
<1>10. CASE PendingSleep
  BY <1>10 DEF PendingSleep, SendGoal
<1>11. CASE RejectedLoop
  BY <1>11 DEF RejectedLoop, SendGoal
<1>12. CASE Settle
  BY <1>12 DEF Settle
<1>13. CASE DrivingLoop
  BY <1>13 DEF DrivingLoop
<1>14. CASE PollState
  BY <1>14 DEF PollState, SendGoal
<1>15. CASE CancelReached
  BY <1>15 DEF CancelReached, CancelGoal
<1>16. CASE CancelWait
  BY <1>16 DEF CancelWait, CancelGoal
<1>17. CASE Reached
  BY <1>17 DEF Reached
<1>18. CASE WaitAudio
  BY <1>18 DEF WaitAudio
<1> QED
  BY <1>1, <1>2, <1>3, <1>4, <1>5, <1>6, <1>7, <1>8, <1>9, <1>10, <1>11, <1>12, <1>13, <1>14, <1>15, <1>16, <1>17, <1>18 DEF Main

\* One program step keeps the rest; no action needs a case of its own.
LEMMA OtherStep ==
  ASSUME IInv, Main
  PROVE  CountInv' /\ GoalInv' /\ TimeInv' /\ CauseInv'
<1> USE DEF Main, WaitFile, LoadWaypoints, WaitServer, WaitEnable, NextWaypoint,
            ReadPastEnd, TourEnds, FirstSend, PendingLoop, PendingSleep,
            RejectedLoop, Settle, DrivingLoop, PollState, CancelReached,
            CancelWait, Reached, WaitAudio, SendGoal, CancelGoal
<1>1. CountInv'
  BY SMTT(60) DEF IInv, TypeOK, CountersOK, CountInv, MaxAttempts
<1>2. GoalInv'
  BY SMTT(60) DEF IInv, TypeOK, ControlOK, GoalInv, HasGoal, DrivesToCurrent, GoalEnds, ViewEnds
<1>3. TimeInv'
  BY Constants, SMTT(60) DEF IInv, TypeOK, CountersOK, CountInv, TimeInv, ResendsBounded
<1>4. CauseInv'
  BY Constants, SMTT(60) DEF IInv, TypeOK, CountersOK, ControlOK, CauseInv, GivenUpForCause,
     MaxAttempts
<1> QED
  BY <1>1, <1>2, <1>3, <1>4

\* Steps of the server, the client's thread and the base.
LEMMA ServerStep ==
  ASSUME IInv, Server
  PROVE  IInv'
<1> USE DEF Server, MBNext, ServerStart, ServerCrash, Accept, Reject, Succeed, Abort,
            Cancel, OldGoalEnds, RobotMoves, StatusArrives, GoalLost
<1>1. ControlOK'
  <2>1. pc' \in PCs /\ goal' \in GoalStates /\ view' \in Views
    BY DEF IInv, TypeOK, ControlOK, GoalStates, GoalEnds, Views, ViewEnds, ViewOf
  <2>2. {up', cancelReq'} \subseteq BOOLEAN
    BY DEF IInv, TypeOK, ControlOK
  <2> QED
    BY <2>1, <2>2 DEF IInv, TypeOK, ControlOK
<1>2. CountersOK'
  BY Constants DEF IInv, TypeOK, CountersOK
<1>3. PlacesOK'
  BY DEF IInv, TypeOK, PlacesOK
<1>4. PlanInv' /\ CountInv'
  BY DEF IInv, PlanInv, Loaded, OnTheWay, CountInv, ViewEnds
<1>5. GoalInv'
  BY DEF IInv, TypeOK, ControlOK, GoalInv, HasGoal, DrivesToCurrent, ViewOf, GoalEnds, ViewEnds
<1>6. TimeInv'
  BY DEF IInv, TimeInv, ResendsBounded
<1>7. CauseInv'
  BY DEF IInv, CauseInv, GivenUpForCause, ViewEnds
<1> QED
  BY <1>1, <1>2, <1>3, <1>4, <1>5, <1>6, <1>7 DEF IInv, TypeOK

\* Messages of the operator and of the audio player only fill queues.
LEMMA MailStep ==
  ASSUME IInv, Operator \/ \E s \in Statuses : AudioStatus(s)
  PROVE  IInv'
<1> USE DEF Operator, SelectFile, Enable, AudioStatus
<1>1. ControlOK' /\ PlacesOK'
  BY DEF IInv, TypeOK, ControlOK, PlacesOK
<1>2. CountersOK'
  BY Constants DEF IInv, TypeOK, CountersOK
<1>3. PlanInv' /\ CountInv' /\ GoalInv' /\ TimeInv' /\ CauseInv'
  BY DEF IInv, PlanInv, Loaded, OnTheWay, CountInv, GoalInv, HasGoal, DrivesToCurrent,
         TimeInv, ResendsBounded, CauseInv, GivenUpForCause
<1> QED
  BY <1>1, <1>2, <1>3 DEF IInv, TypeOK

LEMMA Stutter ==
  ASSUME IInv, UNCHANGED vars
  PROVE  IInv'
  BY DEF vars, IInv, TypeOK, ControlOK, CountersOK, PlacesOK, PlanInv, Loaded, OnTheWay,
         CountInv, GoalInv, HasGoal, DrivesToCurrent, TimeInv, ResendsBounded, CauseInv,
         GivenUpForCause

LEMMA Inductive == IInv /\ [Next]_vars => IInv'
<1> SUFFICES ASSUME IInv, [Next]_vars PROVE IInv'
  OBVIOUS
<1>1. CASE Main
  BY <1>1, ControlStep, CountersStep, PlacesStep, PlanStep, OtherStep DEF IInv, TypeOK
<1>2. CASE Server
  BY <1>2, ServerStep
<1>3. CASE Operator \/ \E s \in Statuses : AudioStatus(s)
  BY <1>3, MailStep
<1>4. CASE UNCHANGED vars
  BY <1>4, Stutter
<1> QED
  BY <1>1, <1>2, <1>3, <1>4 DEF Next, TourNext

---------------------------------------------------------------------------
(* The theorems.                                                           *)

\* The inductive invariant holds in every behaviour of the node.
THEOREM Invariance == Spec => []IInv
  BY InitInv, Inductive, PTL DEF Spec

\* The types of all variables: no waypoint index leaves its file and no attempt
\* counter of the loops passes 3 (waypoint_navigation.cpp:159-160).
THEOREM TypeCorrect == Spec => []TypeOK
<1>1. IInv => TypeOK
  BY DEF IInv
<1> QED
  BY <1>1, Invariance, PTL

\* No goal drives the base while the node waits for a sound file (:334-340),
\* however the resends and the aborts before went.
THEOREM TalkAtStandstill == Spec => []StandsStillForTalk
<1>1. IInv => StandsStillForTalk
  BY DEF IInv, GoalInv, StandsStillForTalk
<1> QED
  BY <1>1, Invariance, PTL

\* In the pose loop and the cancel loop (:244-308) the base drives to the
\* current waypoint or nowhere.
THEOREM OneDestination == Spec => []DrivesToCurrent
<1>1. IInv => DrivesToCurrent
  BY DEF IInv, GoalInv
<1> QED
  BY <1>1, Invariance, PTL

\* The loop on PENDING (:192-207) resends fewer than AbortAfter / ResendAfter
\* times, whatever the server does and however long the sleeps are.
THEOREM FewResends == Spec => []ResendsBounded
<1>1. IInv => ResendsBounded
  BY DEF IInv, TimeInv
<1> QED
  BY <1>1, Invariance, PTL

\* A tour that is broken off after three aborts (:266-272) leaves no goal that
\* drives the base or may still be accepted: what the client's state says of
\* the last goal is true of it, and its acceptance had ended all earlier ones.
THEOREM AbortsEndAllMovement == Spec => []AbortsStopTheBase
<1>1. IInv => AbortsStopTheBase
  BY DEF IInv, CountInv, GoalInv, AbortsStopTheBase
<1> QED
  BY <1>1, Invariance, PTL

\* Only an unanswered goal (:199-203) or three aborts (:267-272) end the tour
\* before its last waypoint.  A goal rejected three times does not, though the
\* node says so (:216): REJECTED is final, so the flag goes out of scope untested.
THEOREM RejectionsDoNotEndTheTour == Spec => []GivenUpForCause
<1>1. IInv => GivenUpForCause
  BY DEF IInv, CauseInv
<1> QED
  BY <1>1, Invariance, PTL
=============================================================================
