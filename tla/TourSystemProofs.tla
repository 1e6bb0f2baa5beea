-------------------------- MODULE TourSystemProofs --------------------------
(***************************************************************************)
(* Safety of waypoint_navigation and audio_player together, for every set  *)
(* of files and whatever clips exist.  That they lead a guided tour, in    *)
(* which a wait belongs to its clip, needs clips of at least half a        *)
(* second: a shorter one is reported as Ended twice.                       *)
(***************************************************************************)
EXTENDS TourSystem, TourRefinement

USE DEF setupVars, soundVars, tourVars, countVars, timeVars, poseVars, navVars, mbVars,
        NextAttempt, ResendDue, BreakOff, BreakLoop, Accepted, Cancelled, TriggerAudio, playerVars, notPlayer

\* The player's own variables; once it has begun, libvlc has a state to tell.
PlayerInv ==
    /\ P!APTypeOK
    /\ apc # "idle" => vlc # "NothingSpecial"

\* Nothing of a clip is left when the node is not waiting for one.
Quiet ==
    /\ apc = "idle" /\ heard = Len(triggers)
    /\ statusQ # "Ended" /\ vlc \in {"NothingSpecial", "Ended"}

\* While it waits, the trigger may not have been heard yet; Ended is said once,
\* of the clip that was triggered last, and the player is idle by then.
OneClip ==
    /\ heard \in {Len(triggers), Len(triggers) - 1}
    /\ heard # Len(triggers) => apc = "idle" /\ vlc \in {"NothingSpecial", "Ended"}
    /\ apc = "sleep" => vlc # "Ended"
    /\ statusQ = "Ended" \/ finished =>
           heard = Len(triggers) /\ apc = "idle" /\ vlc = "Ended"
    /\ finished => statusQ # "Ended"

ClipInv == IF pc = "audio" THEN OneClip ELSE Quiet

SInv == IInv /\ PlayerInv

---------------------------------------------------------------------------
(* Types                                                                   *)

LEMMA StatusTypes == /\ P!VlcStates \ {"NothingSpecial"} \subseteq Statuses
                     /\ "Error" \in Statuses /\ "Ended" \in Statuses
                     /\ None \notin Statuses
  BY PlayerAssumption, MailAssumption DEF P!VlcStates

LEMMA SysInitTypes == SysInit => SInv
  BY InitInv DEF SysInit, SInv, PlayerInv, P!APInit, P!APTypeOK, P!VlcStates, Init

\* A step of the player leaves the node alone, but for its queue.
LEMMA PlayerLeavesNode ==
  ASSUME IInv, UNCHANGED notPlayer, UNCHANGED triggers, statusQ' \in Statuses \cup {None}
  PROVE  IInv'
<1>1. ControlOK' /\ PlacesOK'
  BY DEF IInv, TypeOK, ControlOK, PlacesOK
<1>2. CountersOK'
  BY Constants DEF IInv, TypeOK, CountersOK
<1>3. PlanInv' /\ CountInv' /\ GoalInv' /\ TimeInv' /\ CauseInv'
  BY DEF IInv, PlanInv, Loaded, OnTheWay, CountInv, GoalInv, HasGoal, DrivesToCurrent,
         TimeInv, ResendsBounded, CauseInv, GivenUpForCause
<1> QED
  BY <1>1, <1>2, <1>3 DEF IInv, TypeOK

LEMMA PlayerTypes ==
  ASSUME SInv, Player
  PROVE  SInv' /\ UNCHANGED triggers
<1> USE DEF SInv, PlayerInv, P!APTypeOK, P!VlcStates, P!Publish
<1>1. UNCHANGED triggers
  BY DEF Player, P!APNext, P!StartClip, P!NoSuchClip, P!PublishFirst, P!PublishLast,
         P!VlcStep
<1>2. triggers \in Seq(AudioNames)
  BY DEF IInv, TypeOK, PlacesOK
<1>3. PlayerInv' /\ statusQ' \in {statusQ} \cup Statuses
  <2>1. CASE P!StartClip
    BY <1>1, <1>2, <2>1 DEF P!StartClip
  <2>2. CASE P!NoSuchClip
    BY <1>1, <1>2, <2>2, StatusTypes DEF P!NoSuchClip
  <2>3. CASE P!PublishFirst
    BY <1>1, <2>3, StatusTypes DEF P!PublishFirst
  <2>4. CASE P!PublishLast
    BY <1>1, <2>4, StatusTypes DEF P!PublishLast
  <2>5. CASE P!VlcStep
    BY <1>1, <2>5 DEF P!VlcStep
  <2> QED
    BY <2>1, <2>2, <2>3, <2>4, <2>5 DEF Player, P!APNext
<1>4. statusQ \in Statuses \cup {None}
  BY DEF IInv, TypeOK, ControlOK
<1>5. IInv'
  BY <1>1, <1>3, <1>4, PlayerLeavesNode DEF Player
<1> QED
  BY <1>1, <1>3, <1>5

\* Only the end of a drive triggers a clip.
LEMMA Triggering ==
  ASSUME TourNext, ~Reached
  PROVE  UNCHANGED triggers
  BY DEF TourNext, Main, Server, Operator, WaitFile, LoadWaypoints, WaitServer,
     WaitEnable, NextWaypoint, ReadPastEnd, TourEnds, FirstSend, PendingLoop,
     PendingSleep, RejectedLoop, Settle, DrivingLoop, PollState, CancelReached,
     CancelWait, WaitAudio, SelectFile, Enable

LEMMA NodeTypes ==
  ASSUME SInv, TourNext, UNCHANGED playerVars
  PROVE  SInv'
<1>1. IInv'
  BY Inductive DEF SInv, Next
<1>2. triggers \in Seq(AudioNames) /\ triggers' \in Seq(AudioNames)
  BY <1>1 DEF SInv, IInv, TypeOK, PlacesOK
<1>3. Len(triggers') >= Len(triggers)
  <2>1. CASE Reached
    BY <1>2, <2>1 DEF Reached
  <2> QED
    BY <1>2, <2>1, Triggering
<1>4. Len(triggers) \in Nat /\ Len(triggers') \in Nat
  BY <1>2
<1> QED
  BY <1>1, <1>3, <1>4 DEF SInv, PlayerInv, P!APTypeOK

LEMMA SysTypesStep == SInv /\ [SysNext]_sysVars => SInv'
<1>1. ASSUME SInv, UNCHANGED sysVars PROVE SInv'
  <2>1. IInv'
    BY <1>1, Stutter DEF SInv, sysVars
  <2> QED
    BY <1>1, <2>1 DEF SInv, sysVars, vars, PlayerInv, P!APTypeOK
<1> QED
  BY <1>1, PlayerTypes, NodeTypes DEF SysNext

\* The variables of both nodes keep to their sets.
THEOREM SystemTypes == SysSpec => []SysTypeOK
<1>1. SInv => SysTypeOK
  BY DEF SInv, IInv, PlayerInv, SysTypeOK
<1> QED
  BY <1>1, SysInitTypes, SysTypesStep, PTL DEF SysSpec

---------------------------------------------------------------------------
(* One clip at a time                                                      *)

LEMMA SysInitClip == SysInit => ClipInv
  BY StatusTypes DEF SysInit, P!APInit, Init, ClipInv, Quiet

\* The node starts a wait with one trigger and nothing left of the last clip,
\* and ends it with nothing left of this one.
LEMMA NodeClip ==
  ASSUME SInv, ClipInv, TourNext, UNCHANGED playerVars
  PROVE  ClipInv'
<1> USE DEF ClipInv, Quiet, OneClip
<1>1. /\ triggers \in Seq(AudioNames) /\ Len(triggers) \in Nat
      /\ heard \in 0..Len(triggers)
      /\ (pc \in OnTheWay \cup {"audio"} => current \in Waypoints)
  BY DEF SInv, PlayerInv, P!APTypeOK, IInv, TypeOK, PlacesOK, PlanInv
<1>2. CASE Reached
  <2>1. CASE pc' = "audio"
    <3>1. current \in Waypoints
      BY <1>1, <1>2 DEF Reached, OnTheWay
    <3>2. Len(triggers') = Len(triggers) + 1
      BY <1>1, <1>2, <2>1 DEF Reached
    <3>3. heard' = Len(triggers') - 1 /\ heard' # Len(triggers')
      BY <1>1, <1>2, <3>2 DEF Reached
    <3> QED
      BY <1>2, <2>1, <3>3 DEF Reached
  <2>2. CASE pc' # "audio"
    BY <1>2, <2>2 DEF Reached
  <2> QED
    BY <2>1, <2>2
<1>3. CASE WaitAudio
  BY <1>1, <1>3, StatusTypes DEF WaitAudio, SpinOnce, audioStatusCB
<1>4. CASE Main /\ ~Reached /\ ~WaitAudio
  <2>1. pc # "audio" /\ pc' # "audio" /\ statusQ' \in {statusQ, None}
    BY <1>4 DEF Main, WaitFile, LoadWaypoints, WaitServer, WaitEnable, NextWaypoint,
       ReadPastEnd, TourEnds, FirstSend, PendingLoop, PendingSleep, RejectedLoop,
       Settle, DrivingLoop, PollState, CancelReached, CancelWait, SpinOnce
  <2> QED
    BY <1>4, <2>1, StatusTypes, Triggering
<1>5. CASE Server \/ Operator
  BY <1>5, Triggering DEF Server, Operator, SelectFile, Enable
<1> QED
  BY <1>2, <1>3, <1>4, <1>5 DEF TourNext

\* Without short clips the player says Ended once, and is idle from then on.
LEMMA PlayerClip ==
  ASSUME ~ShortClips, SInv, ClipInv, Player
  PROVE  ClipInv'
<1> USE DEF ClipInv, Quiet, OneClip, P!Publish
<1>1. UNCHANGED <<pc, finished, triggers>>
  BY PlayerTypes DEF Player
<1>2. Len(triggers) \in Nat /\ heard \in 0..Len(triggers)
  BY DEF SInv, PlayerInv, P!APTypeOK, IInv, TypeOK, PlacesOK
<1>3. CASE P!StartClip
  BY <1>1, <1>2, <1>3 DEF P!StartClip
<1>4. CASE P!NoSuchClip
  BY <1>1, <1>2, <1>4 DEF P!NoSuchClip
<1>5. CASE P!PublishFirst
  BY <1>1, <1>2, <1>5 DEF P!PublishFirst
<1>6. CASE P!PublishLast
  BY <1>1, <1>2, <1>6 DEF P!PublishLast
<1>7. CASE P!VlcStep
  BY <1>1, <1>2, <1>7 DEF P!VlcStep
<1> QED
  BY <1>3, <1>4, <1>5, <1>6, <1>7 DEF Player, P!APNext

LEMMA ClipStep ==
  ASSUME ~ShortClips
  PROVE  SInv /\ ClipInv /\ [SysNext]_sysVars => ClipInv'
<1>1. ASSUME ClipInv, UNCHANGED sysVars PROVE ClipInv'
  BY <1>1 DEF ClipInv, Quiet, OneClip, sysVars, vars
<1> QED
  BY <1>1, NodeClip, PlayerClip DEF SysNext

\* With clips of at least half a second the base stands still while one plays:
\* the node then waits for it, and nothing moves during its wait.
THEOREM ClipsAtStandstill ==
  ASSUME ~ShortClips
  PROVE  SysSpec => []PlaysAtStandstill
<1>1. SInv /\ ClipInv => PlaysAtStandstill
  BY DEF SInv, IInv, GoalInv, ClipInv, Quiet, PlaysAtStandstill, ViewEnds
<1> QED
  BY <1>1, SysInitTypes, SysTypesStep, SysInitClip, ClipStep, PTL DEF SysSpec

\* With such clips the wait of a waypoint ends only when its own clip has: no
\* status that an earlier clip left behind can end it.
THEOREM WaitIsForThisClip ==
  ASSUME ~ShortClips
  PROVE  SysSpec => WaitsForThisClip
<1>1. ClipInv /\ [SysNext]_sysVars =>
        [(pc = "audio" /\ pc' = "next") => (heard = Len(triggers) /\ vlc = "Ended")]_sysVars
  <2> SUFFICES ASSUME ClipInv, SysNext, pc = "audio", pc' = "next"
               PROVE  heard = Len(triggers) /\ vlc = "Ended"
    OBVIOUS
  <2>1. finished
    BY DEF SysNext, Player, notPlayer, TourNext, Main, Server, Operator, WaitFile,
       LoadWaypoints, WaitServer, WaitEnable, NextWaypoint, ReadPastEnd, TourEnds,
       FirstSend, PendingLoop, PendingSleep, RejectedLoop, Settle, DrivingLoop, PollState,
       CancelReached, CancelWait, Reached, WaitAudio, SelectFile, Enable
  <2> QED
    BY <2>1 DEF ClipInv, OneClip
<1> QED
  BY <1>1, SysInitTypes, SysTypesStep, SysInitClip, ClipStep, PTL DEF SysSpec, WaitsForThisClip

---------------------------------------------------------------------------
(* The node's promises are kept with the player at its side.               *)

LEMMA PlayerKeepsTour ==
  ASSUME SInv, TInv, Player
  PROVE  TInv' /\ UNCHANGED T!tourVars
<1>1. UNCHANGED <<historyVars, pc, stop, goal, exec>> /\ IInv'
  BY PlayerTypes DEF Player, historyVars, SInv
<1>2. BoardInv' /\ TalkInv' /\ RandomInv'
  BY <1>1 DEF TInv, BoardInv, TalkInv, EachTalkOnce, RandomInv, Done, Randomise, AudioName,
     Loaded, MoreWaypoints, historyVars
<1>3. UNCHANGED T!tourVars
  BY <1>1, TourFrame DEF T!tourVars, AbstractPhase, Moving
<1> QED
  BY <1>1, <1>2, <1>3 DEF TInv

LEMMA SysTourStep == SInv /\ TInv /\ [SysNext]_sysVars => TInv' /\ [T!Next]_T!tourVars
<1> SUFFICES ASSUME SInv, TInv, [SysNext]_sysVars PROVE TInv' /\ [T!Next]_T!tourVars
  OBVIOUS
<1>1. CASE Player
  BY <1>1, PlayerKeepsTour
<1>2. CASE TourNext \/ UNCHANGED sysVars
  <2>1. [Next]_vars
    BY <1>2 DEF Next, sysVars
  <2> QED
    BY <2>1, TInductive, StepRefines
<1> QED
  BY <1>1, <1>2 DEF SysNext

LEMMA SysTourInv == SysSpec => [](SInv /\ TInv)
<1>1. SysInit => TInv
  BY TInit DEF SysInit
<1> QED
  BY <1>1, SysInitTypes, SysTypesStep, SysTourStep, PTL DEF SysSpec

\* The two nodes together implement Tour, whatever clips there are and however
\* long they last: nothing the player says or leaves unsaid costs a promise.
THEOREM SystemImplementsTour == SysSpec => ImplementsTour
<1>1. SysInit => T!Init
  BY InitRefines DEF SysInit
<1> QED
  BY <1>1, SysTourStep, SysTourInv, PTL DEF SysSpec, ImplementsTour, T!TourSpec

\* The safety of the node alone, proved against a player that may say anything,
\* is the safety of the node with this player.
THEOREM SystemSafety ==
  SysSpec => [](/\ StandsStillForTalk /\ DrivesToCurrent /\ ResendsBounded
                /\ EachTalkOnce /\ RandomTourComplete
                /\ AbortsStopTheBase /\ GivenUpForCause)
<1>1. TInv => /\ StandsStillForTalk /\ DrivesToCurrent /\ ResendsBounded
              /\ EachTalkOnce /\ RandomTourComplete
  BY RoundComplete DEF TInv, IInv, GoalInv, TimeInv, TalkInv, StandsStillForTalk, ViewEnds
<1>2. TInv => AbortsStopTheBase /\ GivenUpForCause
  BY DEF TInv, IInv, CountInv, GoalInv, CauseInv, AbortsStopTheBase
<1> QED
  BY <1>1, <1>2, SysTourInv, PTL

---------------------------------------------------------------------------
(* The two nodes lead a guided tour.                                       *)

\* What the state of libvlc and a report of Ended say of the clip last heard,
\* and which clip the node waits for.
VoiceInv ==
    /\ vlc \notin {"NothingSpecial", "Ended"} => heard >= 1
    /\ vlc \in {"Buffering", "Playing"} \/ (apc # "idle" /\ vlc = "Ended")
         => heard >= 1 /\ P!Clip \in AudioFiles
    /\ vlc = "NothingSpecial" /\ heard >= 1 => P!Clip \notin AudioFiles
    /\ pc = "audio" =>
         /\ Len(triggers) >= 1 /\ triggers[Len(triggers)][2] = current
         /\ statusQ = "Ended" \/ finished => heard >= 1 /\ P!Clip \in AudioFiles

GInv == SInv /\ TInv /\ ClipInv /\ VoiceInv

LEMMA Lengths ==
  ASSUME SInv
  PROVE  /\ triggers \in Seq(AudioNames) /\ Len(triggers) \in Nat
         /\ heard \in Nat /\ heard <= Len(triggers)
  BY DEF SInv, PlayerInv, P!APTypeOK, IInv, TypeOK, PlacesOK

\* What a step of the node does to the talks: it triggers one, or none.
LEMMA TriggerStep ==
  ASSUME SInv, TourNext
  PROVE  \/ UNCHANGED triggers
         \/ /\ Reached /\ pc' = "audio" /\ current' = current
            /\ finished' = FALSE /\ statusQ' = statusQ
            /\ Len(triggers') = Len(triggers) + 1
            /\ \A i \in 1..Len(triggers) : triggers'[i] = triggers[i]
            /\ triggers'[Len(triggers) + 1] = AudioName(current)
<1>1. CASE Reached
  <2>1. \/ UNCHANGED triggers
        \/ /\ pc' = "audio" /\ current' = current
           /\ finished' = FALSE /\ statusQ' = statusQ
           /\ triggers' = Append(triggers, AudioName(current))
    BY <1>1 DEF Reached
  <2> QED
    BY <1>1, <2>1, Lengths
<1> QED
  BY <1>1, Triggering

\* Of the wait itself: the word Ended makes it finished, nothing else does.
LEMMA WaitStep ==
  ASSUME TourNext, ~Reached, pc' = "audio"
  PROVE  /\ pc = "audio" /\ UNCHANGED current
         /\ statusQ' = "Ended" \/ finished' => statusQ = "Ended" \/ finished
<1>1. CASE WaitAudio
  BY <1>1, StatusTypes DEF WaitAudio, SpinOnce, audioStatusCB
<1>2. CASE Main /\ ~WaitAudio
  BY <1>2 DEF Main, WaitFile, LoadWaypoints, WaitServer, WaitEnable, NextWaypoint,
     ReadPastEnd, TourEnds, FirstSend, PendingLoop, PendingSleep, RejectedLoop, Settle,
     DrivingLoop, PollState, CancelReached, CancelWait
<1>3. CASE Server \/ Operator
  BY <1>3 DEF Server, Operator, SelectFile, Enable
<1> QED
  BY <1>1, <1>2, <1>3 DEF TourNext

LEMMA NodeVoice ==
  ASSUME GInv, TourNext, UNCHANGED playerVars
  PROVE  VoiceInv'
<1> USE DEF GInv, VoiceInv
<1>1. /\ Len(triggers) \in Nat /\ heard \in Nat /\ heard <= Len(triggers)
      /\ "Ended" \in Statuses /\ None \notin Statuses
  BY Lengths, StatusTypes
<1>2. CASE Reached /\ ~UNCHANGED triggers
  <2>1. /\ Reached /\ pc' = "audio" /\ current' = current
        /\ finished' = FALSE /\ statusQ' = statusQ
        /\ Len(triggers') = Len(triggers) + 1
        /\ heard >= 1 => triggers'[heard] = triggers[heard]
        /\ triggers'[Len(triggers) + 1] = AudioName(current)
    <3>1. heard >= 1 => heard \in 1..Len(triggers)
      BY <1>1
    <3> QED
      BY <1>2, <3>1, TriggerStep
  <2>2. pc = "cancelling" /\ statusQ # "Ended"
    BY <2>1 DEF Reached, ClipInv, Quiet
  <2>3. triggers'[Len(triggers')][2] = current'
    BY <2>1, AudioNameParts
  <2> QED
    BY <1>1, <2>1, <2>2, <2>3 DEF P!Clip
<1>3. CASE UNCHANGED triggers
  <2>1. pc' = "audio" => ~Reached
    BY <1>1, <1>3 DEF Reached
  <2> QED
    BY <1>1, <1>3, <2>1, WaitStep DEF P!Clip
<1> QED
  BY <1>2, <1>3, TriggerStep

LEMMA PlayerVoice ==
  ASSUME GInv, Player
  PROVE  VoiceInv'
<1> USE DEF GInv, VoiceInv, P!Publish, P!Clip, P!Matches
<1>1. /\ UNCHANGED <<pc, finished, triggers, current>>
      /\ Len(triggers) \in Nat /\ heard \in Nat /\ heard <= Len(triggers)
  BY PlayerTypes, Lengths DEF Player
<1>2. /\ heard # Len(triggers) => /\ vlc \in {"NothingSpecial", "Ended"} /\ apc = "idle"
                                 /\ pc = "audio" /\ statusQ # "Ended" /\ ~finished
      /\ apc = "sleep" => vlc # "Ended"
  BY DEF ClipInv, Quiet, OneClip
<1>3. CASE P!StartClip
  BY <1>1, <1>2, <1>3 DEF P!StartClip
<1>4. CASE P!NoSuchClip
  BY <1>1, <1>2, <1>4 DEF P!NoSuchClip
<1>5. CASE P!PublishFirst
  BY <1>1, <1>2, <1>5 DEF P!PublishFirst
<1>6. CASE P!PublishLast
  BY <1>1, <1>2, <1>6 DEF P!PublishLast
<1>7. CASE P!VlcStep
  BY <1>1, <1>2, <1>7 DEF P!VlcStep
<1> QED
  BY <1>3, <1>4, <1>5, <1>6, <1>7 DEF Player, P!APNext

LEMMA GuidedInvStep ==
  ASSUME ~ShortClips
  PROVE  GInv /\ [SysNext]_sysVars => GInv'
<1> SUFFICES ASSUME GInv, [SysNext]_sysVars PROVE GInv'
  OBVIOUS
<1>1. SInv' /\ TInv' /\ ClipInv'
  BY SysTypesStep, SysTourStep, ClipStep DEF GInv
<1>2. ASSUME UNCHANGED sysVars PROVE VoiceInv'
  BY <1>2 DEF GInv, VoiceInv, sysVars, vars, P!Clip
<1> QED
  BY <1>1, <1>2, NodeVoice, PlayerVoice DEF GInv, SysNext

LEMMA GuidedInitInv == SysInit => GInv
<1>1. SysInit => VoiceInv
  BY DEF SysInit, P!APInit, Init, VoiceInv
<1> QED
  BY <1>1, SysInitTypes, SysInitClip, TInit DEF SysInit, GInv

\* The guided tour has the steps of the tour; only the end of a talk differs.
LEMMA SameSteps ==
  /\ (T!Depart => G!Depart) /\ (T!SetOut => G!SetOut) /\ (T!PassOn => G!PassOn)
  /\ (T!Talk => G!Talk) /\ (T!TalkEnds => G!TalkEnds) /\ (T!GiveUp => G!GiveUp)
  /\ (T!Finish => G!Finish) /\ (T!StartOrStop => G!StartOrStop)
  BY DEF T!Depart, G!Depart, T!SetOut, G!SetOut, T!PassOn, G!PassOn, T!Talk, G!Talk,
     T!GiveUp, G!GiveUp, T!Finish, G!Finish, T!TalkEnds, G!TalkEnds,
     T!StartOrStop, G!StartOrStop

\* Every step of the node but the end of a wait is one of the tour's others.
LEMMA NodeElsewhere ==
  ASSUME TInv, TourNext, ~WaitAudio \/ pc' = "audio"
  PROVE  G!Elsewhere \/ UNCHANGED G!tourVars
<1> USE SameSteps DEF G!Elsewhere, T!tourVars, G!tourVars
<1>1. CASE Main /\ ~WaitAudio
  BY <1>1, BoardingRefines, StartRefines, NextRefines, EndRefines, ArrivalRefines,
     LegRefines DEF Main
<1>2. CASE WaitAudio /\ pc' = "audio"
  <2>1. UNCHANGED historyVars /\ exec' = exec /\ pc = "audio"
    BY <1>2 DEF WaitAudio, historyVars
  <2> QED
    BY <1>2, <2>1, TourFrame DEF AbstractPhase, Moving
<1>3. CASE Server
  BY <1>3, ServerRefines
<1>4. CASE Operator
  <2>1. UNCHANGED historyVars /\ exec' = exec /\ pc' = pc
    BY <1>4 DEF Operator, SelectFile, Enable, historyVars
  <2> QED
    BY <2>1, TourFrame DEF AbstractPhase, Moving
<1> QED
  BY <1>1, <1>2, <1>3, <1>4 DEF TourNext

\* What has been heard does not depend on a trigger that is still to be heard.
LEMMA NodeKeepsSound ==
  ASSUME GInv, TourNext, UNCHANGED playerVars
  PROVE  UNCHANGED <<Sounding, Given>>
<1>1. \A i \in 1..heard : triggers'[i] = triggers[i]
  <2>1. \A i \in 1..Len(triggers) : triggers'[i] = triggers[i]
    BY TriggerStep DEF GInv
  <2> QED
    BY <2>1, Lengths DEF GInv
<1>2. vlc = "Playing" => heard \in 1..heard
  BY Lengths DEF GInv, VoiceInv
<1>3. Sounding' = Sounding
  BY <1>1, <1>2 DEF Sounding, P!Clip
<1>4. PlayedOut' = PlayedOut
  BY <1>1 DEF PlayedOut
<1>5. \A i \in PlayedOut : triggers'[i] = triggers[i]
  BY <1>1 DEF PlayedOut
<1> QED
  BY <1>3, <1>4, <1>5 DEF Given

\* A wait that ends has heard the clip of its stop to the end.
LEMMA WaitEndRefines ==
  ASSUME GInv, WaitAudio, pc' # "audio"
  PROVE  G!GoOn
<1>1. pc = "audio" /\ pc' = "next" /\ finished
  BY DEF WaitAudio
<1>2. /\ vlc = "Ended" /\ heard = Len(triggers) /\ heard \in 1..heard
      /\ triggers[heard] \in AudioFiles /\ triggers[heard][2] = current
  BY <1>1, Lengths DEF GInv, ClipInv, OneClip, VoiceInv, P!Clip
<1>3. current \in Given /\ Sounding = NoWaypoint
  BY <1>2 DEF Given, PlayedOut, Sounding
<1>4. AbstractPhase' = "between"
  BY <1>1, PhasesPrime
<1>5. ~UNCHANGED T!tourVars
  BY <1>1, <1>4, Phases DEF T!tourVars
<1>6. G!TalkEnds
  BY <1>5, AudioRefines, SameSteps DEF GInv
<1> QED
  BY <1>3, <1>6 DEF G!GoOn

\* Two talks are talks of two stops.
LEMMA TalksDiffer ==
  ASSUME TInv, NEW i \in DOMAIN triggers, NEW j \in DOMAIN triggers,
         triggers[i][2] = triggers[j][2]
  PROVE  i = j
  BY DEF TInv, TalkInv, EachTalkOnce

\* The clip that libvlc plays is the one triggered last, for the current stop.
LEMMA ClipOfThisStop ==
  ASSUME GInv, vlc \in {"Opening", "Buffering", "Playing"}, P!Clip \in AudioFiles
  PROVE  /\ pc = "audio" /\ heard = Len(triggers) /\ heard \in DOMAIN triggers
         /\ triggers[heard] = P!Clip /\ P!Clip[2] = current
         /\ current \in Told \ Given /\ current # NoWaypoint
<1>1. /\ pc = "audio" /\ heard = Len(triggers) /\ heard >= 1
      /\ triggers[heard] = P!Clip /\ P!Clip[2] = current
  BY DEF GInv, ClipInv, Quiet, OneClip, VoiceInv, P!Clip
<1>2. heard \in DOMAIN triggers /\ DOMAIN triggers = 1..heard
  BY <1>1, Lengths DEF GInv
<1>3. current \in Told
  BY <1>1, <1>2 DEF Told
<1>4. current \notin Given
  <2>1. ASSUME NEW i \in PlayedOut, triggers[i][2] = current PROVE FALSE
    <3>1. i \in 1..heard /\ i < heard
      BY DEF PlayedOut
    <3>2. i = heard
      BY <1>1, <1>2, <2>1, <3>1, TalksDiffer DEF GInv
    <3> QED
      BY <1>1, <3>1, <3>2, Lengths DEF GInv
  <2> QED
    BY <2>1 DEF Given
<1>5. current # NoWaypoint
  BY <1>1, Constants DEF GInv, TInv, IInv, PlanInv, Waypoints, NoWaypoint
<1> QED
  BY <1>1, <1>2, <1>3, <1>4, <1>5

\* The steps of libvlc: a clip begins to sound, or has sounded to its end.
LEMMA VlcRefines ==
  ASSUME GInv, Player, P!VlcStep
  PROVE  G!SoundStarts \/ G!SoundEnds \/ UNCHANGED <<Sounding, Given>>
<1>1. UNCHANGED <<triggers, heard>> /\ UNCHANGED T!tourVars
  BY PlayerTypes, PlayerKeepsTour DEF GInv, Player, P!VlcStep
<1>2. UNCHANGED G!tourVars
  BY <1>1 DEF T!tourVars, G!tourVars
<1>3. CASE vlc \in {"Opening", "Buffering"} /\ vlc' = "Playing"
  <2>1. P!Clip \in AudioFiles
    BY <1>3 DEF P!VlcStep, GInv, VoiceInv
  <2>2. /\ pc = "audio" /\ exec = NoWaypoint
        /\ P!Clip[2] = current /\ current \in Told \ Given
    BY <1>3, <2>1, ClipOfThisStop DEF GInv, TInv, IInv, GoalInv, ViewEnds
  <2>3. AbstractPhase = "talking" /\ ~Moving
    BY <2>2, Phases DEF Moving
  <2>4. Sounding = NoWaypoint /\ Sounding' = current /\ Given' = Given
    BY <1>1, <1>3, <2>2 DEF Sounding, Given, PlayedOut, P!Clip
  <2> QED
    BY <1>2, <2>2, <2>3, <2>4 DEF G!SoundStarts
<1>4. CASE vlc = "Playing" /\ vlc' = "Ended"
  <2>1. P!Clip \in AudioFiles
    BY <1>4 DEF GInv, VoiceInv
  <2>2. /\ heard \in 1..heard /\ triggers[heard] = P!Clip /\ triggers[heard] \in AudioFiles
        /\ P!Clip[2] = current /\ current # NoWaypoint
    BY <1>4, <2>1, ClipOfThisStop, Lengths DEF GInv, VoiceInv
  <2>3. Sounding = current /\ Sounding' = NoWaypoint
    BY <1>4, <2>2 DEF Sounding
  <2>4. PlayedOut' = PlayedOut \cup {heard}
    BY <1>1, <1>4, <2>2, Lengths DEF PlayedOut, GInv
  <2>5. Given' = Given \cup {current}
    BY <1>1, <2>2, <2>4 DEF Given
  <2> QED
    BY <1>2, <2>2, <2>3, <2>5 DEF G!SoundEnds
<1>5. CASE vlc = "Opening" /\ vlc' \in {"Buffering", "Error"}
  BY <1>1, <1>5 DEF Sounding, Given, PlayedOut
<1> QED
  BY <1>3, <1>4, <1>5 DEF P!VlcStep

\* Hearing a trigger makes nothing sound, and the clip before it was through.
LEMMA HearingRefines ==
  ASSUME GInv, Player, P!StartClip \/ P!NoSuchClip
  PROVE  UNCHANGED <<Sounding, Given>>
<1>1. /\ UNCHANGED triggers /\ heard' = heard + 1 /\ heard < Len(triggers)
      /\ \/ vlc' = vlc /\ triggers[heard'] \notin AudioFiles
         \/ vlc' = "Opening"
      /\ heard \in Nat
  BY PlayerTypes, Lengths DEF GInv, P!StartClip, P!NoSuchClip, P!Matches
<1>2. vlc \in {"NothingSpecial", "Ended"}
  BY <1>1, Lengths DEF GInv, ClipInv, Quiet, OneClip
<1>3. Sounding' = Sounding
  BY <1>1, <1>2 DEF Sounding
<1>4. vlc = "Ended" \/ heard = 0 \/ triggers[heard] \notin AudioFiles
  BY <1>1, <1>2 DEF GInv, VoiceInv, P!Clip
<1>5. PlayedOut' = PlayedOut
  <2>1. ASSUME NEW i \in 1..heard PROVE i \in PlayedOut' <=> i \in PlayedOut
    BY <1>1, <1>2, <1>4 DEF PlayedOut
  <2>2. heard + 1 \notin PlayedOut'
    BY <1>1, <1>2 DEF PlayedOut
  <2> QED
    BY <1>1, <2>1, <2>2 DEF PlayedOut
<1> QED
  BY <1>1, <1>3, <1>5 DEF Given

LEMMA PlayerRefines ==
  ASSUME GInv, Player
  PROVE  [G!GuidedNext]_G!guidedVars
<1>1. UNCHANGED G!tourVars
  BY PlayerKeepsTour DEF GInv, T!tourVars, G!tourVars
<1>2. CASE P!PublishFirst \/ P!PublishLast
  BY <1>1, <1>2 DEF P!PublishFirst, P!PublishLast, Sounding, P!Clip, Given, PlayedOut,
     G!guidedVars
<1>3. CASE P!StartClip \/ P!NoSuchClip
  BY <1>1, <1>3, HearingRefines DEF G!guidedVars
<1>4. CASE P!VlcStep
  BY <1>1, <1>4, VlcRefines DEF G!guidedVars, G!GuidedNext
<1> QED
  BY <1>2, <1>3, <1>4 DEF Player, P!APNext

LEMMA NodeRefines ==
  ASSUME GInv, TourNext, UNCHANGED playerVars
  PROVE  [G!GuidedNext]_G!guidedVars
<1>1. CASE WaitAudio /\ pc' # "audio"
  BY <1>1, WaitEndRefines, NodeKeepsSound DEF G!GuidedNext
<1>2. CASE ~WaitAudio \/ pc' = "audio"
  BY <1>2, NodeElsewhere, NodeKeepsSound DEF GInv, G!GuidedNext, G!guidedVars
<1> QED
  BY <1>1, <1>2

LEMMA GuidedStep == GInv /\ [SysNext]_sysVars => [G!GuidedNext]_G!guidedVars
<1>1. ASSUME GInv, UNCHANGED sysVars PROVE UNCHANGED G!guidedVars
  <2>1. UNCHANGED historyVars /\ exec' = exec /\ pc' = pc
    BY <1>1 DEF sysVars, vars, historyVars
  <2>2. UNCHANGED G!tourVars
    BY <2>1, TourFrame DEF G!tourVars, AbstractPhase, Moving
  <2> QED
    BY <1>1, <2>1, <2>2 DEF sysVars, historyVars, G!guidedVars, Sounding, P!Clip, Given,
       PlayedOut
<1> QED
  BY <1>1, NodeRefines, PlayerRefines DEF SysNext

LEMMA GuidedStart == SysInit => G!GuidedInit
<1> SUFFICES ASSUME SysInit PROVE G!GuidedInit
  OBVIOUS
<1>1. G!Init
  BY InitRefines DEF SysInit, T!Init, G!Init
<1>2. vlc = "NothingSpecial" /\ heard = 0
  BY DEF SysInit, P!APInit
<1>3. PlayedOut = {}
  BY <1>2 DEF PlayedOut
<1> QED
  BY <1>1, <1>2, <1>3 DEF G!GuidedInit, Sounding, Given

\* With clips of at least half a second the node and the player lead a guided
\* tour: what plays is the clip of the stop where the base stands, no clip plays
\* twice, and the tour goes on only after this stop's clip has played to its end.
THEOREM SystemGuidesTour ==
  ASSUME ~ShortClips
  PROVE  SysSpec => GuidesTour
  BY GuidedStart, GuidedStep, GuidedInitInv, GuidedInvStep, PTL
     DEF SysSpec, GuidesTour, G!GuidedSpec

---------------------------------------------------------------------------
(* No wake-up is lost: the safety half of the wait for the sound file.     *)

\* The player is idle when Ended has been said, so that it says nothing more.
LEMMA PlayerIsDone ==
  ASSUME SInv, ClipInv, pc = "audio", statusQ = "Ended" \/ finished, Player
  PROVE  UNCHANGED <<statusQ, finished>>
<1>1. heard = Len(triggers) /\ apc = "idle"
  BY DEF ClipInv, OneClip
<1>2. ~P!StartClip /\ ~P!NoSuchClip
  BY <1>1, Lengths DEF P!StartClip, P!NoSuchClip
<1> QED
  BY <1>1, <1>2 DEF Player, P!APNext, P!PublishFirst, P!PublishLast, P!VlcStep

\* What the node reads as Ended makes the wait finished, and stays so.
LEMMA NodeReadsEnd ==
  ASSUME pc = "audio", statusQ = "Ended" \/ finished, TourNext, "Ended" # None
  PROVE  statusQ' = "Ended" \/ finished' \/ pc' = "next"
<1>1. CASE WaitAudio
  BY <1>1 DEF WaitAudio, SpinOnce, audioStatusCB
<1>2. CASE Server \/ Operator
  BY <1>2 DEF Server, Operator, SelectFile, Enable
<1>3. CASE Main /\ ~WaitAudio
  BY <1>3 DEF Main, WaitFile, LoadWaypoints, WaitServer, WaitEnable, NextWaypoint,
     ReadPastEnd, TourEnds, FirstSend, PendingLoop, PendingSleep, RejectedLoop, Settle,
     DrivingLoop, PollState, CancelReached, CancelWait, Reached
<1> QED
  BY <1>1, <1>2, <1>3 DEF TourNext

\* With clips of at least half a second the report that ends a wait is never
\* overwritten in the queue of one message, nor taken back by a later one.
THEOREM EndGetsThrough ==
  ASSUME ~ShortClips
  PROVE  SysSpec => EndIsHeard
<1>1. SInv /\ ClipInv /\ [SysNext]_sysVars =>
        [(pc = "audio" /\ (statusQ = "Ended" \/ finished)) =>
            (statusQ' = "Ended" \/ finished' \/ pc' = "next")]_sysVars
  BY NodeReadsEnd, PlayerIsDone, StatusTypes DEF SysNext
<1> QED
  BY <1>1, SysInitTypes, SysTypesStep, SysInitClip, ClipStep, PTL DEF SysSpec, EndIsHeard

\* While the node waits for a clip that exists, the end of the wait is still
\* on its way: in the trigger, in the player's loop, in the queue or in the flag.
NoLostWakeup ==
    pc = "audio" /\ triggers[Len(triggers)] \in AudioFiles =>
        heard # Len(triggers) \/ apc # "idle" \/ statusQ = "Ended" \/ finished

\* A clip that has been heard is opened, played and reported, in this order.
WakeInv ==
    pc = "audio" /\ heard = Len(triggers) /\ P!Clip \in AudioFiles =>
        /\ apc = "idle"  => statusQ = "Ended" \/ finished
        /\ apc = "sleep" => vlc \in {"Opening", "Buffering", "Playing", "Ended"}
        /\ apc = "poll"  => vlc \in {"Playing", "Ended"}

LEMMA NodeWakes ==
  ASSUME SInv, WakeInv, TourNext, UNCHANGED playerVars
  PROVE  WakeInv'
<1> SUFFICES ASSUME (pc = "audio" /\ heard = Len(triggers) /\ P!Clip \in AudioFiles)'
             PROVE  /\ apc = "idle"  => statusQ' = "Ended" \/ finished'
                    /\ apc = "sleep" => vlc \in {"Opening", "Buffering", "Playing", "Ended"}
                    /\ apc = "poll"  => vlc \in {"Playing", "Ended"}
  BY DEF WakeInv
<1>1. UNCHANGED triggers
  <2>1. Len(triggers') # Len(triggers) + 1
    BY Lengths
  <2> QED
    BY <2>1, TriggerStep
<1>2. ~Reached
  BY <1>1, Lengths DEF Reached
<1>3. pc = "audio"
  BY <1>2, WaitStep
<1> QED
  BY <1>1, <1>3, NodeReadsEnd, StatusTypes DEF WakeInv, P!Clip

LEMMA PlayerWakes ==
  ASSUME ~SlowStart, SInv, WakeInv, Player
  PROVE  WakeInv'
<1> USE DEF WakeInv, P!Clip, P!Publish
<1>1. UNCHANGED <<pc, finished, triggers>>
  BY PlayerTypes DEF Player
<1>2. Len(triggers) \in Nat /\ heard \in Nat /\ heard <= Len(triggers)
  BY Lengths
<1>3. CASE P!StartClip
  BY <1>1, <1>2, <1>3 DEF P!StartClip
<1>4. CASE P!NoSuchClip
  BY <1>1, <1>2, <1>4 DEF P!NoSuchClip, P!Matches
<1>5. CASE P!PublishFirst
  BY <1>1, <1>2, <1>5 DEF P!PublishFirst
<1>6. CASE P!PublishLast
  BY <1>1, <1>2, <1>6 DEF P!PublishLast
<1>7. CASE P!VlcStep
  BY <1>1, <1>2, <1>7 DEF P!VlcStep
<1> QED
  BY <1>3, <1>4, <1>5, <1>6, <1>7 DEF Player, P!APNext

\* Where libvlc starts within half a second, a wait for a clip that exists is
\* never left without a cause for its end, however short the clips are.
THEOREM WakeupIsNotLost ==
  ASSUME ~SlowStart
  PROVE  SysSpec => []NoLostWakeup
<1>1. SysInit => WakeInv
  BY DEF SysInit, Init, WakeInv
<1>2. SInv /\ WakeInv /\ [SysNext]_sysVars => WakeInv'
  <2>1. ASSUME WakeInv, UNCHANGED sysVars PROVE WakeInv'
    BY <2>1 DEF WakeInv, P!Clip, sysVars, vars
  <2> QED
    BY <2>1, NodeWakes, PlayerWakes DEF SysNext
<1>3. WakeInv => NoLostWakeup
  BY DEF WakeInv, NoLostWakeup, P!Clip
<1> QED
  BY <1>1, <1>2, <1>3, SysInitTypes, SysTypesStep, PTL DEF SysSpec
=============================================================================
