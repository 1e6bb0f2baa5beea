--------------------------- MODULE TourRefinement ---------------------------
(***************************************************************************)
(* The node implements the abstract tour: its initial state is one of      *)
(* Tour, and each of its steps is a step of Tour or leaves Tour alone.     *)
(***************************************************************************)
EXTENDS TourProofs

USE DEF setupVars, soundVars, tourVars, countVars, timeVars, poseVars, navVars, mbVars,
        NextAttempt, ResendDue, BreakOff, BreakLoop, Accepted, Cancelled, TriggerAudio

\* The abstract phase for each place of the program.
LEMMA Phases ==
  /\ pc \in Boarding => AbstractPhase = "boarding"
  /\ pc = "next" => AbstractPhase = "between"
  /\ pc \in OnTheWay => AbstractPhase = "travelling"
  /\ pc = "audio" => AbstractPhase = "talking"
  /\ pc \in {"over", "crashed"} => AbstractPhase = "over"
  BY DEF AbstractPhase, Boarding, OnTheWay

LEMMA PhasesPrime ==
  /\ pc' \in Boarding => AbstractPhase' = "boarding"
  /\ pc' = "next" => AbstractPhase' = "between"
  /\ pc' \in OnTheWay => AbstractPhase' = "travelling"
  /\ pc' = "audio" => AbstractPhase' = "talking"
  /\ pc' \in {"over", "crashed"} => AbstractPhase' = "over"
  BY DEF AbstractPhase, Boarding, OnTheWay

\* The stops left once the tour is under way, and whether they are ordered.
LEMMA UnderWay ==
  ASSUME pc \notin Boarding
  PROVE  /\ Ordered = ~Randomise
         /\ StopsLeft = IF loaded \in Unreadable THEN {}
                        ELSE IF Randomise THEN 0..(total - 1) \ visited
                        ELSE index..(total - 1)
  BY DEF StopsLeft, Ordered

\* What a step that leaves the history alone leaves alone in the tour.
LEMMA TourFrame ==
  ASSUME UNCHANGED historyVars, (pc \in Boarding) = (pc' \in Boarding)
  PROVE  UNCHANGED <<Ordered, StopsLeft, current, Told>>
  BY DEF historyVars, StopsLeft, Told, Ordered, Randomise

LEMMA InitRefines ==
  ASSUME Init
  PROVE  T!Init
<1>1. pc \in Boarding /\ current = NoWaypoint /\ exec = NoWaypoint /\ triggers = <<>>
  BY DEF Init, MBInit, Boarding
<1>2. AbstractPhase = "boarding" /\ StopsLeft = {}
  BY <1>1, Phases DEF StopsLeft
<1>3. Ordered = FALSE /\ Moving = FALSE
  BY <1>1 DEF Ordered, Moving
<1>4. Told = {}
  BY <1>1 DEF Told
<1> QED
  BY <1>1, <1>2, <1>3, <1>4 DEF T!Init

LEMMA BoardingRefines ==
  ASSUME TInv, WaitFile \/ LoadWaypoints \/ WaitServer
  PROVE  UNCHANGED T!tourVars
<1>1. pc \in Boarding /\ pc' \in Boarding /\ triggers' = triggers /\ current' = current
      /\ exec' = exec
  BY DEF WaitFile, LoadWaypoints, WaitServer, Boarding
<1>2. StopsLeft = {} /\ StopsLeft' = {} /\ Ordered = FALSE /\ Ordered' = FALSE
  BY <1>1 DEF StopsLeft, Ordered
<1> QED
  BY <1>1, <1>2, Phases, PhasesPrime DEF T!tourVars, Told, Moving

LEMMA StartRefines ==
  ASSUME TInv, WaitEnable
  PROVE  T!Depart \/ UNCHANGED T!tourVars
<1>1. /\ UNCHANGED historyVars /\ exec' = exec /\ pc = "enable"
      /\ pc' = "next" \/ pc' = "enable"
  BY DEF WaitEnable, historyVars
<1>2. CASE pc' = "enable"
  BY <1>1, <1>2, TourFrame DEF T!tourVars, Moving, AbstractPhase, Boarding
<1>3. CASE pc' = "next"
  <2>1. AbstractPhase = "boarding" /\ AbstractPhase' = "between"
    BY <1>1, <1>3, Phases, PhasesPrime DEF Boarding
  <2>2. Told' = Told /\ Moving' = Moving /\ current' = current
    BY <1>1 DEF historyVars, Told, Moving
  <2>3. Ordered' \in BOOLEAN
    BY DEF Ordered
  <2>4. StopsLeft' \in {0..(Count[f] - 1) : f \in Files} \cup {{}}
    <3>1. CASE loaded \in Unreadable
      BY <1>1, <3>1 DEF StopsLeft, historyVars
    <3>2. CASE loaded \notin Unreadable
      <4>1. /\ loaded \in Files /\ total = Count[loaded]
            /\ index = 0 /\ visited = {}
        BY <1>1, <3>2 DEF TInv, IInv, PlanInv, Loaded, BoardInv, Boarding
      <4>2. StopsLeft' = 0..(Count[loaded] - 1)
        BY <1>1, <1>3, <3>2, <4>1 DEF StopsLeft, historyVars, Boarding, Randomise
      <4> QED
        BY <4>1, <4>2
    <3> QED
      BY <3>1, <3>2
  <2> QED
    BY <2>1, <2>2, <2>3, <2>4 DEF T!Depart
<1> QED
  BY <1>1, <1>2, <1>3

LEMMA NextRefines ==
  ASSUME TInv, NextWaypoint
  PROVE  T!SetOut
<1>1. PICK w \in Choices : /\ current' = w
                          /\ visited' = IF Randomise THEN visited \cup {w} ELSE visited
  BY DEF NextWaypoint
<1>2. /\ pc = "next" /\ pc' = "send" /\ MoreWaypoints /\ loaded \notin Unreadable
      /\ loaded' = loaded /\ total' = total /\ index' = index + 1
      /\ triggers' = triggers /\ exec' = exec
      /\ index \in Nat /\ total \in Int
  BY DEF NextWaypoint, TInv, IInv, TypeOK, CountersOK
<1>3. pc \notin Boarding /\ pc' \notin Boarding /\ pc' \in OnTheWay
  BY <1>2 DEF Boarding, OnTheWay
<1>4. /\ StopsLeft  = IF Randomise THEN 0..(total - 1) \ visited ELSE index..(total - 1)
      /\ StopsLeft' = IF Randomise THEN 0..(total - 1) \ visited' ELSE (index + 1)..(total - 1)
      /\ Ordered = ~Randomise /\ Ordered' = Ordered
  BY <1>2, <1>3 DEF StopsLeft, Ordered, Randomise
<1>5. /\ w \in StopsLeft /\ StopsLeft' = StopsLeft \ {w}
      /\ Ordered => \A v \in StopsLeft : w <= v
  <2>1. CASE Randomise
    BY <1>1, <1>4, <2>1 DEF Choices
  <2>2. CASE ~Randomise
    BY <1>1, <1>2, <1>4, <2>2 DEF Choices, MoreWaypoints
  <2> QED
    BY <2>1, <2>2
<1>6. AbstractPhase = "between" /\ AbstractPhase' = "travelling"
  BY <1>2, <1>3, Phases, PhasesPrime
<1> QED
  BY <1>1, <1>2, <1>4, <1>5, <1>6 DEF T!SetOut, Told, Moving

LEMMA EndRefines ==
  ASSUME TInv, ReadPastEnd \/ TourEnds
  PROVE  T!Finish
<1>1. /\ UNCHANGED historyVars /\ exec' = exec /\ pc = "next" /\ pc' \in {"over", "crashed"}
      /\ loaded \in Unreadable \/ ~MoreWaypoints
  BY DEF ReadPastEnd, TourEnds, historyVars
<1>2. StopsLeft = {}
  <2>1. CASE loaded \in Unreadable
    BY <2>1 DEF StopsLeft
  <2>2. CASE loaded \notin Unreadable
    <3>1. /\ ~MoreWaypoints /\ index \in Nat /\ total \in Nat /\ pc \notin Boarding
      BY <1>1, <2>2, Constants DEF Boarding, TInv, IInv, TypeOK, CountersOK, PlanInv, Loaded
    <3>2. CASE Randomise
      <4>1. visited \subseteq 0..(total - 1) /\ Cardinality(visited) = index
        BY <1>1, <2>2, <3>2 DEF TInv, RandomInv, Loaded, Randomise
      <4>2. visited = 0..(total - 1)
        BY <3>1, <4>1, FullRound DEF MoreWaypoints
      <4> QED
        BY <3>1, <2>2, <3>2, <4>2 DEF StopsLeft
    <3>3. CASE ~Randomise
      BY <3>1, <2>2, <3>3 DEF StopsLeft, MoreWaypoints
    <3> QED
      BY <3>2, <3>3
  <2> QED
    BY <2>1, <2>2
<1>3. UNCHANGED <<Ordered, StopsLeft, current, Told, Moving>>
  BY <1>1, TourFrame DEF Boarding, Moving
<1> QED
  BY <1>1, <1>2, <1>3, Phases, PhasesPrime DEF T!Finish

LEMMA ArrivalRefines ==
  ASSUME TInv, Reached
  PROVE  T!Talk \/ T!PassOn
<1>1. /\ pc = "cancelling" /\ exec' = exec /\ current' = current
      /\ UNCHANGED <<loaded, total, index, visited>>
      /\ \/ pc' = "next" /\ triggers' = triggers
         \/ pc' = "audio" /\ triggers' = Append(triggers, AudioName(current))
  BY DEF Reached
<1>2. /\ pc \in OnTheWay /\ pc \notin Boarding /\ pc' \notin Boarding
      /\ AbstractPhase = "travelling"
  BY <1>1, Phases DEF OnTheWay, Boarding
<1>3. UNCHANGED <<Ordered, StopsLeft, Moving>>
  BY <1>1, <1>2 DEF Ordered, StopsLeft, Moving, Randomise
<1>4. CASE pc' = "next"
  <2>1. Told' = Told /\ AbstractPhase' = "between"
    BY <1>1, <1>4, PhasesPrime DEF Told
  <2> QED
    BY <1>1, <1>2, <1>3, <2>1 DEF T!PassOn
<1>5. CASE pc' = "audio"
  <2>1. AbstractPhase' = "talking" /\ ~Moving
    BY <1>5, PhasesPrime DEF Reached, TInv, IInv, GoalInv, Moving
  <2>2. current \notin Told
    BY <1>2 DEF TInv, TalkInv, Told
  <2>3. Told' = Told \cup {current}
    <3>1. /\ triggers \in Seq(AudioNames)
          /\ triggers' = Append(triggers, AudioName(current))
          /\ AudioName(current)[2] = current
      BY <1>1, <1>5, AudioNameParts DEF TInv, IInv, TypeOK, PlacesOK
    <3>2. /\ DOMAIN triggers = 1..Len(triggers) /\ Len(triggers) \in Nat
          /\ DOMAIN triggers' = 1..(Len(triggers) + 1)
          /\ \A i \in 1..Len(triggers) : triggers'[i] = triggers[i]
          /\ triggers'[Len(triggers) + 1] = AudioName(current)
      BY <3>1
    <3> QED
      BY <3>1, <3>2 DEF Told
  <2> QED
    BY <1>1, <1>2, <1>3, <2>1, <2>2, <2>3 DEF T!Talk
<1> QED
  BY <1>1, <1>4, <1>5

LEMMA LegRefines ==
  ASSUME TInv,
         \/ FirstSend \/ PendingLoop \/ PendingSleep \/ RejectedLoop \/ Settle
         \/ DrivingLoop \/ PollState \/ CancelReached \/ CancelWait
  PROVE  T!PassOn \/ T!GiveUp \/ UNCHANGED T!tourVars
<1>1. /\ UNCHANGED historyVars /\ exec' = exec /\ pc \in OnTheWay
      /\ pc' \in OnTheWay \cup {"next", "over"}
  BY DEF FirstSend, PendingLoop, PendingSleep, RejectedLoop, Settle, DrivingLoop, PollState,
         CancelReached, CancelWait, SendGoal, CancelGoal, OnTheWay, historyVars
<1>2. UNCHANGED <<Ordered, StopsLeft, current, Told, Moving>>
  BY <1>1, TourFrame DEF Boarding, OnTheWay, Moving
<1> QED
  BY <1>1, <1>2, Phases, PhasesPrime DEF T!PassOn, T!GiveUp, T!tourVars

LEMMA AudioRefines ==
  ASSUME TInv, WaitAudio
  PROVE  T!TalkEnds \/ UNCHANGED T!tourVars
<1>1. /\ UNCHANGED historyVars /\ exec' = exec /\ pc = "audio" /\ pc' \in {"next", "audio"}
  BY DEF WaitAudio, historyVars
<1>2. UNCHANGED <<Ordered, StopsLeft, current, Told, Moving>>
  BY <1>1, TourFrame DEF Boarding, Moving
<1> QED
  BY <1>1, <1>2, Phases, PhasesPrime DEF T!TalkEnds, T!tourVars

\* The base starts and stops on its own, but not while boarding or talking.
LEMMA ServerRefines ==
  ASSUME TInv, Server
  PROVE  T!StartOrStop \/ UNCHANGED T!tourVars
<1>1. UNCHANGED navVars
  BY DEF Server
<1>2. UNCHANGED <<AbstractPhase, Ordered, StopsLeft, current, Told>>
  BY <1>1 DEF AbstractPhase, Ordered, StopsLeft, Told, Randomise
<1>3. Moving \in BOOLEAN /\ Moving' \in BOOLEAN
  BY DEF Moving
<1>4. CASE Moving' = Moving
  BY <1>2, <1>4 DEF T!tourVars
<1>5. CASE Moving' # Moving
  <2>1. exec' # exec
    BY <1>5 DEF Moving
  <2>2. pc \notin Boarding /\ pc # "audio"
    BY <2>1 DEF Server, MBNext, ServerStart, ServerCrash, Accept, Reject, Succeed, Abort,
       Cancel, OldGoalEnds, RobotMoves, StatusArrives, GoalLost, TInv, BoardInv, IInv, GoalInv
  <2>3. AbstractPhase \notin {"boarding", "talking"}
    BY <2>2, Phases DEF TInv, IInv, TypeOK, ControlOK, PCs, Boarding, OnTheWay
  <2>4. Moving' = ~Moving
    BY <1>3, <1>5
  <2> QED
    BY <1>2, <2>3, <2>4 DEF T!StartOrStop
<1> QED
  BY <1>4, <1>5

\* Every step of the node is a step of the tour or leaves it alone.
LEMMA StepRefines == TInv /\ [Next]_vars => [T!Next]_T!tourVars
<1> SUFFICES ASSUME TInv, [Next]_vars PROVE [T!Next]_T!tourVars
  OBVIOUS
<1> USE DEF T!Next
<1>1. CASE Main
  BY <1>1, BoardingRefines, StartRefines, NextRefines, EndRefines, ArrivalRefines,
     LegRefines, AudioRefines DEF Main
<1>2. CASE Server
  BY <1>2, ServerRefines
<1>3. CASE Operator \/ \E s \in Statuses : AudioStatus(s)
  <2>1. UNCHANGED historyVars /\ exec' = exec /\ pc' = pc
    BY <1>3 DEF Operator, SelectFile, Enable, AudioStatus, historyVars
  <2> QED
    BY <2>1, TourFrame DEF T!tourVars, AbstractPhase, Moving
<1>4. CASE UNCHANGED vars
  <2>1. UNCHANGED historyVars /\ exec' = exec /\ pc' = pc
    BY <1>4 DEF vars, historyVars
  <2> QED
    BY <2>1, TourFrame DEF T!tourVars, AbstractPhase, Moving
<1> QED
  BY <1>1, <1>2, <1>3, <1>4 DEF Next, TourNext

\* waypoint_navigation.cpp implements Tour: each waypoint is attempted once, in
\* order unless the tour is random, the base is still before the start and
\* during a talk, and a talk is given once, on arrival.
THEOREM NodeImplementsTour == Spec => ImplementsTour
<1>1. Init => T!Init
  BY InitRefines
<1>2. TInv /\ [Next]_vars => [T!Next]_T!tourVars
  BY StepRefines
<1> QED
  BY <1>1, <1>2, TourInvariance, PTL DEF Spec, ImplementsTour, T!TourSpec
=============================================================================
