----------------------------- MODULE TourProofs -----------------------------
(***************************************************************************)
(* Proofs that the node keeps the promises of module Tour: no talk twice,  *)
(* a random tour complete, and every step one that the abstract tour       *)
(* allows.  They continue NavigationProofs with facts about the history of *)
(* the tour.                                                               *)
(***************************************************************************)
EXTENDS NavigationProofs

\* Nothing has happened before the tour is started.
BoardInv ==
    pc \in Boarding =>
        /\ triggers = <<>> /\ index = 0 /\ visited = {}
        /\ goal = "none" /\ exec = NoWaypoint

\* The waypoints that have been attempted.
Done == IF Randomise THEN visited ELSE 0..(index - 1)

\* Talks are those of waypoints attempted before, and while the robot is on its
\* way to a waypoint its talk is still to come.
TalkInv ==
    /\ \A i \in DOMAIN triggers :
         triggers[i] = AudioName(triggers[i][2]) /\ triggers[i][2] \in Done
    /\ pc \in OnTheWay =>
         current \in Done /\ \A i \in DOMAIN triggers : triggers[i][2] # current
    /\ EachTalkOnce

\* visited_waypoint[] has one slot set per round of the loop.
RandomInv ==
    /\ IsFiniteSet(visited)
    /\ Loaded /\ loaded \in Short \ Unreadable =>
         visited \subseteq 0..(total - 1) /\ Cardinality(visited) = index
    /\ pc = "over" /\ ~stop => ~MoreWaypoints

TInv == IInv /\ BoardInv /\ TalkInv /\ RandomInv

---------------------------------------------------------------------------
USE DEF setupVars, soundVars, tourVars, countVars, timeVars, poseVars, navVars, mbVars,
        NextAttempt, ResendDue, BreakOff, BreakLoop, Accepted, Cancelled, TriggerAudio

LEMMA AudioNameParts ==
  ASSUME NEW w
  PROVE  AudioName(w)[2] = w
  BY DEF AudioName

LEMMA TInit == Init => TInv
<1> SUFFICES ASSUME Init PROVE TInv
  OBVIOUS
<1>1. IInv
  BY InitInv
<1>2. BoardInv
  BY DEF Init, MBInit, BoardInv
<1>3. TalkInv
  BY DEF Init, TalkInv, OnTheWay, EachTalkOnce
<1>4. RandomInv
  BY FS_EmptySet DEF Init, RandomInv, Loaded
<1> QED
  BY <1>1, <1>2, <1>3, <1>4 DEF TInv

LEMMA BoardStep ==
  ASSUME TInv, Next
  PROVE  BoardInv'
<1>1. CASE Main
  BY <1>1 DEF TInv, BoardInv, Boarding, Main, WaitFile, LoadWaypoints, WaitServer,
     WaitEnable, NextWaypoint, ReadPastEnd, TourEnds, FirstSend, PendingLoop, PendingSleep,
     RejectedLoop, Settle, DrivingLoop, PollState, CancelReached, CancelWait, Reached, WaitAudio
<1>2. CASE Server
  BY <1>2 DEF TInv, BoardInv, Boarding, Server, MBNext, ServerStart, ServerCrash, Accept,
     Reject, Succeed, Abort, Cancel, OldGoalEnds, RobotMoves, StatusArrives, GoalLost
<1>3. CASE Operator \/ \E s \in Statuses : AudioStatus(s)
  BY <1>3 DEF TInv, BoardInv, Boarding, Operator, SelectFile, Enable, AudioStatus
<1> QED
  BY <1>1, <1>2, <1>3 DEF Next, TourNext

\* What the history of the tour depends on changes in four actions only.
historyVars == <<loaded, total, index, visited, current, triggers>>

LEMMA HistoryFrame ==
  ASSUME TInv, [Next]_vars
  PROVE  \/ LoadWaypoints \/ NextWaypoint \/ Reached
         \/ /\ UNCHANGED historyVars
            /\ pc' \in OnTheWay => pc \in OnTheWay
            /\ Loaded' => Loaded
<1> USE DEF historyVars, OnTheWay, Loaded
<1>1. CASE Main
  BY <1>1 DEF Main, WaitFile, LoadWaypoints, WaitServer,
     WaitEnable, NextWaypoint, ReadPastEnd, TourEnds, FirstSend, PendingLoop, PendingSleep,
     RejectedLoop, Settle, DrivingLoop, PollState, CancelReached, CancelWait, Reached, WaitAudio
<1>2. CASE Server
  BY <1>2 DEF Server
<1>3. CASE Operator \/ \E s \in Statuses : AudioStatus(s)
  BY <1>3 DEF Operator, SelectFile, Enable, AudioStatus
<1>4. CASE UNCHANGED vars
  BY <1>4 DEF vars
<1> QED
  BY <1>1, <1>2, <1>3, <1>4 DEF Next, TourNext

LEMMA TalkStep ==
  ASSUME TInv, [Next]_vars
  PROVE  TalkInv'
<1> USE DEF historyVars
<1>1. CASE LoadWaypoints
  <2>1. triggers' = <<>> /\ pc' = "server"
    BY <1>1 DEF LoadWaypoints, TInv, BoardInv, Boarding
  <2> QED
    BY <2>1 DEF TalkInv, OnTheWay, EachTalkOnce
<1>2. CASE NextWaypoint
  <2>1. PICK w \in Choices : /\ current' = w
                            /\ visited' = IF Randomise THEN visited \cup {w} ELSE visited
    BY <1>2 DEF NextWaypoint
  <2>2. /\ triggers' = triggers /\ loaded' = loaded /\ index' = index + 1
        /\ index \in Nat
    BY <1>2 DEF NextWaypoint, TInv, IInv, TypeOK, CountersOK
  <2>3. w \notin Done /\ Done' = Done \cup {w}
    BY <2>1, <2>2 DEF Done, Choices, Randomise
  <2>4. \A i \in DOMAIN triggers : triggers[i] = AudioName(triggers[i][2])
                                  /\ triggers[i][2] \in Done /\ triggers[i][2] # w
    BY <2>3 DEF TInv, TalkInv
  <2> QED
    BY <2>1, <2>2, <2>3, <2>4 DEF TInv, TalkInv, EachTalkOnce, AudioName, Randomise
<1>3. CASE Reached
  <2>1. /\ Done' = Done /\ current' = current /\ Randomise' = Randomise
        /\ pc = "cancelling"
    BY <1>3 DEF Reached, Done, Randomise
  <2>2. /\ current \in Done
        /\ \A i \in DOMAIN triggers : triggers[i][2] # current
    BY <2>1 DEF TInv, TalkInv, OnTheWay
  <2>3. CASE triggers' = triggers /\ pc' = "next"
    BY <2>1, <2>3 DEF TInv, TalkInv, OnTheWay, EachTalkOnce, AudioName
  <2>4. CASE triggers' = Append(triggers, AudioName(current)) /\ pc' = "audio"
    <3>1. /\ triggers \in Seq(AudioNames)
          /\ AudioName(current)[2] = current
      BY AudioNameParts DEF TInv, IInv, TypeOK, PlacesOK
    <3>2. /\ DOMAIN triggers = 1..Len(triggers) /\ Len(triggers) \in Nat
          /\ DOMAIN triggers' = 1..(Len(triggers) + 1)
          /\ \A i \in 1..Len(triggers) : triggers'[i] = triggers[i]
          /\ triggers'[Len(triggers) + 1] = AudioName(current)
      BY <2>4, <3>1
    <3>3. \A i \in DOMAIN triggers' : triggers'[i] = AudioName(triggers'[i][2])
                                     /\ triggers'[i][2] \in Done
      BY <2>2, <3>1, <3>2 DEF TInv, TalkInv
    <3>4. \A i, j \in DOMAIN triggers' : triggers'[i] = triggers'[j] => i = j
      BY <2>2, <3>1, <3>2 DEF TInv, TalkInv, EachTalkOnce
    <3> QED
      BY <2>1, <2>4, <3>3, <3>4 DEF TalkInv, OnTheWay, EachTalkOnce, AudioName
  <2> QED
    BY <1>3, <2>3, <2>4 DEF Reached
<1>4. CASE UNCHANGED historyVars /\ (pc' \in OnTheWay => pc \in OnTheWay)
  BY <1>4 DEF TInv, TalkInv, EachTalkOnce, AudioName, Randomise, Done
<1> QED
  BY <1>1, <1>2, <1>3, <1>4, HistoryFrame

LEMMA RandomStep ==
  ASSUME TInv, [Next]_vars
  PROVE  RandomInv'
<1> USE DEF historyVars
<1>1. IsFiniteSet(visited')
      /\ (Loaded' /\ loaded' \in Short \ Unreadable =>
            visited' \subseteq 0..(total' - 1) /\ Cardinality(visited') = index')
  <2>1. CASE LoadWaypoints
    <3>1. visited' = {} /\ index' = 0
      BY <2>1 DEF LoadWaypoints, TInv, BoardInv, Boarding
    <3> QED
      BY <3>1, FS_EmptySet
  <2>2. CASE NextWaypoint
    <3>1. PICK w \in Choices : visited' = IF Randomise THEN visited \cup {w} ELSE visited
      BY <2>2 DEF NextWaypoint
    <3>2. /\ loaded' = loaded /\ total' = total /\ index' = index + 1
          /\ index \in Nat /\ Loaded /\ IsFiniteSet(visited)
      BY <2>2 DEF NextWaypoint, TInv, IInv, TypeOK, CountersOK, Loaded, RandomInv
    <3>3. CASE loaded \in Short \ Unreadable
      <4>1. w \in 0..(total - 1) /\ w \notin visited /\ visited' = visited \cup {w}
        BY <3>1, <3>3 DEF Choices, Randomise
      <4>2. Cardinality(visited') = Cardinality(visited) + 1 /\ IsFiniteSet(visited')
        BY <3>2, <4>1, FS_AddElement
      <4> QED
        BY <3>2, <3>3, <4>1, <4>2 DEF TInv, RandomInv
    <3>4. CASE loaded \notin Short \ Unreadable
      <4>1. IsFiniteSet(visited \cup {w})
        BY <3>2, FS_AddElement
      <4> QED
        BY <3>1, <3>2, <3>4, <4>1
    <3> QED
      BY <3>3, <3>4
  <2>3. CASE Reached
    BY <2>3 DEF Reached, TInv, RandomInv, Loaded
  <2>4. CASE UNCHANGED historyVars /\ (Loaded' => Loaded)
    BY <2>4 DEF TInv, RandomInv
  <2> QED
    BY <2>1, <2>2, <2>3, <2>4, HistoryFrame
<1>2. pc' = "over" /\ ~stop' => ~MoreWaypoints'
  <2> USE DEF MoreWaypoints, TInv, RandomInv
  <2>1. CASE Main
    BY <2>1 DEF Main, WaitFile, LoadWaypoints, WaitServer,
     WaitEnable, NextWaypoint, ReadPastEnd, TourEnds, FirstSend, PendingLoop, PendingSleep,
     RejectedLoop, Settle, DrivingLoop, PollState, CancelReached, CancelWait, Reached, WaitAudio
  <2>2. CASE Server
    BY <2>2 DEF Server
  <2>3. CASE Operator \/ \E s \in Statuses : AudioStatus(s)
    BY <2>3 DEF Operator, SelectFile, Enable, AudioStatus
  <2>4. CASE UNCHANGED vars
    BY <2>4 DEF vars
  <2> QED
    BY <2>1, <2>2, <2>3, <2>4 DEF Next, TourNext
<1> QED
  BY <1>1, <1>2 DEF RandomInv

LEMMA TInductive == TInv /\ [Next]_vars => TInv'
<1> SUFFICES ASSUME TInv, [Next]_vars PROVE TInv'
  OBVIOUS
<1>1. IInv'
  BY Inductive DEF TInv
<1>2. BoardInv'
  BY BoardStep DEF TInv, BoardInv, vars
<1> QED
  BY <1>1, <1>2, TalkStep, RandomStep DEF TInv

\* The strengthened invariant holds in every behaviour of the node.
THEOREM TourInvariance == Spec => []TInv
  BY TInit, TInductive, PTL DEF Spec

\* No sound file is triggered twice in a tour, random or not: the slots of
\* visited_waypoint[] (:146-154) keep the legs apart.
THEOREM TalksOnce == Spec => []EachTalkOnce
<1>1. TInv => EachTalkOnce
  BY DEF TInv, TalkInv
<1> QED
  BY <1>1, TourInvariance, PTL

\* Of a set of n indices below n none is missing.
LEMMA FullRound ==
  ASSUME NEW n \in Nat, NEW S \in SUBSET (0..(n - 1)), Cardinality(S) >= n
  PROVE  S = 0..(n - 1)
<1>1. IsFiniteSet(0..(n - 1)) /\ Cardinality(0..(n - 1)) = n
  <2>1. 0 \in Int /\ n - 1 \in Int
    OBVIOUS
  <2>2. /\ IsFiniteSet(0..(n - 1))
        /\ Cardinality(0..(n - 1)) = IF 0 > n - 1 THEN 0 ELSE (n - 1) - 0 + 1
    BY <2>1, FS_Interval, Zenon
  <2> QED
    BY <2>2
<1>2. IsFiniteSet(S) /\ Cardinality(S) <= Cardinality(0..(n - 1))
  BY <1>1, FS_Subset
<1>3. Cardinality(S) \in Nat
  BY <1>2, FS_CardinalityType
<1>4. Cardinality(0..(n - 1)) = Cardinality(S)
  BY <1>1, <1>2, <1>3
<1> QED
  BY <1>1, <1>4, FS_Subset

\* What the strengthened invariant says of a random tour.
LEMMA RoundComplete == TInv => RandomTourComplete
<1> SUFFICES ASSUME TInv, loaded \in Short \ Unreadable
             PROVE  /\ visited \subseteq 0..(VisitedSlots - 1)
                    /\ pc = "over" /\ ~stop => visited = 0..(Count[loaded] - 1)
  BY DEF RandomTourComplete
<1>1. CASE Loaded
  <2>1. /\ total = Count[loaded] /\ total \in Nat /\ total <= VisitedSlots
        /\ VisitedSlots \in Nat
    BY <1>1, Constants, SlotsAssumption DEF TInv, IInv, PlanInv
  <2>2. visited \subseteq 0..(total - 1) /\ Cardinality(visited) = index /\ index \in Nat
    BY <1>1 DEF TInv, RandomInv, IInv, TypeOK, CountersOK
  <2>3. ASSUME pc = "over", ~stop PROVE visited = 0..(total - 1)
    <3>1. index >= total
      BY <2>1, <2>2, <2>3 DEF TInv, RandomInv, MoreWaypoints
    <3> QED
      BY <2>1, <2>2, <3>1, FullRound
  <2> QED
    BY <2>1, <2>2, <2>3
<1>2. CASE ~Loaded
  BY <1>2 DEF Loaded, TInv, BoardInv, Boarding
<1> QED
  BY <1>1, <1>2

\* A random tour that ends by itself has attempted every waypoint, within the
\* four slots of visited_waypoint[] (:140).
THEOREM RandomComplete == Spec => []RandomTourComplete
  BY RoundComplete, TourInvariance, PTL
=============================================================================
