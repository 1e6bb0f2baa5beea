------------------------------ MODULE MoveBase ------------------------------
(***************************************************************************)
(* The move_base action server and the actionlib::SimpleActionClient that  *)
(* waypoint_navigation owns, as far as waypoint_navigation.cpp can tell.   *)
(* Both are outside src/: the client runs in a thread of its own           *)
(* (SimpleActionClient("move_base", true)), so the state that getState()   *)
(* returns changes between any two statements of the program, and it lags  *)
(* behind the server.                                                      *)
(*                                                                         *)
(* The client tracks the LAST goal it sent.  An earlier goal that the      *)
(* server already drives to stays alive until the server accepts another   *)
(* goal, ends it by itself, or restarts; the client cannot cancel it.      *)
(***************************************************************************)
EXTENDS Integers

CONSTANTS
    MaxCrashes      \* how often the move_base process may die in a behaviour

ASSUME CrashAssumption == MaxCrashes \in Nat

NoWaypoint == -1

VARIABLES
    up,         \* is the server running and connected?
    crashes,    \* how often it has died
    goal,       \* what the server knows of the last goal sent
    view,       \* what the client's getState() returns for that goal
    target,     \* the waypoint of that goal
    cancelReq,  \* is a cancel request for that goal on its way?
    exec,       \* the waypoint the base is being driven to, or NoWaypoint
    robotAt     \* the waypoint whose box the robot really is in, or NoWaypoint

mbVars == <<up, crashes, goal, view, target, cancelReq, exec, robotAt>>

GoalEnds    == {"succeeded", "aborted", "rejected", "preempted", "recalled"}
GoalStates  == GoalEnds \cup {"none", "sent", "active"}
ViewOf(g)   == CASE g = "active"    -> "ACTIVE"
                 [] g = "succeeded" -> "SUCCEEDED"
                 [] g = "aborted"   -> "ABORTED"
                 [] g = "rejected"  -> "REJECTED"
                 [] g = "preempted" -> "PREEMPTED"
                 [] g = "recalled"  -> "RECALLED"
ViewEnds    == {"SUCCEEDED", "ABORTED", "REJECTED", "PREEMPTED", "RECALLED", "LOST"}
Views       == ViewEnds \cup {"PENDING", "ACTIVE"}

\* getState() on a client that never sent a goal reports LOST.
MBInit ==
    /\ up = FALSE /\ crashes = 0
    /\ goal = "none" /\ view = "LOST" /\ target = NoWaypoint
    /\ cancelReq = FALSE /\ exec = NoWaypoint /\ robotAt = NoWaypoint

---------------------------------------------------------------------------
(* What the program calls.                                                 *)

\* sendGoal: forget the previous goal and track a new one.  A goal published
\* while the server is down reaches nobody.
SendGoal(w) ==
    /\ goal' = IF up THEN "sent" ELSE "none"
    /\ view' = "PENDING"
    /\ target' = w
    /\ cancelReq' = FALSE
    /\ UNCHANGED <<up, crashes, exec, robotAt>>

\* cancelGoal: a goal whose client state is final is left alone.
CancelGoal ==
    /\ cancelReq' = (cancelReq \/ (view \notin ViewEnds /\ up))
    /\ UNCHANGED <<up, crashes, goal, view, target, exec, robotAt>>

---------------------------------------------------------------------------
(* What the server and the client's thread do by themselves.               *)

ServerStart ==
    /\ ~up
    /\ up' = TRUE
    /\ UNCHANGED <<crashes, goal, view, target, cancelReq, exec, robotAt>>

\* The server dies: its goals and the messages on their way are gone, the
\* results the client has not heard of yet included.
ServerCrash ==
    /\ up /\ crashes < MaxCrashes
    /\ up' = FALSE /\ crashes' = crashes + 1
    /\ goal' = IF view \in ViewEnds THEN goal ELSE "none"
    /\ cancelReq' = FALSE
    /\ exec' = NoWaypoint
    /\ UNCHANGED <<view, target, robotAt>>

\* The new goal replaces whatever the base was driving to.
Accept ==
    /\ up /\ goal = "sent"
    /\ goal' = "active" /\ exec' = target
    /\ UNCHANGED <<up, crashes, view, target, cancelReq, robotAt>>

Reject ==
    /\ up /\ goal = "sent"
    /\ goal' = "rejected"
    /\ UNCHANGED <<up, crashes, view, target, cancelReq, exec, robotAt>>

Succeed ==
    /\ up /\ goal = "active" /\ robotAt = target
    /\ goal' = "succeeded" /\ exec' = NoWaypoint
    /\ UNCHANGED <<up, crashes, view, target, cancelReq, robotAt>>

Abort ==
    /\ up /\ goal = "active"
    /\ goal' = "aborted" /\ exec' = NoWaypoint
    /\ UNCHANGED <<up, crashes, view, target, cancelReq, robotAt>>

\* A cancel request arrives; it changes nothing once the goal has ended.
Cancel ==
    /\ up /\ cancelReq
    /\ cancelReq' = FALSE
    /\ goal' = CASE goal = "active" -> "preempted"
                 [] goal = "sent"   -> "recalled"
                 [] OTHER           -> goal
    /\ exec' = IF goal = "active" THEN NoWaypoint ELSE exec
    /\ UNCHANGED <<up, crashes, view, target, robotAt>>

\* A goal the client has stopped tracking ends.
OldGoalEnds ==
    /\ exec # NoWaypoint /\ goal # "active"
    /\ exec' = NoWaypoint
    /\ UNCHANGED <<up, crashes, goal, view, target, cancelReq, robotAt>>

\* The base only moves on behalf of a goal.
RobotMoves ==
    /\ exec # NoWaypoint
    /\ robotAt' \in {NoWaypoint, exec}
    /\ UNCHANGED <<up, crashes, goal, view, target, cancelReq, exec>>

\* The client's thread hears of the goal's state.
StatusArrives ==
    /\ up /\ goal \in GoalEnds \cup {"active"} /\ view \notin ViewEnds
    /\ view' = ViewOf(goal)
    /\ UNCHANGED <<up, crashes, goal, target, cancelReq, exec, robotAt>>

\* The server's status list no longer has the goal: it was restarted.
GoalLost ==
    /\ up /\ goal = "none" /\ view \in {"PENDING", "ACTIVE"}
    /\ view' = "LOST"
    /\ UNCHANGED <<up, crashes, goal, target, cancelReq, exec, robotAt>>

MBNext ==
    \/ ServerStart \/ ServerCrash
    \/ Accept \/ Reject \/ Succeed \/ Abort \/ Cancel
    \/ OldGoalEnds \/ RobotMoves
    \/ StatusArrives \/ GoalLost
=============================================================================
