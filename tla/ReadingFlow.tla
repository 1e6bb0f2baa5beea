----------------------------- MODULE ReadingFlow -----------------------------
(***************************************************************************)
(* What range_sensor_layer promises about its readings, without its        *)
(* threads, its two buffers and its cycle: each reading is taken once, in  *)
(* the order of arrival, and a cell of the costmap only ever changes       *)
(* because a reading that reaches it is taken, or because the whole map    *)
(* moves with the robot.                                                   *)
(***************************************************************************)
EXTENDS Integers, Sequences

CONSTANTS
    Items,      \* the readings
    Places,     \* the cells of the map
    Reach,      \* Reach[r]: the cells that reading r may change
    Shifts,     \* by how many cells the map may move
    Unknown     \* what a cell that has come into view shows

VARIABLES
    queue,      \* the readings that have arrived and are not taken yet
    cells       \* the costs

flowVars == <<queue, cells>>

FlowInit == queue = <<>> /\ cells = [c \in Places |-> Unknown]

Arrive ==
    /\ \E r \in Items : queue' = Append(queue, r)
    /\ UNCHANGED cells

Take ==
    /\ queue # <<>> /\ queue' = Tail(queue)
    /\ DOMAIN cells' = Places
    /\ \A c \in Places \ Reach[Head(queue)] : cells'[c] = cells[c]

Move ==
    /\ \E by \in Shifts :
         cells' = [c \in Places |-> IF c + by \in Places THEN cells[c + by] ELSE Unknown]
    /\ UNCHANGED queue

FlowNext == Arrive \/ Take \/ Move

FlowSpec == FlowInit /\ [][FlowNext]_flowVars
=============================================================================
