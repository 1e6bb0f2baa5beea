-------------------------- MODULE RangeSensorLayer --------------------------
(***************************************************************************)
(* range_sensor_layer.cpp: sonar readings become costs.  The callbacks run *)
(* in one thread, the costmap's update cycle (updateBounds, then           *)
(* updateCosts if there is a window) in another; a mutex protects the      *)
(* buffer of readings, and nothing protects enabled_ and current_.         *)
(*                                                                         *)
(* The map is one row of cells, which may roll with the robot.  A cost is  *)
(* abstracted to the class the thresholds give it, and a reading that does *)
(* not clear may move a cell of its cone to any class (0, which nothing    *)
(* but a target raises, is not told apart).  A cone is the cells of its    *)
(* origin, target and sides.                                               *)
(***************************************************************************)
EXTENDS Integers, Sequences

CONSTANTS
    Width,          \* size_x_: the cells are 0..Width - 1
    Zeros,          \* the cells where world coordinate 0 may come to lie: one
                    \* for a map that does not roll, else a bound
    Cones,          \* [origin, target, side]: cells, which may be off the map
    MaxReadings,    \* bound: readings received
    MaxReconfigs    \* bound: calls of reconfigureCB

ASSUME MapAssumption == Width \in Nat \ {0} /\ Zeros \subseteq Int

Cells == 0..(Width - 1)

\* The robot is on the map, its sensors about it: some may be off the map, but
\* no cone lies below the map as a whole.
ASSUME ConesAssumption ==
    /\ Cones \subseteq [origin : Int, target : Int, side : Int]
    /\ \A c \in Cones : c.origin >= 0 \/ c.side >= 0
ASSUME BoundsAssumption == MaxReadings \in Nat /\ MaxReconfigs \in Nat

Costs    == {"free", "unsure", "mark"}
Readings == [sensor : {"fixed"}, range : {"below", "inside", "above"}, cone : Cones]
            \cup [sensor : {"variable"}, range : {"below", "inside", "max", "above"}, cone : Cones]

VARIABLES
    buffer,             \* range_msgs_buffer_
    copy,               \* range_msgs_buffer_copy: readings of this cycle
    zero,               \* the cell of world coordinate 0
    lo, hi,             \* min_x_ and max_x_, as cells
    window,             \* the bounds handed to the costmap, <<first, last>>
    layer,              \* the costs of this layer
    master,             \* what this layer shows in the master grid
    enabled, current,   \* enabled_, current_
    clearOnMax,         \* clear_on_max_reading_
    buffered,           \* buffered_readings_ > 0
    pc, rpc,            \* where the costmap's thread and reconfigureCB are
    received, processed,    \* readings so far (history)
    reconfigs,          \* calls of reconfigureCB (history)
    off                 \* has the layer ever been disabled? (history)

readings == <<buffer, copy, received, processed>>
bounds   == <<zero, lo, hi, window>>
grids    == <<layer, master>>
flags    == <<enabled, current, clearOnMax, buffered, off>>
vars     == <<readings, bounds, grids, flags, pc, rpc, reconfigs>>

NoWindow == <<Width, -1>>

PCs == {"idle", "rolled", "copied", "process", "bounds", "window", "costs", "finish"}

\* setCallback calls reconfigureCB at once: the first configuration enables the
\* layer, which leaves it not current until the first updateCosts.  The robot's
\* costmap_common_params.yaml has the layer clear on maximal readings.
FirstConfig == enabled = TRUE /\ current = FALSE /\ clearOnMax = TRUE

Init ==
    /\ buffer = <<>> /\ copy = <<>> /\ received = 0 /\ processed = 0
    /\ zero \in Zeros /\ lo = 0 /\ hi = Width /\ window = NoWindow
    /\ layer = [c \in Cells |-> "unsure"] /\ master = [c \in Cells |-> "none"]
    /\ FirstConfig /\ buffered = FALSE
    /\ off = FALSE /\ pc = "idle" /\ rpc = "idle" /\ reconfigs = 0

---------------------------------------------------------------------------
(* The thread of the callbacks                                             *)

\* Mistake: the callback does not take the mutex.
Unlocked  == TRUE
MutexFree == pc # "copied"

bufferIncomingRangeMsg ==
    /\ MutexFree /\ rpc = "idle" /\ received < MaxReadings
    /\ \E r \in Readings : buffer' = Append(buffer, r)
    /\ received' = received + 1
    /\ UNCHANGED <<copy, processed, bounds, grids, flags, pc, rpc, reconfigs>>

\* reconfigureCB: the settings (the thresholds stay), enabled_, then current_.
Reconfigure ==
    /\ rpc = "idle" /\ reconfigs < MaxReconfigs
    /\ reconfigs' = reconfigs + 1
    /\ clearOnMax' \in BOOLEAN
    /\ \/ UNCHANGED <<enabled, off, rpc>>
       \/ enabled' = ~enabled /\ off' = TRUE /\ rpc' = "toggled"
    /\ UNCHANGED <<readings, bounds, grids, current, buffered, pc>>

Toggled ==
    /\ rpc = "toggled" /\ rpc' = "idle"
    /\ current' = FALSE
    /\ UNCHANGED <<readings, bounds, grids, enabled, clearOnMax, buffered, off, pc, reconfigs>>

---------------------------------------------------------------------------
(* The costmap's thread: updateBounds                                      *)

Rolled(grid, by, new) ==
    [c \in Cells |-> IF c + by \in Cells THEN grid[c + by] ELSE new]

\* updateOrigin: the costmap has just moved the master grid by as much, and
\* emptied its bounds.  The layer's are world coordinates; at this point they
\* are the whole world, or as HandBounds has reset them.
updateOrigin ==
    /\ pc = "idle" /\ pc' = "rolled"
    /\ zero' \in Zeros
    /\ master' = Rolled(master, zero - zero', "none")
    /\ layer' = Rolled(layer, zero - zero', "unsure")
    /\ hi' = IF lo = Width THEN zero' ELSE hi
    /\ window' = NoWindow
    /\ UNCHANGED <<readings, lo, flags, rpc, reconfigs>>

CopyBuffer ==
    /\ pc = "rolled" /\ pc' = "copied"
    /\ copy' = buffer
    /\ UNCHANGED <<buffer, received, processed, bounds, grids, flags, rpc, reconfigs>>

ClearBuffer ==
    /\ pc = "copied" /\ pc' = "process"
    /\ buffer' = <<>>
    /\ UNCHANGED <<copy, received, processed, bounds, grids, flags, rpc, reconfigs>>

\* processFixedRangeMsg and processVariableRangeMsg; a range below the
\* minimum clears the cone of a variable sensor whatever the setting says.
Verdict(r) ==
    CASE r.sensor = "fixed" /\ r.range = "inside"  -> "drop"
      [] r.sensor = "fixed" /\ r.range = "below"   -> "mark"
      [] r.sensor = "variable" /\ r.range = "below"  -> "clear"
      [] r.sensor = "variable" /\ r.range = "inside" -> "mark"
      [] r.sensor = "variable" /\ r.range = "max" -> IF clearOnMax THEN "clear" ELSE "mark"
      [] r.range = "above" -> IF clearOnMax THEN "clear" ELSE "drop"

Lower(a, b)  == IF a < b THEN a ELSE b
Higher(a, b) == IF a < b THEN b ELSE a

\* The loop over the cone: its upper limit becomes unsigned, so that a
\* negative one is larger than every cell.
ConeCells(c) ==
    LET last == Lower(Width, Higher(c.origin, c.side))
    IN  {x \in Cells : x >= Lower(c.origin, c.side) /\ (x <= last \/ last < 0)}

\* Mistake: the target is not touched.
TouchedWithoutTarget(c) == {c.origin, c.side}
Touched(c) == {c.origin, c.side} \cup ({c.target} \cap Cells)

\* updateCostmap for one reading
UpdateCells(c, verdict) ==
    LET hit  == {c.target} \cap Cells
        cone == ConeCells(c)
    IN  /\ layer' \in [Cells -> Costs]
        /\ \A x \in Cells \ cone : layer'[x] = IF x \in hit THEN "mark" ELSE layer[x]
        /\ verdict = "clear" => \A x \in cone : layer'[x] = "free"
        /\ lo' \in Touched(c) \cup {lo} /\ \A x \in Touched(c) \cup {lo} : lo' <= x
        /\ hi' \in Touched(c) \cup {hi} /\ \A x \in Touched(c) \cup {hi} : hi' >= x
        /\ buffered' = TRUE

\* A reading that gets no verdict, or no transform in time, is dropped.
ProcessReading ==
    /\ pc = "process" /\ copy # <<>>
    /\ copy' = Tail(copy) /\ processed' = processed + 1
    /\ \/ UNCHANGED <<lo, hi, layer, buffered>>
       \/ Verdict(Head(copy)) # "drop" /\ UpdateCells(Head(copy).cone, Verdict(Head(copy)))
    /\ UNCHANGED <<buffer, received, zero, window, master, enabled, current, clearOnMax, off>>
    /\ UNCHANGED <<pc, rpc, reconfigs>>

\* What the other layers have asked for.
OtherWindows == {NoWindow} \cup {<<a, a>> : a \in Cells}

\* The bounds are merged and reset; the upper one is reset to 0, not to the
\* least number.
HandBounds ==
    /\ pc = "process" /\ copy = <<>> /\ pc' = "bounds"
    /\ \E w \in OtherWindows : window' = <<Lower(w[1], lo), Higher(w[2], hi)>>
    /\ lo' = Width /\ hi' = zero
    /\ UNCHANGED <<readings, zero, grids, flags, rpc, reconfigs>>

\* Mistake: a disabled layer leaves current_ as it is.
LeftAsIs        == current
DisabledCurrent == TRUE

CheckCurrent ==
    /\ pc = "bounds" /\ pc' = "window"
    /\ \/ ~enabled /\ current' = DisabledCurrent
       \/ enabled /\ UNCHANGED current
       \/ enabled /\ ~buffered /\ current' = FALSE      \* no_readings_timeout_
    /\ UNCHANGED <<readings, bounds, grids, enabled, clearOnMax, buffered, off, rpc, reconfigs>>

---------------------------------------------------------------------------
(* The costmap resets the window of the master grid; then updateCosts.     *)

Clamp(x) == Lower(Higher(x, 0), Width - 1)
Window   == Clamp(window[1])..Clamp(window[2])

ResetWindow ==
    /\ pc = "window"
    /\ IF Clamp(window[2]) + 1 < Clamp(window[1])
         THEN pc' = "idle" /\ UNCHANGED master
         ELSE /\ pc' = "costs"
              /\ master' = [c \in Cells |-> IF c \in Window THEN "none" ELSE master[c]]
    /\ UNCHANGED <<readings, bounds, layer, flags, rpc, reconfigs>>

\* Mistake: the cost of the layer instead of one of the master grid's three.
CostAsIs(cost) == cost
Shown(cost) == CASE cost = "mark" -> "lethal"
                 [] cost = "free" -> "free"
                 [] cost = "unsure" -> "none"

updateCosts ==
    /\ pc = "costs"
    /\ IF enabled
         THEN /\ pc' = "finish"
              /\ master' = [c \in Cells |-> IF c \in Window THEN Shown(layer[c]) ELSE master[c]]
         ELSE pc' = "idle" /\ UNCHANGED master
    /\ UNCHANGED <<readings, bounds, layer, flags, rpc, reconfigs>>

Finish ==
    /\ pc = "finish" /\ pc' = "idle"
    /\ buffered' = FALSE /\ current' = TRUE
    /\ UNCHANGED <<readings, bounds, grids, enabled, clearOnMax, off, rpc, reconfigs>>

Cycle == \/ updateOrigin \/ CopyBuffer \/ ClearBuffer \/ ProcessReading \/ HandBounds
         \/ CheckCurrent \/ ResetWindow \/ updateCosts \/ Finish
Next  == bufferIncomingRangeMsg \/ Reconfigure \/ Toggled \/ Cycle
Spec  == Init /\ [][Next]_vars /\ WF_vars(Cycle) /\ WF_vars(Toggled)

---------------------------------------------------------------------------

\* Every variable keeps to its set.
TypeOK ==
    /\ buffer \in Seq(Readings) /\ copy \in Seq(Readings)
    /\ received \in 0..MaxReadings /\ processed \in 0..MaxReadings
    /\ zero \in Zeros /\ lo \in Int /\ hi \in Int /\ window \in Int \X Int
    /\ layer \in [Cells -> Costs] /\ master \in [Cells -> {"none", "free", "lethal"}]
    /\ reconfigs \in 0..MaxReconfigs
    /\ enabled \in BOOLEAN /\ current \in BOOLEAN /\ clearOnMax \in BOOLEAN
    /\ buffered \in BOOLEAN /\ off \in BOOLEAN
    /\ pc \in PCs /\ rpc \in {"idle", "toggled"}

\* bufferIncomingRangeMsg and updateCostmap hand readings from thread to
\* thread: between two critical sections none is lost and none is held twice.
NoReadingLost == pc # "copied" => received = processed + Len(copy) + Len(buffer)

\* The layer changes cells of its own map in updateBounds and shows them in
\* updateCosts, for the window only: while it has never been disabled, the
\* master grid shows every one of its cells when a cycle is over.
MasterShowsLayer ==
    pc = "idle" /\ ~off => \A c \in Cells : master[c] = Shown(layer[c])

\* The readings that no updateCostmap has taken yet: between the copy and the
\* clearing of the buffer they are held twice.
Waiting == IF pc = "copied" THEN buffer ELSE copy \o buffer

\* The cells that updateCostmap may change for a reading.
Reached(r) == ConeCells(r.cone) \cup ({r.cone.target} \cap Cells)

F == INSTANCE ReadingFlow WITH
    Items   <- Readings,
    Places  <- Cells,
    Reach   <- [r \in Readings |-> Reached(r)],
    Shifts  <- {z[1] - z[2] : z \in Zeros \X Zeros},
    Unknown <- "unsure",
    queue   <- Waiting,
    cells   <- layer

\* Two threads, two buffers and a map that rolls: each reading is taken once,
\* in the order of arrival, and nothing else changes the cells it reaches.
ImplementsFlow == F!FlowSpec

\* A reading is processed by one of the next cycles, enabled or not.
ReadingsProcessed ==
    \A n \in 1..MaxReadings : received >= n ~> processed >= n

\* A disabled layer does not hold the robot up: current_ becomes TRUE again,
\* although reconfigureCB writes it after enabled_ and without a lock.
DisabledIsCurrent == ~enabled ~> current \/ enabled
=============================================================================
