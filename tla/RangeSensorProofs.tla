------------------------- MODULE RangeSensorProofs --------------------------
(***************************************************************************)
(* The invariants of RangeSensorLayer, for any map, cones and number of    *)
(* readings.  A cell of the layer is at any time in step with the master   *)
(* grid, or inside the bounds that will reach updateCosts in this cycle.   *)
(***************************************************************************)
EXTENDS RangeSensorLayer, SequenceTheorems, TLAPS

USE MapAssumption, ConesAssumption, BoundsAssumption

\* The hand-over of the readings.
HandOver ==
    /\ pc = "copied" => copy = buffer /\ received = processed + Len(buffer)
    /\ pc # "copied" => received = processed + Len(copy) + Len(buffer)
    /\ pc \notin {"copied", "process"} => copy = <<>>

InStep(c) == master[c] = Shown(layer[c])

\* The cells that are not in step are within the bounds.
Covered ==
    /\ pc \in {"idle", "rolled", "finish"} => \A c \in Cells : InStep(c)
    /\ pc \in {"copied", "process"} => \A c \in Cells : InStep(c) \/ (lo <= c /\ c <= hi)
    /\ pc \in {"bounds", "window"} =>
         \A c \in Cells : InStep(c) \/ (window[1] <= c /\ c <= window[2])
    /\ pc = "costs" => \A c \in Cells : InStep(c) \/ c \in Window

IInv == TypeOK /\ HandOver /\ (~off => enabled /\ Covered)

LEMMA InitHolds == ASSUME Init PROVE IInv
  <1>0. 0 \in 0..MaxReadings /\ 0 \in 0..MaxReconfigs
    OBVIOUS
  <1>1. buffer \in Seq(Readings) /\ copy \in Seq(Readings)
    BY DEF Init
  <1>2. /\ layer \in [Cells -> Costs] /\ master \in [Cells -> {"none", "free", "lethal"}]
        /\ pc \in PCs /\ rpc \in {"idle", "toggled"}
    BY DEF Init, Costs, PCs
  <1>3. zero \in Zeros /\ lo \in Int /\ hi \in Int /\ window \in Int \X Int
    BY DEF Init, NoWindow
  <1>4. TypeOK
    BY <1>0, <1>1, <1>2, <1>3, Zenon DEF Init, FirstConfig, TypeOK
  <1>5. HandOver
    BY DEF Init, HandOver
  <1>6. Covered
    <2>1. Shown("unsure") = "none"
      BY DEF Shown
    <2> QED BY <2>1 DEF Init, Covered, InStep
  <1>7. enabled
    BY DEF Init, FirstConfig
  <1> QED
    BY <1>4, <1>5, <1>6, <1>7 DEF IInv

\* What a step leaves alone.
LEMMA SameGrids ==
  ASSUME Covered, UNCHANGED <<grids, bounds, pc>>
  PROVE  Covered'
  BY DEF Covered, InStep, Window, grids, bounds

---------------------------------------------------------------------------
(* The thread of the callbacks                                             *)

LEMMA BufferStep == ASSUME IInv, bufferIncomingRangeMsg PROVE IInv'
  <1>1. /\ pc # "copied" /\ received < MaxReadings /\ received' = received + 1
        /\ UNCHANGED <<copy, processed, pc, rpc, reconfigs>>
        /\ UNCHANGED <<zero, lo, hi, window, layer, master>>
        /\ UNCHANGED <<enabled, current, clearOnMax, buffered, off>>
    BY DEF bufferIncomingRangeMsg, MutexFree, bounds, grids, flags
  <1>2. PICK r \in Readings : buffer' = Append(buffer, r)
    BY DEF bufferIncomingRangeMsg
  <1>3. buffer \in Seq(Readings) /\ received \in 0..MaxReadings
    BY Zenon DEF IInv, TypeOK
  <1>4. buffer' \in Seq(Readings) /\ Len(buffer') = Len(buffer) + 1
    BY <1>2, <1>3
  <1>5. received' \in 0..MaxReadings
    BY <1>1, <1>3
  <1>6. TypeOK'
    BY <1>1, <1>4, <1>5, Zenon DEF IInv, TypeOK
  <1>7. HandOver'
    <2>1. received = processed + Len(copy) + Len(buffer) /\ processed \in 0..MaxReadings /\ copy \in Seq(Readings)
      BY <1>1, Zenon DEF IInv, TypeOK, HandOver
    <2>2. received' = processed' + Len(copy') + Len(buffer')
      BY <1>1, <1>3, <1>4, <2>1
    <2> QED
      BY <1>1, <2>2 DEF IInv, HandOver
  <1>8. ~off => Covered'
    BY <1>1, SameGrids DEF IInv, grids, bounds
  <1> QED
    BY <1>1, <1>6, <1>7, <1>8 DEF IInv

LEMMA ReconfigureStep == ASSUME IInv, Reconfigure \/ Toggled PROVE IInv'
  <1>1. /\ UNCHANGED <<buffer, copy, received, processed, zero, lo, hi, window, layer, master>>
        /\ UNCHANGED <<buffered, pc>>
    BY DEF Reconfigure, Toggled, readings, bounds, grids
  <1>2. reconfigs \in 0..MaxReconfigs /\ enabled \in BOOLEAN
    BY Zenon DEF IInv, TypeOK
  <1>3. reconfigs' \in 0..MaxReconfigs
    BY <1>2 DEF Reconfigure, Toggled
  <1>4. /\ rpc' \in {"idle", "toggled"} /\ enabled' \in BOOLEAN /\ off' \in BOOLEAN
        /\ current' \in BOOLEAN /\ clearOnMax' \in BOOLEAN
    BY Zenon DEF IInv, TypeOK, Reconfigure, Toggled
  <1>5. TypeOK'
    BY <1>1, <1>3, <1>4, Zenon DEF IInv, TypeOK
  <1>6. HandOver'
    BY <1>1 DEF IInv, HandOver
  <1>7. ~off' => ~off /\ enabled' = enabled
    BY DEF Reconfigure, Toggled
  <1>8. ~off => Covered'
    BY <1>1, SameGrids DEF IInv, grids, bounds
  <1> QED
    BY <1>5, <1>6, <1>7, <1>8 DEF IInv
---------------------------------------------------------------------------
(* The costmap's thread: rolling, and handing the readings over            *)

LEMMA OriginStep == ASSUME IInv, updateOrigin PROVE IInv'
  <1>1. /\ pc = "idle" /\ pc' = "rolled" /\ zero' \in Zeros /\ lo' = lo
        /\ hi' = (IF lo = Width THEN zero' ELSE hi) /\ window' = NoWindow
        /\ UNCHANGED <<buffer, copy, received, processed, rpc, reconfigs>>
        /\ UNCHANGED <<enabled, current, clearOnMax, buffered, off>>
    BY DEF updateOrigin, readings, flags
  <1> DEFINE by == zero - zero'
  <1>2. /\ master' = [c \in Cells |-> IF c + by \in Cells THEN master[c + by] ELSE "none"]
        /\ layer' = [c \in Cells |-> IF c + by \in Cells THEN layer[c + by] ELSE "unsure"]
    BY DEF updateOrigin, Rolled
  <1>3. /\ layer \in [Cells -> Costs] /\ master \in [Cells -> {"none", "free", "lethal"}]
        /\ hi \in Int
    BY Zenon DEF IInv, TypeOK
  <1>4. /\ layer' \in [Cells -> Costs] /\ master' \in [Cells -> {"none", "free", "lethal"}]
        /\ hi' \in Int /\ pc' \in PCs /\ window' \in Int \X Int
    <2>1. layer' \in [Cells -> Costs]
      BY <1>2, <1>3 DEF Costs
    <2>2. master' \in [Cells -> {"none", "free", "lethal"}]
      BY <1>2, <1>3
    <2>3. hi' \in Int /\ pc' \in PCs /\ window' \in Int \X Int
      BY <1>1, <1>3 DEF PCs, NoWindow
    <2> QED BY <2>1, <2>2, <2>3
  <1>5. TypeOK'
    BY <1>1, <1>4, Zenon DEF IInv, TypeOK
  <1>6. HandOver'
    BY <1>1 DEF IInv, HandOver
  <1>7. ~off => Covered'
    <2>1. ASSUME ~off, NEW c \in Cells PROVE InStep(c)'
      <3>1. \A x \in Cells : InStep(x)
        BY <1>1, <2>1 DEF IInv, Covered
      <3>2. CASE c + by \in Cells
        BY <1>2, <3>1, <3>2 DEF InStep
      <3>3. CASE c + by \notin Cells
        BY <1>2, <3>3 DEF InStep, Shown
      <3> QED BY <3>2, <3>3
    <2> QED BY <1>1, <2>1 DEF Covered
  <1> QED
    BY <1>1, <1>5, <1>6, <1>7 DEF IInv

LEMMA CopyStep == ASSUME IInv, CopyBuffer \/ ClearBuffer PROVE IInv'
  <1>1. /\ UNCHANGED <<received, processed, zero, lo, hi, window, layer, master, rpc, reconfigs>>
        /\ UNCHANGED <<enabled, current, clearOnMax, buffered, off>>
    BY DEF CopyBuffer, ClearBuffer, bounds, grids, flags
  <1>2. /\ buffer \in Seq(Readings) /\ copy \in Seq(Readings)
        /\ received \in 0..MaxReadings /\ processed \in 0..MaxReadings
    BY Zenon DEF IInv, TypeOK
  <1>a. \/ pc = "rolled" /\ pc' = "copied" /\ copy' = buffer /\ buffer' = buffer
        \/ pc = "copied" /\ pc' = "process" /\ copy' = copy /\ buffer' = <<>>
    BY DEF CopyBuffer, ClearBuffer
  <1>3. buffer' \in Seq(Readings) /\ copy' \in Seq(Readings) /\ pc' \in PCs
    <2>1. pc' \in PCs
      BY <1>a DEF PCs
    <2>2. <<>> \in Seq(Readings)
      OBVIOUS
    <2> QED BY <1>2, <1>a, <2>1, <2>2, Zenon
  <1>4. TypeOK'
    BY <1>1, <1>3, Zenon DEF IInv, TypeOK
  <1>5. HandOver'
    <2>1. CASE CopyBuffer
      <3>1. received = processed + Len(buffer)
        BY <2>1, <1>2 DEF CopyBuffer, IInv, HandOver
      <3> QED
        BY <2>1, <1>1, <3>1 DEF CopyBuffer, HandOver
    <2>2. CASE ClearBuffer
      <3>1. pc = "copied" /\ pc' = "process" /\ copy' = copy /\ buffer' = <<>>
        BY <2>2 DEF ClearBuffer
      <3>2. received = processed + Len(copy)
        BY <3>1 DEF IInv, HandOver
      <3>3. received' = processed' + Len(copy') + Len(buffer')
        BY <1>1, <1>2, <3>1, <3>2
      <3> QED
        BY <3>1, <3>3 DEF HandOver
    <2> QED BY <2>1, <2>2
  <1>6. ~off => Covered'
    BY <1>1, <1>a DEF IInv, Covered, InStep
  <1> QED
    BY <1>1, <1>4, <1>5, <1>6 DEF IInv

\* A cone that is not below the map as a whole lies within the bounds that it
\* touches, wherever its sensor is.
LEMMA ConeTouched ==
  ASSUME NEW k \in Cones, NEW x \in ConeCells(k) \cup ({k.target} \cap Cells)
  PROVE  \E a, b \in Touched(k) : a <= x /\ x <= b
  <1>1. k.origin \in Int /\ k.target \in Int /\ k.side \in Int
        /\ (k.origin >= 0 \/ k.side >= 0) /\ x \in Int
    BY DEF Cells, ConeCells
  <1>2. CASE x \in ConeCells(k)
    <2>1. Lower(k.origin, k.side) <= x /\ x <= Higher(k.origin, k.side)
      BY <1>1, <1>2 DEF ConeCells, Lower, Higher, Cells
    <2> QED BY <1>1, <2>1 DEF Touched, Lower, Higher
  <1>3. CASE x \in {k.target} \cap Cells
    BY <1>1, <1>3 DEF Touched, Cells
  <1> QED BY <1>2, <1>3

\* Why ConesAssumption is needed: of a cone below the map the unsigned limit
\* lets the loop run over every cell, while no cell but the target is touched.
LEMMA WrappedLimit ==
  ASSUME NEW k \in [origin : Int, target : Int, side : Int], k.origin < 0, k.side < 0
  PROVE  ConeCells(k) = Cells /\ \A x \in Cells \ {k.target} : x \notin Touched(k)
  <1>1. k.origin \in Int /\ k.side \in Int
    OBVIOUS
  <1>2. Lower(Width, Higher(k.origin, k.side)) < 0
    BY <1>1 DEF Lower, Higher
  <1>3. \A x \in Cells : x >= Lower(k.origin, k.side)
    BY <1>1 DEF Lower, Cells
  <1>4. ConeCells(k) = Cells
    BY <1>2, <1>3 DEF ConeCells
  <1> QED BY <1>1, <1>4 DEF Touched, Cells

LEMMA ProcessStep == ASSUME IInv, ProcessReading PROVE IInv'
  <1>1. /\ pc = "process" /\ copy # <<>> /\ copy' = Tail(copy) /\ processed' = processed + 1
        /\ UNCHANGED <<buffer, received, zero, window, master, pc, rpc, reconfigs>>
        /\ UNCHANGED <<enabled, current, clearOnMax, off>>
    BY DEF ProcessReading
  <1>2. /\ buffer \in Seq(Readings) /\ copy \in Seq(Readings) /\ lo \in Int /\ hi \in Int
        /\ received \in 0..MaxReadings /\ processed \in 0..MaxReadings
        /\ layer \in [Cells -> Costs]
    BY Zenon DEF IInv, TypeOK
  <1>3. received = processed + Len(copy) + Len(buffer)
    BY <1>1 DEF IInv, HandOver
  <1>4. copy' \in Seq(Readings) /\ Len(copy') = Len(copy) - 1 /\ Len(copy) >= 1
    BY <1>1, <1>2
  <1>5. received' = processed' + Len(copy') + Len(buffer') /\ processed' \in 0..MaxReadings
    BY <1>1, <1>2, <1>3, <1>4
  <1>6. HandOver'
    BY <1>1, <1>5 DEF HandOver
  <1>7. CASE UNCHANGED <<lo, hi, layer, buffered>>
    <2>1. TypeOK'
      BY <1>1, <1>4, <1>5, <1>7, Zenon DEF IInv, TypeOK
    <2>2. ~off => Covered'
      BY <1>1, <1>7, SameGrids DEF IInv, grids, bounds
    <2> QED
      BY <1>1, <1>6, <2>1, <2>2 DEF IInv
  <1>8. CASE UpdateCells(Head(copy).cone, Verdict(Head(copy)))
    <2> DEFINE k == Head(copy).cone
    <2>1. k \in Cones
      <3>1. Head(copy) \in Readings
        BY <1>1, <1>2
      <3> QED BY <3>1 DEF Readings
    <2>2. Touched(k) \subseteq Int
      BY <2>1 DEF Touched, Cells
    <2>3. /\ layer' \in [Cells -> Costs] /\ buffered' = TRUE
          /\ lo' \in Touched(k) \cup {lo} /\ \A x \in Touched(k) \cup {lo} : lo' <= x
          /\ hi' \in Touched(k) \cup {hi} /\ \A x \in Touched(k) \cup {hi} : hi' >= x
      BY <1>8 DEF UpdateCells
    <2>4. \A x \in Cells : layer'[x] = layer[x] \/ x \in ConeCells(k) \cup ({k.target} \cap Cells)
      BY <1>8 DEF UpdateCells
    <2>5. lo' \in Int /\ hi' \in Int
      BY <1>2, <2>2, <2>3
    <2>6. TypeOK'
      BY <1>1, <1>4, <1>5, <2>3, <2>5, Zenon DEF IInv, TypeOK
    <2>7. ASSUME ~off, NEW x \in Cells PROVE InStep(x)' \/ (lo' <= x /\ x <= hi')
      <3>1. InStep(x) \/ (lo <= x /\ x <= hi)
        BY <1>1, <2>7 DEF IInv, Covered
      <3>2. CASE layer'[x] = layer[x] /\ InStep(x)
        BY <1>1, <3>2 DEF InStep
      <3>3. CASE lo <= x /\ x <= hi
        <4>1. lo' <= lo /\ hi <= hi'
          BY <1>2, <2>3, <2>5
        <4> QED BY <1>2, <2>5, <3>3, <4>1 DEF Cells
      <3>4. CASE x \in ConeCells(k) \cup ({k.target} \cap Cells)
        <4>1. PICK a \in Touched(k), b \in Touched(k) : a <= x /\ x <= b
          BY <2>1, <3>4, ConeTouched
        <4>2. lo' <= a /\ b <= hi' /\ a \in Int /\ b \in Int
          BY <2>2, <2>3, <2>5
        <4> QED BY <2>5, <4>1, <4>2 DEF Cells
      <3> QED BY <2>4, <3>1, <3>2, <3>3, <3>4
    <2>8. ~off => Covered'
      BY <1>1, <2>7 DEF Covered
    <2> QED
      BY <1>1, <1>6, <2>6, <2>8 DEF IInv
  <1> QED
    BY <1>7, <1>8 DEF ProcessReading

---------------------------------------------------------------------------
(* The costmap's thread: from the bounds to the master grid                *)

LEMMA HandBoundsStep == ASSUME IInv, HandBounds PROVE IInv'
  <1>1. /\ pc = "process" /\ copy = <<>> /\ pc' = "bounds" /\ lo' = Width /\ hi' = zero /\ zero' = zero
        /\ UNCHANGED <<buffer, copy, received, processed, layer, master, rpc, reconfigs>>
        /\ UNCHANGED <<enabled, current, clearOnMax, buffered, off>>
    BY DEF HandBounds, readings, grids, flags
  <1>2. PICK w \in OtherWindows : window' = <<Lower(w[1], lo), Higher(w[2], hi)>>
    BY DEF HandBounds
  <1>3. lo \in Int /\ hi \in Int /\ zero \in Zeros
    BY Zenon DEF IInv, TypeOK
  <1>4. w[1] \in Int /\ w[2] \in Int
    BY DEF OtherWindows, NoWindow, Cells
  <1>5. /\ Lower(w[1], lo) \in Int /\ Lower(w[1], lo) <= lo
        /\ Higher(w[2], hi) \in Int /\ hi <= Higher(w[2], hi)
    BY <1>3, <1>4 DEF Lower, Higher
  <1>6. window' \in Int \X Int /\ window'[1] <= lo /\ hi <= window'[2]
        /\ window'[1] \in Int /\ window'[2] \in Int
    BY <1>2, <1>5
  <1>7. pc' \in PCs /\ lo' \in Int /\ hi' \in Int
    BY <1>1, <1>3 DEF PCs
  <1>8. TypeOK'
    BY <1>1, <1>6, <1>7, Zenon DEF IInv, TypeOK
  <1>9. HandOver'
    BY <1>1 DEF IInv, HandOver
  <1>10. ~off => Covered'
    <2>1. ASSUME ~off, NEW c \in Cells PROVE InStep(c)' \/ (window'[1] <= c /\ c <= window'[2])
      BY <1>1, <1>3, <1>6, <2>1 DEF IInv, Covered, InStep, Cells
    <2> QED BY <1>1, <2>1 DEF Covered
  <1> QED
    BY <1>1, <1>8, <1>9, <1>10 DEF IInv

LEMMA CurrentStep == ASSUME IInv, CheckCurrent \/ Finish PROVE IInv'
  <1>1. /\ UNCHANGED <<buffer, copy, received, processed, zero, lo, hi, window, layer, master>>
        /\ UNCHANGED <<enabled, clearOnMax, off, rpc, reconfigs>>
    BY DEF CheckCurrent, Finish, readings, bounds, grids
  <1>2. pc' \in PCs /\ current' \in BOOLEAN /\ buffered' \in BOOLEAN
    BY Zenon DEF IInv, TypeOK, CheckCurrent, Finish, DisabledCurrent, PCs
  <1>3. \/ pc = "bounds" /\ pc' = "window"
        \/ pc = "finish" /\ pc' = "idle"
    BY DEF CheckCurrent, Finish
  <1>4. TypeOK'
    BY <1>1, <1>2, Zenon DEF IInv, TypeOK
  <1>5. HandOver'
    BY <1>1, <1>3 DEF IInv, HandOver
  <1>6. ~off => Covered'
    BY <1>1, <1>3 DEF IInv, Covered, InStep
  <1> QED
    BY <1>1, <1>4, <1>5, <1>6 DEF IInv

\* Clamping the bounds to the map loses no cell of the map.
LEMMA ClampKeeps ==
  ASSUME window \in Int \X Int, NEW c \in Cells, window[1] <= c, c <= window[2]
  PROVE  c \in Window /\ ~(Clamp(window[2]) + 1 < Clamp(window[1]))
  <1>1. window[1] \in Int /\ window[2] \in Int
    OBVIOUS
  <1> QED
    BY <1>1 DEF Window, Clamp, Lower, Higher, Cells

LEMMA UpdateStep == ASSUME IInv, ResetWindow \/ updateCosts PROVE IInv'
  <1>1. /\ UNCHANGED <<buffer, copy, received, processed, zero, lo, hi, window, layer>>
        /\ UNCHANGED <<enabled, current, clearOnMax, buffered, off, rpc, reconfigs>>
    BY DEF ResetWindow, updateCosts, readings, bounds, flags
  <1>2. /\ window \in Int \X Int /\ layer \in [Cells -> Costs]
        /\ master \in [Cells -> {"none", "free", "lethal"}]
    BY Zenon DEF IInv, TypeOK
  <1>3. \A c \in Cells : Shown(layer[c]) \in {"none", "free", "lethal"}
    BY <1>2 DEF Shown, Costs
  <1>4. master' \in [Cells -> {"none", "free", "lethal"}] /\ pc' \in PCs
    BY <1>2, <1>3 DEF ResetWindow, updateCosts, PCs
  <1>5. TypeOK'
    BY <1>1, <1>4, Zenon DEF IInv, TypeOK
  <1>6. HandOver'
    BY <1>1 DEF IInv, HandOver, ResetWindow, updateCosts
  <1>7. ~off => Covered'
    <2> HAVE ~off
    <2>1. CASE ResetWindow
      <3>1. pc = "window" /\ \A c \in Cells : InStep(c) \/ (window[1] <= c /\ c <= window[2])
        BY <2>1 DEF ResetWindow, IInv, Covered
      <3>2. CASE Clamp(window[2]) + 1 < Clamp(window[1])
        <4>1. pc' = "idle" /\ UNCHANGED master
          BY <2>1, <3>2 DEF ResetWindow
        <4>2. \A c \in Cells : InStep(c)
          BY <1>2, <3>1, <3>2, ClampKeeps
        <4> QED BY <1>1, <4>1, <4>2 DEF Covered, InStep
      <3>3. CASE ~(Clamp(window[2]) + 1 < Clamp(window[1]))
        <4>1. /\ pc' = "costs"
              /\ master' = [c \in Cells |-> IF c \in Window THEN "none" ELSE master[c]]
          BY <2>1, <3>3 DEF ResetWindow
        <4>2. \A c \in Cells : InStep(c) \/ c \in Window
          BY <1>2, <3>1, ClampKeeps
        <4>3. Window' = Window
          BY <1>1 DEF Window
        <4> QED BY <1>1, <4>1, <4>2, <4>3 DEF Covered, InStep
      <3> QED BY <3>2, <3>3
    <2>2. CASE updateCosts
      <3>1. enabled /\ pc = "costs" /\ \A c \in Cells : InStep(c) \/ c \in Window
        BY <2>2 DEF updateCosts, IInv, Covered
      <3>2. /\ pc' = "finish"
            /\ master' = [c \in Cells |-> IF c \in Window THEN Shown(layer[c]) ELSE master[c]]
        BY <2>2, <3>1 DEF updateCosts
      <3> QED BY <1>1, <3>1, <3>2 DEF Covered, InStep
    <2> QED BY <2>1, <2>2
  <1> QED
    BY <1>1, <1>5, <1>6, <1>7 DEF IInv

---------------------------------------------------------------------------

LEMMA LayerInvariance == Spec => []IInv
  <1>1. IInv /\ [Next]_vars => IInv'
    <2>1. ASSUME IInv, UNCHANGED vars PROVE IInv'
      <3>1. /\ UNCHANGED <<buffer, copy, received, processed, zero, lo, hi, window, layer, master>>
            /\ UNCHANGED <<enabled, current, clearOnMax, buffered, off, pc, rpc, reconfigs>>
        BY <2>1 DEF vars, readings, bounds, grids, flags
      <3>2. TypeOK' /\ HandOver'
        BY <2>1, <3>1, Zenon DEF IInv, TypeOK, HandOver
      <3>3. ~off => Covered'
        BY <2>1, <3>1, SameGrids DEF IInv, grids, bounds
      <3> QED BY <2>1, <3>1, <3>2, <3>3 DEF IInv
    <2>2. ASSUME IInv, Cycle PROVE IInv'
      BY <2>2, OriginStep, CopyStep, ProcessStep, HandBoundsStep, CurrentStep, UpdateStep DEF Cycle
    <2> QED BY <2>1, <2>2, BufferStep, ReconfigureStep DEF Next
  <1> QED BY <1>1, InitHolds, PTL DEF Spec

\* Every variable of the layer keeps to its set.
THEOREM LayerTypes == Spec => []TypeOK
  BY LayerInvariance, PTL DEF IInv

\* No reading is lost or held twice between the thread that buffers it and
\* the one that processes it.
THEOREM ReadingsHandedOver == Spec => []NoReadingLost
  <1>1. IInv => NoReadingLost
    BY DEF IInv, HandOver, NoReadingLost
  <1> QED BY <1>1, LayerInvariance, PTL

\* While the layer has never been disabled, and wherever its sensors are as long
\* as no cone lies below the map, the master grid shows the whole layer after
\* each cycle.
THEOREM MasterInStep == Spec => []MasterShowsLayer
  <1>1. IInv => MasterShowsLayer
    BY DEF IInv, Covered, InStep, MasterShowsLayer
  <1> QED BY <1>1, LayerInvariance, PTL

---------------------------------------------------------------------------
(* The layer implements ReadingFlow: the two buffers are one queue.        *)

\* A reading that arrives goes behind the readings of both buffers.
LEMMA AppendBehind ==
  ASSUME NEW S, NEW s \in Seq(S), NEW t \in Seq(S), NEW r \in S
  PROVE  s \o Append(t, r) = Append(s \o t, r)
  <1>1. <<r>> \in Seq(S) /\ s \o t \in Seq(S)
    BY ConcatProperties
  <1>2. (s \o t) \o <<r>> = s \o (t \o <<r>>)
    BY <1>1, ConcatAssociative
  <1>3. Append(t, r) = t \o <<r>> /\ Append(s \o t, r) = (s \o t) \o <<r>>
    BY <1>1, AppendIsConcat
  <1> QED BY <1>2, <1>3

\* The first reading of both buffers is the first of the copy.
LEMMA TakeFromFront ==
  ASSUME NEW S, NEW s \in Seq(S), NEW t \in Seq(S), s # <<>>
  PROVE  /\ s \o t # <<>> /\ Head(s \o t) = Head(s)
         /\ Tail(s \o t) = Tail(s) \o t
  <1>1. /\ s \o t \in Seq(S) /\ Len(s \o t) = Len(s) + Len(t)
        /\ \A i \in 1..(Len(s) + Len(t)) :
             (s \o t)[i] = IF i <= Len(s) THEN s[i] ELSE t[i - Len(s)]
    BY ConcatProperties
  <1>2. Len(s) \in Nat \ {0} /\ Len(t) \in Nat
    BY EmptySeq, LenProperties
  <1>3. s \o t # <<>>
    BY <1>1, <1>2, EmptySeq
  <1>4. Head(s \o t) = Head(s)
    <2>1. (s \o t)[1] = s[1]
      BY <1>1, <1>2
    <2> QED BY <1>3, <2>1
  <1>5. /\ Tail(s \o t) \in Seq(S) /\ Len(Tail(s \o t)) = Len(s) + Len(t) - 1
        /\ \A i \in 1..(Len(s) + Len(t) - 1) : Tail(s \o t)[i] = (s \o t)[i + 1]
    BY <1>1, <1>3, HeadTailProperties
  <1>6. /\ Tail(s) \in Seq(S) /\ Len(Tail(s)) = Len(s) - 1
        /\ \A i \in 1..(Len(s) - 1) : Tail(s)[i] = s[i + 1]
    BY HeadTailProperties
  <1>7. /\ Tail(s) \o t \in Seq(S) /\ Len(Tail(s) \o t) = Len(s) - 1 + Len(t)
        /\ \A i \in 1..(Len(s) - 1 + Len(t)) :
             (Tail(s) \o t)[i] = IF i <= Len(s) - 1 THEN Tail(s)[i] ELSE t[i - (Len(s) - 1)]
    BY <1>6, ConcatProperties
  <1>8. ASSUME NEW i \in 1..(Len(s) + Len(t) - 1)
        PROVE  Tail(s \o t)[i] = (Tail(s) \o t)[i]
    <2>1. i + 1 \in 1..(Len(s) + Len(t)) /\ i \in 1..(Len(s) - 1 + Len(t))
      BY <1>2
    <2>2. CASE i <= Len(s) - 1
      <3>1. i + 1 <= Len(s) /\ i \in 1..(Len(s) - 1)
        BY <1>2, <2>2
      <3> QED BY <1>1, <1>5, <1>6, <1>7, <2>1, <2>2, <3>1
    <2>3. CASE ~(i <= Len(s) - 1)
      <3>1. ~(i + 1 <= Len(s)) /\ i + 1 - Len(s) = i - (Len(s) - 1)
        BY <1>2, <2>3
      <3> QED BY <1>1, <1>5, <1>7, <2>1, <2>3, <3>1
    <2> QED BY <2>2, <2>3
  <1>9. Tail(s \o t) = Tail(s) \o t
    <2>1. Len(Tail(s \o t)) = Len(Tail(s) \o t)
      BY <1>2, <1>5, <1>7
    <2>2. \A i \in 1..Len(Tail(s \o t)) : Tail(s \o t)[i] = (Tail(s) \o t)[i]
      BY <1>5, <1>8
    <2> QED BY <1>5, <1>7, <2>1, <2>2, SeqEqual
  <1> QED BY <1>3, <1>4, <1>9

LEMMA InitFlows == ASSUME Init PROVE F!FlowInit
  BY EmptySeq, ConcatEmptySeq DEF Init, F!FlowInit, Waiting

\* What neither takes readings nor hands them over leaves the queue alone.
LEMMA SameFlow ==
  ASSUME UNCHANGED <<buffer, copy, layer>>, pc # "copied", pc' # "copied"
  PROVE  UNCHANGED F!flowVars
  BY DEF Waiting, F!flowVars

LEMMA BufferFlows ==
  ASSUME IInv, bufferIncomingRangeMsg
  PROVE  F!Arrive
  <1>1. /\ pc # "copied" /\ pc' = pc /\ copy' = copy /\ layer' = layer
        /\ buffer \in Seq(Readings) /\ copy \in Seq(Readings)
    BY Zenon DEF bufferIncomingRangeMsg, MutexFree, grids, IInv, TypeOK
  <1>2. PICK r \in Readings : buffer' = Append(buffer, r)
    BY DEF bufferIncomingRangeMsg
  <1>3. Waiting' = Append(Waiting, r)
    BY <1>1, <1>2, AppendBehind DEF Waiting
  <1> QED BY <1>1, <1>3 DEF F!Arrive

LEMMA OriginFlows ==
  ASSUME IInv, updateOrigin
  PROVE  F!Move
  <1>1. Waiting' = Waiting
    BY DEF updateOrigin, readings, Waiting
  <1>2. zero \in Zeros /\ zero' \in Zeros
    BY Zenon DEF updateOrigin, IInv, TypeOK
  <1>3. layer' = [c \in Cells |-> IF c + (zero - zero') \in Cells
                                  THEN layer[c + (zero - zero')] ELSE "unsure"]
    BY DEF updateOrigin, Rolled
  <1>4. zero - zero' \in {z[1] - z[2] : z \in Zeros \X Zeros}
    <2>1. <<zero, zero'>> \in Zeros \X Zeros
      BY <1>2
    <2> QED BY <2>1
  <1> QED BY <1>1, <1>3, <1>4 DEF F!Move

\* The copy is made while it is empty, and the buffer is emptied while both
\* hold the same readings.
LEMMA CopyFlows ==
  ASSUME IInv, CopyBuffer \/ ClearBuffer
  PROVE  UNCHANGED F!flowVars
  <1>1. layer' = layer
    BY DEF CopyBuffer, ClearBuffer, grids
  <1>2. buffer \in Seq(Readings) /\ copy \in Seq(Readings)
    BY Zenon DEF IInv, TypeOK
  <1>3. CASE CopyBuffer
    <2>1. /\ pc = "rolled" /\ pc' = "copied" /\ copy = <<>> /\ buffer' = buffer
      BY <1>3 DEF CopyBuffer, IInv, HandOver
    <2>2. Waiting = buffer /\ Waiting' = buffer
      BY <1>2, <2>1, ConcatEmptySeq DEF Waiting
    <2> QED BY <1>1, <2>2 DEF F!flowVars
  <1>4. CASE ClearBuffer
    <2>1. /\ pc = "copied" /\ pc' = "process" /\ copy = buffer /\ copy' = copy /\ buffer' = <<>>
      BY <1>4 DEF ClearBuffer, IInv, HandOver
    <2>2. Waiting = copy /\ Waiting' = copy
      BY <1>2, <2>1, ConcatEmptySeq DEF Waiting
    <2> QED BY <1>1, <2>2 DEF F!flowVars
  <1> QED BY <1>3, <1>4

LEMMA ProcessFlows ==
  ASSUME IInv, ProcessReading
  PROVE  F!Take
  <1>1. /\ pc = "process" /\ pc' = "process" /\ copy # <<>> /\ copy' = Tail(copy)
        /\ buffer' = buffer
        /\ buffer \in Seq(Readings) /\ copy \in Seq(Readings) /\ layer \in [Cells -> Costs]
    BY Zenon DEF ProcessReading, IInv, TypeOK
  <1>2. Waiting # <<>> /\ Waiting' = Tail(Waiting) /\ Head(Waiting) = Head(copy)
    BY <1>1, TakeFromFront DEF Waiting
  <1>3. Head(copy) \in Readings
    BY <1>1
  <1>4. /\ DOMAIN layer' = Cells
        /\ \A x \in Cells \ Reached(Head(copy)) : layer'[x] = layer[x]
    BY <1>1 DEF ProcessReading, UpdateCells, Reached
  <1>5. [r \in Readings |-> Reached(r)][Head(Waiting)] = Reached(Head(copy))
    BY <1>2, <1>3
  <1> QED BY <1>2, <1>4, <1>5 DEF F!Take

LEMMA LayerFlows == IInv /\ [Next]_vars => [F!FlowNext]_F!flowVars
  <1> SUFFICES ASSUME IInv, [Next]_vars PROVE [F!FlowNext]_F!flowVars
    OBVIOUS
  <1>1. CASE bufferIncomingRangeMsg
    BY <1>1, BufferFlows DEF F!FlowNext
  <1>2. CASE updateOrigin
    BY <1>2, OriginFlows DEF F!FlowNext
  <1>3. CASE CopyBuffer \/ ClearBuffer
    BY <1>3, CopyFlows
  <1>4. CASE ProcessReading
    BY <1>4, ProcessFlows DEF F!FlowNext
  <1>5. CASE HandBounds \/ CheckCurrent \/ ResetWindow \/ updateCosts \/ Finish
    <2>1. /\ UNCHANGED <<buffer, copy, layer>> /\ pc # "copied" /\ pc' # "copied"
      BY <1>5 DEF HandBounds, CheckCurrent, ResetWindow, updateCosts, Finish, readings, grids
    <2> QED BY <2>1, SameFlow
  <1>6. CASE Reconfigure \/ Toggled \/ UNCHANGED vars
    <2>1. UNCHANGED <<buffer, copy, layer, pc>>
      BY <1>6 DEF Reconfigure, Toggled, vars, readings, grids
    <2> QED BY <2>1 DEF Waiting, F!flowVars
  <1> QED BY <1>1, <1>2, <1>3, <1>4, <1>5, <1>6 DEF Next, Cycle

\* For any map, cones and number of readings: each reading is taken once and in
\* order, and a cell changes only because of a reading that reaches it or
\* because the map rolls.
THEOREM LayerImplementsFlow == Spec => ImplementsFlow
  BY InitFlows, LayerFlows, LayerInvariance, PTL DEF Spec, ImplementsFlow, F!FlowSpec
=============================================================================
