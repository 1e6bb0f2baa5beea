------------------------- MODULE FiducialMapProofs -------------------------
(***************************************************************************)
(* Proofs about the fiducial map for every set of fiducials, every map     *)
(* file and frames of every size.                                          *)
(***************************************************************************)
EXTENDS FiducialMap, WellFoundedInduction, TLAPS

(***************************************************************************)
(* The inductive invariant.  OneDatum, Connected and FixedStays all rest   *)
(* on what autoInit relies on without a test: while the map is being       *)
(* initialised it holds the origin and nothing else.                       *)
(***************************************************************************)
OnlyOrigin == isInitializingMap => Map \subseteq {originFid}

MInv == TypeOK /\ OnlyOrigin /\ OneDatum /\ Connected

USE DEF params, mapVars, tfVars

---------------------------------------------------------------------------

\* A non-empty set of positions has a last one: loadMap is well defined.
LEMMA LastPosition ==
    ASSUME NEW n \in Nat, NEW D \in SUBSET (1..n), D # {}
    PROVE  \E i \in D : \A j \in D : j <= i
<1> DEFINE T == {n - i : i \in D}
           R == {ss \in Nat \X Nat : ss[1] < ss[2]}
<1>1. T \subseteq Nat /\ T # {}
  <2>1. \A i \in D : i \in Nat /\ n - i \in Nat
    OBVIOUS
  <2> QED BY <2>1
<1>2. IsWellFoundedOn(R, Nat)
  <2>1. R = OpToRel(<, Nat)
    BY DEF OpToRel
  <2> QED BY <2>1, NatLessThanWellFounded
<1>3. PICK x \in T : \A y \in T : ~ (<<y, x>> \in R)
  <2> HIDE DEF T, R
  <2> QED BY <1>1, <1>2, WFMin
<1>4. \A y \in T : x <= y
  <2> SUFFICES ASSUME NEW y \in T PROVE x <= y
    OBVIOUS
  <2>1. x \in Nat /\ y \in Nat /\ <<y, x>> \notin R
    BY <1>1, <1>3
  <2>2. ~ (y < x)
    BY <2>1
  <2> QED BY <2>1, <2>2
<1>5. PICK i \in D : x = n - i
  OBVIOUS
<1>6. \A j \in D : j <= i
  <2> SUFFICES ASSUME NEW j \in D PROVE j <= i
    OBVIOUS
  <2>1. n - j \in T
    OBVIOUS
  <2>2. n - i <= n - j
    BY <1>4, <1>5, <2>1
  <2>3. i \in Int /\ j \in Int /\ n \in Int
    OBVIOUS
  <2> HIDE DEF T, R
  <2> QED BY <2>2, <2>3
<1> QED BY <1>6

\* What loadMap builds is a map, whatever lines the file holds.
LEMMA LoadedMap ==
    ASSUME NEW lines \in Files
    PROVE  /\ DOMAIN loadMap(lines) \subseteq Ids
           /\ loadMap(lines) \in [DOMAIN loadMap(lines) -> Fiducial]
<1> DEFINE ids == {lines[k].id : k \in DOMAIN lines}
           last(f) == CHOOSE k \in DOMAIN lines :
                        lines[k].id = f /\ \A j \in DOMAIN lines : lines[j].id = f => j <= k
<1>1. lines \in Seq(Line)
  BY FilesAssumption
<1>2. ids \subseteq Ids
  <2>1. \A k \in DOMAIN lines : lines[k] \in Line
    BY <1>1
  <2> QED BY <2>1 DEF Line
<1>3. ASSUME NEW f \in ids
      PROVE  last(f) \in DOMAIN lines
  <2> DEFINE D == {k \in DOMAIN lines : lines[k].id = f}
  <2>1. DOMAIN lines = 1..Len(lines) /\ Len(lines) \in Nat
    BY <1>1
  <2>2. \E i \in D : \A j \in D : j <= i
    <3>1. D \in SUBSET (1..Len(lines)) /\ D # {}
      BY <2>1
    <3> QED BY <2>1, <3>1, LastPosition
  <2>3. \E i \in DOMAIN lines : lines[i].id = f /\ \A j \in DOMAIN lines : lines[j].id = f => j <= i
    BY <2>2
  <2> QED BY <2>3
<1>4. \A f \in ids : lines[last(f)] \in Line
  <2> HIDE DEF last
  <2> QED BY <1>1, <1>3
<1>5. loadMap(lines) = [f \in ids |-> [fixed |-> lines[last(f)].fixed, good |-> TRUE,
                                       links |-> lines[last(f)].links]]
  BY DEF loadMap
<1> HIDE DEF last, ids
<1> QED BY <1>2, <1>4, <1>5 DEF Line, Fiducial

---------------------------------------------------------------------------
(* The invariant holds at first and through every step.                    *)

LEMMA InitMInv == Init => MInv
<1> SUFFICES ASSUME Init PROVE MInv
  OBVIOUS
<1>1. PICK lines \in Files : fiducials = loadMap(lines)
  BY DEF Init
<1>2. Map \subseteq Ids /\ fiducials \in [Map -> Fiducial]
  BY <1>1, LoadedMap DEF Map
<1>3. age \in 0..(InitFrames + 1) /\ clears \in 0..MaxClears
  BY BoundsAssumption DEF Init
<1>4. {readOnly, odomFrame, isInitializingMap, havePose, due, crashed} \subseteq BOOLEAN
  BY DEF Init
<1>5. poseTf \in Tfs /\ originFid \in Ids \cup {NoFid} /\ moved \subseteq Ids
  BY DEF Init, Tfs, NoTf
<1>6. TypeOK
  BY <1>2, <1>3, <1>4, <1>5 DEF TypeOK
<1> QED BY <1>6 DEF Init, MInv, OnlyOrigin, OneDatum, Connected

\* What a frame may consist of.
LEMMA FrameFacts ==
    ASSUME NEW obs \in Frames
    PROVE  /\ DOMAIN obs \subseteq Nat
           /\ \A i \in DOMAIN obs : obs[i] \in Observation /\ obs[i].fid \in Ids
                                       /\ obs[i].ok \in BOOLEAN
           /\ Seen(obs) \subseteq Ids /\ Usable(obs) \subseteq Seen(obs)
           /\ obs # <<>> => 1 \in DOMAIN obs
<1>1. PICK m \in 0..MaxObs : obs \in [1..m -> Observation]
  BY DEF Frames
<1>2. m \in Nat /\ DOMAIN obs = 1..m
  BY <1>1, BoundsAssumption
<1>3. \A i \in DOMAIN obs : obs[i] \in Observation
  BY <1>1, <1>2
<1>4. obs # <<>> => m # 0
  BY <1>1
<1>5. DOMAIN obs \subseteq Nat
  BY <1>2
<1>6. obs # <<>> => 1 \in DOMAIN obs
  BY <1>2, <1>4
<1> QED BY <1>3, <1>5, <1>6 DEF Observation, Seen, Usable, AnySeen

LEMMA NextAgeType == TypeOK => NextAge \in 0..(InitFrames + 1)
BY BoundsAssumption DEF TypeOK, NextAge

\* The end of autoInit, from a map that holds the origin alone.
LEMMA FinishPreserves ==
    ASSUME TypeOK, NEW origin \in Ids, NEW entry \in Fiducial, ~entry.fixed,
           NEW n \in 0..(InitFrames + 1),
           NEW map, map = [f \in {origin} |-> entry],
           FinishInit(map, origin, n)
    PROVE  /\ Map' = {origin} /\ originFid' = origin
           /\ fiducials' \in [Map' -> Fiducial] /\ isInitializingMap' \in BOOLEAN
           /\ OnlyOrigin' /\ OneDatum' /\ Connected'
<1>1. Map' = {origin} /\ originFid' = origin /\ isInitializingMap' \in BOOLEAN
  BY DEF FinishInit, Map
<1>2. fiducials' \in [{origin} -> Fiducial]
  BY DEF FinishInit, Fiducial
<1>3. fiducials'[origin].fixed = ~isInitializingMap'
  <2>1. n \in Nat /\ InitFrames \in Nat
    BY BoundsAssumption
  <2>2. CASE n > InitFrames
    <3>1. ~(n <= InitFrames)
      BY <2>1, <2>2
    <3>2. ~isInitializingMap'
      BY <3>1 DEF FinishInit
    <3>3. fiducials' = [map EXCEPT ![origin].fixed = TRUE]
      BY <2>2 DEF FinishInit
    <3>4. fiducials'[origin].fixed = TRUE
      BY <3>3 DEF Fiducial
    <3> QED BY <3>2, <3>4
  <2>3. CASE ~(n > InitFrames)
    <3>1. n <= InitFrames
      BY <2>1, <2>3
    <3> QED BY <3>1, <2>3 DEF FinishInit, Fiducial
  <2> QED BY <2>2, <2>3
<1>4. OneDatum'
  BY <1>1, <1>3 DEF OneDatum, Fixed, Map
<1>5. Connected'
  BY <1>1 DEF Connected
<1> QED BY <1>1, <1>2, <1>4, <1>5 DEF OnlyOrigin

\* What a step leaves alone in TypeOK, and what every frame shares.
LEMMA FrameType ==
    ASSUME MInv, NEW obs \in Frames, Frame(obs),
           Map' \subseteq Ids, fiducials' \in [Map' -> Fiducial],
           {isInitializingMap', havePose', due', crashed'} \subseteq BOOLEAN,
           originFid' \in Ids \cup {NoFid}, moved' \subseteq Ids, poseTf' \in Tfs
    PROVE  TypeOK'
<1>1. {readOnly', odomFrame'} \subseteq BOOLEAN /\ clears' \in 0..MaxClears
  BY DEF Frame, MInv, TypeOK
<1>2. age' \in 0..(InitFrames + 1)
  BY NextAgeType DEF Frame, MInv
<1> QED BY <1>1, <1>2 DEF TypeOK

LEMMA StartPreserves ==
    ASSUME MInv, NEW obs \in Frames, Frame(obs), StartMap(obs)
    PROVE  MInv' /\ Fixed \cap moved' = {}
<1> DEFINE o == obs[findClosestObs(obs)]
           entry == [fixed |-> FALSE, good |-> o.ok, links |-> {}]
<1>1. o.fid \in Ids /\ o.ok \in BOOLEAN
  BY FrameFacts DEF StartMap, findClosestObs
<1>2. entry \in Fiducial /\ ~entry.fixed
  BY <1>1 DEF Fiducial
<1>3. FinishInit([f \in {o.fid} |-> entry], o.fid, NextAge) /\ moved' = {o.fid}
  BY DEF StartMap
<1>4. /\ Map' = {o.fid} /\ originFid' = o.fid
      /\ fiducials' \in [Map' -> Fiducial] /\ isInitializingMap' \in BOOLEAN
      /\ OnlyOrigin' /\ OneDatum' /\ Connected'
  <2> HIDE DEF o, entry
  <2>1. TypeOK /\ NextAge \in 0..(InitFrames + 1)
    BY NextAgeType DEF MInv
  <2> QED BY <1>1, <1>2, <1>3, <2>1, FinishPreserves
<1>5. {havePose', due', crashed'} \subseteq BOOLEAN /\ poseTf' \in Tfs
  BY DEF StartMap, MInv, TypeOK
<1>6. TypeOK'
  <2> HIDE DEF o
  <2> QED BY <1>1, <1>3, <1>4, <1>5, FrameType
<1>7. Fixed = {}
  BY DEF StartMap, Fixed
<1> QED BY <1>4, <1>6, <1>7 DEF MInv

LEMMA NothingPreserves ==
    ASSUME MInv, NEW obs \in Frames, Frame(obs), NothingToStartFrom(obs)
    PROVE  MInv' /\ Fixed \cap moved' = {}
<1>1. Map' = Map /\ fiducials' = fiducials /\ originFid' = originFid
      /\ isInitializingMap' = isInitializingMap /\ Fixed' = Fixed /\ moved' = {}
  BY DEF NothingToStartFrom, Map, Fixed
<1>2. TypeOK'
  <2>1. {isInitializingMap', havePose', due', crashed'} \subseteq BOOLEAN
        /\ poseTf' \in Tfs
    BY DEF NothingToStartFrom, MInv, TypeOK
  <2>2. Map' \subseteq Ids /\ fiducials' \in [Map' -> Fiducial]
        /\ originFid' \in Ids \cup {NoFid} /\ moved' \subseteq Ids
    BY <1>1 DEF MInv, TypeOK
  <2> QED BY <2>1, <2>2, FrameType
<1> QED BY <1>1, <1>2 DEF MInv, OnlyOrigin, OneDatum, Connected

LEMMA RefinePreserves ==
    ASSUME MInv, NEW obs \in Frames, Frame(obs), RefineOrigin(obs)
    PROVE  MInv' /\ Fixed \cap moved' = {}
<1>1. isInitializingMap /\ Map = {originFid} /\ originFid \in Ids
  BY DEF RefineOrigin, MInv, OnlyOrigin, TypeOK
<1>2. originFid # NoFid /\ Fixed = {}
  BY <1>1, IdsAssumption DEF MInv, OneDatum
<1>3. fiducials \in [{originFid} -> Fiducial] /\ ~fiducials[originFid].fixed
  BY <1>1, <1>2 DEF MInv, TypeOK, Fixed
<1>4. TypeOK /\ NextAge \in 0..(InitFrames + 1)
  BY NextAgeType DEF MInv
<1>5. {havePose', due', crashed'} \subseteq BOOLEAN /\ poseTf' \in Tfs
  BY DEF RefineOrigin, MInv, TypeOK
<1>6. moved' \subseteq Ids
  BY <1>1 DEF RefineOrigin
<1>7. ASSUME NEW entry \in Fiducial, ~entry.fixed,
             FinishInit([f \in {originFid} |-> entry], originFid, NextAge)
      PROVE  MInv'
  <2>1. /\ Map' = {originFid} /\ originFid' = originFid
        /\ fiducials' \in [Map' -> Fiducial] /\ isInitializingMap' \in BOOLEAN
        /\ OnlyOrigin' /\ OneDatum' /\ Connected'
    BY <1>1, <1>4, <1>7, FinishPreserves
  <2>2. TypeOK'
    BY <1>1, <1>5, <1>6, <2>1, FrameType
  <2> QED BY <2>1, <2>2 DEF MInv
<1>8. CASE obs # <<>> /\ obs[1].fid = originFid
  <2> DEFINE old == fiducials[originFid]
             entry == [old EXCEPT !.good = @ /\ obs[1].ok]
  <2>1. obs[1].ok \in BOOLEAN /\ old \in Fiducial
    BY <1>3, <1>8, FrameFacts
  <2>2. entry \in Fiducial /\ ~entry.fixed
    BY <1>3, <2>1 DEF Fiducial
  <2>3. [fiducials EXCEPT ![originFid].good = @ /\ obs[1].ok]
            = [f \in {originFid} |-> entry]
    BY <1>3
  <2>4. FinishInit([f \in {originFid} |-> entry], originFid, NextAge)
    BY <1>8, <2>3 DEF RefineOrigin
  <2> HIDE DEF entry
  <2> QED BY <1>2, <1>7, <2>2, <2>4
<1>9. CASE ~(obs # <<>> /\ obs[1].fid = originFid)
  <2>1. FinishInit(fiducials, originFid, NextAge)
    BY <1>9 DEF RefineOrigin
  <2>2. fiducials = [f \in {originFid} |-> fiducials[originFid]]
    BY <1>3
  <2>3. fiducials[originFid] \in Fiducial
    BY <1>3
  <2>4. FinishInit([f \in {originFid} |-> fiducials[originFid]], originFid, NextAge)
    BY <2>1, <2>2
  <2> QED BY <1>2, <1>3, <1>7, <2>3, <2>4
<1> QED BY <1>8, <1>9

\* updateMap: an entry is kept or made, and gains links to the whole frame.
LEMMA Merged ==
    ASSUME MInv, NEW obs \in Frames, updateMap(obs)
    PROVE  /\ Map' = Map \cup Usable(obs) /\ Map' \subseteq Ids
           /\ fiducials' \in [Map' -> Fiducial]
           /\ \A f \in Map : /\ fiducials'[f].fixed = fiducials[f].fixed
                             /\ fiducials[f].links \subseteq fiducials'[f].links
           /\ \A f \in Usable(obs) \ Map : /\ fiducials'[f].fixed = FALSE
                                           /\ fiducials'[f].links = Seen(obs) \ {f}
           /\ Fixed' = Fixed
<1> DEFINE grown(f) == [Entry(f) EXCEPT !.links = @ \cup NewLinks(f, obs)]
<1>1. Map \subseteq Ids /\ fiducials \in [Map -> Fiducial]
  BY DEF MInv, TypeOK
<1>2. Seen(obs) \subseteq Ids /\ Usable(obs) \subseteq Ids
  BY FrameFacts
<1>3. Map' = Map \cup Usable(obs)
  BY DEF updateMap, Map
<1>4. \A f \in Map' : Entry(f) \in Fiducial
  BY <1>1 DEF Entry, Fiducial
<1>5. \A f \in Map' : /\ grown(f) \in Fiducial
                      /\ grown(f).fixed = Entry(f).fixed
                      /\ grown(f).links = Entry(f).links \cup (Seen(obs) \ {f})
  BY <1>2, <1>4 DEF Fiducial, NewLinks
<1>6. fiducials' = [f \in Map' |-> IF f \in Usable(obs) THEN grown(f) ELSE fiducials[f]]
  BY <1>3 DEF updateMap
<1> HIDE DEF grown
<1>7. fiducials' \in [Map' -> Fiducial]
  BY <1>1, <1>3, <1>5, <1>6
<1>8. \A f \in Map : fiducials'[f].fixed = fiducials[f].fixed
                     /\ fiducials[f].links \subseteq fiducials'[f].links
  BY <1>3, <1>5, <1>6 DEF Entry
<1>9. \A f \in Usable(obs) \ Map : fiducials'[f].fixed = FALSE
                                   /\ fiducials'[f].links = Seen(obs) \ {f}
  BY <1>3, <1>5, <1>6 DEF Entry
<1>10. Fixed' = Fixed
  BY <1>3, <1>8, <1>9 DEF Fixed, Map
<1> QED BY <1>1, <1>2, <1>3, <1>7, <1>8, <1>9, <1>10

\* A fiducial that is new to the map was seen together with one that is not:
\* the links of updateMap tie it to the piece that holds the origin.
LEMMA UpdateConnects ==
    ASSUME MInv, NEW obs \in Frames, Estimates(obs) # {}, updateMap(obs),
           originFid' = originFid
    PROVE  Connected'
<1> SUFFICES ASSUME originFid # NoFid,
                    NEW S \in SUBSET (Map' \ {originFid}), S # {}
             PROVE  \E f \in S : fiducials'[f].links \cap (Map' \ S) # {}
  BY DEF Connected
<1>1. CASE S \cap Map # {}
  <2>1. S \cap Map \in SUBSET (Map \ {originFid})
    OBVIOUS
  <2>2. PICK f \in S \cap Map : fiducials[f].links \cap (Map \ (S \cap Map)) # {}
    BY <1>1, <2>1 DEF MInv, Connected
  <2>3. fiducials[f].links \subseteq fiducials'[f].links /\ Map \subseteq Map'
    BY Merged
  <2> QED BY <2>2, <2>3
<1>2. CASE S \cap Map = {}
  <2>1. PICK f \in S : TRUE
    OBVIOUS
  <2>2. f \in Usable(obs) \ Map /\ Map \subseteq Map'
    BY <1>2, <2>1, Merged
  <2>3. PICK i \in Estimates(obs) : TRUE
    OBVIOUS
  <2>4. obs[i].fid \in Map /\ obs[i].fid \in Seen(obs)
    BY <2>3 DEF Estimates, AnySeen, Seen
  <2>5. obs[i].fid \in fiducials'[f].links
    <3>1. obs[i].fid # f
      BY <2>2, <2>4
    <3>2. fiducials'[f].links = Seen(obs) \ {f}
      BY <2>2, Merged
    <3> QED BY <2>4, <3>1, <3>2
  <2> QED BY <1>2, <2>1, <2>2, <2>4, <2>5
<1> QED BY <1>1, <1>2

LEMMA LocalisePreserves ==
    ASSUME MInv, NEW obs \in Frames, Frame(obs), Localise(obs)
    PROVE  MInv' /\ Fixed \cap moved' = {}
<1>1. originFid' = originFid /\ isInitializingMap' = FALSE /\ isInitializingMap = FALSE
      /\ {crashed'} \subseteq BOOLEAN
  BY DEF Localise, MInv, TypeOK
<1>2. {havePose', due'} \subseteq BOOLEAN /\ poseTf' \in Tfs
  <2>1. CASE UNCHANGED tfVars
    BY <2>1 DEF MInv, TypeOK
  <2>2. CASE ~UNCHANGED tfVars
    <3>1. havePose' = TRUE /\ due' = FALSE
      BY <2>2 DEF Localise, updatePose
    <3>2. PICK b \in BOOLEAN :
              poseTf' = [child |-> IF odomFrame THEN "odom" ELSE "base",
                         holds |-> IF odomFrame /\ b THEN "odom" ELSE "base"]
      BY <2>2 DEF Localise, updatePose
    <3>3. poseTf' \in Tfs
      BY <3>2 DEF Tfs
    <3> QED BY <3>1, <3>3
  <2> QED BY <2>1, <2>2
<1>3. ASSUME Map' \subseteq Ids, fiducials' \in [Map' -> Fiducial], moved' \subseteq Ids,
             Map \subseteq Map', Fixed' = Fixed, Connected'
      PROVE  MInv'
  <2>1. TypeOK'
    <3>1. originFid' \in Ids \cup {NoFid}
      BY <1>1 DEF MInv, TypeOK
    <3> QED BY <1>1, <1>2, <1>3, <3>1, FrameType
  <2>2. OnlyOrigin' /\ OneDatum'
    BY <1>1, <1>3 DEF MInv, OnlyOrigin, OneDatum
  <2> QED BY <1>3, <2>1, <2>2 DEF MInv
<1>4. CASE Estimates(obs) # {} /\ Len(obs) > 1 /\ ~readOnly
  <2>1. updateMap(obs)
    BY <1>4 DEF Localise
  <2>2. moved' = Usable(obs) \ Fixed /\ moved' \subseteq Ids
    BY <2>1, FrameFacts DEF updateMap, Movable
  <2>3. Connected'
    BY <1>1, <1>4, <2>1, UpdateConnects
  <2>4. MInv'
    BY <1>3, <2>1, <2>2, <2>3, Merged
  <2> QED BY <2>2, <2>4
<1>5. CASE ~(Estimates(obs) # {} /\ Len(obs) > 1 /\ ~readOnly)
  <2>1. fiducials' = fiducials /\ moved' = {}
    BY <1>5 DEF Localise
  <2>2. Map' = Map /\ Fixed' = Fixed
    BY <2>1 DEF Map, Fixed
  <2>3. Connected'
    BY <1>1, <2>1, <2>2 DEF MInv, Connected
  <2>4. MInv'
    BY <1>3, <2>1, <2>2, <2>3 DEF MInv, TypeOK
  <2> QED BY <2>1, <2>4
<1> QED BY <1>4, <1>5

LEMMA ClearPreserves == MInv /\ clearCallback => MInv' /\ Fixed \cap moved' = {}
<1> SUFFICES ASSUME MInv, clearCallback PROVE MInv' /\ Fixed \cap moved' = {}
  OBVIOUS
<1>1. Map' = {} /\ fiducials' \in [Map' -> Fiducial] /\ originFid' = NoFid /\ moved' = {}
  BY DEF clearCallback, NoFiducials, Map, ClearedOrigin
<1>2. age' \in 0..(InitFrames + 1) /\ clears' \in 0..MaxClears
  BY BoundsAssumption DEF clearCallback, MInv, TypeOK
<1>3. {readOnly', odomFrame', isInitializingMap', havePose', due', crashed'}
          \subseteq BOOLEAN /\ poseTf' \in Tfs
  BY DEF clearCallback, MInv, TypeOK
<1>4. TypeOK'
  BY <1>1, <1>2, <1>3 DEF TypeOK
<1> QED BY <1>1, <1>4 DEF MInv, OnlyOrigin, OneDatum, Connected

\* The timer, and time itself, leave the map alone.
LEMMA TimePreserves ==
    MInv /\ (Update \/ IntervalPasses \/ UNCHANGED vars)
        => MInv' /\ (UNCHANGED vars \/ moved' = {})
<1> SUFFICES ASSUME MInv, Update \/ IntervalPasses \/ UNCHANGED vars
             PROVE  MInv' /\ (UNCHANGED vars \/ moved' = {})
  OBVIOUS
<1>1. /\ fiducials' = fiducials /\ Map' = Map /\ originFid' = originFid
      /\ isInitializingMap' = isInitializingMap
      /\ Fixed' = Fixed /\ age' = age /\ clears' = clears /\ poseTf' = poseTf
      /\ UNCHANGED vars \/ moved' = {}
  BY DEF Update, IntervalPasses, vars, Map, Fixed
<1>2. {readOnly', odomFrame', isInitializingMap', havePose', due', crashed'}
          \subseteq BOOLEAN /\ moved' \subseteq Ids
  BY DEF Update, IntervalPasses, vars, MInv, TypeOK
<1>3. TypeOK'
  BY <1>1, <1>2 DEF MInv, TypeOK
<1> QED BY <1>1, <1>3 DEF MInv, OnlyOrigin, OneDatum, Connected

---------------------------------------------------------------------------

\* A step of a frame is one of the four.
LEMMA FramePreserves ==
    ASSUME MInv, NEW obs \in Frames, Frame(obs)
    PROVE  MInv' /\ Fixed \cap moved' = {}
<1>1. CASE StartMap(obs)
  BY <1>1, StartPreserves
<1>2. CASE NothingToStartFrom(obs)
  BY <1>2, NothingPreserves
<1>3. CASE RefineOrigin(obs)
  BY <1>3, RefinePreserves
<1>4. CASE Localise(obs)
  BY <1>4, LocalisePreserves
<1> QED BY <1>1, <1>2, <1>3, <1>4 DEF Frame

LEMMA NextPreserves == MInv /\ [Next]_vars => MInv'
BY FramePreserves, ClearPreserves, TimePreserves DEF Next, CameraFrame

\* The inductive invariant of the map holds in every reachable state.
THEOREM MapInvariance == Spec => []MInv
<1>1. Init => MInv
  BY InitMInv
<1>2. MInv /\ [Next]_vars => MInv'
  BY NextPreserves
<1> QED BY <1>1, <1>2, PTL DEF Spec

\* Every variable of class Map keeps to its set.
THEOREM MapTypes == Spec => []TypeOK
<1>1. MInv => TypeOK
  BY DEF MInv
<1> QED BY <1>1, MapInvariance, PTL

\* autoInit and clear_map, however they interleave, leave one fixed origin.
THEOREM MapHasOneDatum == Spec => []OneDatum
<1>1. MInv => OneDatum
  BY DEF MInv
<1> QED BY <1>1, MapInvariance, PTL

\* A map built by autoInit and updateMap is in one piece.
THEOREM MapIsConnected == Spec => []Connected
<1>1. MInv => Connected
  BY DEF MInv
<1> QED BY <1>1, MapInvariance, PTL

\* Neither autoInit nor updateMap changes a pose of variance 0.
THEOREM FixedPosesStay == Spec => FixedStays
<1>1. MInv /\ [Next]_vars => [Fixed \cap moved' = {}]_vars
  <2> SUFFICES ASSUME MInv, Next PROVE Fixed \cap moved' = {} \/ UNCHANGED vars
    OBVIOUS
  <2> QED BY FramePreserves, ClearPreserves, TimePreserves DEF Next, CameraFrame
<1> QED BY <1>1, MapInvariance, PTL DEF Spec, FixedStays

---------------------------------------------------------------------------
(* What the origin may be: it alone can be NaN or the virtual fiducial,    *)
(* and then no estimate is ever made from it, so that nothing is added.    *)

\* updateMap changes no estimate into NaN, and adds numbers only.
LEMMA MergedGood ==
    ASSUME MInv, NEW obs \in Frames, updateMap(obs),
           \A f \in Map : f # Zero /\ fiducials[f].good
    PROVE  \A f \in Map' : f # Zero /\ fiducials'[f].good
<1> SUFFICES ASSUME NEW f \in Map' PROVE f # Zero /\ fiducials'[f].good
  OBVIOUS
<1>1. Map' = Map \cup Usable(obs)
  BY Merged
<1>2. f # Zero
  BY <1>1 DEF Usable, AnySeen
<1>3. Entry(f) \in Fiducial /\ Entry(f).good
  <2>1. CASE f \in Map
    BY <2>1 DEF Entry, MInv, TypeOK
  <2>2. CASE f \notin Map
    BY <2>2 DEF Entry, Fiducial
  <2> QED BY <2>1, <2>2
<1>4. fiducials'[f] = IF f \in Usable(obs)
                      THEN [Entry(f) EXCEPT !.links = @ \cup NewLinks(f, obs)]
                      ELSE fiducials[f]
  BY <1>1 DEF updateMap
<1>5. CASE f \in Usable(obs)
  BY <1>2, <1>3, <1>4, <1>5 DEF Fiducial
<1>6. CASE f \notin Usable(obs)
  BY <1>1, <1>2, <1>4, <1>6
<1> QED BY <1>5, <1>6

\* An estimate from a map of one fiducial comes from the origin, which is
\* then a real fiducial with a number for a pose.
LEMMA LocaliseKeepsOrigin ==
    ASSUME MInv, OriginCarriesMap, NEW obs \in Frames, Localise(obs)
    PROVE  OriginCarriesMap'
<1> SUFFICES ASSUME originFid' # NoFid
             PROVE  Map' = {originFid'} \/ \A f \in Map' : f # Zero /\ fiducials'[f].good
  BY DEF OriginCarriesMap
<1>1. originFid' = originFid
  BY DEF Localise
<1>2. Map = {originFid} \/ \A f \in Map : f # Zero /\ fiducials[f].good
  BY <1>1 DEF OriginCarriesMap
<1>3. CASE Estimates(obs) # {} /\ Len(obs) > 1 /\ ~readOnly
  <2>1. updateMap(obs)
    BY <1>3 DEF Localise
  <2>2. PICK i \in Estimates(obs) : TRUE
    BY <1>3
  <2>3. obs[i].fid \in Map /\ obs[i].fid # Zero /\ fiducials[obs[i].fid].good
    BY <2>2 DEF Estimates, AnySeen
  <2>4. \A f \in Map : f # Zero /\ fiducials[f].good
    BY <1>2, <2>3
  <2> QED BY <2>1, <2>4, MergedGood
<1>4. CASE ~(Estimates(obs) # {} /\ Len(obs) > 1 /\ ~readOnly)
  <2>1. fiducials' = fiducials
    BY <1>4 DEF Localise
  <2> QED BY <1>1, <1>2, <2>1 DEF Map
<1> QED BY <1>3, <1>4

LEMMA FrameKeepsOrigin ==
    ASSUME MInv, OriginCarriesMap, NEW obs \in Frames, Frame(obs)
    PROVE  OriginCarriesMap'
<1>1. CASE StartMap(obs)
  <2>1. Map' = {originFid'}
    BY <1>1 DEF StartMap, FinishInit, Map
  <2> QED BY <2>1 DEF OriginCarriesMap
<1>2. CASE NothingToStartFrom(obs)
  BY <1>2 DEF NothingToStartFrom, OriginCarriesMap, Map
<1>3. CASE RefineOrigin(obs)
  <2>1. Map = {originFid}
    BY <1>3 DEF RefineOrigin, MInv, OnlyOrigin
  <2>2. Map' = Map /\ originFid' = originFid
    BY <1>3 DEF RefineOrigin, FinishInit, Map
  <2> QED BY <2>1, <2>2 DEF OriginCarriesMap
<1>4. CASE Localise(obs)
  BY <1>4, LocaliseKeepsOrigin
<1> QED BY <1>1, <1>2, <1>3, <1>4 DEF Frame

\* Whatever the first frames show, and however clear_map falls into them, no
\* fiducial is ever placed relative to NaN or to the virtual fiducial.
THEOREM OriginCarriesTheMap == Spec => []OriginCarriesMap
<1>1. Init => OriginCarriesMap
  BY DEF Init, OriginCarriesMap
<1>2. MInv /\ OriginCarriesMap /\ [Next]_vars => OriginCarriesMap'
  <2> SUFFICES ASSUME MInv, OriginCarriesMap, [Next]_vars PROVE OriginCarriesMap'
    OBVIOUS
  <2>1. CASE CameraFrame
    BY <2>1, FrameKeepsOrigin DEF CameraFrame
  <2>2. CASE clearCallback
    BY <2>2 DEF clearCallback, ClearedOrigin, OriginCarriesMap
  <2>3. CASE Update \/ IntervalPasses \/ UNCHANGED vars
    BY <2>3 DEF Update, IntervalPasses, vars, OriginCarriesMap, Map
  <2> QED BY <2>1, <2>2, <2>3 DEF Next
<1> QED BY <1>1, <1>2, MapInvariance, PTL DEF Spec

---------------------------------------------------------------------------
(* The map implements SurveyNet.                                           *)

LEMMA InitImplements == Init => Net!Init
<1> SUFFICES ASSUME Init PROVE Net!Init
  OBVIOUS
<1>1. TypeOK
  BY InitMInv DEF MInv
<1>2. Map \subseteq Ids /\ Fixed \subseteq Map /\ Links \subseteq Map \X Ids
  BY <1>1 DEF TypeOK, Fixed, Links
<1>3. readOnly \in BOOLEAN /\ isInitializingMap = FALSE
  BY DEF Init
<1> QED BY <1>2, <1>3 DEF Net!Init

\* What leaves the map alone leaves the net alone.
LEMMA SameMap ==
    ASSUME fiducials' = fiducials, readOnly' = readOnly,
           isInitializingMap' = isInitializingMap
    PROVE  UNCHANGED Net!netVars
<1>1. Map' = Map
  BY DEF Map
<1>2. Fixed' = Fixed /\ Links' = Links
  BY <1>1 DEF Fixed, Links
<1> QED BY <1>1, <1>2 DEF Net!netVars

\* The end of autoInit makes no links.
LEMMA FinishLinks ==
    ASSUME NEW origin \in Ids, NEW entry \in Fiducial, NEW n,
           FinishInit([f \in {origin} |-> entry], origin, n)
    PROVE  fiducials'[origin].links = entry.links
BY DEF FinishInit, Fiducial

LEMMA StartImplements ==
    ASSUME MInv, NEW obs \in Frames, Frame(obs), StartMap(obs)
    PROVE  Net!Start
<1> DEFINE o == obs[findClosestObs(obs)]
           entry == [fixed |-> FALSE, good |-> o.ok, links |-> {}]
<1>1. o.fid \in Ids /\ o.ok \in BOOLEAN
  BY FrameFacts DEF StartMap, findClosestObs
<1>2. entry \in Fiducial /\ entry.links = {} /\ ~entry.fixed
  BY <1>1 DEF Fiducial
<1>3. FinishInit([f \in {o.fid} |-> entry], o.fid, NextAge) /\ Map = {}
  BY DEF StartMap
<1> HIDE DEF entry
<1>4. fiducials'[o.fid].links = {}
  BY <1>1, <1>2, <1>3, FinishLinks
<1>5. /\ Map' = {o.fid} /\ originFid' = o.fid
      /\ isInitializingMap' \in BOOLEAN /\ OneDatum'
  <2> HIDE DEF o
  <2>1. TypeOK /\ NextAge \in 0..(InitFrames + 1)
    BY NextAgeType DEF MInv
  <2> QED BY <1>1, <1>2, <1>3, <2>1, FinishPreserves
<1> HIDE DEF o
<1>6. Links' = {}
  BY <1>4, <1>5 DEF Links
<1>7. Fixed' = IF isInitializingMap' THEN {} ELSE {o.fid}
  BY <1>1, <1>5, IdsAssumption DEF OneDatum
<1>8. readOnly' = readOnly
  BY DEF Frame
<1> QED BY <1>1, <1>3, <1>5, <1>6, <1>7, <1>8 DEF Net!Start

LEMMA RefineImplements ==
    ASSUME MInv, MInv', NEW obs \in Frames, Frame(obs), RefineOrigin(obs)
    PROVE  Net!Confirm \/ UNCHANGED Net!netVars
<1>1. isInitializingMap /\ Map = {originFid} /\ originFid \in Ids
  BY DEF RefineOrigin, MInv, OnlyOrigin, TypeOK
<1>2. originFid # NoFid /\ Fixed = {}
  BY <1>1, IdsAssumption DEF MInv, OneDatum
<1>3. fiducials \in [{originFid} -> Fiducial]
  BY <1>1 DEF MInv, TypeOK
<1>4. ASSUME NEW entry \in Fiducial, entry.links = fiducials[originFid].links,
             FinishInit([f \in {originFid} |-> entry], originFid, NextAge)
      PROVE  /\ Map' = {originFid} /\ originFid' = originFid
             /\ fiducials'[originFid].links = fiducials[originFid].links
  <2>1. fiducials'[originFid].links = entry.links
    BY <1>1, <1>4, FinishLinks
  <2>2. Map' = {originFid} /\ originFid' = originFid
    BY <1>4 DEF FinishInit, Map
  <2> QED BY <1>4, <2>1, <2>2
<1>5. /\ Map' = {originFid} /\ originFid' = originFid
      /\ fiducials'[originFid].links = fiducials[originFid].links
  <2>1. CASE obs # <<>> /\ obs[1].fid = originFid
    <3> DEFINE old == fiducials[originFid]
               entry == [old EXCEPT !.good = @ /\ obs[1].ok]
    <3>1. obs[1].ok \in BOOLEAN /\ old \in Fiducial
      BY <1>3, <2>1, FrameFacts
    <3>2. entry \in Fiducial /\ entry.links = old.links
      BY <3>1 DEF Fiducial
    <3>3. [fiducials EXCEPT ![originFid].good = @ /\ obs[1].ok]
              = [f \in {originFid} |-> entry]
      BY <1>3
    <3>4. FinishInit([f \in {originFid} |-> entry], originFid, NextAge)
      BY <2>1, <3>3 DEF RefineOrigin
    <3> HIDE DEF entry
    <3> QED BY <1>4, <3>2, <3>4
  <2>2. CASE ~(obs # <<>> /\ obs[1].fid = originFid)
    <3>1. FinishInit(fiducials, originFid, NextAge)
      BY <2>2 DEF RefineOrigin
    <3>2. fiducials = [f \in {originFid} |-> fiducials[originFid]]
          /\ fiducials[originFid] \in Fiducial
      BY <1>3
    <3>3. FinishInit([f \in {originFid} |-> fiducials[originFid]], originFid, NextAge)
      BY <3>1, <3>2
    <3> QED BY <1>4, <3>2, <3>3
  <2> QED BY <2>1, <2>2
<1>6. Links' = Links
  BY <1>1, <1>5 DEF Links
<1>7. readOnly' = readOnly /\ isInitializingMap' \in BOOLEAN
  BY DEF Frame, MInv, TypeOK
<1>8. Fixed' = IF isInitializingMap' THEN {} ELSE {originFid}
  BY <1>2, <1>5 DEF MInv, OneDatum
<1>9. CASE isInitializingMap'
  BY <1>1, <1>2, <1>5, <1>6, <1>7, <1>8, <1>9 DEF Net!netVars
<1>10. CASE ~isInitializingMap'
  BY <1>1, <1>5, <1>6, <1>7, <1>8, <1>10 DEF Net!Confirm
<1> QED BY <1>9, <1>10

LEMMA LocaliseImplements ==
    ASSUME MInv, NEW obs \in Frames, Frame(obs), Localise(obs)
    PROVE  Net!Extend \/ UNCHANGED Net!netVars
<1>1. isInitializingMap = FALSE /\ isInitializingMap' = FALSE /\ readOnly' = readOnly
  BY DEF Localise, Frame
<1>2. CASE Estimates(obs) # {} /\ Len(obs) > 1 /\ ~readOnly
  <2>1. updateMap(obs)
    BY <1>2 DEF Localise
  <2>2. /\ Map' = Map \cup Usable(obs) /\ Map' \subseteq Ids
        /\ fiducials' \in [Map' -> Fiducial] /\ Fixed' = Fixed
    BY <2>1, Merged
  <2>3. Links' \subseteq Map' \X Ids
    BY DEF Links
  <2>4. Links \subseteq Links'
    <3>1. \A f \in Map : f \in Map' /\ fiducials[f].links \subseteq fiducials'[f].links
      BY <2>1, <2>2, Merged
    <3> QED BY <3>1 DEF Links
  <2>5. ASSUME NEW p \in Map' \ Map PROVE \E q \in Map : <<p, q>> \in Links'
    <3>1. PICK i \in Estimates(obs) : TRUE
      BY <1>2
    <3>2. obs[i].fid \in Map /\ obs[i].fid \in Seen(obs) /\ obs[i].fid \in Ids
      BY <3>1, FrameFacts DEF Estimates, AnySeen, Seen
    <3>3. p \in Usable(obs) \ Map
      BY <2>2, <2>5
    <3>4. fiducials'[p].links = Seen(obs) \ {p}
      BY <2>1, <3>3, Merged
    <3>5. obs[i].fid \in fiducials'[p].links
      BY <2>5, <3>2, <3>4
    <3> QED BY <2>5, <3>2, <3>5 DEF Links
  <2> QED BY <1>1, <1>2, <2>2, <2>3, <2>4, <2>5 DEF Net!Extend
<1>3. CASE ~(Estimates(obs) # {} /\ Len(obs) > 1 /\ ~readOnly)
  <2>1. fiducials' = fiducials
    BY <1>3 DEF Localise
  <2> QED BY <1>1, <2>1, SameMap
<1> QED BY <1>2, <1>3

LEMMA ClearImplements == clearCallback => Net!Forget
<1> SUFFICES ASSUME clearCallback PROVE Net!Forget
  OBVIOUS
<1>1. Map' = {} /\ readOnly' = readOnly
  BY DEF clearCallback, NoFiducials, Map
<1> QED BY <1>1 DEF Net!Forget, Fixed, Links

LEMMA StepImplements ==
    ASSUME MInv, MInv', [Next]_vars
    PROVE  [Net!Next]_Net!netVars
<1>1. ASSUME NEW obs \in Frames, Frame(obs) PROVE Net!Next \/ UNCHANGED Net!netVars
  <2>1. CASE StartMap(obs)
    BY <1>1, <2>1, StartImplements DEF Net!Next
  <2>2. CASE NothingToStartFrom(obs)
    BY <1>1, <2>2, SameMap DEF NothingToStartFrom, Frame
  <2>3. CASE RefineOrigin(obs)
    BY <1>1, <2>3, RefineImplements DEF Net!Next
  <2>4. CASE Localise(obs)
    BY <1>1, <2>4, LocaliseImplements DEF Net!Next
  <2> QED BY <1>1, <2>1, <2>2, <2>3, <2>4 DEF Frame
<1>2. CASE clearCallback
  BY <1>2, ClearImplements DEF Net!Next
<1>3. CASE Update \/ IntervalPasses \/ UNCHANGED vars
  BY <1>3, SameMap DEF Update, IntervalPasses, vars
<1> QED BY <1>1, <1>2, <1>3 DEF Next, CameraFrame

\* Class Map implements the net: it only ever grows from a fixed point or from
\* the file, and what is added is tied to what was there.
THEOREM MapImplementsNet == Spec => ImplementsNet
<1>1. Init => Net!Init
  BY InitImplements
<1>2. MInv /\ MInv' /\ [Next]_vars => [Net!Next]_Net!netVars
  BY StepImplements
<1> QED BY <1>1, <1>2, MapInvariance, PTL DEF Spec, ImplementsNet, Net!NetSpec
=============================================================================
