---------------------------- MODULE FiducialMap ----------------------------
(***************************************************************************)
(* fiducial_slam: class Map (map.cpp) fed by FiducialSlam::transformCallback*)
(* with the frames aruco_detect publishes.  One thread calls spinOnce()    *)
(* and Map::update() in turn, so every callback is one step; the tf        *)
(* listener has a thread of its own, so any lookup may fail.               *)
(*                                                                         *)
(* A pose is abstracted to "is it a number or NaN?", a variance to "is it  *)
(* 0?": a pose of variance 0 is fixed, it is never averaged with others.   *)
(* Frame numbers only matter as their distance from initialFrameNum, which *)
(* is counted up to the first value that ends the initialisation.          *)
(* Observations have a positive error and multi_error_theshold is negative,*)
(* the default that every launch file keeps.                               *)
(***************************************************************************)
EXTENDS Naturals, Sequences, FiniteSets

CONSTANTS
    Fids,           \* identifiers of fiducials
    Zero,           \* identifier 0, the virtual fiducial
    NoFid,          \* identifier -1
    Files,          \* what the map file may hold: sequences of lines
    InitFrames,     \* the 10 frames autoInit waits for
    MaxObs,         \* bound: observations in one frame
    MaxClears       \* bound: calls of the clear_map service

Ids  == Fids \cup {Zero}
Line == [id : Ids, fixed : BOOLEAN, links : SUBSET Ids]

ASSUME IdsAssumption == Zero \notin Fids /\ NoFid \notin Ids
ASSUME FilesAssumption == Files \subseteq Seq(Line)
ASSUME BoundsAssumption ==
    InitFrames \in Nat /\ MaxObs \in Nat /\ MaxClears \in Nat

VARIABLES
    readOnly,       \* parameter read_only_map
    odomFrame,      \* is parameter odom_frame non-empty?
    fiducials,      \* the map, by identifier
    age,            \* frameNum - initialFrameNum, at most InitFrames + 1
    originFid, isInitializingMap,
    havePose,
    poseTf,         \* its child frame, and the frame whose pose it really holds
    due,            \* has tf_publish_interval passed since tfPublishTime?
    crashed,        \* has the process died?
    clears,         \* calls of clear_map
    moved           \* the fiducials whose pose the last step changed (history)

params == <<readOnly, odomFrame>>
mapVars == <<fiducials, originFid, isInitializingMap>>
tfVars == <<havePose, poseTf, due>>
vars == <<params, mapVars, tfVars, age, crashed, clears, moved>>

Fiducial    == [fixed : BOOLEAN, good : BOOLEAN, links : SUBSET Ids]
Observation == [fid : Ids, ok : BOOLEAN]
Frames      == UNION {[1..n -> Observation] : n \in 0..MaxObs}
NoTf        == [child |-> "none", holds |-> "none"]
Tfs         == [child : {"odom", "base", "none"}, holds : {"odom", "base", "none"}]
Map         == DOMAIN fiducials
Fixed       == {f \in Map : fiducials[f].fixed}
NoFiducials == [f \in {} |-> 0]

\* loadMap: a later line for the same fiducial replaces an earlier one.
loadMap(lines) ==
    [f \in {lines[i].id : i \in DOMAIN lines} |->
        LET i == CHOOSE i \in DOMAIN lines :
                     lines[i].id = f /\ \A j \in DOMAIN lines : lines[j].id = f => j <= i
        IN  [fixed |-> lines[i].fixed, good |-> TRUE, links |-> lines[i].links]]

Init ==
    /\ readOnly \in BOOLEAN /\ odomFrame \in BOOLEAN
    /\ \E lines \in Files : fiducials = loadMap(lines)
    /\ age = 0 /\ originFid = NoFid /\ isInitializingMap = FALSE
    /\ moved = {}
    /\ havePose = FALSE /\ poseTf = NoTf /\ due = TRUE
    /\ crashed = FALSE /\ clears = 0

---------------------------------------------------------------------------
(* autoInit: the map is empty, or holds just the fiducial it starts from.  *)

\* "Find closest fiducial to camera" (map.cpp:524) looks at obs[0] in every
\* turn of its loop and keeps the first index: distances play no part.
findClosestObs(obs) == 1

\* Mistake: the variance of the origin is left as it was estimated.
LoopOnly(map, origin, n) ==
    /\ isInitializingMap' = (n <= InitFrames)
    /\ originFid' = origin /\ fiducials' = map

\* The end of autoInit, with n frames since the map was cleared.
FinishInit(map, origin, n) ==
    /\ isInitializingMap' = (n <= InitFrames)
    /\ originFid' = origin
    /\ fiducials' = IF n > InitFrames THEN [map EXCEPT ![origin].fixed = TRUE] ELSE map

NextAge == IF age <= InitFrames THEN age + 1 ELSE age

StartMap(obs) ==
    /\ Map = {} /\ obs # <<>>
    /\ LET o == obs[findClosestObs(obs)] IN
         /\ FinishInit([f \in {o.fid} |-> [fixed |-> FALSE, good |-> o.ok, links |-> {}]],
                       o.fid, NextAge)
         /\ moved' = {o.fid}
    /\ UNCHANGED <<tfVars, crashed>>

\* idx is -1: obs[-1] of an empty vector is read.
NothingToStartFrom(obs) ==
    /\ Map = {} /\ obs = <<>> /\ isInitializingMap
    /\ crashed' = TRUE /\ moved' = {}
    /\ UNCHANGED <<mapVars, tfVars>>

\* Only obs[0] is compared with originFid.
RefineOrigin(obs) ==
    /\ Map # {} /\ isInitializingMap
    /\ IF obs # <<>> /\ obs[1].fid = originFid
       THEN /\ FinishInit([fiducials EXCEPT ![originFid].good = @ /\ obs[1].ok],
                          originFid, NextAge)
            /\ moved' = {originFid}
       ELSE FinishInit(fiducials, originFid, NextAge) /\ moved' = {}
    /\ UNCHANGED <<tfVars, crashed>>

---------------------------------------------------------------------------
(* updatePose and updateMap, once the map is initialised.                  *)

\* The observations that can be used: not the virtual fiducial, and not NaN.
AnySeen(obs) == {i \in DOMAIN obs : obs[i].fid # Zero /\ obs[i].ok}
\* Mistake: a fiducial that is not in the map gives an estimate too.
EstimatesOfAny(obs) == AnySeen(obs)
\* Mistake: the pose in the map is taken for a number.
EstimatesOfNaN(obs) == {i \in AnySeen(obs) : obs[i].fid \in Map}
\* The observations that give an estimate of the camera's pose.
Estimates(obs) ==
    {i \in AnySeen(obs) : obs[i].fid \in Map /\ fiducials[obs[i].fid].good}

\* Without a lookup of odom the pose of the base goes out under odom's name.
updatePose(obs) ==
    \/ UNCHANGED tfVars             \* nothing estimated, or no camera frame
    \/ /\ Estimates(obs) # {}
       /\ \E odomKnown \in BOOLEAN :
            poseTf' = [child |-> IF odomFrame THEN "odom" ELSE "base",
                       holds |-> IF odomFrame /\ odomKnown THEN "odom" ELSE "base"]
       /\ havePose' = TRUE /\ due' = FALSE

Seen(obs)   == {obs[i].fid : i \in DOMAIN obs}
Usable(obs) == {obs[i].fid : i \in AnySeen(obs)}

\* Mistakes: links are made with the fiducials that are new only; with the
\* origin too, which a map from a file does not have.
LinksToNew(f, obs)    == Seen(obs) \ (Map \cup {f})
LinksToOrigin(f, obs) == (Seen(obs) \cup {originFid}) \ {f}
NewLinks(f, obs) == Seen(obs) \ {f}

Entry(f) == IF f \in Map THEN fiducials[f]
            ELSE [fixed |-> FALSE, good |-> TRUE, links |-> {}]

\* Mistake: a pose of variance 0 is averaged like any other.
EveryPose(seen) == seen
Movable(seen) == seen \ Fixed

updateMap(obs) ==
    /\ fiducials' = [f \in Map \cup Usable(obs) |->
                        IF f \in Usable(obs)
                        THEN [Entry(f) EXCEPT !.links = @ \cup NewLinks(f, obs)]
                        ELSE fiducials[f]]
    /\ moved' = Movable(Usable(obs))

Localise(obs) ==
    /\ ~isInitializingMap /\ (Map # {} \/ obs = <<>>)
    /\ updatePose(obs)
    /\ IF Estimates(obs) # {} /\ Len(obs) > 1 /\ ~readOnly
       THEN updateMap(obs)
       ELSE fiducials' = fiducials /\ moved' = {}
    /\ UNCHANGED <<originFid, isInitializingMap, crashed>>

---------------------------------------------------------------------------

\* transformCallback and Map::update(obs): one frame of the camera.
Frame(obs) ==
    /\ ~crashed
    /\ StartMap(obs) \/ NothingToStartFrom(obs) \/ RefineOrigin(obs) \/ Localise(obs)
    /\ age' = NextAge
    /\ UNCHANGED <<params, clears>>

\* Map::update(): the last tf again, with a new stamp.
Update ==
    /\ ~crashed /\ due /\ havePose
    /\ due' = FALSE /\ moved' = {}
    /\ UNCHANGED <<params, mapVars, havePose, poseTf, age, crashed, clears>>

IntervalPasses ==
    /\ ~due
    /\ due' = TRUE /\ moved' = {}
    /\ UNCHANGED <<params, mapVars, havePose, poseTf, age, crashed, clears>>

\* Mistake: the origin is remembered.
KeepOrigin == originFid
ClearedOrigin == NoFid

\* isInitializingMap and havePose stay as they are.
clearCallback ==
    /\ ~crashed /\ clears < MaxClears
    /\ fiducials' = NoFiducials
    /\ age' = 0
    /\ originFid' = ClearedOrigin
    /\ moved' = {}
    /\ clears' = clears + 1
    /\ UNCHANGED <<params, isInitializingMap, tfVars, crashed>>

CameraFrame == \E obs \in Frames : Frame(obs)
Next == CameraFrame \/ Update \/ IntervalPasses \/ clearCallback

\* The camera delivers frames for ever.
Spec == Init /\ [][Next]_vars /\ WF_vars(CameraFrame)

---------------------------------------------------------------------------

\* Every variable keeps to its set.
TypeOK ==
    /\ {readOnly, odomFrame, isInitializingMap, havePose, due, crashed} \subseteq BOOLEAN
    /\ Map \subseteq Ids /\ fiducials \in [Map -> Fiducial]
    /\ age \in 0..(InitFrames + 1) /\ clears \in 0..MaxClears
    /\ originFid \in Ids \cup {NoFid} /\ moved \subseteq Ids /\ poseTf \in Tfs

\* A map that the program started by itself has one datum, however often it
\* is cleared half way: nothing is fixed while it is being initialised, and
\* the origin alone afterwards.
OneDatum ==
    originFid # NoFid =>
        originFid \in Map /\ Fixed = IF isInitializingMap THEN {} ELSE {originFid}

\* Such a map is in one piece: every set of fiducials without the origin has
\* a link out of it, so that each pose was derived, through fiducials seen
\* together, from the origin's.
Connected ==
    originFid # NoFid =>
        \A S \in SUBSET (Map \ {originFid}) :
            S # {} => \E f \in S : fiducials[f].links \cap (Map \ S) # {}

\* Nothing is placed relative to NaN or to the virtual fiducial, which may
\* both become the origin of such a map: it then stays alone, and a map of
\* more than the origin holds numbers only.
OriginCarriesMap ==
    originFid # NoFid =>
        Map = {originFid} \/ \A f \in Map : f # Zero /\ fiducials[f].good

\* A pose of variance 0, from the map file or from the end of the
\* initialisation, is never changed again: autoInit does not touch it either.
FixedStays == [][Fixed \cap moved' = {}]_vars

\* The ties of SurveyNet: who was seen together with whom.
Links == {l \in Map \X Ids : l[2] \in fiducials[l[1]].links}

Net == INSTANCE SurveyNet WITH
    Points <- Ids, closed <- readOnly, points <- Map, ties <- Links,
    fixed <- Fixed, provisional <- isInitializingMap /\ Map # {}

\* However frames, failed lookups and clear_map fall, the map is a net that
\* grows from its first fiducial (or from the file's) and only once that is
\* fixed, each new fiducial tied to one that was there before.
ImplementsNet == Net!NetSpec

\* An initialisation ends, wherever clear_map falls into it, with a fixed
\* origin or, if the camera sees nothing after a clear, with a crash.
InitEnds == isInitializingMap ~> (Fixed # {} \/ crashed)

\* "Publish map -> odom tf" (:502): a tf published under odom's name is the
\* pose of odom.
TfIsMapToOdom == poseTf.child = "odom" => poseTf.holds = "odom"
=============================================================================
