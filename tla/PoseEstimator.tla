--------------------------- MODULE PoseEstimator ---------------------------
(***************************************************************************)
(* fiducial_slam with do_pose_estimation: estimator.cpp, and the callbacks *)
(* of fiducial_slam.cpp that run it.  In this mode the map is only read    *)
(* (Map::update is commented out).  An estimate is the identifier it       *)
(* belongs to; broadcasting it is a step of its own, made by the           *)
(* constructor of Observation long before the array is published.          *)
(***************************************************************************)
EXTENDS Naturals, Sequences, Functions

CONSTANTS
    MapFile,        \* the identifiers in the map file
    Virtual,        \* 0: the fiducial made from all that are in the map
    None

VARIABLES
    vertices, infoE,    \* what waits in this node's queues (size 1)
    transforms,         \* what waits in fiducial_localization's queue (size 1)
    calibration,        \* what camInfoCallback has kept, or None
    fiducials,          \* the identifiers in the map
    work,               \* vertices still to do in this callback, or None
    outMsg              \* estimates of this callback

Estimates(Ids) == Ids \cup {Virtual}

EstimatorTypes(Ids, Calibrations) ==
    /\ infoE \in Calibrations \cup {None} /\ calibration \in Calibrations \cup {None}
    /\ transforms \in Seq(Estimates(Ids)) \cup {None}
    /\ fiducials \subseteq MapFile
    /\ work # None => DOMAIN work \subseteq Nat /\ Range(work) \subseteq Ids
    /\ outMsg \in Seq(Estimates(Ids))

EstimatorInit ==
    /\ infoE = None /\ transforms = None /\ calibration = None
    /\ fiducials = MapFile /\ work = None /\ outMsg = <<>>

\* Unlike aruco_detect's, it keeps the first matrix even if it is all zeros.
camInfoCallback ==
    /\ work = None /\ infoE # None
    /\ infoE' = None
    /\ calibration' = IF calibration = None THEN infoE ELSE calibration
    /\ UNCHANGED <<vertices, transforms, fiducials, work, outMsg>>

\* Without calibration nothing is estimated: an empty array goes out.
verticesCallback ==
    /\ work = None /\ vertices # None
    /\ vertices' = None
    /\ work' = IF calibration = None THEN <<>> ELSE vertices
    /\ outMsg' = <<>>
    /\ UNCHANGED <<infoE, transforms, calibration, fiducials>>

\* allWorldPoints is not empty, and has not been used yet.
VirtualDue == Range(outMsg) \cap fiducials # {} /\ Virtual \notin Range(outMsg)

\* The position that comes next.
First(v, i) == i \in DOMAIN v /\ \A j \in DOMAIN v : i <= j
Rest(v, i)  == Restrict(v, DOMAIN v \ {i})

\* Mistake: the virtual fiducial is put before the others.
estimatePoseVirtualFirst(fid) ==
    /\ work # None
    /\ \/ /\ \E i \in DOMAIN work :
                First(work, i) /\ fid = work[i] /\ work' = Rest(work, i)
          /\ outMsg' = Append(outMsg, fid)
       \/ /\ work = <<>> /\ VirtualDue /\ fid = Virtual
          /\ UNCHANGED work
          /\ outMsg' = <<fid>> \o outMsg
    /\ UNCHANGED <<vertices, infoE, transforms, calibration, fiducials>>

\* One estimatePose, and the broadcast of its transform.
estimatePose(fid) ==
    /\ work # None
    /\ \/ \E i \in DOMAIN work :
             First(work, i) /\ fid = work[i] /\ work' = Rest(work, i)
       \/ /\ work = <<>> /\ VirtualDue /\ fid = Virtual
          /\ UNCHANGED work
    /\ outMsg' = Append(outMsg, fid)
    /\ UNCHANGED <<vertices, infoE, transforms, calibration, fiducials>>

\* Estimates from a zero matrix are not numbers; tf drops their transforms.
Finite == calibration = "good"

publish ==
    /\ work = <<>> /\ ~VirtualDue
    /\ transforms' = outMsg
    /\ work' = None /\ outMsg' = <<>>
    /\ UNCHANGED <<vertices, infoE, calibration, fiducials>>

\* The service clear_map (FiducialMap has the whole of it).
clearCallback ==
    /\ work = None
    /\ fiducials' = {}
    /\ UNCHANGED <<vertices, infoE, transforms, calibration, work, outMsg>>
=============================================================================
