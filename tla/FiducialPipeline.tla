-------------------------- MODULE FiducialPipeline --------------------------
(***************************************************************************)
(* One camera, its aruco_detect, fiducial_slam and fiducial_localization   *)
(* nodes, joined by their topics and by tf, as the launch files start      *)
(* them.  The same three nodes of the other camera broadcast to the same   *)
(* tf frames; amcl, outside src/, broadcasts map -> odom.                  *)
(***************************************************************************)
EXTENDS Naturals, Sequences, Functions

CONSTANTS
    Ids,            \* the markers that may come before the camera
    Ignored, MapFile, Virtual, MapOdom, None,   \* see the nodes
    Images,         \* bound: the images considered, sequences of Ids
    Calibrations,   \* bound: the camera's intrinsics, "good" or "zero"
    Patience        \* frames that are sure to pass while a wait lasts

ASSUME PipelineAssumption ==
    /\ Images \subseteq Seq(Ids)
    /\ MapFile \subseteq Ids /\ Virtual \notin Ids
    /\ None \notin Seq(Ids \cup {Virtual}) /\ None \notin Ids \cup {Virtual}
    /\ MapOdom \notin Ids \cup {Virtual, None}
    /\ None \notin Calibrations
    /\ Patience \in Nat

VARIABLES
    camera, intrinsics, \* does the camera node run, and with which matrix?
    scene,          \* the last image (history)
    amcl,           \* does amcl broadcast?
    image, vertices, running, enabled,
    infoE, transforms, calibration, fiducials, work, outMsg,
    lpc, target, connected, heard,
    fresh,          \* target broadcast since its message was taken? (history)
    waited,         \* frames estimated in this wait (history)
    late            \* poses since detection was disabled (history)

A == INSTANCE ArucoDetect
E == INSTANCE PoseEstimator
L == INSTANCE FiducialLocalization

worldVars == <<camera, intrinsics, scene, amcl>>
arucoVars == <<image, running, enabled>>
estimatorVars    == <<infoE, calibration, fiducials, work, outMsg>>
localizationVars == <<lpc, target, connected, heard>>
notes     == <<fresh, waited, late>>
vars == <<worldVars, arucoVars, vertices, estimatorVars, transforms,
          localizationVars, notes>>

Frames == Ids \cup {Virtual}

Init ==
    /\ camera = TRUE /\ intrinsics \in Calibrations /\ scene = <<>> /\ amcl = FALSE
    /\ A!ArucoInit /\ E!EstimatorInit /\ L!LocalizationInit
    /\ fresh = FALSE /\ waited = 0 /\ late = 0

---------------------------------------------------------------------------
(* The world                                                               *)

\* cam_pub: camera_info, then the image.  A calibration that the receiver
\* will not look at is not kept.
Grab ==
    /\ camera
    /\ scene' \in Images
    /\ image' = IF running THEN scene' ELSE None
    /\ infoE' = IF calibration = None THEN intrinsics ELSE infoE
    /\ UNCHANGED <<camera, intrinsics, amcl, running, enabled,
                   vertices, calibration, fiducials, work, outMsg, transforms,
                   localizationVars, notes>>

\* An empty frame makes remap throw; nothing starts the node again.
CameraDies ==
    /\ camera /\ camera' = FALSE
    /\ UNCHANGED <<intrinsics, scene, amcl, arucoVars, vertices,
                   estimatorVars, transforms, localizationVars, notes>>

AmclStarts ==
    /\ ~amcl /\ amcl' = TRUE
    /\ UNCHANGED <<camera, intrinsics, scene, arucoVars, vertices,
                   estimatorVars, transforms, localizationVars, notes>>

AmclBroadcasts ==
    /\ amcl /\ L!Hear(MapOdom)
    /\ UNCHANGED <<worldVars, arucoVars, vertices, estimatorVars, transforms,
                   lpc, target, connected, notes>>

Broadcast(fid) ==
    /\ L!Hear(fid)
    /\ fresh' = (fresh \/ fid = target)

OtherCamera ==
    /\ \E fid \in Frames : Broadcast(fid)
    /\ UNCHANGED <<worldVars, arucoVars, vertices, estimatorVars, transforms,
                   lpc, target, connected, waited, late>>

World == Grab \/ CameraDies \/ AmclStarts \/ AmclBroadcasts \/ OtherCamera

---------------------------------------------------------------------------
(* The nodes                                                               *)

Detect ==
    /\ \/ (A!imageCallback \/ A!Crash) /\ UNCHANGED late
       \/ \E data \in BOOLEAN :
             A!enableDetectionsCallback(data) /\ late' = IF data THEN 0 ELSE late
       \/ A!Respawn /\ late' = 0
    /\ UNCHANGED <<worldVars, estimatorVars, transforms, localizationVars,
                   fresh, waited>>

Estimate ==
    /\ \/ /\ E!camInfoCallback \/ E!verticesCallback \/ E!clearCallback
          /\ UNCHANGED <<heard, fresh, waited>>
       \/ /\ \E fid \in Frames :
                /\ E!estimatePose(fid)
                /\ IF E!Finite THEN Broadcast(fid) ELSE UNCHANGED <<heard, fresh>>
          /\ UNCHANGED waited
       \/ /\ E!publish
          /\ waited' = IF lpc = "fid" /\ connected /\ waited < Patience
                       THEN waited + 1 ELSE waited
          /\ UNCHANGED <<heard, fresh>>
    /\ UNCHANGED <<worldVars, arucoVars, lpc, target, connected, late>>

\* Nothing reaches the estimator, or nothing useful.
NoFlow == ~camera \/ ~running \/ ~enabled

\* A second is long enough for Patience frames to go through, half of one for
\* a broadcast of amcl.  With Patience = 0 nothing is assumed.
SecondOver == waited = Patience \/ NoFlow
HalfOver   == Patience = 0 \/ ~amcl

\* The notes begin anew with each callback.
Forget == fresh' = FALSE /\ waited' = 0

Localize ==
    /\ \/ L!TakeMessage /\ Forget /\ UNCHANGED late
       \/ L!Connect /\ UNCHANGED notes
       \/ L!HaveFiducial /\ waited' = 0 /\ UNCHANGED <<fresh, late>>
       \/ L!NotInMap /\ Forget /\ UNCHANGED late
       \/ SecondOver /\ L!FiducialTimeout /\ Forget /\ UNCHANGED late
       \/ HalfOver /\ L!OdomTimeout /\ Forget /\ UNCHANGED late
       \/ L!PublishPose /\ Forget /\ late' = IF enabled THEN 0 ELSE late + 1
    /\ UNCHANGED <<worldVars, arucoVars, vertices, estimatorVars>>

Next == World \/ Detect \/ Estimate \/ Localize

\* Every loop goes on, the launch file respawns aruco_detect, amcl repeats
\* its transform.  A calibration that waits is taken in turn, however many
\* vertices come.  Nothing is assumed of the services and the other camera.
Spec ==
    /\ Init /\ [][Next]_vars
    /\ WF_vars(Grab) /\ WF_vars(AmclBroadcasts)
    /\ WF_vars(A!imageCallback /\ Detect) /\ WF_vars(A!Respawn /\ Detect)
    /\ SF_vars(E!camInfoCallback /\ Estimate)
    /\ WF_vars((work # None \/ E!verticesCallback) /\ Estimate)
    /\ WF_vars(Localize)

---------------------------------------------------------------------------

\* Every variable keeps to its set.
TypeOK ==
    /\ camera \in BOOLEAN /\ intrinsics \in Calibrations
    /\ scene \in Seq(Ids) /\ amcl \in BOOLEAN
    /\ A!ArucoTypes(Ids) /\ E!EstimatorTypes(Ids, Calibrations)
    /\ L!LocalizationTypes(Frames)
    /\ fresh \in BOOLEAN /\ waited \in 0..Patience /\ late \in Nat

\* What fiducial_localization waits for is a marker that was before this
\* camera and is not ignored, never the virtual fiducial that fiducial_slam
\* adds: estimator.cpp:256 appends it behind the others.
FollowsMarker == target # None => target \in Ids \ Ignored

\* A pose is calculated with a transform that was broadcast after the message
\* had been taken: the listener that is made in the callback cannot know the
\* one that belongs to the message (or an older one).
FreshTransform == lpc = "odom" => fresh

\* After detection has been disabled the messages that are under way give at
\* most four poses: one each in fiducial_slam's queue, in its callback, in
\* fiducial_localization's queue and in its callback.
FewLatePoses == late <= 4

Leads(img) == \E i \in DOMAIN img : E!First(A!Vertices(img), i) /\ img[i] \in MapFile

\* While the camera sees a marker that is in the map file, in front of any
\* that is not, poses keep coming, whatever markers there were before, however
\* often aruco_detect has died and even if clear_map has emptied the map of
\* fiducial_slam.
PosesKeepComing ==
    <>[](/\ camera /\ running /\ enabled /\ amcl /\ intrinsics = "good"
         /\ Leads(scene))
        => []<><<L!PublishPose /\ Localize>>_vars
=============================================================================
