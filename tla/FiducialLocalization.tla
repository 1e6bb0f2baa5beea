------------------------ MODULE FiducialLocalization ------------------------
(***************************************************************************)
(* fiducial_localization.cpp: for the first transform of a message, asks   *)
(* tf where the base is from that fiducial, and publishes the pose that    *)
(* follows from the map file.  The callback makes a tf listener of its own *)
(* and waits twice; meanwhile the listener's thread takes in transforms.   *)
(* Of those only the two that are asked for are kept here.                 *)
(***************************************************************************)
EXTENDS Sequences

CONSTANTS
    MapFile,        \* fiducial_ids, from the map file
    MapOdom,        \* the transform map -> odom
    None

VARIABLES
    transforms,     \* what waits in the queue (size 1)
    lpc,            \* idle, or waiting for the fiducial's or the odometry's tf
    target,         \* ft.fiducial_id
    connected,      \* has the listener found the nodes that broadcast?
    heard           \* what the listener has

localizationVars == <<lpc, target, connected, heard>>

LocalizationTypes(Frames) ==
    /\ lpc \in {"idle", "fid", "odom"}
    /\ target \in Frames \cup {None}
    /\ connected \in BOOLEAN /\ heard \subseteq Frames \cup {MapOdom}

LocalizationInit == lpc = "idle" /\ target = None /\ connected = FALSE /\ heard = {}

\* Mistake: one listener for the life of the node.
SameListener == UNCHANGED <<connected, heard>>

\* A listener starts with nothing, whatever earlier ones had, and ends with
\* the callback.
NewListener == connected' = FALSE /\ heard' = {}

\* Mistake: the last transform is looked at.
TakeLast ==
    /\ lpc = "idle" /\ transforms # None
    /\ transforms' = None
    /\ IF transforms = <<>>
       THEN UNCHANGED localizationVars
       ELSE lpc' = "fid" /\ target' = transforms[Len(transforms)] /\ NewListener

\* fiducialTransformArrayCb: only transforms[0] is looked at.
TakeMessage ==
    /\ lpc = "idle" /\ transforms # None
    /\ transforms' = None
    /\ IF transforms = <<>>
       THEN UNCHANGED localizationVars
       ELSE lpc' = "fid" /\ target' = Head(transforms) /\ NewListener

Connect ==
    /\ lpc # "idle" /\ ~connected /\ connected' = TRUE
    /\ UNCHANGED <<transforms, lpc, target, heard>>

\* The listener's thread: what the broadcast of frame adds.
Hear(frame) ==
    heard' = IF connected /\ lpc # "idle" /\ frame \in {target, MapOdom}
             THEN heard \cup {frame} ELSE heard

Return == lpc' = "idle" /\ target' = None /\ NewListener /\ UNCHANGED transforms

\* Found: go on if the map file has the fiducial.
HaveFiducial ==
    /\ lpc = "fid" /\ target \in heard /\ target \in MapFile
    /\ lpc' = "odom"
    /\ UNCHANGED <<transforms, target, connected, heard>>

NotInMap == lpc = "fid" /\ target \in heard /\ target \notin MapFile /\ Return

\* waitForTransform returns as soon as it can; after its time is up lookup
\* is tried all the same.
FiducialTimeout == lpc = "fid" /\ target \notin heard /\ Return
OdomTimeout     == lpc = "odom" /\ MapOdom \notin heard /\ Return

\* odom_pub.publish.
PublishPose == lpc = "odom" /\ MapOdom \in heard /\ Return
=============================================================================
