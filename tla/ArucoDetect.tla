---------------------------- MODULE ArucoDetect ----------------------------
(***************************************************************************)
(* aruco_detect.cpp: finds the markers of an image and sends out their     *)
(* vertices.  ros::spin runs its callbacks one at a time; the launch files *)
(* respawn the node.  An image is the sequence of the identifiers that     *)
(* OpenCV finds in it, and a message of vertices what is left of the image *)
(* without some positions.  The node's own estimates are never published;  *)
(* they are left out, and so is the calibration that they need.            *)
(***************************************************************************)
EXTENDS Naturals, Sequences, Functions

CONSTANTS
    Ignored,        \* ignoreIds, from the parameter ignore_fiducials
    None            \* an empty queue

VARIABLES
    image,          \* what waits in this node's queue (size 1)
    vertices,       \* what waits in fiducial_slam's queue (size 1)
    running,        \* is the process there?
    enabled         \* enable_detections

\* Mistake: the ignore list is not looked at.
VerticesOfAll(img) == img
Vertices(img) == Restrict(img, {i \in DOMAIN img : img[i] \notin Ignored})

ArucoTypes(Ids) ==
    /\ image \in Seq(Ids) \cup {None}
    /\ vertices # None => /\ DOMAIN vertices \subseteq Nat
                          /\ Range(vertices) \subseteq Ids \ Ignored
    /\ running \in BOOLEAN /\ enabled \in BOOLEAN

ArucoInit ==
    /\ image = None /\ vertices = None
    /\ running = TRUE /\ enabled = TRUE

\* Mistake: enable_detections is not looked at.
imageCallbackAlways ==
    /\ running /\ image # None
    /\ image' = None
    /\ vertices' = Vertices(image)
    /\ UNCHANGED <<running, enabled>>

\* The vertices go out whether or not the camera is calibrated.
imageCallback ==
    /\ running /\ image # None
    /\ image' = None
    /\ vertices' = IF enabled THEN Vertices(image) ELSE vertices
    /\ UNCHANGED <<running, enabled>>

enableDetectionsCallback(data) ==
    /\ running /\ enabled' = data
    /\ UNCHANGED <<image, vertices, running>>

Crash ==
    /\ running /\ running' = FALSE
    /\ image' = None
    /\ UNCHANGED <<vertices, enabled>>

\* respawn="true": the constructor again.
Respawn ==
    /\ ~running /\ running' = TRUE
    /\ enabled' = TRUE
    /\ UNCHANGED <<image, vertices>>

=============================================================================
