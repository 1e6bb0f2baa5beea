---------------------------- MODULE SensorFusion ----------------------------
(***************************************************************************)
(* sensor_fusion.py: wheel odometry corrected with fiducials (and gps).    *)
(* rospy runs the callbacks of the three subscribers in threads of their   *)
(* own and they share plain globals, so a step here is one assignment.     *)
(*                                                                         *)
(* A coordinate is abstracted to where it comes from: the number of the    *)
(* fiducial message whose pose it is, or Odometry for anything calculated  *)
(* from odometry.  Whether a fiducial is within tolerance of the odometry  *)
(* may go either way.  The axes are x, y and the heading h; the last of    *)
(* the fiducial's that is stored is the heading, as an euler angle.  The   *)
(* quaternion that is published is calculated from the heading put out,    *)
(* in a step of its own.                                                   *)
(***************************************************************************)
EXTENDS Integers

CONSTANTS MaxFid, MaxOdom, MaxGps       \* bounds: messages of each topic

ASSUME BoundsAssumption == MaxFid \in Nat /\ MaxOdom \in Nat /\ MaxGps \in Nat

Axes     == {"x", "y", "h"}
Odometry == 0
Sources  == 0..MaxFid
Unset    == -1    \* odom_out_quat is still the empty tuple

VARIABLES
    foo,            \* 0 odometry alone, 1 fiducial, 2 gps
    fid,            \* fid_pos_x, fid_pos_y, fid_euler: message of each axis
    out,            \* x_pos_out, y_pos_out, z_ori_out
    quat,           \* odom_out_quat: the source of its heading, or Unset
    fpc, opc, gpc,  \* where the threads of the three callbacks are
    fids, odoms, gpss,      \* messages taken (history, and bounds)
    accepted, rejected,     \* fiducials as the filter judged them (history)
    used,           \* the uses of fiducials in an error (history)
    before,         \* fiducials handled when foo was last tested (history)
    byGps           \* does this odom_callback take the branch of gps? (history)

counts == <<fids, odoms, gpss>>
judged == <<accepted, rejected>>
seen   == <<used, before, byGps>>
vars == <<foo, fid, out, quat, fpc, opc, gpc, counts, judged, seen>>

FidPCs  == {"idle", "take_y", "show_x", "show_y", "show_h", "take_h", "filter"}
OdomPCs == {"idle", "test", "elif", "correct_h", "apply_h", "quat", "correct_x",
            "correct_y", "apply_x", "apply_y", "gps", "plain_x", "plain_y", "plain_h",
            "plain_quat", "reset", "publish", "tf"}

\* One use: the fiducial whose pose is read, by which odometry message, and
\* whether it had been judged when that message tested foo.
Uses == [fid : Sources, odom : 1..MaxOdom, known : BOOLEAN]

Init ==
    /\ foo = 0 /\ quat = Unset
    /\ fid = [a \in Axes |-> Odometry] /\ out = [a \in Axes |-> Odometry]
    /\ fpc = "idle" /\ opc = "idle" /\ gpc = "idle"
    /\ fids = 0 /\ odoms = 0 /\ gpss = 0
    /\ accepted = {} /\ rejected = {} /\ used = {}
    /\ before = 0 /\ byGps = FALSE

---------------------------------------------------------------------------
(* fid_callback: stores the pose, sends it to the output, then filters it. *)

FidTake(here, axis, next) ==
    /\ fpc = here /\ fpc' = next
    /\ fid' = [fid EXCEPT ![axis] = fids']
    /\ UNCHANGED <<foo, out, judged>>

FidShow(here, axis, next) ==
    /\ fpc = here /\ fpc' = next
    /\ out' = [out EXCEPT ![axis] = fids]
    /\ UNCHANGED <<foo, fid, judged, fids>>

\* Near the odometry's position?  Otherwise the flag is cleared, whoever set it.
Filter(near) == foo' = IF near THEN 1 ELSE 0

FidFilter ==
    /\ fpc = "filter" /\ fpc' = "idle"
    /\ \E near \in BOOLEAN :
         /\ Filter(near)
         /\ accepted' = IF near THEN accepted \cup {fids} ELSE accepted
         /\ rejected' = IF near THEN rejected ELSE rejected \cup {fids}
    /\ UNCHANGED <<fid, out, fids>>

fid_callback ==
    /\ \/ fids < MaxFid /\ fids' = fids + 1 /\ FidTake("idle", "x", "take_y")
       \/ UNCHANGED fids /\ FidTake("take_y", "y", "show_x")
       \/ FidShow("show_x", "x", "show_y")
       \/ FidShow("show_y", "y", "show_h")
       \/ FidShow("show_h", "h", "take_h")
       \/ UNCHANGED fids /\ FidTake("take_h", "h", "filter")
       \/ FidFilter
    /\ UNCHANGED <<quat, opc, gpc, odoms, gpss, seen>>

gps_callback ==
    /\ \/ gpc = "idle" /\ gpss < MaxGps /\ gpss' = gpss + 1 /\ gpc' = "flag"
          /\ UNCHANGED foo
       \/ gpc = "flag" /\ gpc' = "idle" /\ foo' = 2 /\ UNCHANGED gpss
    /\ UNCHANGED <<fid, out, quat, fpc, opc, fids, odoms, judged, seen>>

---------------------------------------------------------------------------
(* odom_callback                                                           *)

OdomTake ==
    /\ opc = "idle" /\ odoms < MaxOdom
    /\ odoms' = odoms + 1 /\ opc' = "test"
    /\ UNCHANGED <<foo, out, quat, seen>>

\* foo is read twice, and other threads may write it in between.
OdomTest ==
    /\ opc = "test"
    /\ opc' = IF foo = 1 THEN "correct_h" ELSE "elif"
    /\ before' = IF fpc = "idle" THEN fids ELSE fids - 1
    /\ byGps' = FALSE
    /\ UNCHANGED <<foo, out, quat, used, odoms>>

OdomElif ==
    /\ opc = "elif"
    /\ opc' = IF foo = 2 THEN "gps" ELSE "plain_x"
    /\ byGps' = (foo = 2)
    /\ UNCHANGED <<foo, out, quat, used, before, odoms>>

\* What is calculated from odometry replaces what was put out.
\* Mistake: y is left as it is, as in the branch of gps.
ReplacedButY(axis) == IF axis = "y" THEN out ELSE [out EXCEPT ![axis] = Odometry]
Replaced(axis)     == [out EXCEPT ![axis] = Odometry]

\* An error is calculated from the fiducial as it is stored now.
Correct(here, axis, next) ==
    /\ opc = here /\ opc' = next
    /\ used' = used \cup {[fid |-> fid[axis], odom |-> odoms, known |-> fid[axis] <= before]}
    /\ UNCHANGED <<foo, out, quat, odoms, before, byGps>>

Apply(here, axis, next) ==
    /\ opc = here /\ opc' = next
    /\ out' = Replaced(axis)
    /\ UNCHANGED <<foo, quat, odoms, seen>>

\* The heading is read back from the global, whoever wrote it last.
TurnToQuat(here, next) ==
    /\ opc = here /\ opc' = next
    /\ quat' = out["h"]
    /\ UNCHANGED <<foo, out, odoms, seen>>

\* Mistakes: the flag stays until a fiducial is rejected; it moves on.
KeepFlag  == foo
NextFlag  == foo + 1
ClearFlag == 0

OdomReset ==
    /\ opc = "reset" /\ opc' = "publish"
    /\ foo' = ClearFlag
    /\ UNCHANGED <<out, quat, odoms, seen>>

\* Sends out x, y and odom_out_quat.  Without a quaternion the index is out
\* of range and the callback is left.
Publish ==
    /\ opc = "publish"
    /\ opc' = IF quat = Unset THEN "idle" ELSE "tf"
    /\ UNCHANGED <<foo, out, quat, odoms, seen>>

\* Reads x, y and the heading once more.
tf_broadcast ==
    /\ opc = "tf" /\ opc' = "idle"
    /\ UNCHANGED <<foo, out, quat, odoms, seen>>

odom_callback ==
    /\ \/ OdomTake \/ OdomTest \/ OdomElif
       \/ Correct("correct_h", "h", "apply_h") \/ Apply("apply_h", "h", "quat")
       \/ TurnToQuat("quat", "correct_x")
       \/ Correct("correct_x", "x", "correct_y") \/ Correct("correct_y", "y", "apply_x")
       \/ Apply("apply_x", "x", "apply_y") \/ Apply("apply_y", "y", "reset")
       \/ Apply("gps", "x", "reset")
       \/ Apply("plain_x", "x", "plain_y") \/ Apply("plain_y", "y", "plain_h")
       \/ Apply("plain_h", "h", "plain_quat") \/ TurnToQuat("plain_quat", "reset")
       \/ OdomReset \/ Publish \/ tf_broadcast
    /\ UNCHANGED <<fid, fpc, gpc, fids, gpss, judged>>

Next == fid_callback \/ gps_callback \/ odom_callback
Spec == Init /\ [][Next]_vars

---------------------------------------------------------------------------

\* Every variable keeps to its set.
TypeOK ==
    /\ foo \in 0..2 /\ quat \in Sources \cup {Unset}
    /\ fid \in [Axes -> Sources] /\ out \in [Axes -> Sources]
    /\ fpc \in FidPCs /\ opc \in OdomPCs /\ gpc \in {"idle", "flag"}
    /\ fids \in 0..MaxFid /\ odoms \in 0..MaxOdom /\ gpss \in 0..MaxGps
    /\ accepted \subseteq 1..MaxFid /\ rejected \subseteq 1..MaxFid
    /\ used \subseteq Uses
    /\ before \in 0..MaxFid /\ byGps \in BOOLEAN

\* However the threads interleave, a fiducial that had been judged when foo was
\* tested corrects the odometry only if it was accepted, and then one odometry
\* message at most: a pose that is used again would hold the robot at the place
\* where it saw the fiducial while it drives on.  A fiducial stored but not yet
\* judged may be used too (RejectedStaysOut), by one message at most as well.
FiducialUsedOnce ==
    \A u \in used :
        /\ u.known => u.fid \in accepted
        /\ \A v \in used : u.fid = v.fid /\ u.known = v.known => u.odom = v.odom

\* fid_callback puts the pose out before it has judged it.  Without gps no
\* such pose outlives the odom_callbacks: what is published or broadcast, the
\* quaternion calculated from the heading included, comes from odometry, or
\* belongs to a fiducial that was judged after this odom_callback tested foo,
\* if at all.
RawPoseIsRecent ==
    LET Recently(source) == source = Odometry \/ source > before
    IN  /\ opc \in {"publish", "tf"} /\ ~byGps => \A a \in Axes : Recently(out[a])
        /\ opc = "publish" /\ ~byGps => Recently(quat)

\* "fiducial filter" (sensor_fusion.py:117): no error is calculated from a
\* fiducial that the filter rejects.
RejectedStaysOut == {u.fid : u \in used} \cap rejected = {}
=============================================================================
