------------------------- MODULE SensorFusionProofs -------------------------
(***************************************************************************)
(* The invariants of SensorFusion, for any number of messages.  Both need  *)
(* to know which fiducials have been judged; FiducialUsedOnce what the     *)
(* flag says of the last of them and which axes store which fiducial, and  *)
(* RawPoseIsRecent which axes this odom_callback has calculated so far.    *)
(***************************************************************************)
EXTENDS SensorFusion, TLAPS

USE BoundsAssumption

Handled == IF fpc = "idle" THEN fids ELSE fids - 1

\* The places at which errors are still calculated, and those up to the reset.
Correcting == {"correct_h", "apply_h", "quat", "correct_x", "correct_y"}
Busy       == Correcting \cup {"apply_x", "apply_y", "reset"}

\* The axes calculated since odom_callback tested foo.
Done == {a \in Axes :
    \/ a = "h" /\ opc \in {"quat", "correct_x", "correct_y", "apply_x", "apply_y", "plain_quat"}
    \/ a = "x" /\ opc \in {"apply_y", "plain_y", "plain_h", "plain_quat"}
    \/ a = "y" /\ opc \in {"plain_h", "plain_quat"}
    \/ opc \in {"reset", "publish", "tf"} /\ ~byGps}
\* The places at which its quaternion has been calculated.
Turned ==
    \/ opc \in {"correct_x", "correct_y", "apply_x", "apply_y"}
    \/ opc \in {"reset", "publish"} /\ ~byGps

Judged == accepted \subseteq 1..Handled /\ Handled \in Nat
\* No axis is older than the last fiducial judged.
Stored ==
    /\ \A a \in Axes : Handled <= fid[a] /\ fid[a] <= fids
    /\ fpc # "idle" => fid["x"] = fids
    /\ fpc \in FidPCs \ {"idle", "take_y"} => fid["y"] = fids
    /\ fpc = "filter" => fid["h"] = fids
\* The flag speaks of the fiducial judged last.
Flag == foo = 1 => Handled \in accepted

\* A use is of fiducial k as judged, of an earlier one, or of k before it was.
NotAfter(u, k) == u.fid < k \/ (u.fid = k /\ ~u.known)
\* While the flag waits for an odometry message, its fiducial is yet unused.
Fresh == foo = 1 /\ opc \notin Busy => \A u \in used : NotAfter(u, Handled)
\* This message corrects with an accepted fiducial that no other has used.
Own == opc \in Correcting =>
    /\ before \in accepted
    /\ \A u \in used : u.odom # odoms => NotAfter(u, before)
Past == \A u \in used : u.fid <= fids /\ (u.known => u.fid <= Handled)
Once == Past /\ FiducialUsedOnce

Recent ==
    /\ before <= Handled
    /\ \A a \in Done : out[a] = Odometry \/ out[a] > before
    /\ Turned => quat = Odometry \/ quat > before

\* Where the callback is says which branch it took and that it has a message.
Branch == (opc = "gps" => byGps) /\ (opc # "idle" => odoms > 0)

IInv == TypeOK /\ Judged /\ Stored /\ Flag /\ Fresh /\ Own /\ Once /\ Recent /\ Branch
UseInv == Fresh /\ Own /\ Once

LEMMA DoneAxes == Done \subseteq Axes
  BY DEF Done, Axes

LEMMA Numbers ==
  ASSUME TypeOK
  PROVE  /\ foo \in 0..2 /\ fids \in 0..MaxFid /\ odoms \in 0..MaxOdom
         /\ before \in 0..MaxFid /\ used \subseteq Uses
         /\ fid \in [Axes -> Sources] /\ out \in [Axes -> Sources]
         /\ quat \in Sources \cup {Unset}
         /\ \A u \in used : u.fid \in Int /\ u.odom \in Int /\ u.known \in BOOLEAN
         /\ \A a \in Axes : fid[a] \in Int /\ out[a] \in Int
  <1>1. /\ foo \in 0..2 /\ fids \in 0..MaxFid /\ odoms \in 0..MaxOdom
        /\ before \in 0..MaxFid /\ used \subseteq Uses
        /\ fid \in [Axes -> Sources] /\ out \in [Axes -> Sources]
        /\ quat \in Sources \cup {Unset}
    BY Zenon DEF TypeOK
  <1>2. \A u \in used : u.fid \in Int /\ u.odom \in Int /\ u.known \in BOOLEAN
    BY <1>1 DEF Uses, Sources
  <1> QED BY <1>1, <1>2 DEF Sources

LEMMA InitHolds == ASSUME Init PROVE IInv
  <1>0. 0 \in 0..MaxFid /\ 0 \in 0..MaxOdom /\ 0 \in 0..MaxGps
    OBVIOUS
  <1>a. fid \in [Axes -> Sources] /\ out \in [Axes -> Sources]
    BY <1>0 DEF Init, Sources, Odometry
  <1>b. fpc \in FidPCs /\ opc \in OdomPCs /\ gpc \in {"idle", "flag"}
    BY DEF Init, FidPCs, OdomPCs
  <1>c. /\ foo \in 0..2 /\ fids \in 0..MaxFid /\ odoms \in 0..MaxOdom /\ gpss \in 0..MaxGps
        /\ before \in 0..MaxFid
    BY <1>0 DEF Init
  <1>d. /\ accepted \subseteq 1..MaxFid /\ rejected \subseteq 1..MaxFid /\ used \subseteq Uses
        /\ quat \in Sources \cup {Unset} /\ byGps \in BOOLEAN
    BY DEF Init
  <1>1. TypeOK
    BY <1>a, <1>b, <1>c, <1>d DEF TypeOK
  <1>2. Judged /\ Recent /\ Branch
    BY DEF Init, Judged, Recent, Handled, Done, Turned, Odometry, Branch
  <1>3. Stored /\ Flag
    BY DEF Init, Stored, Handled, Odometry, FidPCs, Flag
  <1>4. UseInv
    BY DEF Init, UseInv, Fresh, Own, Correcting, Once, Past, FiducialUsedOnce
  <1> QED
    BY <1>1, <1>2, <1>3, <1>4 DEF IInv, UseInv

---------------------------------------------------------------------------
(* What a step that uses nothing keeps, as long as the last fiducial judged *)
(* stays the last.                                                          *)

LEMMA UsesKept ==
  ASSUME IInv, UNCHANGED <<used, accepted>>, Handled' = Handled, fids' \in Nat, fids' >= fids,
         foo' = 1 => foo = 1,
         opc \in Busy /\ opc' \notin Busy => foo' # 1,
         opc' \in Correcting =>
             opc \in Correcting /\ before' = before /\ odoms' = odoms
  PROVE  UseInv'
  <1> USE DEF IInv
  <1>1. Fresh'
    BY DEF Fresh, NotAfter
  <1>2. Own'
    BY DEF Own, NotAfter
  <1>3. Once'
    BY Numbers DEF Once, Past, FiducialUsedOnce
  <1> QED BY <1>1, <1>2, <1>3 DEF UseInv

---------------------------------------------------------------------------
(* fid_callback: a new fiducial is none of those judged before. *)

LEMMA FidStep == ASSUME IInv, fid_callback PROVE IInv'
  <1> USE DEF IInv
  <1>0. UNCHANGED <<quat, opc, gpc, odoms, gpss, used, before, byGps>>
    BY DEF fid_callback, seen
  <1>b. Branch' /\ Done' = Done /\ Turned' = Turned
    BY <1>0 DEF Branch, Done, Turned
  <1>1. CASE fids < MaxFid /\ fids' = fids + 1 /\ FidTake("idle", "x", "take_y")
    <2>a. fids \in Nat /\ fids' = fids + 1 /\ fids' \in 0..MaxFid
      BY <1>1, Numbers
    <2>1. /\ fpc = "idle" /\ fpc' = "take_y" /\ UNCHANGED <<foo, out, accepted, rejected>>
          /\ fid' = [fid EXCEPT !["x"] = fids']
      BY <1>1 DEF FidTake, judged
    <2>2. fid' \in [Axes -> Sources]
      BY <2>1, <2>a DEF TypeOK, Sources
    <2>3. TypeOK'
      BY <1>0, <2>a, <2>1, <2>2 DEF TypeOK, FidPCs
    <2>4. Handled' = Handled
      BY <2>a, <2>1 DEF Handled
    <2>5. Judged' /\ Flag'
      BY <2>1, <2>4 DEF Judged, Flag
    <2>6. Stored'
      <3>1. \A a \in Axes : fid'[a] = IF a = "x" THEN fids' ELSE fid[a]
        BY <2>1 DEF TypeOK
      <3>2. "x" \in Axes /\ fpc' \notin {"idle", "filter"} \cup (FidPCs \ {"idle", "take_y"})
        BY <2>1 DEF Axes
      <3>3. fid'["x"] = fids' /\ Handled <= fids'
        BY <2>a, <2>1, <3>1, <3>2 DEF Handled
      <3>4. \A a \in Axes : Handled' <= fid'[a] /\ fid'[a] <= fids'
        BY <2>a, <2>4, <3>1, <3>3, Numbers DEF Stored
      <3> QED BY <3>2, <3>3, <3>4 DEF Stored
    <2>7. Recent'
      BY <1>0, <1>b, <2>1, <2>4 DEF Recent
    <2>8. UseInv'
      BY <1>0, <2>a, <2>1, <2>4, UsesKept
    <2> QED BY <1>b, <2>3, <2>5, <2>6, <2>7, <2>8 DEF UseInv
  <1>2. ASSUME NEW here \in {"take_y", "take_h"}, NEW axis \in Axes,
               NEW next \in FidPCs \ {"idle"},
               \/ here = "take_y" /\ axis = "y" /\ next = "show_x"
               \/ here = "take_h" /\ axis = "h" /\ next = "filter",
               UNCHANGED fids, FidTake(here, axis, next)
        PROVE  IInv'
    <2>1. /\ fpc # "idle" /\ fpc = here /\ fpc' = next /\ fpc' # "idle"
          /\ UNCHANGED <<foo, out, accepted, rejected>>
          /\ fid' = [fid EXCEPT ![axis] = fids]
      BY <1>2 DEF FidTake, judged
    <2>2. fid' \in [Axes -> Sources]
      BY <2>1 DEF TypeOK, Sources
    <2>3. TypeOK'
      BY <1>0, <1>2, <2>1, <2>2 DEF TypeOK
    <2>4. Handled' = Handled
      BY <1>2, <2>1 DEF Handled
    <2>5. Judged' /\ Flag'
      BY <2>1, <2>4 DEF Judged, Flag
    <2>6. Stored'
      <3>1. \A a \in Axes : fid'[a] = IF a = axis THEN fids ELSE fid[a]
        BY <2>1 DEF TypeOK
      <3>2. \A a \in Axes : Handled' <= fid'[a] /\ fid'[a] <= fids'
        BY <1>2, <2>1, <2>4, <3>1, Numbers DEF Stored, Handled
      <3> QED BY <1>2, <2>1, <3>1, <3>2 DEF Stored, Axes, FidPCs
    <2>7. Recent'
      BY <1>0, <1>b, <2>1, <2>4 DEF Recent
    <2>8. UseInv'
      BY <1>0, <1>2, <2>1, <2>4, UsesKept, Numbers
    <2> QED BY <1>b, <2>3, <2>5, <2>6, <2>7, <2>8 DEF UseInv
  <1>3. ASSUME NEW here \in FidPCs \ {"idle", "take_y"}, NEW axis \in Axes,
               NEW next \in FidPCs \ {"idle", "filter"}, FidShow(here, axis, next)
        PROVE  IInv'
    <2>1. /\ fpc = here /\ fpc # "idle" /\ fpc' = next /\ fpc' # "idle"
          /\ UNCHANGED <<foo, fid, accepted, rejected, fids>>
          /\ out' = [out EXCEPT ![axis] = fids]
      BY <1>3 DEF FidShow, judged
    <2>2. out' \in [Axes -> Sources]
      BY <2>1 DEF TypeOK, Sources
    <2>3. TypeOK'
      BY <1>0, <1>3, <2>1, <2>2 DEF TypeOK
    <2>4. Handled' = Handled /\ fids > Handled
      BY <2>1, Numbers DEF Handled
    <2>5. Judged' /\ Flag'
      BY <2>1, <2>4 DEF Judged, Flag
    <2>6. Stored'
      BY <1>3, <2>1, <2>4 DEF Stored
    <2>7. Recent'
      <3>1. fids > before
        BY <2>4, Numbers DEF Recent, Judged
      <3>2. \A a \in Done : out'[a] = IF a = axis THEN fids ELSE out[a]
        BY <2>1, DoneAxes DEF TypeOK
      <3> QED BY <1>0, <1>b, <2>1, <2>4, <3>1, <3>2 DEF Recent
    <2>8. UseInv'
      BY <1>0, <2>1, <2>4, UsesKept, Numbers
    <2> QED BY <1>b, <2>3, <2>5, <2>6, <2>7, <2>8 DEF UseInv
  <1>4. CASE FidFilter
    <2>1. /\ fpc = "filter" /\ fpc' = "idle" /\ UNCHANGED <<fid, out, fids>>
          /\ fids \in 1..MaxFid /\ Handled = fids - 1 /\ Handled' = fids
      BY <1>4 DEF FidFilter, Handled, TypeOK, Judged
    <2>2. PICK near \in BOOLEAN :
            /\ Filter(near)
            /\ accepted' = IF near THEN accepted \cup {fids} ELSE accepted
            /\ rejected' = IF near THEN rejected ELSE rejected \cup {fids}
      BY <1>4 DEF FidFilter
    <2>3. foo' \in 0..2 /\ accepted' \subseteq 1..MaxFid /\ rejected' \subseteq 1..MaxFid
      BY <2>1, <2>2 DEF Filter, TypeOK
    <2>4. TypeOK'
      BY <1>0, <2>1, <2>3 DEF TypeOK, FidPCs
    <2>5. Judged' /\ Flag'
      BY <2>1, <2>2 DEF Judged, Flag, Filter
    <2>6. Stored'
      <3>1. fid["x"] = fids /\ fid["y"] = fids /\ fid["h"] = fids
        BY <2>1 DEF Stored, FidPCs
      <3> QED BY <2>1, <3>1 DEF Stored, Axes, FidPCs
    <2>7. Recent'
      BY <1>0, <1>b, <2>1, Numbers DEF Recent
    <2>8. Past' /\ FiducialUsedOnce'
      BY <1>0, <2>1, <2>2, Numbers DEF Once, Past, FiducialUsedOnce
    <2>9. Fresh' /\ Own'
      <3>1. \A u \in used : NotAfter(u, fids)
        BY <2>1, Numbers DEF Once, Past, NotAfter
      <3> QED BY <1>0, <2>1, <2>2, <3>1 DEF Fresh, Own, NotAfter
    <2> QED BY <1>b, <2>4, <2>5, <2>6, <2>7, <2>8, <2>9 DEF Once
  <1>5. CASE UNCHANGED fids /\ FidTake("take_y", "y", "show_x")
    BY <1>5, <1>2 DEF Axes, FidPCs
  <1>6. CASE FidShow("show_x", "x", "show_y")
    BY <1>6, <1>3 DEF Axes, FidPCs
  <1>7. CASE FidShow("show_y", "y", "show_h")
    BY <1>7, <1>3 DEF Axes, FidPCs
  <1>8. CASE FidShow("show_h", "h", "take_h")
    BY <1>8, <1>3 DEF Axes, FidPCs
  <1>9. CASE UNCHANGED fids /\ FidTake("take_h", "h", "filter")
    BY <1>9, <1>2 DEF Axes, FidPCs
  <1> QED BY <1>1, <1>4, <1>5, <1>6, <1>7, <1>8, <1>9 DEF fid_callback

---------------------------------------------------------------------------
(* gps_callback touches the flag only, and what it overwrites is lost. *)

LEMMA GpsStep == ASSUME IInv, gps_callback PROVE IInv'
  <1> USE DEF IInv
  <1>0. /\ UNCHANGED <<fid, out, quat, fpc, opc, fids, odoms, accepted, rejected>>
        /\ UNCHANGED <<used, before, byGps>>
    BY DEF gps_callback, judged, seen
  <1>1. foo' = foo \/ foo' = 2
    BY DEF gps_callback
  <1>2. gpc' \in {"idle", "flag"} /\ gpss' \in 0..MaxGps
    BY BoundsAssumption DEF gps_callback, TypeOK
  <1>3. TypeOK'
    BY <1>0, <1>1, <1>2 DEF TypeOK
  <1>4. Judged' /\ Recent' /\ Branch' /\ Stored' /\ Flag'
    BY <1>0, <1>1 DEF Judged, Recent, Branch, Stored, Flag, Handled, Done, Turned
  <1>5. UseInv'
    BY <1>0, <1>1, UsesKept, Numbers DEF Handled
  <1> QED BY <1>3, <1>4, <1>5 DEF UseInv

---------------------------------------------------------------------------
(* odom_callback: the flag is cleared before the next message is tested. *)

OdomFrame == UNCHANGED <<fid, fpc, gpc, fids, gpss, accepted, rejected>>

LEMMA FidFrame ==
  ASSUME IInv, OdomFrame
  PROVE  Handled' = Handled /\ Judged' /\ Stored'
  BY DEF OdomFrame, IInv, Handled, Judged, Stored

\* A step that calculates an axis: Done grows by that axis.
LEMMA ApplyStep ==
  ASSUME IInv, OdomFrame, NEW here \in OdomPCs \ {"idle"}, NEW axis \in Axes,
         NEW next \in OdomPCs \ {"gps"}, Apply(here, axis, next),
         here \in Busy => next \in Busy, next \in Correcting => here \in Correcting,
         Done' \subseteq Done \cup {axis}, Turned' => Turned
  PROVE  IInv'
  <1> USE DEF IInv
  <1>0. /\ opc = here /\ opc' = next /\ out' = [out EXCEPT ![axis] = Odometry]
        /\ UNCHANGED <<foo, quat, odoms, used, before, byGps>>
    BY DEF Apply, Replaced, seen
  <1>1. out' \in [Axes -> Sources]
    BY <1>0 DEF TypeOK, Sources, Odometry
  <1>2. TypeOK'
    BY <1>0, <1>1 DEF TypeOK, OdomFrame
  <1>3. Handled' = Handled /\ Judged' /\ Stored' /\ Flag'
    BY <1>0, FidFrame DEF Flag, OdomFrame
  <1>4. UseInv'
    BY <1>0, <1>3, UsesKept, Numbers DEF OdomFrame
  <1>5. Recent'
    BY <1>0, <1>3, DoneAxes DEF Recent, TypeOK
  <1>6. Branch'
    BY <1>0 DEF Branch
  <1> QED BY <1>2, <1>3, <1>4, <1>5, <1>6 DEF UseInv

\* The heading that becomes the quaternion has been calculated.
LEMMA TurnStep ==
  ASSUME IInv, OdomFrame, NEW here \in {"quat", "plain_quat"},
         NEW next \in {"correct_x", "reset"},
         here = "quat" <=> next = "correct_x", TurnToQuat(here, next)
  PROVE  IInv'
  <1> USE DEF IInv
  <1>0. /\ opc = here /\ opc' = next /\ quat' = out["h"]
        /\ UNCHANGED <<foo, out, odoms, used, before, byGps>>
    BY DEF TurnToQuat, seen
  <1>1. "h" \in Axes /\ "h" \in Done /\ quat' \in Sources
    BY <1>0, Numbers DEF Done, Axes
  <1>2. TypeOK' /\ Branch'
    BY <1>0, <1>1 DEF TypeOK, OdomFrame, OdomPCs, Branch
  <1>3. Handled' = Handled /\ Judged' /\ Stored' /\ Flag'
    BY <1>0, FidFrame DEF Flag, OdomFrame
  <1>4. UseInv'
    BY <1>0, <1>3, UsesKept, Numbers DEF OdomFrame, Busy, Correcting
  <1>5. Done' \subseteq Done
    BY <1>0 DEF Done, Axes
  <1>6. Recent'
    BY <1>0, <1>1, <1>3, <1>5 DEF Recent
  <1> QED BY <1>2, <1>3, <1>4, <1>6 DEF UseInv

\* A step that uses a fiducial: the accepted one, or one that is under way.
LEMMA CorrectStep ==
  ASSUME IInv, OdomFrame, NEW axis \in Axes, NEW here, NEW next,
         \/ here = "correct_h" /\ next = "apply_h"
         \/ here = "correct_x" /\ next = "correct_y"
         \/ here = "correct_y" /\ next = "apply_x",
         Correct(here, axis, next)
  PROVE  IInv'
  <1> DEFINE use == [fid |-> fid[axis], odom |-> odoms, known |-> fid[axis] <= before]
  <1> USE DEF IInv
  <1>0. /\ opc = here /\ opc' = next /\ used' = used \cup {use}
        /\ UNCHANGED <<foo, out, quat, odoms, before, byGps>>
    BY DEF Correct
  <1>1. odoms \in 1..MaxOdom
    BY <1>0, Numbers DEF Branch
  <1>2. use \in Uses
    BY <1>1, Numbers DEF Uses
  <1>3. TypeOK' /\ Branch'
    BY <1>0, <1>2 DEF TypeOK, OdomFrame, OdomPCs, Branch
  <1>4. Handled' = Handled /\ Judged' /\ Stored' /\ Flag'
    BY <1>0, FidFrame DEF Flag, OdomFrame
  <1>a. /\ fid[axis] \in Int /\ before \in Int /\ Handled \in Int /\ before <= Handled
        /\ Handled <= fid[axis] /\ fid[axis] <= fids
    BY Numbers DEF Stored, Recent, Judged
  <1>5. /\ before <= use.fid /\ use.fid <= fids /\ use.odom = odoms
        /\ use.known <=> use.fid = before
        /\ use.fid \in Int /\ before \in Int /\ Handled \in Int /\ before <= Handled
    <2>1. use.fid = fid[axis] /\ use.odom = odoms /\ use.known = (fid[axis] <= before)
      OBVIOUS
    <2>2. (fid[axis] <= before) = (fid[axis] = before)
      BY <1>a
    <2> HIDE DEF use
    <2>3. use.known = (use.fid = before)
      BY <2>1, <2>2
    <2>4. use.known <=> use.fid = before
      BY <2>3, Zenon
    <2>5. /\ before <= use.fid /\ use.fid <= fids
          /\ use.fid \in Int /\ before \in Int /\ Handled \in Int /\ before <= Handled
      BY <1>a, <2>1
    <2> QED BY <2>1, <2>4, <2>5, Zenon
  <1>6. before \in accepted /\ \A u \in used : u.odom # odoms => NotAfter(u, before)
    BY <1>0 DEF Own, Correcting
  <1>7. Fresh' /\ Own'
    BY <1>0, <1>5, <1>6 DEF Fresh, Own, Busy, Correcting, NotAfter, OdomFrame
  <1>8. Past'
    BY <1>0, <1>4, <1>5, Numbers DEF Once, Past, OdomFrame
  <1>9. FiducialUsedOnce'
    <2> HIDE DEF use
    <2>1. \A u \in used : u.fid = use.fid /\ u.known = use.known => u.odom = use.odom
      BY <1>5, <1>6, Numbers DEF NotAfter
    <2>2. \A u \in used' : u.known => u.fid \in accepted'
      BY <1>0, <1>5, <1>6 DEF Once, FiducialUsedOnce, OdomFrame
    <2>3. \A u, v \in used' : u.fid = v.fid /\ u.known = v.known => u.odom = v.odom
      BY <1>0, <2>1 DEF Once, FiducialUsedOnce
    <2> QED BY <2>2, <2>3 DEF FiducialUsedOnce
  <1>10. Recent'
    <2>1. Done' = Done /\ Turned' = Turned
      BY <1>0 DEF Done, Turned
    <2> QED BY <1>0, <1>4, <2>1 DEF Recent
  <1> QED BY <1>3, <1>4, <1>7, <1>8, <1>9, <1>10 DEF Once

LEMMA OdomStep == ASSUME IInv, odom_callback PROVE IInv'
  <1> USE DEF IInv
  <1>0. OdomFrame
    BY DEF odom_callback, judged, OdomFrame
  <1>1. Handled' = Handled /\ Judged' /\ Stored' /\ UNCHANGED <<fids, accepted>>
    BY <1>0, FidFrame DEF OdomFrame
  <1>2. CASE OdomTake
    <2>1. /\ odoms' \in 0..MaxOdom /\ odoms' > 0 /\ opc = "idle" /\ opc' = "test"
          /\ UNCHANGED <<foo, out, quat, used, before, byGps>>
      BY <1>2, Numbers DEF OdomTake, seen
    <2>2. TypeOK' /\ Branch' /\ Flag'
      BY <1>0, <1>1, <2>1 DEF Branch, Flag, TypeOK, OdomPCs, OdomFrame
    <2>3. UseInv'
      BY <1>1, <2>1, UsesKept, Numbers DEF Busy, Correcting
    <2>4. Recent'
      BY <1>1, <2>1 DEF Recent, Done, Turned
    <2> QED BY <1>1, <2>2, <2>3, <2>4 DEF UseInv
  <1>3. CASE OdomTest
    <2>1. /\ opc = "test" /\ opc' \in {"correct_h", "elif"} /\ byGps' = FALSE
          /\ opc' = "correct_h" <=> foo = 1
          /\ before' = Handled
          /\ UNCHANGED <<foo, out, quat, used, odoms>>
      BY <1>3 DEF OdomTest, Handled
    <2>2. Handled \in 0..MaxFid
      BY Numbers DEF Handled, Judged
    <2>3. TypeOK' /\ Branch' /\ Flag'
      BY <1>0, <1>1, <2>1, <2>2 DEF Branch, Flag, TypeOK, OdomPCs, OdomFrame
    <2>4. Once'
      BY <1>1, <2>1, Numbers DEF Once, Past, FiducialUsedOnce
    <2>5. Fresh' /\ Own'
      BY <1>1, <2>1 DEF Fresh, Own, Flag, Busy, Correcting, NotAfter
    <2>6. Recent'
      BY <1>1, <2>1, <2>2 DEF Recent, Done, Turned
    <2> QED BY <1>1, <2>3, <2>4, <2>5, <2>6
  <1>4. CASE OdomElif
    <2>1. /\ opc = "elif" /\ opc' \in {"gps", "plain_x"} /\ byGps' \in BOOLEAN
          /\ opc' = "gps" => byGps'
          /\ UNCHANGED <<foo, out, quat, used, before, odoms>>
      BY <1>4 DEF OdomElif
    <2>2. TypeOK' /\ Branch' /\ Flag'
      BY <1>0, <1>1, <2>1 DEF Branch, Flag, TypeOK, OdomPCs, OdomFrame
    <2>3. UseInv'
      BY <1>1, <2>1, UsesKept, Numbers DEF Busy, Correcting
    <2>4. Recent'
      BY <1>1, <2>1 DEF Recent, Done, Turned
    <2> QED BY <1>1, <2>2, <2>3, <2>4 DEF UseInv
  <1>5. CASE \/ Correct("correct_h", "h", "apply_h")
             \/ Correct("correct_x", "x", "correct_y")
             \/ Correct("correct_y", "y", "apply_x")
    BY <1>0, <1>5, CorrectStep DEF Axes
  <1>6. CASE TurnToQuat("quat", "correct_x") \/ TurnToQuat("plain_quat", "reset")
    BY <1>0, <1>6, TurnStep
  <1>7. CASE Apply("apply_h", "h", "quat")
    <2>1. opc = "apply_h" /\ opc' = "quat" /\ byGps' = byGps
      BY <1>7 DEF Apply, seen
    <2>2. Done' \subseteq Done \cup {"h"} /\ (Turned' => Turned)
      BY <2>1 DEF Done, Turned, Axes
    <2> QED BY <1>0, <1>7, <2>2, ApplyStep DEF Axes, OdomPCs, Busy, Correcting
  <1>8. CASE Apply("apply_x", "x", "apply_y")
    <2>1. opc = "apply_x" /\ opc' = "apply_y" /\ byGps' = byGps
      BY <1>8 DEF Apply, seen
    <2>2. Done' \subseteq Done \cup {"x"} /\ (Turned' => Turned)
      BY <2>1 DEF Done, Turned, Axes
    <2> QED BY <1>0, <1>8, <2>2, ApplyStep DEF Axes, OdomPCs, Busy, Correcting
  <1>9. CASE Apply("apply_y", "y", "reset")
    <2>1. opc = "apply_y" /\ opc' = "reset" /\ byGps' = byGps
      BY <1>9 DEF Apply, seen
    <2>2. Done' \subseteq Done \cup {"y"} /\ (Turned' => Turned)
      BY <2>1 DEF Done, Turned, Axes
    <2> QED BY <1>0, <1>9, <2>2, ApplyStep DEF Axes, OdomPCs, Busy, Correcting
  <1>10. CASE Apply("gps", "x", "reset")
    <2>1. opc = "gps" /\ opc' = "reset" /\ byGps' = byGps
      BY <1>10 DEF Apply, seen
    <2>2. Done' \subseteq Done \cup {"x"} /\ (Turned' => Turned)
      BY <2>1 DEF Done, Turned, Axes, Branch
    <2> QED BY <1>0, <1>10, <2>2, ApplyStep DEF Axes, OdomPCs, Busy, Correcting
  <1>11. CASE Apply("plain_x", "x", "plain_y")
    <2>1. opc = "plain_x" /\ opc' = "plain_y" /\ byGps' = byGps
      BY <1>11 DEF Apply, seen
    <2>2. Done' \subseteq Done \cup {"x"} /\ (Turned' => Turned)
      BY <2>1 DEF Done, Turned, Axes
    <2> QED BY <1>0, <1>11, <2>2, ApplyStep DEF Axes, OdomPCs, Busy, Correcting
  <1>12. CASE Apply("plain_y", "y", "plain_h")
    <2>1. opc = "plain_y" /\ opc' = "plain_h" /\ byGps' = byGps
      BY <1>12 DEF Apply, seen
    <2>2. Done' \subseteq Done \cup {"y"} /\ (Turned' => Turned)
      BY <2>1 DEF Done, Turned, Axes
    <2> QED BY <1>0, <1>12, <2>2, ApplyStep DEF Axes, OdomPCs, Busy, Correcting
  <1>13. CASE Apply("plain_h", "h", "plain_quat")
    <2>1. opc = "plain_h" /\ opc' = "plain_quat" /\ byGps' = byGps
      BY <1>13 DEF Apply, seen
    <2>2. Done' \subseteq Done \cup {"h"} /\ (Turned' => Turned)
      BY <2>1 DEF Done, Turned, Axes
    <2> QED BY <1>0, <1>13, <2>2, ApplyStep DEF Axes, OdomPCs, Busy, Correcting
  <1>14. CASE OdomReset
    <2>1. /\ opc = "reset" /\ opc' = "publish" /\ foo' = 0
          /\ UNCHANGED <<out, quat, odoms, used, before, byGps>>
      BY <1>14 DEF OdomReset, ClearFlag, seen
    <2>2. TypeOK' /\ Branch' /\ Flag'
      BY <1>0, <1>1, <2>1 DEF Branch, Flag, TypeOK, OdomPCs, OdomFrame
    <2>3. UseInv'
      BY <1>1, <2>1, UsesKept, Numbers DEF Busy, Correcting
    <2>4. Recent'
      BY <1>1, <2>1 DEF Recent, Done, Turned
    <2> QED BY <1>1, <2>2, <2>3, <2>4 DEF UseInv
  <1>15. CASE Publish \/ tf_broadcast
    <2>1. /\ \/ opc = "publish" /\ opc' \in {"tf", "idle"}
             \/ opc = "tf" /\ opc' = "idle"
          /\ UNCHANGED <<foo, out, quat, odoms, used, before, byGps>>
      BY <1>15 DEF Publish, tf_broadcast, seen
    <2>2. TypeOK' /\ Branch' /\ Flag'
      BY <1>0, <1>1, <2>1 DEF Branch, Flag, TypeOK, OdomPCs, OdomFrame
    <2>3. UseInv'
      BY <1>1, <2>1, UsesKept, Numbers DEF Busy, Correcting
    <2>4. Recent'
      BY <1>1, <2>1 DEF Recent, Done, Turned
    <2> QED BY <1>1, <2>2, <2>3, <2>4 DEF UseInv
  <1> QED BY <1>2, <1>3, <1>4, <1>5, <1>6, <1>7, <1>8, <1>9, <1>10, <1>11, <1>12, <1>13,
             <1>14, <1>15 DEF odom_callback

---------------------------------------------------------------------------
(* The theorems. *)

LEMMA FusionInvariance == Spec => []IInv
  <1>1. IInv /\ [Next]_vars => IInv'
    <2>1. ASSUME IInv, UNCHANGED vars PROVE IInv'
      <3>1. TypeOK' /\ Judged' /\ Stored' /\ Flag' /\ Recent' /\ Branch'
        BY <2>1 DEF IInv, TypeOK, Judged, Stored, Flag, Recent, Branch, Handled, Done, Turned,
                    vars, counts, judged, seen
      <3>2. UseInv'
        BY <2>1, UsesKept, Numbers DEF IInv, Handled, vars, counts, judged, seen
      <3> QED BY <3>1, <3>2 DEF IInv, UseInv
    <2> QED BY <2>1, FidStep, GpsStep, OdomStep DEF Next
  <1> QED BY <1>1, InitHolds, PTL DEF Spec

\* Every variable of the three callbacks keeps to its set.
THEOREM FusionTypes == Spec => []TypeOK
  BY FusionInvariance, PTL DEF IInv

\* However the threads of the callbacks interleave, a fiducial that had been
\* judged when foo was tested (:191) corrects the odometry only if accepted, and
\* one odometry message at most: the flag is cleared (:222) and set again only
\* for a later fiducial, and no axis is older than the one it is set for.
THEOREM CorrectsOnce == Spec => []FiducialUsedOnce
  <1>1. IInv => FiducialUsedOnce
    BY DEF IInv, Once
  <1> QED BY <1>1, FusionInvariance, PTL

\* Without gps a raw pose that is sent out, as coordinates or as quaternion, is
\* that of a fiducial not yet judged when this odom_callback tested foo.
THEOREM RawIsRecent == Spec => []RawPoseIsRecent
  <1>1. IInv => RawPoseIsRecent
    BY DEF IInv, Recent, Done, Turned, RawPoseIsRecent
  <1> QED BY <1>1, FusionInvariance, PTL
=============================================================================
