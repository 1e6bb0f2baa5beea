----------------------- MODULE FiducialPipelineProofs -----------------------
(***************************************************************************)
(* Safety of FiducialPipeline, for any markers, images, map file, list of  *)
(* ignored markers and any patience.                                       *)
(***************************************************************************)
EXTENDS FiducialPipeline, TLAPS

Visible == Ids \ Ignored
Held(slot) == IF slot = None THEN 0 ELSE 1
Busy       == IF lpc = "idle" THEN 0 ELSE 1
UnderWay   == Held(vertices) + Held(work) + Held(transforms) + Busy

\* Where the markers of a message are between detection and the tf wait: all
\* visible while they are vertices, and the first one visible afterwards.
MarkerInv ==
    /\ vertices # None => Range(vertices) \subseteq Visible
    /\ work # None => Range(work) \subseteq Visible
    /\ outMsg # <<>> => outMsg[1] \in Visible
    /\ transforms \notin {None, <<>>} => transforms[1] \in Visible
    /\ target # None => target \in Visible

\* What the listener knows of the target was broadcast in this callback.
FreshInv ==
    /\ lpc # "idle" => target \in Frames
    /\ lpc # "idle" /\ target \in heard => fresh
    /\ lpc = "odom" => fresh

\* Each message under way may still give one pose.
LateInv ==
    /\ enabled => late = 0
    /\ late + UnderWay <= 4

LEMMA Distinct == /\ None \notin Frames /\ MapOdom \notin Frames /\ MapOdom # None
                  /\ Virtual \notin Ids /\ <<>> # None /\ None \notin Seq(Frames)
                  /\ Images \subseteq Seq(Ids) /\ MapFile \subseteq Ids /\ Patience \in Nat
<1>1. <<>> \in Seq(Frames)
  OBVIOUS
<1>2. None \notin Seq(Frames)
  BY PipelineAssumption DEF PipelineAssumption, Frames
<1> QED
  BY <1>1, <1>2, PipelineAssumption DEF PipelineAssumption, Frames

---------------------------------------------------------------------------
(* Types                                                                   *)

LEMMA InitTypes == Init => TypeOK
<1> SUFFICES ASSUME Init PROVE TypeOK
  OBVIOUS
<1> USE DEF Init, A!ArucoInit, E!EstimatorInit, L!LocalizationInit
<1>1. A!ArucoTypes(Ids)
  BY DEF A!ArucoTypes
<1>2. E!EstimatorTypes(Ids, Calibrations)
  BY DEF E!EstimatorTypes
<1>3. L!LocalizationTypes(Frames)
  BY DEF L!LocalizationTypes
<1>4. scene \in Seq(Ids) /\ waited \in 0..Patience
  BY Distinct
<1> QED
  BY <1>1, <1>2, <1>3, <1>4 DEF TypeOK

\* Taking entries out of a message leaves its entries.
LEMMA VerticesTypes ==
    ASSUME NEW img \in Seq(Ids)
    PROVE  /\ DOMAIN A!Vertices(img) \subseteq Nat
           /\ Range(A!Vertices(img)) \subseteq Visible
<1>1. /\ DOMAIN img \subseteq Nat
      /\ \A i \in DOMAIN img : img[i] \in Ids
  OBVIOUS
<1>2. DOMAIN A!Vertices(img) = {i \in DOMAIN img : img[i] \notin Ignored}
  BY DEF A!Vertices, A!Restrict
<1>3. \A i \in DOMAIN A!Vertices(img) : A!Vertices(img)[i] = img[i]
  BY <1>2 DEF A!Vertices, A!Restrict
<1> QED
  BY <1>1, <1>2, <1>3 DEF Range, Visible

LEMMA RestTypes ==
    ASSUME NEW v, NEW i
    PROVE  /\ DOMAIN E!Rest(v, i) \subseteq DOMAIN v
           /\ Range(E!Rest(v, i)) \subseteq Range(v)
  BY DEF E!Rest, E!Restrict, Range

LEMMA HearTypes ==
    ASSUME L!LocalizationTypes(Frames), NEW f \in Frames \cup {MapOdom},
           L!Hear(f), UNCHANGED <<lpc, target, connected>>
    PROVE  L!LocalizationTypes(Frames)'
  BY DEF L!LocalizationTypes, L!Hear

LEMMA WorldTypes == TypeOK /\ World => TypeOK'
<1> SUFFICES ASSUME TypeOK, World PROVE TypeOK'
  OBVIOUS
<1> USE DEF TypeOK, worldVars, arucoVars, estimatorVars, localizationVars, notes
<1>1. CASE Grab
  <2>1. scene' \in Seq(Ids)
    BY <1>1, Distinct DEF Grab
  <2>2. A!ArucoTypes(Ids)'
    BY <1>1, <2>1 DEF Grab, A!ArucoTypes, A!Range
  <2>3. E!EstimatorTypes(Ids, Calibrations)'
    BY <1>1 DEF Grab, E!EstimatorTypes, E!Range, E!Estimates
  <2> QED
    BY <1>1, <2>1, <2>2, <2>3 DEF Grab, L!LocalizationTypes
<1>2. CASE CameraDies \/ AmclStarts
  BY <1>2 DEF CameraDies, AmclStarts, A!ArucoTypes, E!EstimatorTypes, A!Range,
              E!Range, E!Estimates, L!LocalizationTypes
<1>3. CASE AmclBroadcasts
  BY <1>3, HearTypes
     DEF AmclBroadcasts, A!ArucoTypes, E!EstimatorTypes, A!Range, E!Range, E!Estimates
<1>4. CASE OtherCamera
  BY <1>4, HearTypes
     DEF OtherCamera, Broadcast, A!ArucoTypes, E!EstimatorTypes, A!Range, E!Range,
         E!Estimates
<1> QED
  BY <1>1, <1>2, <1>3, <1>4 DEF World

LEMMA DetectTypes == TypeOK /\ Detect => TypeOK'
<1> SUFFICES ASSUME TypeOK, Detect PROVE TypeOK'
  OBVIOUS
<1> USE DEF TypeOK, worldVars, arucoVars, estimatorVars, localizationVars, notes
<1>1. E!EstimatorTypes(Ids, Calibrations)' /\ L!LocalizationTypes(Frames)'
  BY DEF Detect, E!EstimatorTypes, E!Range, E!Estimates, L!LocalizationTypes
<1>2. late' \in Nat /\ scene' \in Seq(Ids) /\ waited' \in 0..Patience
  BY DEF Detect
<1>3. A!ArucoTypes(Ids)'
  <2>1. CASE A!imageCallback
    <3>1. image \in Seq(Ids)
      BY <2>1 DEF A!imageCallback, A!ArucoTypes
    <3> QED
      BY <2>1, <3>1, VerticesTypes
         DEF A!imageCallback, A!ArucoTypes, A!Range, Range, Visible
  <2>2. CASE A!Crash
    BY <2>2 DEF A!Crash, A!ArucoTypes, A!Range
  <2>3. ASSUME NEW data \in BOOLEAN, A!enableDetectionsCallback(data)
        PROVE  A!ArucoTypes(Ids)'
    BY <2>3 DEF A!enableDetectionsCallback, A!ArucoTypes, A!Range
  <2>4. CASE A!Respawn
    BY <2>4 DEF A!Respawn, A!ArucoTypes, A!Range
  <2> QED
    BY <2>1, <2>2, <2>3, <2>4 DEF Detect
<1> QED
  BY <1>1, <1>2, <1>3 DEF Detect

\* One estimate: it is put at the end of the message.
LEMMA EstimatePoseTypes ==
    ASSUME E!EstimatorTypes(Ids, Calibrations), NEW f \in Frames, E!estimatePose(f)
    PROVE  E!EstimatorTypes(Ids, Calibrations)'
<1>1. Append(outMsg, f) \in Seq(Frames)
  BY DEF E!EstimatorTypes, E!Estimates, Frames
<1>2. work' # None => DOMAIN work' \subseteq Nat /\ Range(work') \subseteq Ids
  <2>1. CASE work' = work
    BY <2>1 DEF E!estimatePose, E!EstimatorTypes, E!Range, Range
  <2>2. ASSUME NEW i, work' = E!Rest(work, i)
        PROVE  DOMAIN work' \subseteq Nat /\ Range(work') \subseteq Ids
    <3>1. DOMAIN work' \subseteq DOMAIN work /\ Range(work') \subseteq Range(work)
      BY <2>2, RestTypes
    <3>2. DOMAIN work \subseteq Nat /\ Range(work) \subseteq Ids
      BY DEF E!estimatePose, E!EstimatorTypes, E!Range, Range
    <3> QED
      BY <3>1, <3>2
  <2> QED
    BY <2>1, <2>2 DEF E!estimatePose
<1> QED
  BY <1>1, <1>2 DEF E!estimatePose, E!EstimatorTypes, E!Estimates, E!Range, Range, Frames

LEMMA EstimateTypes == TypeOK /\ Estimate => TypeOK'
<1> SUFFICES ASSUME TypeOK, Estimate PROVE TypeOK'
  OBVIOUS
<1> USE DEF TypeOK, worldVars, arucoVars, estimatorVars, localizationVars, notes
<1>1. late' \in Nat /\ scene' \in Seq(Ids) /\ camera' \in BOOLEAN /\ amcl' \in BOOLEAN
      /\ intrinsics' \in Calibrations
  BY DEF Estimate
<1>2. CASE /\ E!camInfoCallback \/ E!verticesCallback \/ E!clearCallback
           /\ UNCHANGED <<heard, fresh, waited>>
  <2>1. A!ArucoTypes(Ids)' /\ L!LocalizationTypes(Frames)'
    BY <1>2 DEF Estimate, E!camInfoCallback, E!verticesCallback, E!clearCallback,
       A!ArucoTypes, A!Range, L!LocalizationTypes
  <2>2. E!EstimatorTypes(Ids, Calibrations)'
    <3>1. CASE E!camInfoCallback
      BY <3>1 DEF E!camInfoCallback, E!EstimatorTypes, E!Range, E!Estimates
    <3>2. CASE E!verticesCallback
      BY <3>2 DEF E!verticesCallback, E!EstimatorTypes, E!Range, E!Estimates,
         A!ArucoTypes, A!Range
    <3>3. CASE E!clearCallback
      BY <3>3 DEF E!clearCallback, E!EstimatorTypes, E!Range, E!Estimates
    <3> QED
      BY <1>2, <3>1, <3>2, <3>3
  <2> QED
    BY <1>1, <1>2, <2>1, <2>2
<1>3. ASSUME NEW fid \in Frames, E!estimatePose(fid),
             IF E!Finite THEN Broadcast(fid) ELSE UNCHANGED <<heard, fresh>>,
             UNCHANGED waited
      PROVE  TypeOK'
  <2>1. E!EstimatorTypes(Ids, Calibrations)'
    BY <1>3, EstimatePoseTypes
  <2>2. L!LocalizationTypes(Frames)'
    BY <1>3, HearTypes DEF Estimate, Broadcast, L!LocalizationTypes
  <2>3. A!ArucoTypes(Ids)'
    BY <1>3 DEF Estimate, E!estimatePose, A!ArucoTypes, A!Range
  <2>4. fresh' \in BOOLEAN
    BY <1>3 DEF Broadcast
  <2> QED
    BY <1>1, <1>3, <2>1, <2>2, <2>3, <2>4
<1>4. CASE /\ E!publish
           /\ waited' = IF lpc = "fid" /\ connected /\ waited < Patience
                        THEN waited + 1 ELSE waited
           /\ UNCHANGED <<heard, fresh>>
  <2>1. E!EstimatorTypes(Ids, Calibrations)'
    BY <1>4 DEF E!publish, E!EstimatorTypes, E!Range, E!Estimates
  <2>2. L!LocalizationTypes(Frames)' /\ A!ArucoTypes(Ids)'
    BY <1>4 DEF Estimate, E!publish, A!ArucoTypes, A!Range, L!LocalizationTypes
  <2>3. waited' \in 0..Patience
    BY <1>4, Distinct
  <2> QED
    BY <1>1, <1>4, <2>1, <2>2, <2>3
<1> QED
  BY <1>2, <1>3, <1>4 DEF Estimate

LEMMA LocalizeTypes == TypeOK /\ Localize => TypeOK'
<1> SUFFICES ASSUME TypeOK, Localize PROVE TypeOK'
  OBVIOUS
<1> USE DEF TypeOK, worldVars, arucoVars, estimatorVars, localizationVars, notes
<1>1. A!ArucoTypes(Ids)'
  BY DEF Localize, A!ArucoTypes, A!Range
<1>2. fresh' \in BOOLEAN /\ waited' \in 0..Patience /\ late' \in Nat
  <2>1. fresh' \in {fresh, FALSE} /\ waited' \in {waited, 0}
    BY DEF Localize, Forget
  <2>2. late' \in {late, 0, late + 1}
    BY DEF Localize
  <2>3. fresh' \in BOOLEAN
    BY <2>1, Zenon
  <2>4. waited' \in 0..Patience /\ late' \in Nat
    BY <2>1, <2>2, Distinct
  <2> QED
    BY <2>3, <2>4
<1>3. transforms' \in {transforms, None} /\ L!LocalizationTypes(Frames)'
  <2>1. CASE L!TakeMessage
    <3>1. CASE transforms = <<>>
      BY <2>1, <3>1 DEF L!TakeMessage, L!localizationVars, L!LocalizationTypes
    <3>2. CASE transforms # <<>>
      <4>1. Head(transforms) \in Frames
        BY <2>1, <3>2 DEF L!TakeMessage, E!EstimatorTypes, E!Estimates, Frames
      <4> QED
        BY <2>1, <3>2, <4>1 DEF L!TakeMessage, L!NewListener, L!LocalizationTypes
    <3> QED
      BY <3>1, <3>2
  <2>2. CASE L!Connect \/ L!HaveFiducial
    BY <2>2 DEF L!Connect, L!HaveFiducial, L!LocalizationTypes
  <2>3. CASE L!Return
    BY <2>3 DEF L!Return, L!NewListener, L!LocalizationTypes
  <2> QED
    BY <2>1, <2>2, <2>3
       DEF Localize, L!NotInMap, L!FiducialTimeout, L!OdomTimeout, L!PublishPose
<1>4. E!EstimatorTypes(Ids, Calibrations)'
  BY <1>3 DEF Localize, E!EstimatorTypes, E!Range, E!Estimates
<1> QED
  BY <1>1, <1>2, <1>3, <1>4 DEF Localize

LEMMA StepTypes == TypeOK /\ [Next]_vars => TypeOK'
<1>1. TypeOK /\ UNCHANGED vars => TypeOK'
  BY DEF vars, TypeOK, worldVars, arucoVars, estimatorVars, localizationVars, notes,
     A!ArucoTypes, A!Range, E!EstimatorTypes, E!Range, E!Estimates, L!LocalizationTypes
<1> QED
  BY <1>1, WorldTypes, DetectTypes, EstimateTypes, LocalizeTypes DEF Next

\* The variables of the four nodes keep to their sets.
THEOREM PipelineTypes == Spec => []TypeOK
  BY InitTypes, StepTypes, PTL DEF Spec

---------------------------------------------------------------------------
(* The marker that is followed                                             *)

LEMMA InitMarker == Init => MarkerInv
  BY DEF Init, MarkerInv, A!ArucoInit, E!EstimatorInit, L!LocalizationInit

\* The first entry of outMsg is a marker's: the virtual fiducial comes when
\* there is one already.
LEMMA EstimateMarker ==
    ASSUME TypeOK, MarkerInv, NEW f \in Frames, E!estimatePose(f)
    PROVE  /\ work' # None => Range(work') \subseteq Visible
           /\ outMsg'[1] \in Visible
<1>1. outMsg \in Seq(Frames) /\ outMsg' = Append(outMsg, f)
  BY DEF E!estimatePose, TypeOK, E!EstimatorTypes, E!Estimates, Frames
<1>2. outMsg = <<>> => outMsg'[1] = f
  BY <1>1
<1>3. outMsg # <<>> => outMsg'[1] = outMsg[1]
  BY <1>1
<1>4. Range(work) \subseteq Visible
  BY DEF E!estimatePose, MarkerInv
<1>5. ASSUME NEW i \in DOMAIN work, f = work[i], work' = E!Rest(work, i)
      PROVE  Range(work') \subseteq Visible /\ f \in Visible
  <2>1. Range(work') \subseteq Range(work)
    BY <1>5, RestTypes
  <2> QED
    BY <1>4, <1>5, <2>1 DEF Range
<1>6. ASSUME E!VirtualDue PROVE outMsg # <<>>
  <2>1. PICK x : x \in E!Range(outMsg)
    BY <1>6 DEF E!VirtualDue
  <2>2. DOMAIN outMsg # {}
    BY <2>1 DEF E!Range
  <2> QED
    BY <1>1, <2>2
<1> QED
  BY <1>2, <1>3, <1>4, <1>5, <1>6 DEF E!estimatePose, MarkerInv

LEMMA StepMarker == TypeOK /\ MarkerInv /\ [Next]_vars => MarkerInv'
<1> SUFFICES ASSUME TypeOK, MarkerInv, [Next]_vars PROVE MarkerInv'
  OBVIOUS
<1> USE DEF worldVars, arucoVars, estimatorVars, localizationVars, notes
<1>1. CASE World
  BY <1>1 DEF World, Grab, CameraDies, AmclStarts, AmclBroadcasts, OtherCamera,
     MarkerInv, Range
<1>2. CASE Detect
  <2>1. CASE A!imageCallback
    <3>1. image \in Seq(Ids)
      BY <2>1 DEF A!imageCallback, TypeOK, A!ArucoTypes
    <3>2. vertices' # None => Range(vertices') \subseteq Visible
      BY <2>1, <3>1, VerticesTypes DEF A!imageCallback, MarkerInv
    <3> QED
      BY <1>2, <3>2 DEF Detect, MarkerInv, Range
  <2>2. CASE UNCHANGED vertices
    BY <1>2, <2>2 DEF Detect, MarkerInv, Range
  <2> QED
    BY <1>2, <2>1, <2>2
       DEF Detect, A!Crash, A!enableDetectionsCallback, A!Respawn
<1>3. CASE Estimate
  <2>1. CASE E!camInfoCallback \/ E!clearCallback
    BY <1>3, <2>1 DEF Estimate, E!camInfoCallback, E!clearCallback, MarkerInv, Range
  <2>2. CASE E!verticesCallback
    <3>1. Range(<<>>) = {}
      BY DEF Range
    <3>2. work' # None => Range(work') \subseteq Visible
      BY <2>2, <3>1 DEF E!verticesCallback, MarkerInv
    <3> QED
      BY <1>3, <2>2, <3>2 DEF Estimate, E!verticesCallback, MarkerInv
  <2>3. ASSUME NEW f \in Frames, E!estimatePose(f) PROVE MarkerInv'
    BY <1>3, <2>3, EstimateMarker DEF Estimate, E!estimatePose, MarkerInv, Range
  <2>4. CASE E!publish
    BY <1>3, <2>4 DEF Estimate, E!publish, MarkerInv, Range
  <2> QED
    BY <1>3, <2>1, <2>2, <2>3, <2>4 DEF Estimate
<1>4. CASE Localize
  <2>1. CASE L!TakeMessage
    <3>1. CASE transforms = <<>>
      BY <1>4, <2>1, <3>1, Distinct
         DEF Localize, L!TakeMessage, L!localizationVars, MarkerInv, Range
    <3>2. CASE transforms # <<>>
      <4>1. Head(transforms) = transforms[1] /\ transforms[1] \in Visible
        BY <2>1, <3>2 DEF L!TakeMessage, MarkerInv, TypeOK, E!EstimatorTypes
      <4> QED
        BY <1>4, <2>1, <3>2, <4>1 DEF Localize, L!TakeMessage, MarkerInv, Range
    <3> QED
      BY <3>1, <3>2
  <2>2. CASE L!Connect \/ L!HaveFiducial \/ L!Return
    BY <1>4, <2>2 DEF Localize, L!Connect, L!HaveFiducial, L!Return, MarkerInv, Range
  <2> QED
    BY <1>4, <2>1, <2>2
       DEF Localize, L!NotInMap, L!FiducialTimeout, L!OdomTimeout, L!PublishPose
<1>5. CASE UNCHANGED vars
  BY <1>5 DEF vars, MarkerInv, Range
<1> QED
  BY <1>1, <1>2, <1>3, <1>4, <1>5 DEF Next

\* fiducial_localization never waits for an ignored marker or for the virtual
\* fiducial.
THEOREM MarkerFollowed == Spec => []FollowsMarker
<1>1. MarkerInv => FollowsMarker
  BY DEF MarkerInv, FollowsMarker, Visible
<1> QED
  BY <1>1, InitTypes, StepTypes, InitMarker, StepMarker, PTL DEF Spec

---------------------------------------------------------------------------
(* The transform that is used                                              *)

LEMMA InitFresh == Init => FreshInv
  BY DEF Init, FreshInv, L!LocalizationInit

\* A broadcast of the target makes it fresh, any other leaves it unknown.
LEMMA BroadcastFresh ==
    ASSUME FreshInv, NEW f \in Frames, Broadcast(f), UNCHANGED <<lpc, target>>
    PROVE  FreshInv'
  BY DEF FreshInv, Broadcast, L!Hear

LEMMA StepFresh == TypeOK /\ FreshInv /\ [Next]_vars => FreshInv'
<1> SUFFICES ASSUME TypeOK, FreshInv, [Next]_vars PROVE FreshInv'
  OBVIOUS
<1> USE DEF worldVars, arucoVars, estimatorVars, localizationVars, notes
<1>1. CASE UNCHANGED <<localizationVars, fresh>>
  BY <1>1 DEF FreshInv
<1>2. CASE World
  <2>1. CASE AmclBroadcasts
    BY <2>1, Distinct DEF AmclBroadcasts, L!Hear, FreshInv
  <2>2. CASE OtherCamera
    BY <2>2, BroadcastFresh DEF OtherCamera
  <2> QED
    BY <1>1, <1>2, <2>1, <2>2 DEF World, Grab, CameraDies, AmclStarts
<1>3. CASE Detect
  BY <1>1, <1>3 DEF Detect
<1>4. CASE Estimate
  <2>1. ASSUME NEW f \in Frames,
               IF E!Finite THEN Broadcast(f) ELSE UNCHANGED <<heard, fresh>>
        PROVE  FreshInv'
    BY <1>1, <1>4, <2>1, BroadcastFresh DEF Estimate
  <2> QED
    BY <1>1, <1>4, <2>1 DEF Estimate
<1>5. CASE Localize
  <2>1. CASE L!TakeMessage
    <3>1. CASE transforms = <<>>
      BY <1>5, <2>1, <3>1 DEF Localize, L!TakeMessage, L!localizationVars, FreshInv
    <3>2. CASE transforms # <<>>
      <4>1. Head(transforms) \in Frames
        BY <2>1, <3>2
           DEF L!TakeMessage, TypeOK, E!EstimatorTypes, E!Estimates, Frames
      <4> QED
        BY <2>1, <3>2, <4>1 DEF L!TakeMessage, L!NewListener, FreshInv
    <3> QED
      BY <3>1, <3>2
  <2>2. CASE L!Connect /\ UNCHANGED notes
    BY <2>2 DEF L!Connect, FreshInv
  <2>3. CASE L!HaveFiducial /\ UNCHANGED fresh
    BY <2>3 DEF L!HaveFiducial, FreshInv
  <2>4. CASE L!Return
    BY <2>4 DEF L!Return, FreshInv
  <2> QED
    BY <1>5, <2>1, <2>2, <2>3, <2>4
       DEF Localize, L!NotInMap, L!FiducialTimeout, L!OdomTimeout, L!PublishPose
<1>6. CASE UNCHANGED vars
  BY <1>1, <1>6 DEF vars
<1> QED
  BY <1>2, <1>3, <1>4, <1>5, <1>6 DEF Next

\* Every pose rests on a transform broadcast after its message was taken.
THEOREM TransformIsFresh == Spec => []FreshTransform
<1>1. FreshInv => FreshTransform
  BY DEF FreshInv, FreshTransform
<1> QED
  BY <1>1, InitTypes, StepTypes, InitFresh, StepFresh, PTL DEF Spec

---------------------------------------------------------------------------
(* Poses after detection is disabled                                       *)

LEMMA InitLate == Init => LateInv
  BY DEF Init, LateInv, UnderWay, Held, Busy, A!ArucoInit, E!EstimatorInit,
     L!LocalizationInit

\* What may only shrink keeps the bound.
LEMMA FewerUnderWay ==
    ASSUME TypeOK, LateInv, UnderWay' <= UnderWay, late' \in {late, 0},
           enabled' => enabled \/ late' = 0
    PROVE  LateInv'
<1>1. late \in Nat /\ UnderWay \in 0..4 /\ UnderWay' \in 0..4
  BY DEF TypeOK, UnderWay, Held, Busy
<1>2. late + UnderWay <= 4 /\ (enabled => late = 0)
  BY DEF LateInv
<1>3. late' + UnderWay' <= 4
  <2>1. \A l, k \in Nat, u, v \in 0..4 :
            v <= u /\ k \in {l, 0} /\ l + u <= 4 => k + v <= 4
    OBVIOUS
  <2>2. late' \in Nat
    BY <1>1
  <2> QED
    BY <1>1, <1>2, <2>1, <2>2
<1>4. enabled' => late' = 0
  BY <1>2
<1> QED
  BY <1>3, <1>4 DEF LateInv

LEMMA StepLate == TypeOK /\ LateInv /\ [Next]_vars => LateInv'
<1> SUFFICES ASSUME TypeOK, LateInv, [Next]_vars PROVE LateInv'
  OBVIOUS
<1> USE DEF worldVars, arucoVars, estimatorVars, localizationVars, notes
<1>1. late \in Nat
  BY DEF TypeOK
<1>2. CASE UNCHANGED <<vertices, work, transforms, lpc, late, enabled>>
  BY <1>2 DEF LateInv, UnderWay, Held, Busy
<1>3. CASE World
  BY <1>2, <1>3 DEF World, Grab, CameraDies, AmclStarts, AmclBroadcasts, OtherCamera
<1>4. CASE Detect
  <2>1. CASE A!imageCallback /\ enabled
    \* A message more, but late is 0.
    BY <1>4, <2>1 DEF Detect, A!imageCallback, LateInv, UnderWay, Held, Busy
  <2>2. CASE A!imageCallback /\ ~enabled
    BY <1>2, <1>4, <2>2
       DEF Detect, A!imageCallback, A!enableDetectionsCallback, A!Respawn
  <2>3. CASE UNCHANGED vertices
    <3>1. UnderWay' = UnderWay
      BY <1>4, <2>3 DEF Detect, UnderWay, Held, Busy
    <3>2. late' \in {late, 0} /\ (enabled' => enabled \/ late' = 0)
      BY <1>4, <2>3
         DEF Detect, A!imageCallback, A!Crash, A!enableDetectionsCallback, A!Respawn
    <3>3. UnderWay \in 0..4
      BY DEF UnderWay, Held, Busy
    <3> QED
      BY <3>1, <3>2, <3>3, FewerUnderWay
  <2> QED
    BY <1>4, <2>1, <2>2, <2>3
       DEF Detect, A!Crash, A!enableDetectionsCallback, A!Respawn
<1>5. CASE Estimate
  <2>1. UnderWay' <= UnderWay
    <3>1. CASE E!camInfoCallback \/ E!clearCallback
      BY <1>5, <3>1
         DEF Estimate, E!camInfoCallback, E!clearCallback, UnderWay, Held, Busy
    <3>2. CASE E!verticesCallback
      BY <1>5, <3>2, Distinct DEF Estimate, E!verticesCallback, UnderWay, Held, Busy
    <3>3. ASSUME NEW f \in Frames, E!estimatePose(f) PROVE UnderWay' <= UnderWay
      BY <1>5, <3>3 DEF Estimate, E!estimatePose, UnderWay, Held, Busy
    <3>4. CASE E!publish
      BY <1>5, <3>4, Distinct DEF Estimate, E!publish, UnderWay, Held, Busy
    <3> QED
      BY <1>5, <3>1, <3>2, <3>3, <3>4 DEF Estimate
  <2> QED
    BY <1>5, <2>1, FewerUnderWay DEF Estimate
<1>6. CASE Localize
  <2>1. UNCHANGED <<vertices, work, enabled>>
    BY <1>6 DEF Localize
  <2>2. CASE L!PublishPose /\ late' = IF enabled THEN 0 ELSE late + 1
    BY <1>1, <2>1, <2>2
       DEF L!PublishPose, L!Return, LateInv, UnderWay, Held, Busy
  <2>3. CASE UNCHANGED late
    <3>1. UnderWay' <= UnderWay
      <4>1. CASE L!TakeMessage
        BY <2>1, <4>1 DEF L!TakeMessage, L!localizationVars, UnderWay, Held, Busy
      <4>2. CASE L!Connect \/ L!HaveFiducial \/ L!Return
        BY <2>1, <4>2 DEF L!Connect, L!HaveFiducial, L!Return, UnderWay, Held, Busy
      <4> QED
        BY <1>6, <4>1, <4>2
           DEF Localize, L!NotInMap, L!FiducialTimeout, L!OdomTimeout, L!PublishPose
    <3> QED
      BY <2>1, <2>3, <3>1, FewerUnderWay
  <2> QED
    BY <1>6, <2>2, <2>3 DEF Localize
<1>7. CASE UNCHANGED vars
  BY <1>2, <1>7 DEF vars
<1> QED
  BY <1>3, <1>4, <1>5, <1>6, <1>7 DEF Next

\* At most four poses come after detection was disabled.
THEOREM LatePosesFew == Spec => []FewLatePoses
<1>1. TypeOK /\ LateInv => FewLatePoses
  BY DEF TypeOK, LateInv, FewLatePoses, UnderWay, Held, Busy
<1> QED
  BY <1>1, InitTypes, StepTypes, InitLate, StepLate, PTL DEF Spec
=============================================================================
