# A verification project for proj515_ws

`proj515_ws` is the ROS workspace of a tour-guide robot: it finds its place from fiducial
markers and wheel odometry, drives from waypoint to waypoint with `move_base`, and plays a talk
at each stop. The modules here model the parts of it that keep state and interact, TLC checks
them on small instances, and TLAPS proves the main safety properties for every value of the
constants. Paths below are relative to `src/src/`.

## 1. Inventory

| Component | Source | State | Operations | Status |
|---|---|---|---|---|
| waypoint_navigation | `waypoint_navigation/src/waypoint_navigation.cpp` | the chosen file, the waypoint loop (index, visited slots, attempts, aborts), two clocks, the pose, the flags set by callbacks | constructor, `loadWaypoints`, `destinationUpdate`, three callbacks run by `spinOnce` | modelled |
| move_base and its action client | not in the workspace | last goal, the client's view of it, what the base really does | send, cancel, accept, reject, succeed, abort, crash, restart | modelled (external) |
| audio_player | `audio_player/src/audio_player.py` | the VLC player, the loop that watches it | `callback` with the polling loop in it, `audio_state` | modelled |
| fiducial_slam, class `Map` | `fiducial_slam/src/map.cpp`, `fiducial_slam.cpp` | the map (fixed poses, links), `originFid`, `isInitializingMap`, frame count, `havePose`, the tf to send | `loadMap`, `autoInit`, `updatePose`, `updateMap`, `update`, `clearCallback` | partly |
| sensor_fusion | `sensor_fusion/src/sensor_fusion.py` | a dozen globals shared by three callback threads | `fid_callback`, `odom_callback`, `gps_callback`, `tf_broadcast` | modelled |
| range_sensor_layer | `range_sensor_layer/src/range_sensor_layer.cpp` | buffer of readings, bounds, grid, `enabled_`, `current_` | two callbacks; `updateBounds`, `updateCosts` called by the costmap | partly |
| fiducial_slam, `Estimator`, vertices mode | `fiducial_slam/src/estimator.cpp` | the camera matrix it has kept, the vertices of one callback, `rvecHistory` | `camInfoCallback`, `estimatePoses`, `verticesCallback` | partly (geometry left out) |
| aruco_detect | `aruco_detect/src/aruco_detect.cpp` | `enable_detections`, ignore list, camera-info latch, length overrides | `imageCallback`, `enableDetectionsCallback`, respawn | partly |
| fiducial_localization | `fiducial_localization/src/fiducial_localization.cpp` | the map read at start, the listener of one callback | one callback with two waits for tf | modelled |
| camera nodes | `cam_rect_pub/src/cam_pub.cpp` and others | the device | grab, publish | partly (a source of images that may die) |
| odom_path_saver, joystick and plot scripts, marker and map tools, messages, launch files | see `PROJECT.json` | none, or a file | conversions, file and device I/O | not modelled |

How they interact. The operator publishes `/waypoint_file` and `/navigation_enable`;
waypoint_navigation drives `move_base` through an action client (a thread of its own), triggers
the audio player over `/audio_trigger` and waits for `Ended` on `/audio_status`; it reads the pose
from tf. In each of the two camera chains a camera node sends camera info and images, `aruco_detect`
sends the vertices of the markers, `fiducial_slam` (with `do_pose_estimation`) estimates and
broadcasts a transform for each and publishes the array, and `fiducial_localization` asks tf for the
first of them and publishes the pose that its map file gives. `sensor_fusion` merges that pose with
wheel odometry into `fused_odom` and odom -> base. In its other mode `fiducial_slam` takes transforms,
keeps a map of its own and broadcasts map -> odom. `range_sensor_layer` is a plugin of `move_base`'s
costmaps.

What is hard. The client's state changes between any two statements of the tour's thread, and `spinOnce`
is only called in some loops, so messages wait. Status messages of one clip may be read during the next.
move_base may die. `clear_map` may fall into an initialisation. The three callbacks of sensor_fusion
interleave assignment by assignment. The range layer shares a buffer and unprotected flags between two
threads. In the camera chain every queue holds one message, a transform is broadcast before the message
that names it, the last node listens only from the moment it needs it, and detection is enabled,
disabled and respawned meanwhile. The properties that make each component correct are those of section
4; `PROJECT.json` lists the hazards line by line, with the properties that cover them.

## 2. Plan

1. The tour (`MoveBase`, `WaypointNavigation`, `NavigationProperties`), its abstract specification
   `Tour`, the player (`AudioPlayer`), and both joined (`TourSystem`). *Done.*
2. The map (`FiducialMap`) and its abstract specification `SurveyNet`. *Done.*
3. Obstacles and fusion: `SensorFusion`, `RangeSensorLayer` (with a rolling map). *Done.*
4. The camera chain: `ArucoDetect`, `PoseEstimator`, `FiducialLocalization`, joined in
   `FiducialPipeline`. *Done.*
5. Proofs about the compositions: the safety of `TourSystem` and of `FiducialPipeline`. *Done.*
6. What the joined parts promise: `GuidedTour` for both nodes of the tour, `ReadingFlow` for the range
   layer, with the refinements proved. *Done.*
7. Left: new thresholds of the range layer while it runs (the classes of all cells change at once);
   the chain continued into `SensorFusion`, whose input it is.

## 3. Modules and the code

| Module | Models |
|---|---|
| `MoveBase` | the action server and client as the node sees them: `goal` is the server's knowledge of the last goal, `view` what `getState()` returns, `exec` the waypoint the base is really driven to (an earlier goal stays alive until another is accepted) |
| `WaypointNavigation` | the tour's thread; `pc` names the place in the constructor or in `destinationUpdate`, one action per stretch between two reads of shared state; queues of length 1 hold messages until `spinOnce` |
| `NavigationProperties` | what is expected of the node, the fairness, the mapping to `Tour` |
| `Tour` | the abstract specification: stops of one plan, once each, in order unless random, no motion during a talk |
| `GuidedTour` | the abstract specification of both nodes together: a `Tour` with talks one can hear, each once, where the base stands, and to its end before the tour goes on |
| `AudioPlayer`, `TourSystem` | the player's callback and polling loop, with libvlc as environment; both nodes joined by their topics |
| `FiducialMap` | class `Map`: one action per frame, per `update()`, per `clear_map`. A pose is a number that may be NaN and is fixed or not; links are kept exactly |
| `SurveyNet` | the abstract specification of the map: a net of points that grows from one fixed point, each new point tied to one that was there, until all is forgotten |
| `SensorFusion` | one action per assignment to a shared global; a coordinate is abstracted to the message it comes from |
| `RangeSensorLayer` | the callbacks against the update cycle of the costmap; one row of cells that may roll, costs as the classes the thresholds give |
| `ReadingFlow` | the abstract specification of the range layer: one queue of readings, each taken once and in order, and cells that change only by a reading that reaches them or with the map |
| `ArucoDetect` | one image callback at a time, the enable service, crash and respawn. An image is the sequence of markers found in it; a message of vertices is the image without the ignored positions |
| `PoseEstimator` | the callbacks of `fiducial_slam` in vertices mode. An estimate is the identifier it belongs to; each is one action, since it is broadcast long before the array is published, and the virtual fiducial comes last |
| `FiducialLocalization` | the callback with its two waits; `heard` is what its own listener has taken in since it was made |
| `FiducialPipeline` | the three joined, with a camera, amcl and the other camera's chain as environment. Queues of one message are variables that two modules share |
| `MC*` | instances for TLC |
| `*Proofs`, `TourRefinement` | theorems |

A definition whose comment begins with "Mistake" is no part of the model: it is a plausible bug
that `PROJECT.json` pairs with a property to show that the property can fail.

## 4. Runs

Passing runs:

- **tours** (`Tours.cfg`). A sequential file of two waypoints, the second with a talk and the first near
  the origin; a random file of two; an unreadable file. Five and twenty seconds become 2 and 4 units,
  the sleep of a second may last up to 2. Every answer of move_base at every point.
  move_base may crash and restart once. A goal rejected three times does not end the tour: the break
  leaves the inner loop only, and the node goes on to the next waypoint, possibly with an earlier goal
  alive. `StandsStillForTalk`, `DrivesToCurrent`, `ResendsBounded`, `EachTalkOnce`,
  `RandomTourComplete`, `AbortsStopTheBase` (after the third abort of a goal nothing moves the base any
  more), `GivenUpForCause` (only 20 s of PENDING or three aborts give a tour up), and `ImplementsTour`
  (the node refines `Tour`). Two waypoints suffice for every interference between an earlier goal and
  the current one; proofs cover the rest.
- **tour_talks** (`TourTalks.cfg`). Both nodes, three talks (one without an audio file), a random quip,
  one crash and restart of move_base, slow starts of a clip. `PlaysAtStandstill`, `WaitsForThisClip`,
  `EndIsHeard` (no later status displaces the report of the end from the queue of one message),
  `GuidesTour` (both nodes refine `GuidedTour`), and the liveness of `PlayedClipEndsWait` and
  `AcceptPhaseEnds` (the loops on PENDING and REJECTED lead to the test of ACTIVE, or to the end of a
  tour whose goal stayed PENDING). `PlayedClipEndsWait` speaks of a clip once the player has seen it
  Playing: one that starts too slowly is the run slow_start.
- **fiducial_map** (`FiducialMap.cfg`). Three fiducials and the virtual one, frames of up to two
  observations, NaN or not, two frames of initialisation, two clears, with and without a map file.
  `OneDatum`, `Connected`, `FixedStays`, `OriginCarriesMap` (nothing is placed relative to a NaN origin
  or to fiducial 0, though autoInit may begin a map from either), `InitEnds`, and `ImplementsNet` (class
  `Map` refines `SurveyNet`). Links are made between pairs, so three fiducials are the least for a
  chain.
- **sensor_fusion** (`SensorFusion.cfg`). Three fiducials, three odometry messages and a gps message,
  all interleavings. `FiducialUsedOnce`: each use of a fiducial is kept with its odometry message and
  with what was known when `foo` was tested. A fiducial judged by then is used only if it was accepted,
  and by one message at most; one not yet judged may be used too, which fusion_race shows.
  `RawPoseIsRecent` holds for the three coordinates and for the quaternion that goes out with them.
- **range_sensor_layer** (`RangeSensorLayer.cfg`). Three cells, two readings of any kind, the map
  rolling by one cell and back between cycles, the layer disabled and enabled again. `NoReadingLost`,
  `MasterShowsLayer`, `ImplementsFlow` (the two threads, buffers and the cycle refine `ReadingFlow`),
  `ReadingsProcessed`, `DisabledIsCurrent`. Three cells are the least for which a cycle may have no
  window; the two cones have the target outside the sides and off the map, and the sensor of one is off
  the map. A static map is the case of one element in `Zeros`.
- **localisation** (`Localisation.cfg`). A marker of the map file, one that is not in it and one that is
  in it but ignored; images with two markers, the first either of the latter; a camera matrix that is
  good or all zeros; a camera that may die, `aruco_detect` crashing as often as it likes, detection
  disabled and enabled, `clear_map`. `FollowsMarker`, `FreshTransform`, `FewLatePoses` and the liveness
  of `PosesKeepComing`. Two markers are enough to tell first, last and virtual apart. `Patience` is how
  many frames are sure to pass in a wait of one second (2; with 0 nothing is assumed and a wait may end
  at once; the proofs hold for any). The 4 of `FewLatePoses` is reached, so the bound is tight
  for the subscribers' queues; the queues that roscpp keeps on the publisher's side, which could hold
  more on a slow connection, are left out.

Runs that end in a violation, each of something that a comment in the code says:

- **give_up** `GivingUpStopsTheBase`: the goal is left with move_base after 20 s.
- **third_rejection** `BreaksFromAllMovement`: after the third rejection, where the node says that it
  aborts all movement, it goes on to the next waypoint.
- **arrival_talk** `TalkFollowsArrival`: SUCCEEDED before the cancel request is never PREEMPTED.
- **slow_start** `AudioWaitEnds`: a clip still Opening after half a second is never Ended.
- **odom_lookup** `TfIsMapToOdom`: after a failed lookup the pose of the base goes out as odom's.
- **fusion_race** `RejectedStaysOut`: a rejected fiducial corrects the odometry when it is stored
  while `odom_callback` calculates with the one before.

`CHECK_DEADLOCK FALSE` throughout: a tour ends, the node may crash, and the bounds on messages let
the finite models stop.

Bounds. `MaxMail` (operator's messages), `MaxCrashes` (of move_base), `MaxClears` (calls of
clear_map), `MaxObs` (observations per frame), `MaxFid`, `MaxOdom`, `MaxGps`, `MaxReadings`,
`MaxReconfigs`, `Zeros` (how far the map rolls), `Images`, `Calibrations`. Each limits how often or
with what the environment acts, never what the program does.

Fairness. `SysSpec`: both processes keep running and libvlc gets through a clip (`WF` of the main
thread and of the player; every loop of both sleeps and goes on). `FairSpec`: move_base starts,
obeys a cancel request, and the network delivers; nothing makes a goal succeed. `FiducialMap`: the
camera delivers frames for ever. `RangeSensorLayer`: the costmap's
thread keeps cycling and a callback that has begun ends. `SensorFusion` states none.
`FiducialPipeline`: each loop and each `ros::spin` goes on (`WF`), amcl repeats its transform, the
launch file's `respawn="true"` brings `aruco_detect` back; a camera_info that waits is taken in its
turn, however many vertices arrive, because ROS serves its queue in order (`SF`). Nothing is assumed
of the services, of the other camera or of a camera that has died; `PosesKeepComing` speaks of
behaviours in which the camera, detection and amcl are up from some time on.

## 5. Proofs

Assumed: only the named ASSUMEs of the modules. `SlotsAssumption` (a random file fits into
`visited_waypoint[4]`) and `ConesAssumption` (no cone is wholly below the map; the sensors may be off
it) are real restrictions: the code is wrong without them. For the cones this is proved:
`WrappedLimit` (`RangeSensorProofs`) shows that a cone below the map changes cells outside the bounds
that its cycle hands over. Two constants stand for the clips: `ShortClips` (a clip may last less than
half a second) and `SlowStart` (it may take longer than that to start). A theorem that needs one to
be FALSE says so; the others hold for either value.

- `NavigationProofs`: `TypeCorrect`, `TalkAtStandstill`, `OneDestination`, `FewResends`,
  `AbortsEndAllMovement`, `RejectionsDoNotEndTheTour`. The properties are not inductive: `IInv` adds
  what the client's view implies of the server (`GoalInv`), what each resend costs in seconds
  (`TimeInv`), the plan in use (`PlanInv`), and where the flag `stop_all_movement` may be set
  (`CauseInv`). For `AbortsEndAllMovement`, a client that sees ABORTED has an aborted goal and a base at
  rest: an accepted goal has taken the place of every earlier one. For `RejectionsDoNotEndTheTour`,
  REJECTED is final: after the third the test of ACTIVE fails, and the flag goes out of scope untested.
- `TourProofs`: `TalksOnce`, `RandomComplete`. Talks already given lie before the index, or among the
  visited slots; a random tour ends when nothing is left to choose.
- `TourRefinement`: `NodeImplementsTour`, the initial states and every step of the node, of move_base
  and of the operator map to a step or a stutter of `Tour`.
- `FiducialMapProofs`: `MapTypes`, `MapHasOneDatum`, `MapIsConnected`, `FixedPosesStay`, and the
  refinement `MapImplementsNet`, `OriginCarriesTheMap`. `MInv` ties origin, flag and frame count to the
  map, and connectedness is stated over sets of fiducials, which needs no induction. The last theorem is
  preserved because a pose can only be calculated from an estimate that is a number, and an average of
  numbers is one (`MergedGood`).
- `SensorFusionProofs`: `FusionTypes`, `CorrectsOnce`, `RawIsRecent`. `Stored` and `Flag` tie the
  coordinates and `foo` to the fiducial judged last. `Fresh`: while the flag is set and not yet tested,
  that fiducial has not been used; `Own`: nor has another message used the one that this message
  corrects with; so a second use would have to be of a later fiducial. `Done` holds the axes that this
  message has replaced.
- `RangeSensorProofs`: `LayerTypes`, `ReadingsHandedOver`, `MasterInStep`. `Covered`: a cell is in step
  with the master grid or within the bounds that will reach `updateCosts`; rolling moves both grids by
  as much. `LayerImplementsFlow` maps the two buffers to one queue: between the copy and the clearing,
  where a reading is in both, the queue is the shared one. This is where the mutex counts: the mapping
  shows a reading that arrives in between as lost.
- `TourSystemProofs`, whatever the clips: `SystemTypes`; `SystemSafety` and `SystemImplementsTour`,
  which carry the safety of the node and its refinement of `Tour` over to the joined system. For clips
  of at least half a second (`~ShortClips`): `ClipsAtStandstill`, `WaitIsForThisClip`, `EndGetsThrough`,
  and the refinement `SystemGuidesTour`. `ClipInv`: while the node waits for a clip, `OneClip` allows at
  most one trigger that the player has not heard and says that Ended, once it is said, is of the clip
  triggered last; at any other time `Quiet` holds, that is nothing of a clip is left in the player or in
  the node's queue. For the refinement, `VoiceInv` says in addition which clip a state of libvlc or a
  report of Ended belongs to, and that a clip without a file is silent. Without `~ShortClips` the second
  Ended of one clip ends the wait for the next. For clips that start within half a second
  (`~SlowStart`): `WakeupIsNotLost`, the safety half of "the wait ends". While the node waits for a clip
  that exists, a trigger is on its way, or the player watches the clip, or the report of its end is in
  the queue or read: only fairness is then needed to go on. With `SlowStart` this is false, which is
  what the run slow_start shows.
- `FiducialPipelineProofs`: `PipelineTypes`, `MarkerFollowed`, `TransformIsFresh`, `LatePosesFew`.
  `MarkerInv` follows the first marker of a message from the vertices through the estimates to the wait;
  `FreshInv` says that the listener has the target only if it was broadcast in this callback; `LateInv`
  counts the messages under way: each may still give one pose, and there are four places.

Model-checked only: the liveness properties `PlayedClipEndsWait`, `AcceptPhaseEnds`, `InitEnds`,
`ReadingsProcessed`, `DisabledIsCurrent` and `PosesKeepComing`, since fairness and ENABLED are out of the
prover's reach. Of two of them the safety half is proved: `WakeupIsNotLost` and `EndGetsThrough` for
the wait for a clip, `LayerImplementsFlow` for the readings (none is lost, skipped or overtaken). `Connected`
is proved in its set form, not through paths, since induction over data is out of reach too. Every
invariant, action property and refinement of the passing runs is stated by a theorem.

## 6. Known divergences without a run of their own

- "Attempt goal 3 times total" (`waypoint_navigation.cpp:266`): a goal aborted before the test of ACTIVE
  at :229, within half a second of being accepted, is not sent again, and its waypoint is left out.
- The operator's file name is not checked: with a file that cannot be read the loop runs on whatever
  `_number_of_waypoints` holds, so that the tour ends at once or the node dies (`ReadPastEnd`). Nor is
  the name of a talk: one without an audio file is answered by "Error" and waited for without end.
- A waypoint near (0, 0) is reached at once until the first lookup succeeds (`NearOrigin`).
- A quip is sent as `"random_quip_" + n`, pointer arithmetic on a literal: the name without its
  first n characters, which may match part of a file's path.
- `/navigation_enable` with 0 during a tour has no effect; a clip shorter than half a second is reported as Ended twice (`ShortClips`).
- `autoInit` reads `obs[-1]` when the frame after a clear is empty (`crashed`), uses the pose of the
  camera as the base's when its lookup fails, and a map begun from fiducial 0 never gives a pose.
- `clear_map` leaves `havePose`: the timer goes on sending the old pose.
- sensor_fusion puts a quaternion's z into `z_ori_out`, which is used as an angle, and ends its
  callback with an IndexError when gps comes first. The gps branch renews x only.
- range_sensor_layer: a cone wholly below the map wraps its loop limit (2^32 columns); a range
  below the minimum of a variable sensor always clears; upper bounds are reset to about 0, so
  windows are stretched; `current_ = false` after a timeout lasts until the next window only; new
  thresholds reach a cell when it is next inside a window; what was processed while disabled
  appears in the master grid only when touched again.

- The comments at `map.cpp:524` and `:544` promise the closest fiducial of the first frame:
  `findClosestObs` reads `obs[0]` in every turn of its loop, so a map starts from the first one.
- `Estimator::camInfoCallback` keeps the first matrix even if it is all zeros, and never another;
  `aruco_detect` waits for one that is not.
- A respawned `aruco_detect` detects again, whatever the service had set.
- The virtual fiducial is number 0, which the dictionary in use has as a marker too. The model leaves
  a real marker 0 out (`Virtual \notin Ids`): it would share the virtual fiducial's entry of
  `rvecHistory`, and the transform that bears its name might be the virtual one's.
- `fiducial_len_override` parses identifiers from the whole element, length included
  (`aruco_detect.cpp:514-526`): "200.0: 12" sets the length of identifier 200, and the range of
  "300.0: 200-300" begins at 300.
- Of duplicates in a map file `fiducial_localization` finds the first, `fiducial_slam` keeps the last.
- Parameters of the detector are read after the dynamic_reconfigure server has put the `.cfg` defaults
  on the parameter server, so the constructor's own defaults (`minMarkerPerimeterRate` 0.1 instead
  of 0.03, `minMarkerDistanceRate` 0.05 instead of 0.1) are never used; `cornerRefinementSubPix` is not
  the `cornerRefinementSubpix` of the `.cfg` and is lost on a restart.

## 7. Not modelled

Markers, published maps and `saveMap` (output only); numbers of poses, variances, the estimator's
geometry and `rvecHistory`, and the sensor model; in aruco_detect the detector's parameters, the
length overrides and the estimates it never publishes; new thresholds of the range layer; the
parameters read at start; the components listed as not modelled in section 1 (device and file I/O,
plots, offline tools, message definitions).

Much of the workspace has nothing to model: the headers that dynamic_reconfigure generates, the C
header of the phidgets library, scripts that plot or convert one message into another, and tools
that make markers or maps. Most of the lines of the program are there; the nodes that keep state are
those of section 3.
