# camera_to_lidar_autoCalib in TLA+

This directory holds TLA+ models of the camera-to-lidar calibration program, the
TLC configurations that check them on small instances, and proofs of their main
properties for instances of any size, checked by TLAPS.

    tlc -workers 2 -config MCCalibNode.cfg MCCalibNode     # one of the runs below
    tlapm CalibNodeProofs.tla                              # one of the proof modules

## 1. The system

The repository is a ROS 2 node in C++ that does one calibration per launch, and
a set of Python tools around it. They share YAML and PCD files, and nothing else.

| Part | State it keeps | Operations |
|---|---|---|
| `RclComm` (`src/rclcomm.cpp`), `main.cpp` | parameters, the TF map, a timer | construction; `start()`: one whole calibration, called by `main` before `spin`; `timer_callback`: republishes clouds and board labels; destruction |
| `ExtraBoard` (`src/extraboard.cpp`) | the cloud, the template image, `boards`, `bboxes` | `load_template_image`, `load_pcd_file`, `check_orientation`, `extract_points` (filter chain and clustering), `board_register` (plane, image, template match, 3D corners) |
| `DetAruco` (`src/detaruco.cpp`) | id-to-name map of the cameras, detector settings | `init_DetAruco`, `detectArucoMarkers` (one camera's image: tags, anchors, 2D corners) |
| `CornersMatch` (`src/cornersmatch.cpp`) | `Q_board_corners` (lidar), `P_board_corners` (camera) | `setBoardPointCloudCenters_Q`, `setBoardArucoCenters_P`, `getMatchResult` |
| `CalibFunc` (`src/calibrate.cpp`) | seven cameras' parameters and point pairs, reference poses, `flag_init` | `init_CalibFunc`, `setDataForCalib`, `calibrate`, `write_Extrinsics` |
| `Utils` (`include/utils.h`) | ground-truth YAML trees | reading the origin and the lidar mountings, computing reference poses, writing them back to `sensor_kit_calibration_gt.yaml` |
| `SPD_LOG` (`include/spd_log.h`) | the global logger | set-up, `shutdown` |
| `project_points_to_image.py` | a camera's pose, `R` and `t`, the latest cloud and image | projection at 1 Hz, buttons that adjust the pose and write it to the extrinsics file, keys |
| `extrat_first_frame.py`, `concate_points.py` | the first cloud of each lidar | waiting for one of each, merging, writing a PCD |
| `update_pix_params.py` | nothing | copying a parameter tree over the vehicle's, repairing rectification matrices |
| other scripts | nothing | undistortion, viewers, TF demonstrations |

How they interact. `main` constructs the node, runs `start()` to its end on the
main thread, and only then spins; so within a launch the C++ program is
sequential (a display thread of `ExtraBoard` exists, but its start is commented
out). `CornersMatch` and `CalibFunc` are singletons: what one iteration of the
loop over the cameras leaves in them is there for the next. Nothing in `start()`
or `main` catches an exception; the extrinsics file is written once, after the
last camera, and the ground-truth file once in `init_CalibFunc`. The projection
tool has two threads without a lock between them. The node and any number of
tool windows read and write `sensor_kit_calibration.yaml` without a lock either.
The merging tools produce the PCD file that the node loads, and the update
script replaces the configuration directory between launches.

What is hard here, and what correctness means:

- *State across iterations.* A camera must be calibrated on its own corners,
  whatever the cameras before it saw and whatever was refused.
- *Permutations.* Clusters come ordered by size, boards are identified by
  bearing, tags by id, anchors by angle: orders that must be joined correctly,
  and the label on display must be the id that was used.
- *Partial failure.* A stage of the filter chain that finds nothing, a cluster
  without a plane, a tag whose anchors were not found, a solver that aborts, a
  folder that cannot be deleted: each must not corrupt what belongs to the others.
- *The files.* Only what was solved may change in the extrinsics; the measured
  origin must survive every rewrite of the ground-truth file; a program that
  dies, or two that write at once, must not take other entries along; a PCD file
  must be one scene.
- *Boundaries.* Slices of the scaffold filter that overlap and stop early,
  timer periods rounded to zero or negative, angles that wrap.
- *Two threads.* A projection must come from one pose, and in the end from the
  last one.
- *Ending.* `start()` must come to an end for anything to be published, a node
  that was told to stop must stop, a merging tool that has its clouds must end.

`PROJECT.json` lists the hazards at their lines and which property covers each, or why none does.
The program's own readme speaks of a "Hungarian algorithm", which is not in the
code: `getMatchResult` pairs by equal id, and that is what is modelled.

## 2. Modules

| Module | Models | Relation |
|---|---|---|
| `CornersMatch` | the matcher's three operations | - |
| `CalibFunc` | parameters, data, solving, the file as one atomic write | - |
| `CalibNode` | `start()`, call by call, with relaunches | extends the two above; implements `CalibStore` and `BoardSource` |
| `CalibStore` | abstract: what a launch may do to the file | instantiated in `CalibNode` |
| `BoardSource` | abstract: what `ExtraBoard` hands to the node | instantiated in `CalibNode` and `BoardPipeline` |
| `BoardPipeline` | `extract_points` and `board_register`, stage by stage | implements `BoardSource` |
| `DetAruco` | `detectArucoMarkers`: kept anchors, their order, the result | the detail behind the sightings of `CalibNode` |
| `GroundTruth` | `Utils` in `init_CalibFunc`, with the ground-truth file | - |
| `NodeLifecycle` | construction, `spin`, timer, destruction, signals, launches | extends `GroundTruth` |
| `ExtrinsicsFile` | the extrinsics file and its writers in steps, with crashes | the detail behind the atomic write of `CalibFunc`; implements `PoseTable` where sessions do not overlap |
| `PoseTable` | abstract: a table whose writers replace poses of their own cameras in one step | instantiated in `ExtrinsicsFile` |
| `FusionNode` | the projection tool's two threads | - |
| `MergeClouds` | the merging tools | - |
| `UpdateParams` | the update script | - |
| `MC*` | instances for TLC | extend the module of their name |
| `*Proofs` | theorems | extend the module of their name |

**Abstraction.** In `CalibNode` a lidar board's corners are the cluster they were
measured on, with `NoCorners` for corners that stayed zero; an image board is its
tag id, the camera whose image it is from and whether its corners were computed; a
pose is a model value. The solvers and detectors are choices among the outcomes
they can have, and each place where the code can fail is one of them. A camera's
bearing is an integer number of degrees, because only the order and ties matter.
`NoCorners` sorts at 180, for `atan2(0, -0.0)` is pi.

**`CalibNode`.** `pc` names the call that `start()` makes next; each call is one
action, which is all it does to the state, and the conditions on the way (the
ignored result of `load_pcd_file`, `check_result <= 0`, the loop over
`calib_camera_list_`) are its guards. `Terminate` stands for the process ending by
an exception or an abort: an unreadable parameter file in `init_CalibFunc`, a camera
id outside the vectors (`getIntrParams` uses `at`), an extracted cloud that cannot
be saved, a solver that is given no points (Ceres aborts, `solvePnP` throws), or a
file that cannot be read back. `Relaunch` is the operator starting the node again;
everything but the file is constructed anew. `write_Extrinsics` does not look at
whether its stream opened; the model assumes the file is writable.

**`BoardPipeline`.** A cluster is a stack of horizontal levels, each with a height
in units of 5 mm and a left and a right end along the plane; a cloud is the cluster
it was cut from with the number of copies it holds of each level.
`apply_scaffold_filter` is modelled exactly on that: slices from the highest level
down in steps of 4 cm, 2.5 cm to either side, as long as their middle is above the
lowest level, kept when all their levels together are wider than the bracket plus 10
cm. The loops of the size filter and of `board_register` are one action per
iteration. `SaveProcessed` may throw, as PCL does for a file that does not open and
in some versions for an empty cloud: nothing catches it, and `thrown` is the end of
the process. Clustering, RANSAC, sizes and the template match depend on single
points and are choices: which clusters are found and in which order, which have a
plane, which are of a good size, which match. `NoPlane` is the early return in the
first loop of `board_register`; the second loop is `ComputeCorners`.

**`DetAruco`.** Points are pairs of integers. `keepTop3ByScore` may keep any three
boxes that no other outranks, since `std::sort` leaves ties open. An angle is
never computed: that `atan2` shifted into [0, 2 pi) of one direction is less than
that of another is decided by half plane and cross product, both exact, on three
times the direction from the centre. `Throw` is the exception of an empty image
region or a failed inference.

**`GroundTruth`, `NodeLifecycle`.** The ground-truth document is its lists (whole,
partly readable, none), whether it has the measured origin, and its reference poses;
a pose is the lidar mounting it was computed from, which tells fresh from stale.
Each call of `init_CalibFunc` on `Utils` is an action; opening the file for writing
and filling it are two. `Kill` is enabled everywhere, `Interrupt` only shuts the
context down, which nothing but `spin` looks at. A frequency gives the period of
`int(1000 / frequency)`, an undefined one for 0. A timer of period 0 is always due,
one of a positive period when `Tick` says that it has passed since the last call;
how long it is makes no other difference, as nothing else keeps time.

**`ExtrinsicsFile`.** Every writer goes from `running` over `copied` (it has read
the file and changed its document in memory) to `open` (truncated) and back. The
node reads the file many times: once per camera, once for the ground truth, once
before writing; a tool reads it when its window opens and again at each press of
the write button. The content goes out in one write. If a second writer filled
the file meanwhile, the longer content sticks out behind the shorter, which is
the choice of `Garbled`. `Die(w)` is enabled everywhere. `SerialSpec` is the same
system under a discipline that the programs leave to their users: nobody starts to
write when another has written since it read the file, and nobody is cut off in
mid-write. What the last write left behind, `committed`, is then a `PoseTable`.

**`FusionNode`.** `self.R, self.t = ...` is two stores and the projection's
argument list two loads; each is an action. The pose is the number of
adjustments, so that `R` and `t` carry the version they were computed from. The
`s` key reads an attribute that nothing sets, and ends the node as Escape does.

**`MergeClouds`.** A cloud is the launch it was received in and its number on its
topic. The executor has one thread, so a callback is one step, and a topic whose
subscription was destroyed brings no more clouds; the PCD file is `Cut` from its
truncation until its last line.

**`UpdateParams`.** A folder of the target is absent, not a folder, as before, in
parts, or the vehicle's; a camera's intrinsics file is one of five kinds, as far
as `check_camera_intrinsics` tells them apart. `rmtree` and `copytree` succeed,
fail with part of the work done or fail without; the script may be stopped in
any step and run again.

## 3. Properties and runs

| Run | Instance | Distinct states | Checks |
|---|---|---|---|
| `calib_node` | two boards and a clutter cluster, three slots and one id without a slot, four cameras configured or one, seven camera lists, six extractions, five sightings, one launch | 940 000 | `TypeOK`, `CornersAreOwn`, `PublishedIdIsMatchedId`, `CompleteScenePairsRight`, `ReturnedHasWritten`, `OnlyNamedCamerasSolved`, `OnlySolvedCamerasChange`, `StartIsBounded` |
| `calib_relaunch` | two launches, lists `<<0, 1>>` and `<<2>>`, with fairness | 34 600 | `ImplementsStore`, `ImplementsSource`, `StartEnds`, `SolvedReachesFile` |
| `board_pipeline` | a board on a pole with a crossbar and two arms, a board without a pole, a narrow object; 36 levels | 1 430 | `TypeOK`, `BoardLevelsStay`, `BracketStaysShort`, `AtMostTwoCopies`, `BoxFramesLabelledBoard`, `CornersNeedAllPlanes`, `ImplementsSource`, `PipelineEnds` |
| `det_aruco` | one or two tags, eleven shapes and tilts, six sets of boxes | 8 600 | `UprightIsExact`, `NeverMirrored`, `EveryTagReported` |
| `node_lifecycle` | three slots, two listed, two mountings, four frequencies, two launches, with fairness | 99 000 | `SourceSurvives`, `ReferenceIsFresh`, `ReferenceIsComplete`, `StopIsBounded`, `LabelsReachViewer`, `StopsWhenTold` |
| `extrinsics_file` | the node and a tool on each of two cameras | 190 000 | `EntriesSurvive`, `IsolatedWritesKeepOthers`, `IsolatedWritesAreAtomic` |
| `fusion_node` | three presses, with fairness | 314 | `AtMostOneBehind`, `NeverGoesBack`, `CatchesUp` |
| `merge_clouds` | three lidars, two clouds each told apart, two launches, with fairness | 60 000 | `OneScene`, `MergeEnds` |
| `update_params` | two folders, three cameras of which two are checked, three runs | 22 600 | `OthersAreCopied`, `IntrinsicsAreTheVehicles`, `CheckedAreUsable` |
| `stale_corners` | violation | - | `RefusedIsNotRegistered` |
| `shifted_ids` | violation | - | `MatchedCornersCorrespond` |
| `late_log` | violation | - | `MembersCanLog` |

What they show.

- `CornersAreOwn`: corners used for a camera were measured in its own image,
  unless this launch refused the camera. The exception is a fault of the code,
  which `stale_corners` shows without it: a camera with more tags than
  `marker_num` is refused by `setBoardArucoCenters_P`, `P_board_corners` keeps the
  previous camera's corners, and the loop goes on to solve with them.
- `CompleteScenePairsRight`: if every board of the scene was registered and the
  boards hang in the configured order, every pair joins a tag with its own board,
  in whatever order the clusters came. `shifted_ids` shows what happens when one
  was not registered: it is sorted at 180 degrees and moves the ids of the boards
  behind it.
- `PublishedIdIsMatchedId`: the id above a board on display is the id its
  corners were used under. Its premise is a `marker_order` that is at least as
  long as `marker_num` and clusters that are not extracted twice; the second is
  what `ImplementsSource` promises, the first nothing in the code checks.
- `OnlySolvedCamerasChange` and `ImplementsStore`: although `write_Extrinsics`
  rewrites seven cameras, the file changes only for cameras that were asked for,
  had a reference pose and data, and whose solution was accepted; and it changes
  at most once per launch.
- `StartEnds`, `SolvedReachesFile`: a launch ends; an accepted solution reaches
  the file, or the process was terminated first, which is what a later camera
  without data does to the earlier ones.
- `ReturnedHasWritten`, `StartIsBounded`: the safety halves of the last two, which
  hold whatever the scheduler does. No path to the end of `start()` leaves a
  solution in memory only, and every call lowers the number of calls still to come,
  so what fairness adds is only that each of them returns.
- `OnlyNamedCamerasSolved`: `init_DetAruco` reports a list of exactly one camera as
  lists of different length and keeps no name, although the lists agree. The node
  goes on; that such a camera is not solved after all, on nothing or on what the
  singletons still hold, takes every step from the empty list of tags to the
  solver's refusal of an empty set of points. So a single camera, which is the
  default of the parameter, cannot be calibrated, but it does no harm.
- `ImplementsSource`, of both `BoardPipeline` and `CalibNode`: the stages of
  `ExtraBoard`, whatever they fail at, deliver distinct clusters and then one board
  per cluster, in order, with its corners or none; and `CalibNode` assumes no more
  of them. This joins the two models.
- `BoardLevelsStay`, `BracketStaysShort`, `AtMostTwoCopies`: the overlapping slices
  lose nothing of a board but its lowest 1.5 cm, keep of a pole only what is within
  a slice's height of something wide (two arms that are wide only together
  included), and copy no point more than once, wherever they fall.
- `BoxFramesLabelledBoard`: box and label number i on display belong together. One
  loop pairs boxes and clouds, another drops empty clouds without their boxes: that
  is right only because `compute_bounding_box` refuses an empty cloud, and such
  clouds do come, of objects as narrow as a pole. `CornersNeedAllPlanes`: one
  cluster without a plane costs every board its corners. `PipelineEnds`: no failure
  stops the chain, but for the exception of saving the cached cloud.
- `UprightIsExact`, `NeverMirrored`: sorting the angles downwards, against the
  comment above it, names the anchors of an upright board exactly. Past the tilts at
  which an anchor crosses the horizontal through the centre the names turn
  round the board, but are never mirrored, at any tilt. `EveryTagReported`: a tag
  whose anchors were not found still counts in the result.
- `SourceSurvives`: `saveExtrinsicParamsGT` rewrites the only copy of the measured
  origin, though nothing before it was checked, and still does not lose it: the
  document it writes is the one that was read, with other poses, and if its lists
  could not be read to the end an exception comes first. Only a kill between
  opening and writing loses it. `ReferenceIsFresh`, `ReferenceIsComplete`:
  no launch calibrates against poses of an earlier one that are still in the
  file, nor some cameras against nothing.
- `LabelsReachViewer`: a viewer that subscribes in the middle of `start()` or at any
  time after it gets the labels, at any period the constructor accepts, zero
  included, though nothing is latched and earlier calls of the timer went unheard.
  `StopsWhenTold`: Ctrl-C at any
  time ends the node; `StopIsBounded` is its safety half: whatever cannot be read or
  written, main has at most fourteen steps left, as it repeats none. `late_log` shows
  that logging is shut down before the members that log in their destructors are
  destroyed.
- `IsolatedWritesKeepOthers`: a write changes only the writer's own cameras as
  long as no other write overlaps its session. For a tool the session is one
  press of the button; for the node it is the whole launch, from loading to
  writing. Beyond that updates get lost, and the tool's own comment that it
  changes values in place holds for its document only.
- `EntriesSurvive`: tools alone, however they interleave, lose no camera's entry:
  they refuse to write what they could not read. A writer that dies with the file
  open loses all of them, and so does a node that reads back while a tool has the
  file open. (`Garbled` files are excepted, they hold no entries at all.)
- `IsolatedWritesAreAtomic`: such a session, whose reading, truncating and filling
  are steps of their own, comes to one step of `PoseTable`: it replaces poses of the
  writer's own cameras and neither makes nor loses entries. If all sessions are
  such, the file as a whole is that table (`ImplementsTable`, which is proved of
  `SerialSpec` but not run). This is what justifies the single write of
  `CalibFunc`, and says under which discipline.
- `AtMostOneBehind`, `NeverGoesBack`, `CatchesUp`: a projection's translation is at
  most one adjustment behind its rotation, neither is older than what an earlier
  projection has shown, and the user who stops adjusting comes to see
  the final pose.
- `OneScene`: a PCD file has the first cloud with points of every lidar whose
  mounting is known, all from one launch, unless a process was stopped in the
  middle of writing. `MergeEnds`: with lidars that publish, the tool ends.
- `OthersAreCopied`, `IntrinsicsAreTheVehicles`, `CheckedAreUsable`: an error
  stays in its folder; what was copied is the vehicle's but for the matrices that
  are meant to change; and a run that finishes leaves no checked camera with an
  identity, nor with what an interrupted run left behind.

**Bounds.** Two tagged boards are the least with an order to get wrong; the
clutter cluster gives the wrong count, a wrong rank and a board without tag. A
list of two front cameras is the least in which one camera can inherit from
another; a camera listed twice, and one without a slot, exercise the solver's
abort and `at`. Seven slots are reduced to three, which no definition depends on.
Two launches show everything of a relaunch, since only files pass from one to
the next; three runs of the update script let a stopped run follow one that
rewrote a file. Two poses or mountings tell "changed" from "unchanged". The board
levels put a board's edge at every position relative to a slice that the step
and the half height tell apart, and the edges of the eleven drawn boards lie on
either side of each tilt at which the order changes. `MaxRuns`, `MaxPresses` and
`MaxFrames` are the only bounds inside the models; clouds beyond `MaxFrames` get its
number, so none is kept from arriving. Deadlock is not checked where the system
stops: after the last launch, at the end of a pipeline, and when the window is
closed.

**Fairness.** `calib_relaunch` assumes weak fairness of `StartStep` and
`board_pipeline` of `Next`: both are straight-line code on the main thread, each
step of which returns or ends the process. `node_lifecycle` assumes it of
`MainStep`: the main thread goes on, and `spin` runs a due timer; and of `Tick`:
time passes. `merge_clouds` assumes that the half-second timer keeps firing
(`CheckDone \/ CheckDoneRaises`), that the writing goes on (`SavePcd`) and that each
lidar publishes clouds with points at some time while the tool waits for it
(`FullCloud(t)`). `fusion_node` assumes that each thread goes on (`GuiStore`,
`FuseStep`): the interpreter switches threads by time, and the 1 Hz timer keeps
firing. Launches, signals, viewers, presses, messages of the camera and keys are not
fair.

## 4. Proofs

Every theorem holds for all values of the constants that satisfy the named
assumptions of the module, which fix types, that sentinels differ from values,
and that the sets that are counted are finite; TLC evaluates them in the runs.

`CalibNodeProofs`, with the operators of `CornersMatch` first:

- `SortedIndexPermutes`. The order in which `setBoardPointCloudCenters_Q` visits the
  boards is a permutation, and each board is visited at its rank. The pairs
  (angle, index) are totally ordered (`SortsBeforeOrder`), so ranks increase with
  the order, and an injection of a finite set into itself is a bijection.
- `SortedByBearing`. That permutation is the sorted one.
- `MatchingIsJoin`. `getMatchResult` scans `Q` for the first board of an id; if
  `marker_order` has enough, distinct ids, no id occurs twice in `Q`
  (`FilledQDistinct`), and the result is the join of `P` and `Q` by id. There is
  nothing left for a Hungarian algorithm to choose.
- `TypeCorrect`: `TypeOK` with `CurrentCamera`, which is needed for it: inside the
  loop body the index is in the list and the camera has a slot, or
  `board_data[Cam]` would not be defined.
- `OwnCorners`: `CornersAreOwn` from `OwnInv`. The property speaks of `board_data`;
  `OwnOnTheWay` follows the corners there, through `aruco_info`, `P_board_corners`
  and `result`.
- `OnlySolvedChange`: from `SolvedInv`. `UnsolvedAsLoaded` says that memory and
  file agree on every camera not solved in this launch, so writing it back changes
  nothing; `SolvedHadData` says a solved camera was listed and had what its solver
  needs, and covers the camera that is listed twice and loses its data, for then
  the solver aborts.
- `Implementation`: every step of `CalibNode` is a step or a stutter of `CalibStore`.
  Only `WriteAll` changes the file, and with the cameras that differ as the
  witness it is a `Commit`; all other endings commit nothing.
- `PublishedIds`: from `PublishedInv`: boards with corners are distinct when the
  labels are given, labels and `Q` come from the same permutation
  (`LabelAgreesWithQ`), and nothing touches either again in the launch.
- `CompleteScene`: from `CompleteInv`, which follows the right pairs through `Q` and
  `result`. The content is `SeenRank`: as many boards as clusters means no two share
  one, so the boards that sort before a board correspond one to one to the clusters
  of lower bearing, and the `k`-th entry of `Q` is the board `marker_order[k]` names.
- `SourceImplementation`: every step of `CalibNode` is a step or a stutter of
  `BoardSource`, from `SourceInv`: until they are called for there are no clusters
  and no boards. `setBoardPointCloudCenters_Q` writes to `boards` too, but only
  ids (`SetQKeepsCorners`).

- `SolutionsAreWritten`: `ReturnedHasWritten` is inductive given `SolvedInv`, which
  says that the early returns have solved nothing.
- `BoundedStart`: from `PositionInv` and `CurrentCamera`, by which the measure
  `StepsLeft` is positive until `start()` ends.
- `NamedSolved`, from `NamedInv`: a camera without a name has no tags after
  detection, hence an empty `P`, no pairs, no data, and no solver. With
  the lemma behind `OnlySolvedChange` it gives `SingleCameraChangesNothing`: a launch
  with one camera configured leaves the file as it is.

`BoardPipelineProofs`:

- `LevelsStay`, `BracketIsShort`, `TwoCopies`, from `CloudsInv`, which says what the
  slices make of a cluster. The content is arithmetic about them: a level lies in
  some slice that is not the last one that would be needed, in at most two of
  them, because 4 cm steps of 5 cm slices leave 1 cm of overlap, and two
  levels of one slice are at most its height apart.
- `BoxesFrame`, `AllPlanes`, `TypeCorrect`, from `BoardInv`. Its `ListInv` follows the
  two loops of the size filter: each box is of the cloud at its index, which is not
  empty (`Paired`); clusters do not repeat, as those with a box lie before the loop's
  index (`Behind`); so the second loop drops none, `extracted` is always a prefix of
  `bboxes` (`TakenOver`) and in the end all of it. Every board before `idx` had a plane.
- `Implementation`: every stage is a step or a stutter of `BoardSource`.

`DetArucoProofs`, for images with any number of tags and boxes:

- `UprightBoards`, `NoMirroredBoard`. The three directions from the centre sum to
  zero, so a triangle that is clockwise at one corner is at each
  (`ClockwiseAllRound`); a descending order of angles can step the other way round
  at most once, where the angle wraps (`NoTwoAscents`); hence it is a rotation of
  the anchors (`DescendingIsRotation`), and with the first above the centre and the
  last below only one rotation is left (`UprightOrder`). `AnchorsAreKept` shows
  that the anchors are the boxes kept, and `SortedIsPermutation` that sorting loses
  none.
- `AllTagsReported`, `TypeCorrect`, and the two above are carried to all behaviours
  by `LoopInv`: each board the loop has passed is made from boxes that may be kept
  for its tag.

`NodeLifecycleProofs`:

- `SourceIsKept`, from `SourceInv`: from the moment it was read, the document in
  memory has what the file had at launch, since `saveExtrinsicParamsGT` changes its
  poses only; and nobody leaves the file open but by being killed.
- `FreshReference`, `CompleteReference`, from `PosesInv`, which follows the poses
  through the computed map and the document in memory: between reading and
  overwriting them, the file's own poses are in memory, but not in use.
- `BoundedStop`: `StepsToEnd` is a natural number, zero when the process has ended,
  that only a relaunch raises; the calls of `init_CalibFunc` go forward whatever
  each returns (`InitCalibFuncAdvances`).

`ExtrinsicsFileProofs`, `FusionNodeProofs`, `MergeCloudsProofs`:

- `Isolation`, from `IsolationInv`. A writer whose session is clean is alone with
  the file open, and its document and what the node loaded agree with the last
  committed content.
- `Survival`, from `SurvivalInv`: as long as nobody was cut off, a file that is not
  being written is whole, and every document to be written has all the entries.
- `AtomicWrites`, from the same invariant. A clean session's document also has the
  entries of the last committed content (`CommitStep`); with the document as the
  witness, writing it is a `Write` of the table (`CommitWrites`). Nothing is assumed
  of what the other writers did before, damage included.
- `SerialImplementation`: under the discipline whoever has the file open is in a clean
  session (`SerialInv`), and only `Finish` changes `committed`, so every step is a
  step or a stutter of `PoseTable`.
- `OneBehind`, from `BehindInv`, which fixes how far `R` and `t` are at each step
  of the Tk thread.
- `PictureFollows`, from `ShownInv`: nothing shown is newer than what is stored or
  than what the projection under way has taken, and what is stored only gets newer.
- `SceneIsOne`, from `SceneInv`: before they are written the clouds kept are this
  launch's first ones, while they are written there is one of every lidar, and
  until then the file is an earlier launch's.
- `FileTypeCorrect`, `FusionTypeCorrect`, `TypeCorrect`: the type invariants; of these
  modules, of `DetAruco`, `NodeLifecycle` and `UpdateParams` no run repeats them.

`UpdateParamsProofs`:

- `FoldersAreCopied`, from `CopyInv`: at every iteration, what is neither failed nor
  outstanding is a copy. A folder that failed may be any of its four other contents,
  and stays failed, for the listing names it once.
- `VehicleIntrinsics`, from `VehicleInv`. The property itself is not inductive: it
  allows the file of camera `c` to be whatever it is while it is being written,
  so that writing it could make it a rectified one that the vehicle does not have.
  What is missing is that a file is only opened for writing if the vehicle's is an
  identity.
- `FinishedIsUsable`, from `CheckedInv`: every camera the loop has passed is usable.
- `TypeCorrect`: with where the loops are.

Only model-checked: the liveness properties `StartEnds`, `SolvedReachesFile`,
`PipelineEnds`, `LabelsReachViewer`, `StopsWhenTold`, `CatchesUp` and `MergeEnds`.
TLAPS does not do fairness and `ENABLED`. Of `StartEnds`, `SolvedReachesFile` and `StopsWhenTold` the
safety halves are proved, as above. Every invariant and action property of the passing runs, and every
refinement, is a theorem.

## 5. Plan

Modelled, checked and proved: all modules of section 2, but for liveness. Next:

1. Safety halves of the other liveness properties, where they say more than the
   order of the steps: what a quiet window shows.
2. That a write of the projection tool puts into the file the pose that its window
   showed when the button was pressed.

## 6. Not modelled

- Numerics: point filters, RANSAC, clustering, template matching, Ceres, PnP,
  projection. They are choices of outcome; which pose a solver returns is not a
  question TLC or TLAPS can answer.
- The intrinsics and their distortion models: read-only input of the solvers and
  of the projection.
- Publishing of clouds, boxes and markers beyond the ids they carry, and the TF
  map, which nothing but its own publishing reads.
- The display thread of `ExtraBoard`: its start is commented out, so its code
  never runs.
- `project_pcd_to_image.py`: a sequential script that reads one cloud and one
  image and shows the result; undistortion, viewers and TF demonstrations: loops
  and callbacks without state that a later step depends on.
- Vendored code: `lib/` (Ceres, fmt, onnxruntime, spdlog) and `include/cvui.h`. It
  is nine tenths of the repository's lines. Of the program's own code most is the
  numerics above, output, and the scripts just named; what has control and state is
  mapped, which is why the mapped lines are a small share of all lines.
