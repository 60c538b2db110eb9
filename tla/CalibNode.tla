----------------------------- MODULE CalibNode ------------------------------
(***************************************************************************)
(* RclComm::start (src/rclcomm.cpp): one launch of the calibration node,   *)
(* from loading the template to writing the extrinsics file, one action    *)
(* per call.  The point cloud and image algorithms are choices from the    *)
(* outcomes they can have; CornersMatch and CalibFunc are composed with    *)
(* their state.  The operator may launch the node again, with other        *)
(* parameters: the process starts from scratch and only the file stays.   *)
(***************************************************************************)
EXTENDS CornersMatch, CalibFunc

CONSTANTS
  CameraGroups, \* values of camera_list, camera_name_list: id -> group of its name
  ListsMatch,   \* those two lists have the same length
  CalibLists,   \* values of the parameter calib_camera_list
  Algorithms,   \* values of the parameter algorithm_params.algorithm
  Extractions,  \* cluster lists the filter chain may keep
  Sightings,    \* tag lists detectMarkers and the anchor detector may report
  TagOn,        \* [Clusters -> Int]: the tag on a board; 0 for clutter
  MaxRuns       \* bound: launches of the node

ASSUME NodeAssumption ==
  /\ \A names \in CameraGroups :
       DOMAIN names \subseteq Int /\ names \in [DOMAIN names -> {"front", "rear", "other"}]
  /\ ListsMatch \in BOOLEAN
  /\ \A list \in CalibLists : list \in Seq(Int)
  /\ Extractions \subseteq Seq(Clusters)
  /\ <<>> \in Extractions
  /\ Sightings \subseteq Seq([board_id : Int, detected : BOOLEAN])
  /\ <<>> \in Sightings
  /\ TagOn \in [Clusters -> Int]
  /\ MaxRuns \in Nat

VARIABLES
  pc,              \* the call start() makes next
  run,             \* launches so far
  camera_group,    \* camera_list and camera_name_list
  calib_list,      \* calib_camera_list_
  algorithm,       \* algorithm_params_.algorithm
  cam_id_name_map, \* DetAruco: the ids it can find an image directory for
  cloud_loaded,    \* original_cloud_ holds points
  input,           \* the local vector of extracted clusters
  boards,          \* ExtraBoard::boards, as far as matching reads it
  position,        \* index of the for loop over calib_camera_list_
  aruco_info,      \* local of the loop body: boards_2d of the current camera
  result,          \* local of the loop body: the matched boards
  refused,         \* history: cameras whose P was refused in this launch
  solved           \* history: cameras whose extrinsics_ was replaced

cloudVars   == <<cloud_loaded, input, boards>>
launchVars  == <<run, camera_group, calib_list, algorithm, cam_id_name_map>>
loopVars    == <<aruco_info, result>>
historyVars == <<refused, solved>>
calibVars   == <<paramVars, extrinsics_file>>
vars == <<pc, launchVars, cloudVars, position, loopVars, historyVars,
          matchVars, calibVars>>

Steps == {"load_template_image", "load_pcd_file", "check_orientation",
          "extract_points", "board_register", "set_Q", "init_CalibFunc",
          "next_camera", "set_P", "match", "set_data", "calibrate",
          "returned", "terminated"}

CameraIds == DOMAIN camera_group
ListedIds == {calib_list[i] : i \in DOMAIN calib_list}
Cam == calib_list[position]

TypeOK ==
  /\ pc \in Steps
  /\ run \in Nat
  /\ camera_group \in CameraGroups
  /\ calib_list \in CalibLists
  /\ algorithm \in Algorithms
  /\ cam_id_name_map \subseteq CameraIds
  /\ cloud_loaded \in BOOLEAN
  /\ input \in Seq(Clusters)
  /\ boards \in Seq(BoardCloudCorners)
  /\ position \in Nat \ {0}
  /\ aruco_info \in Seq(Board2DCorners(Cams))
  /\ result \subseteq BoardInfo(Cams)
  /\ board_data \in [Cams -> SUBSET BoardInfo(Cams)]
  /\ refused \subseteq Cams
  /\ solved \subseteq Cams
  /\ Q_board_corners \in Seq(BoardCloudCorners)
  /\ P_board_corners \in Seq(Board2DCorners(Cams))
  /\ CalibTypeOK

(* init_DetAruco keeps the id -> name map only for lists of two or more. *)
KnownToDetAruco ==
  IF ListsMatch /\ Cardinality(CameraIds) > 1 THEN CameraIds ELSE {}

Init ==
  /\ pc = "load_template_image"
  /\ run = 1
  /\ camera_group \in CameraGroups
  /\ calib_list \in CalibLists
  /\ algorithm \in Algorithms
  /\ cam_id_name_map = KnownToDetAruco
  /\ cloud_loaded = FALSE
  /\ input = <<>> /\ boards = <<>>
  /\ position = 1
  /\ aruco_info = <<>> /\ result = {}
  /\ refused = {} /\ solved = {}
  /\ Q_board_corners = <<>> /\ P_board_corners = <<>>
  /\ CalibFuncInit

At(step) == pc = step
GoTo(step) == pc' = step

(***************************************************************************)
(* Before the loop.                                                        *)
(***************************************************************************)
LoadTemplateImage ==
  /\ At("load_template_image")
  /\ GoTo("load_pcd_file") \/ GoTo("returned")
  /\ UNCHANGED <<launchVars, cloudVars, position, loopVars, historyVars,
                 matchVars, calibVars>>

(* The boolean load_pcd_file returns is not looked at. *)
LoadPcdFile ==
  /\ At("load_pcd_file")
  /\ GoTo("check_orientation")
  /\ cloud_loaded' \in BOOLEAN
  /\ UNCHANGED <<launchVars, input, boards, position, loopVars, historyVars,
                 matchVars, calibVars>>

Recognised == ListsMatch /\ ListedIds \subseteq CameraIds
AllIn(group) == Recognised /\ \A id \in ListedIds : camera_group[id] = group

CheckOrientationResult ==
  CASE ~ListsMatch                         -> -1
    [] ListsMatch /\ ~Recognised           -> -2
    [] AllIn("front") /\ AllIn("rear")     -> 0
    [] AllIn("front") /\ ~AllIn("rear")    -> 1
    [] ~AllIn("front") /\ AllIn("rear")    -> 2
    [] Recognised /\ ~AllIn("front") /\ ~AllIn("rear") -> -3

CheckOrientation ==
  /\ At("check_orientation")
  /\ GoTo(IF CheckOrientationResult <= 0 THEN "returned" ELSE "extract_points")
  /\ UNCHANGED <<launchVars, cloudVars, position, loopVars, historyVars,
                 matchVars, calibVars>>

(* Any filter may fail or empty the cloud, and then no cluster is kept. *)
ExtractPoints ==
  /\ At("extract_points")
  /\ GoTo("board_register")
  /\ input' \in IF cloud_loaded THEN Extractions ELSE {<<>>}
  /\ UNCHANGED <<launchVars, cloud_loaded, boards, position, loopVars,
                 historyVars, matchVars, calibVars>>

(* Mutation: a board whose template did not match has no entry.            *)
RegisterMatched ==
  /\ At("board_register")
  /\ GoTo("set_Q")
  /\ \/ input = <<>> /\ UNCHANGED boards
     \/ /\ input # <<>>
        /\ \E n \in 0..Len(input) :
             boards' = [i \in 1..n |->
                          [board_id |-> 0, corners |-> input[i + Len(input) - n]]]
  /\ UNCHANGED <<launchVars, cloud_loaded, input, position, loopVars,
                 historyVars, matchVars, calibVars>>

(***************************************************************************)
(* One board per cluster, in the order of the clusters.  Only the boards   *)
(* whose template matched get corners; a plane that is not found on any    *)
(* cluster makes the function return before any board gets them.           *)
(***************************************************************************)
BoardRegister ==
  /\ At("board_register")
  /\ GoTo("set_Q")
  /\ \/ input = <<>> /\ UNCHANGED boards
     \/ /\ input # <<>>
        /\ \E matched \in SUBSET DOMAIN input :
             boards' = [i \in DOMAIN input |->
                          [board_id |-> 0,
                           corners  |-> IF i \in matched THEN input[i] ELSE NoCorners]]
  /\ UNCHANGED <<launchVars, cloud_loaded, input, position, loopVars,
                 historyVars, matchVars, calibVars>>

SetQ ==
  /\ At("set_Q")
  /\ GoTo("init_CalibFunc")
  /\ SetBoardPointCloudCenters_Q(boards, boards')
  /\ UNCHANGED <<launchVars, cloud_loaded, input, position, loopVars,
                 historyVars, P_board_corners, calibVars>>

InitCalib ==
  /\ At("init_CalibFunc")
  /\ GoTo("next_camera")
  /\ InitCalibFunc
  /\ UNCHANGED <<launchVars, cloudVars, position, loopVars, historyVars, matchVars>>

(***************************************************************************)
(* The loop over calib_camera_list_.                                       *)
(***************************************************************************)

(* Mutation: an image is looked for under any id. *)
DetectUnnamed ==
  /\ At("next_camera")
  /\ position \in DOMAIN calib_list
  /\ Cam \in Cams
  /\ GoTo("set_P")
  /\ \E tags \in Sightings :
       aruco_info' = [i \in DOMAIN tags |->
                        [board_id |-> tags[i].board_id,
                         cam      |-> Cam,
                         detected |-> tags[i].detected]]
  /\ UNCHANGED <<launchVars, cloudVars, position, result, historyVars,
                 matchVars, calibVars>>

(* An id without a name, or an image that cannot be opened, reports no tag. *)
DetectArucoMarkers ==
  /\ At("next_camera")
  /\ position \in DOMAIN calib_list
  /\ Cam \in Cams
  /\ GoTo("set_P")
  /\ \E tags \in IF Cam \in cam_id_name_map THEN Sightings ELSE {<<>>} :
       aruco_info' = [i \in DOMAIN tags |->
                        [board_id |-> tags[i].board_id,
                         cam      |-> Cam,
                         detected |-> tags[i].detected]]
  /\ UNCHANGED <<launchVars, cloudVars, position, result, historyVars,
                 matchVars, calibVars>>

SetP ==
  /\ At("set_P")
  /\ GoTo("match")
  /\ SetBoardArucoCenters_P(aruco_info)
  /\ refused' = IF Accepts(aruco_info) THEN refused ELSE refused \cup {Cam}
  /\ UNCHANGED <<launchVars, cloudVars, position, loopVars, solved,
                 Q_board_corners, calibVars>>

GetMatchResult ==
  /\ At("match")
  /\ GoTo("set_data")
  /\ result' = MatchResult
  /\ UNCHANGED <<launchVars, cloudVars, position, aruco_info, historyVars,
                 matchVars, calibVars>>

SetData ==
  /\ At("set_data")
  /\ GoTo("calibrate")
  /\ SetDataForCalib(Cam, result)
  /\ UNCHANGED <<launchVars, cloudVars, position, loopVars, historyVars, matchVars>>

(* Mutation: the loop does not advance. *)
CalibrateSameAgain ==
  /\ At("calibrate")
  /\ GoTo("next_camera")
  /\ \/ CalibrationSucceeds(Cam, algorithm) /\ solved' = solved \cup {Cam}
     \/ CalibrationFails(Cam, algorithm) /\ UNCHANGED solved
  /\ UNCHANGED <<launchVars, cloudVars, position, loopVars, refused, matchVars>>

(* Both ways calibrate returns; the loop goes on with the next camera. *)
Calibrate ==
  /\ At("calibrate")
  /\ GoTo("next_camera")
  /\ position' = position + 1
  /\ \/ CalibrationSucceeds(Cam, algorithm) /\ solved' = solved \cup {Cam}
     \/ CalibrationFails(Cam, algorithm) /\ UNCHANGED solved
  /\ UNCHANGED <<launchVars, cloudVars, loopVars, refused, matchVars>>

WriteAll ==
  /\ At("next_camera")
  /\ position \notin DOMAIN calib_list
  /\ GoTo("returned")
  /\ WriteExtrinsics
  /\ UNCHANGED <<launchVars, cloudVars, position, loopVars, historyVars, matchVars>>

(***************************************************************************)
(* Nothing in start() or main() catches an exception: an extracted cloud   *)
(* that cannot be saved, an unreadable parameter file, a camera index the  *)
(* vectors do not have, a detector that fails, a solver given no points,   *)
(* or a file that cannot be read back ends the process.                    *)
(***************************************************************************)
MayTerminate ==
  \/ At("extract_points") /\ cloud_loaded
  \/ At("init_CalibFunc")
  \/ At("next_camera")
  \/ At("calibrate") /\ SolverAborts(Cam, algorithm)

Terminate ==
  /\ MayTerminate
  /\ GoTo("terminated")
  /\ UNCHANGED <<launchVars, cloudVars, position, loopVars, historyVars,
                 matchVars, calibVars>>

StartStep ==
  \/ LoadTemplateImage \/ LoadPcdFile \/ CheckOrientation \/ ExtractPoints
  \/ BoardRegister \/ SetQ \/ InitCalib \/ DetectArucoMarkers \/ SetP
  \/ GetMatchResult \/ SetData \/ Calibrate \/ WriteAll \/ Terminate

(* The operator ends the node, or finds it ended, and launches it again. *)
Relaunch ==
  /\ pc \in {"returned", "terminated"}
  /\ run < MaxRuns
  /\ run' = run + 1
  /\ GoTo("load_template_image")
  /\ camera_group' \in CameraGroups
  /\ calib_list' \in CalibLists
  /\ algorithm' \in Algorithms
  /\ cam_id_name_map' = KnownToDetAruco'
  /\ cloud_loaded' = FALSE
  /\ input' = <<>> /\ boards' = <<>>
  /\ position' = 1
  /\ aruco_info' = <<>> /\ result' = {}
  /\ refused' = {} /\ solved' = {}
  /\ Q_board_corners' = <<>> /\ P_board_corners' = <<>>
  /\ CalibFuncRestart

Next == StartStep \/ Relaunch

Spec == Init /\ [][Next]_vars

(* start() is straight-line code on the main thread: it keeps running. *)
FairSpec == Spec /\ WF_vars(StartStep)

(***************************************************************************)
(* Properties.                                                             *)
(***************************************************************************)

(* An image corner used for a camera was measured in that camera's own      *)
(* image, unless setBoardArucoCenters_P refused the camera in this launch.  *)
CornersAreOwn ==
  \A c \in Cams : \A pair \in board_data[c] :
    pair.corners_2d.cam = c \/ c \in refused

(* The claim of the refusal's message, that the camera is not registered:   *)
(* no camera is given another one's image corners.                          *)
RefusedIsNotRegistered ==
  \A c \in Cams : \A pair \in board_data[c] : pair.corners_2d.cam = c

(* The id that the timer publishes above a lidar board (boards[i].board_id) *)
(* is the id under which that board's corners serve as calibration data.    *)
Published(pair) ==
  \A i \in DOMAIN boards :
    (boards[i].corners = pair.corners_cloud /\ pair.corners_cloud # NoCorners)
      => boards[i].board_id = pair.board_id

PublishedIdIsMatchedId ==
  \A c \in Cams : \A pair \in board_data[c] : Published(pair)

(* The configured convention: marker_order lists tags in bearing order.     *)
FollowsMarkerOrder(S) ==
  \A a \in S : LET rank == Cardinality({b \in S : Bearing[b] < Bearing[a]}) + 1
               IN  rank \in DOMAIN MarkerOrder /\ TagOn[a] = MarkerOrder[rank]

SeenClusters == {boards[i].corners : i \in DOMAIN boards}

AllBoardsSeen ==
  /\ NoCorners \notin SeenClusters
  /\ Cardinality(SeenClusters) = Len(boards)
  /\ \A a, b \in SeenClusters : Bearing[a] = Bearing[b] => a = b
  /\ FollowsMarkerOrder(SeenClusters)

(* When every board of the scene was registered and the boards hang in the  *)
(* configured order, each pair joins a tag with the board that carries it,  *)
(* whatever order the clusters were extracted in.                           *)
CompleteScenePairsRight ==
  AllBoardsSeen =>
    \A c \in Cams : \A pair \in board_data[c] :
      TagOn[pair.corners_cloud] = pair.board_id

(* The claim that matched 2D and 3D corners correspond, whatever was seen.  *)
MatchedCornersCorrespond ==
  \A c \in Cams : \A pair \in board_data[c] :
    pair.corners_cloud # NoCorners => TagOn[pair.corners_cloud] = pair.board_id

(* A file entry changes only for a camera this launch was asked for, which  *)
(* had a reference pose and corner pairs, and whose solution was accepted.  *)
OnlySolvedCamerasChange ==
  [][\A c \in Cams : extrinsics_file'[c] # extrinsics_file[c] =>
       /\ c \in solved /\ c \in ListedIds /\ c \in extrinsics_gt
       /\ board_data[c] # {}]_vars

(* What the file sees of a launch is one commit of requested cameras.       *)
Finished == pc \in {"returned", "terminated"}

Store == INSTANCE CalibStore WITH
  store   <- extrinsics_file,
  request <- ListedIds \cap Cams,
  phase   <- IF Finished THEN "closed" ELSE "open"

ImplementsStore == Store!StoreSpec

(* ExtraBoard is no more to this node than BoardSource, which the stages of *)
(* BoardPipeline implement: distinct clusters, then a board for each, in    *)
(* their order, until the process is another one.                          *)
Source == INSTANCE BoardSource WITH
  clusters <- input,
  corners  <- [i \in DOMAIN boards |-> boards[i].corners]

ImplementsSource == Source!SourceSpec

(* start() always comes to an end, with or without an exception.            *)
StartEnds == At("load_template_image") ~> Finished

(* A camera that init_DetAruco took no name for is never solved: it has no  *)
(* corners of its own, and does not come by another camera's.  A list of a  *)
(* single camera is taken for a faulty one, so nothing is calibrated then.  *)
OnlyNamedCamerasSolved == solved \subseteq cam_id_name_map

(* How many calls start() can still make, of whatever outcome: the calls    *)
(* before the loop, five for each camera left, and the writing.             *)
CallsAhead ==
  [load_template_image |-> 13, load_pcd_file |-> 12, check_orientation |-> 11,
   extract_points |-> 10, board_register |-> 9, set_Q |-> 8, init_CalibFunc |-> 7,
   next_camera |-> 6, set_P |-> 5, match |-> 4, set_data |-> 3, calibrate |-> 2]

StepsLeft ==
  IF Finished THEN 0 ELSE 5 * (Len(calib_list) - position) + CallsAhead[pc]

(* That start() ends does not hang on what its calls find: each brings the  *)
(* end nearer, for camera lists of any length, with cameras listed twice,   *)
(* unknown ones and none at all.                                            *)
StartIsBounded == [][StartStep => StepsLeft' < StepsLeft /\ 0 <= StepsLeft']_vars

(* When start() returns, every solution it accepted is in the file, for     *)
(* cameras that have an entry: no later camera takes it back, and no early  *)
(* return leaves it in memory.                                              *)
ReturnedHasWritten ==
  At("returned") => \A c \in solved : extrinsics_file[c] \in {Absent, camera_params[c]}

(* A camera's accepted solution reaches the file, unless the process is     *)
(* terminated first: by a later camera, or by the file itself.              *)
SolvedReachesFile ==
  \A c \in Cams :
    (c \in solved /\ extrinsics_file[c] # Absent)
      ~> (At("terminated") \/ extrinsics_file[c] = camera_params[c])

(***************************************************************************)
(* The strengthenings that make the properties above inductive.            *)
(***************************************************************************)
LoopBody == {"set_P", "match", "set_data", "calibrate"}
BeforeLoop == {"load_template_image", "load_pcd_file", "check_orientation",
               "extract_points", "board_register", "set_Q", "init_CalibFunc"}

(* Inside the loop body there is a current camera, with a slot.            *)
CurrentCamera == pc \in LoopBody => position \in DOMAIN calib_list /\ Cam \in Cams

(* A camera without a name has no corners, at any stage of the loop body.   *)
NamedInv ==
  /\ cam_id_name_map = KnownToDetAruco
  /\ pc \in LoopBody /\ Cam \notin cam_id_name_map =>
       /\ At("set_P") => aruco_info = <<>>
       /\ At("match") => P_board_corners = <<>>
       /\ At("set_data") => result = {}
  /\ \A c \in Cams \ cam_id_name_map : board_data[c] = {}
  /\ OnlyNamedCamerasSolved

(* The index of the loop never runs past the end of the list.              *)
PositionInv == position <= Len(calib_list) + 1

OwnOrRefused(corners_2d) == corners_2d.cam = Cam \/ Cam \in refused

(* Where the current camera's corners are on their way to board_data.      *)
OwnOnTheWay ==
  /\ At("set_P") => \A i \in DOMAIN aruco_info : aruco_info[i].cam = Cam
  /\ At("match") => \A i \in DOMAIN P_board_corners : OwnOrRefused(P_board_corners[i])
  /\ At("set_data") => \A pair \in result : OwnOrRefused(pair.corners_2d)

OwnInv == CurrentCamera /\ OwnOnTheWay /\ CornersAreOwn

(* Memory and file agree on every camera that has not been solved.         *)
UnsolvedAsLoaded ==
  pc \in LoopBody \cup {"next_camera"} =>
    \A c \in Cams \ solved : camera_params[c] = LoadedPose(c)

(* A solved camera was listed and had what the solver needs.  Its data is  *)
(* lost only when it is listed twice and then sees nothing, and then the   *)
(* process cannot get past calibrate.                                      *)
SolvedHadData ==
  \A c \in solved :
    /\ c \in ListedIds /\ SolverRuns(c, algorithm)
    /\ \/ board_data[c] # {}
       \/ At("calibrate") /\ c = Cam
       \/ At("terminated")

SolvedInv ==
  /\ pc \in BeforeLoop => solved = {}
  /\ UnsolvedAsLoaded
  /\ SolvedHadData

(* Labels and ids agree as long as marker_order is long enough and the      *)
(* clusters of a scene are distinct.                                       *)
LongOrder == MarkerNum <= Len(MarkerOrder)

Distinct(s) == \A i, j \in DOMAIN s : s[i] = s[j] => i = j
DistinctClusters == \A clusters \in Extractions : Distinct(clusters)

BoardsDistinct ==
  \A i, j \in DOMAIN boards :
    (boards[i].corners = boards[j].corners /\ boards[i].corners # NoCorners) => i = j

QPublished ==
  \A j \in DOMAIN Q_board_corners :
    \A i \in DOMAIN boards :
      (boards[i].corners = Q_board_corners[j].corners
         /\ Q_board_corners[j].corners # NoCorners)
        => boards[i].board_id = Q_board_corners[j].board_id

PublishedInv ==
  /\ pc \in BeforeLoop \ {"init_CalibFunc"} =>
       Q_board_corners = <<>> /\ \A c \in Cams : board_data[c] = {}
  /\ pc \in BeforeLoop \ {"init_CalibFunc", "set_Q"} => boards = <<>>
  /\ At("board_register") => Distinct(input)
  /\ At("set_Q") => BoardsDistinct
  /\ QPublished
  /\ At("set_data") => \A pair \in result : Published(pair)
  /\ PublishedIdIsMatchedId
=============================================================================
