----------------------------- MODULE CalibFunc ------------------------------
(***************************************************************************)
(* CalibFunc (src/calibrate.cpp): the singleton that holds every camera's  *)
(* parameters, solves one camera at a time and writes the extrinsics file. *)
(*                                                                         *)
(* A pose (x, y, z, roll, pitch, yaw) is a model value, and the solver may *)
(* return any pose: only whether it is asked, whether it accepts, and      *)
(* where its answer goes is modelled.  The four corner pairs of a matched  *)
(* board are kept as one item of board_data.                               *)
(***************************************************************************)
EXTENDS Integers

CONSTANTS
  Cams,      \* the camera indices the two vectors are sized for (7 in the code)
  Poses,     \* the values an extrinsic can take
  ZeroPose,  \* a default-constructed ExtParams
  Absent,    \* no entry of that camera in the extrinsics file
  GTChoices  \* the sets of cameras the ground-truth file may describe

ASSUME PoseAssumption ==
  /\ Cams \subseteq Int
  /\ ZeroPose \in Poses
  /\ Absent \notin Poses
  /\ GTChoices \subseteq SUBSET Cams

VARIABLES
  camera_params,   \* [Cams -> Poses]: the extrinsics_ member of each camera
  board_data,      \* [Cams -> set of matched boards]
  extrinsics_gt,   \* cameras that have a reference pose
  flag_init,
  extrinsics_file  \* sensor_kit_calibration.yaml, its camera entries

paramVars == <<camera_params, board_data, extrinsics_gt, flag_init>>

CalibTypeOK ==
  /\ camera_params \in [Cams -> Poses]
  /\ extrinsics_gt \subseteq Cams
  /\ flag_init \in BOOLEAN
  /\ extrinsics_file \in [Cams -> Poses \cup {Absent}]

(* The members as the constructor leaves them. *)
CalibFuncInit ==
  /\ camera_params = [c \in Cams |-> ZeroPose]
  /\ board_data = [c \in Cams |-> {}]
  /\ extrinsics_gt = {}
  /\ flag_init = FALSE
  /\ extrinsics_file \in [Cams -> Poses \cup {Absent}]

(* A new process constructs them again and finds the file as it was. *)
CalibFuncRestart ==
  /\ camera_params' = [c \in Cams |-> ZeroPose]
  /\ board_data' = [c \in Cams |-> {}]
  /\ extrinsics_gt' = {}
  /\ flag_init' = FALSE
  /\ UNCHANGED extrinsics_file

(* Mutations: the missing entry is not replaced by the default; the file is *)
(* not read at all.                                                         *)
LoadedPoseRaw(c) == extrinsics_file[c]
LoadedPoseUnread(c) == ZeroPose

(* read_extrinsicParams: a camera without an entry keeps the zero pose. *)
LoadedPose(c) ==
  IF extrinsics_file[c] = Absent THEN ZeroPose ELSE extrinsics_file[c]

(* init_CalibFunc when every file is readable. *)
InitCalibFunc ==
  /\ camera_params' = [c \in Cams |-> LoadedPose(c)]
  /\ extrinsics_gt' \in GTChoices
  /\ flag_init' = TRUE
  /\ UNCHANGED <<board_data, extrinsics_file>>

SetDataForCalib(cam, pairs) ==
  /\ board_data' = [board_data EXCEPT ![cam] = pairs]
  /\ UNCHANGED <<camera_params, extrinsics_gt, flag_init, extrinsics_file>>

(***************************************************************************)
(* calibrate.  Without initialisation or a reference pose it returns; an   *)
(* unknown algorithm solves nothing; the three known ones are handed the   *)
(* board data, and none of them survives an empty set of points: Ceres     *)
(* aborts on a parameter block no residual uses, solvePnP throws.          *)
(***************************************************************************)
KnownAlgorithms == {"ceres", "ceres_restrain", "epnp"}

CanStart(cam) == flag_init /\ cam \in extrinsics_gt

SolverRuns(cam, algorithm) == CanStart(cam) /\ algorithm \in KnownAlgorithms

SolverAborts(cam, algorithm) ==
  SolverRuns(cam, algorithm) /\ board_data[cam] = {}

CalibrationSucceeds(cam, algorithm) ==
  /\ SolverRuns(cam, algorithm)
  /\ board_data[cam] # {}
  /\ \E pose \in Poses : camera_params' = [camera_params EXCEPT ![cam] = pose]
  /\ UNCHANGED <<board_data, extrinsics_gt, flag_init, extrinsics_file>>

CalibrationFails(cam, algorithm) ==
  /\ ~SolverAborts(cam, algorithm)
  /\ UNCHANGED <<paramVars, extrinsics_file>>

(* Mutations: entries are created for cameras that have none; the entries   *)
(* read again are written back unchanged.                                   *)
WriteAllEntries ==
  /\ extrinsics_file' = camera_params
  /\ UNCHANGED paramVars

WriteNothing == UNCHANGED <<extrinsics_file, paramVars>>

(***************************************************************************)
(* write_Extrinsics: the file is read again and the entry of every camera  *)
(* that has one is replaced by the pose in memory, calibrated or not.      *)
(***************************************************************************)
WriteExtrinsics ==
  /\ extrinsics_file' =
       [c \in Cams |-> IF extrinsics_file[c] = Absent THEN Absent ELSE camera_params[c]]
  /\ UNCHANGED paramVars
=============================================================================
