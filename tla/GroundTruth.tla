---------------------------- MODULE GroundTruth -----------------------------
(***************************************************************************)
(* Utils (include/utils.h) as CalibFunc::init_CalibFunc calls it: the      *)
(* ground-truth file sensor_kit_calibration_gt.yaml is read, the reference *)
(* pose of each listed camera is computed from the measured origin and     *)
(* from where the lidars are mounted, and the file is written back with    *)
(* these poses in it.  No call looks at what the call before it returned.  *)
(*                                                                         *)
(* A camera's reference pose is the lidar mounting it was computed from:   *)
(* the rest of it is a constant of the origin.  An empty file, one that is *)
(* missing and one that is no YAML leave the same in memory: Null.         *)
(***************************************************************************)
EXTENDS Integers

CONSTANTS
  Cams,        \* camera slots
  Listed,      \* the cameras the lists and the key map of the file name
  Mounts,      \* possible lidar entries of the extrinsics file
  Unreadable,  \* that file does not open, or has no lidar entries
  NoPose

ASSUME ReferenceAssumption ==
  /\ Listed \subseteq Cams /\ Listed # {}
  /\ Unreadable \notin Mounts /\ NoPose \notin Mounts

VARIABLES
  gt_file,         \* sensor_kit_calibration_gt.yaml
  mount,           \* the lidar entries of sensor_kit_calibration.yaml
  gt_step,         \* the next step of init_CalibFunc
  config_node,     \* the document in memory
  sensors_to,      \* gt_sensors_to_front and _rear: the cameras to compute
  extrinsic_params, \* the lidar entries as read; Unreadable before
  robobus_params,  \* the origin has been taken from config_node
  relativePositionMap, \* the computed reference poses
  extrinsics_gt,   \* CalibFunc: the reference poses calibration uses
  cut_off          \* history: a process ended with the file open

gtMemory == <<config_node, sensors_to, extrinsic_params, robobus_params,
              relativePositionMap, extrinsics_gt>>
gtVars == <<gt_file, mount, gt_step, gtMemory, cut_off>>

Poses == [Cams -> Mounts \cup {NoPose}]
NoPoses == [c \in Cams |-> NoPose]

Document ==
  [lists : {"none", "partial", "whole"}, origin : BOOLEAN,
   sensor_kit_base_link : Poses]

Null == [lists |-> "none", origin |-> FALSE, sensor_kit_base_link |-> NoPoses]

HasSource(doc) == doc.lists = "whole" /\ doc.origin

GTSteps == {"read_config", "read_sensors", "read_origin", "compute", "save",
            "write", "read_back", "ready", "thrown"}

GTTypeOK ==
  /\ gt_file \in Document
  /\ mount \in Mounts \cup {Unreadable}
  /\ gt_step \in GTSteps
  /\ config_node \in Document
  /\ sensors_to \subseteq Cams
  /\ extrinsic_params \in Mounts \cup {Unreadable}
  /\ robobus_params \in BOOLEAN
  /\ relativePositionMap \in Poses
  /\ extrinsics_gt \in Poses
  /\ cut_off \in BOOLEAN

(* What a process has before init_CalibFunc. *)
MemoryInit ==
  /\ gt_step = "read_config"
  /\ config_node = Null
  /\ sensors_to = {}
  /\ extrinsic_params = Unreadable
  /\ robobus_params = FALSE
  /\ relativePositionMap = NoPoses
  /\ extrinsics_gt = NoPoses

MemoryReset ==
  /\ gt_step' = "read_config"
  /\ config_node' = Null
  /\ sensors_to' = {}
  /\ extrinsic_params' = Unreadable
  /\ robobus_params' = FALSE
  /\ relativePositionMap' = NoPoses
  /\ extrinsics_gt' = NoPoses

(* A document as the operator leaves it, with all poses or with none.      *)
InitialDocuments ==
  {doc \in Document :
     \E p \in Mounts \cup {NoPose} : doc.sensor_kit_base_link = [c \in Cams |-> p]}

GTInit ==
  /\ gt_file \in InitialDocuments
  /\ mount \in Mounts \cup {Unreadable}
  /\ cut_off = FALSE
  /\ MemoryInit

GTAt(step) == gt_step = step
GTGoTo(step) == gt_step' = step

(***************************************************************************)
(* init_params.  Each part is read only if the one before it was.          *)
(***************************************************************************)

(* The document stays in memory when reading its lists fails half-way.     *)
ReadConfig ==
  /\ GTAt("read_config")
  /\ config_node' = gt_file
  /\ sensors_to' = IF gt_file.lists = "none" THEN {} ELSE Listed
  /\ GTGoTo(IF gt_file.lists = "whole" THEN "read_sensors" ELSE "compute")
  /\ UNCHANGED <<gt_file, mount, extrinsic_params, robobus_params,
                 relativePositionMap, extrinsics_gt, cut_off>>

(* Mutation: init_params is begun again until it succeeds. *)
ReadSensorsOrRetry ==
  /\ GTAt("read_sensors")
  /\ extrinsic_params' \in {mount, Unreadable}
  /\ GTGoTo(IF extrinsic_params' = Unreadable THEN "read_config" ELSE "read_origin")
  /\ UNCHANGED <<gt_file, mount, config_node, sensors_to, robobus_params,
                 relativePositionMap, extrinsics_gt, cut_off>>

(* A tool may have the extrinsics file truncated just now. *)
ReadSensorsParams ==
  /\ GTAt("read_sensors")
  /\ extrinsic_params' \in {mount, Unreadable}
  /\ GTGoTo("read_origin") \/ (extrinsic_params' = Unreadable /\ GTGoTo("compute"))
  /\ UNCHANGED <<gt_file, mount, config_node, sensors_to, robobus_params,
                 relativePositionMap, extrinsics_gt, cut_off>>

(* A missing key throws what init_params does not catch. *)
ReadRobobusGroundTruth ==
  /\ GTAt("read_origin")
  /\ robobus_params' = config_node.origin
  /\ GTGoTo(IF config_node.origin THEN "compute" ELSE "thrown")
  /\ UNCHANGED <<gt_file, mount, config_node, sensors_to, extrinsic_params,
                 relativePositionMap, extrinsics_gt, cut_off>>

(* Mutation: a camera whose pose cannot be computed is left out.           *)
ComputeSome ==
  /\ GTAt("compute")
  /\ \E able \in IF extrinsic_params = Unreadable THEN {{}} ELSE SUBSET sensors_to :
       relativePositionMap' =
         [c \in Cams |-> IF c \in able THEN extrinsic_params ELSE NoPose]
  /\ GTGoTo("save")
  /\ UNCHANGED <<gt_file, mount, config_node, sensors_to, extrinsic_params,
                 robobus_params, extrinsics_gt, cut_off>>

(* Throws if there is a camera to compute and no origin or no mounting.    *)
GetExtrinsicParamsGT ==
  /\ GTAt("compute")
  /\ \/ /\ sensors_to = {} \/ (robobus_params /\ extrinsic_params # Unreadable)
        /\ relativePositionMap' =
             [c \in Cams |-> IF c \in sensors_to THEN extrinsic_params ELSE NoPose]
        /\ GTGoTo("save")
     \/ /\ sensors_to # {}
        /\ ~robobus_params \/ extrinsic_params = Unreadable
        /\ UNCHANGED relativePositionMap
        /\ GTGoTo("thrown")
  /\ UNCHANGED <<gt_file, mount, config_node, sensors_to, extrinsic_params,
                 robobus_params, extrinsics_gt, cut_off>>

(***************************************************************************)
(* saveExtrinsicParamsGT: the poses replace those of the document, which   *)
(* is then written over the file; opening truncates.  A file that does not *)
(* open is left alone.                                                     *)
(***************************************************************************)

(* Mutation: only the poses are put in the document that is written.       *)
SaveOpenPosesOnly ==
  /\ GTAt("save")
  /\ config_node' = [Null EXCEPT !.sensor_kit_base_link = relativePositionMap]
  /\ \/ GTGoTo("write") /\ gt_file' = Null
     \/ GTGoTo("read_back") /\ UNCHANGED gt_file
  /\ UNCHANGED <<mount, sensors_to, extrinsic_params, robobus_params,
                 relativePositionMap, extrinsics_gt, cut_off>>

(* Mutation: nothing is stored when nothing was computed.                  *)
SaveOpenIfComputed ==
  /\ GTAt("save")
  /\ config_node' = IF sensors_to = {} THEN config_node
                    ELSE [config_node EXCEPT !.sensor_kit_base_link = relativePositionMap]
  /\ \/ GTGoTo("write") /\ gt_file' = Null
     \/ GTGoTo("read_back") /\ UNCHANGED gt_file
  /\ UNCHANGED <<mount, sensors_to, extrinsic_params, robobus_params,
                 relativePositionMap, extrinsics_gt, cut_off>>

SaveOpen ==
  /\ GTAt("save")
  /\ config_node' = [config_node EXCEPT !.sensor_kit_base_link = relativePositionMap]
  /\ \/ GTGoTo("write") /\ gt_file' = Null
     \/ GTGoTo("read_back") /\ UNCHANGED gt_file
  /\ UNCHANGED <<mount, sensors_to, extrinsic_params, robobus_params,
                 relativePositionMap, extrinsics_gt, cut_off>>

SaveWrite ==
  /\ GTAt("write")
  /\ gt_file' = config_node
  /\ GTGoTo("read_back")
  /\ UNCHANGED <<mount, gtMemory, cut_off>>

(* readExtrinsics_gt takes the poses from memory, not from the file.       *)
ReadExtrinsicsGT ==
  /\ GTAt("read_back")
  /\ extrinsics_gt' = config_node.sensor_kit_base_link
  /\ GTGoTo("ready")
  /\ UNCHANGED <<gt_file, mount, config_node, sensors_to, extrinsic_params,
                 robobus_params, relativePositionMap, cut_off>>

InitCalibFuncStep ==
  \/ ReadConfig \/ ReadSensorsParams \/ ReadRobobusGroundTruth
  \/ GetExtrinsicParamsGT \/ SaveOpen \/ SaveWrite \/ ReadExtrinsicsGT

(* The process is killed: what is lost is what was being written.          *)
CutOff == cut_off' = (cut_off \/ GTAt("write"))
=============================================================================
