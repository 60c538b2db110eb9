------------------------ MODULE NodeLifecycleProofs -------------------------
(***************************************************************************)
(* Proofs about NodeLifecycle: types, and what becomes of the ground-truth *)
(* file and of the reference poses, for any cameras, mountings, timer      *)
(* frequencies and number of launches.                                     *)
(***************************************************************************)
EXTENDS NodeLifecycle, TLAPS

(* What the ground truth can see of a step.                                *)
GroundTruthStep ==
  \/ At("init_CalibFunc") /\ InitCalibFuncStep /\ InitCalibFunc
  \/ Relaunch
  \/ Kill
  \/ /\ UNCHANGED <<gtVars, file_at_launch>>
     /\ At("init_CalibFunc") /\ GTAt("write") => UNCHANGED pc

(* Of all the steps of the process only the calls of init_CalibFunc, a     *)
(* relaunch and a kill concern the ground truth; and no other step leaves  *)
(* init_CalibFunc while the file is open.                                  *)
LEMMA StepsSeen == [Next]_vars => GroundTruthStep
<1> SUFFICES ASSUME [Next]_vars PROVE GroundTruthStep
  OBVIOUS
<1> USE DEF GroundTruthStep, At, GTAt
<1>1. CASE UNCHANGED vars
  BY <1>1 DEF vars, processVars
<1>2. CASE Construct \/ Start \/ Cameras \/ SpinReturns \/ Destructor \/ DestroyMembers
  BY <1>2 DEF Construct, Start, Cameras, SpinReturns, Destructor, DestroyMembers, processVars
<1>3. CASE ReadAllParamsThrows
  BY <1>3 DEF ReadAllParamsThrows, processVars
<1>4. CASE InitCalibFunc
  BY <1>4 DEF InitCalibFunc
<1>5. CASE TimerCallback \/ Interrupt \/ Subscribe \/ Tick
  BY <1>5 DEF TimerCallback, Interrupt, Subscribe, Tick
<1>6. CASE Kill \/ Relaunch
  BY <1>6
<1> QED
  BY <1>1, <1>2, <1>3, <1>4, <1>5, <1>6 DEF Next, MainStep

-----------------------------------------------------------------------------
(***************************************************************************)
(* Type correctness.                                                       *)
(***************************************************************************)

LEMMA PosesOf ==
  ASSUME NEW S \in SUBSET Cams, NEW m \in Mounts \cup {NoPose}
  PROVE  [c \in Cams |-> IF c \in S THEN m ELSE NoPose] \in Poses
BY DEF Poses

LEMMA NullIsDocument == Null \in Document /\ NoPoses \in Poses
BY DEF Null, Document, Poses, NoPoses

LEMMA WithPosesIsDocument ==
  ASSUME NEW doc \in Document, NEW poses \in Poses
  PROVE  /\ [doc EXCEPT !.sensor_kit_base_link = poses] \in Document
         /\ [doc EXCEPT !.sensor_kit_base_link = poses].sensor_kit_base_link = poses
         /\ HasSource([doc EXCEPT !.sensor_kit_base_link = poses]) <=> HasSource(doc)
BY DEF Document, HasSource

LEMMA GroundTruthTypes ==
  ASSUME GTTypeOK, InitCalibFuncStep
  PROVE  GTTypeOK'
<1> USE ReferenceAssumption DEF GTTypeOK, GTAt, GTGoTo, GTSteps
<1>1. CASE ReadConfig
  BY <1>1 DEF ReadConfig
<1>2. CASE ReadSensorsParams
  BY <1>2 DEF ReadSensorsParams
<1>3. CASE ReadRobobusGroundTruth
  <2>1. robobus_params' \in BOOLEAN
    BY <1>3 DEF ReadRobobusGroundTruth, Document
  <2> QED
    BY <1>3, <2>1 DEF ReadRobobusGroundTruth
<1>4. CASE GetExtrinsicParamsGT
  <2>1. relativePositionMap' \in Poses
    <3>1. CASE relativePositionMap' = relativePositionMap
      BY <3>1
    <3>2. CASE /\ sensors_to = {}
               /\ relativePositionMap' =
                    [c \in Cams |-> IF c \in sensors_to THEN extrinsic_params ELSE NoPose]
      BY <3>2 DEF Poses
    <3>3. CASE /\ extrinsic_params # Unreadable
               /\ relativePositionMap' =
                    [c \in Cams |-> IF c \in sensors_to THEN extrinsic_params ELSE NoPose]
      BY <3>3, PosesOf
    <3> QED
      BY <1>4, <3>1, <3>2, <3>3 DEF GetExtrinsicParamsGT
  <2> QED
    BY <1>4, <2>1 DEF GetExtrinsicParamsGT
<1>5. CASE SaveOpen
  <2>1. config_node' \in Document
    BY <1>5, WithPosesIsDocument DEF SaveOpen
  <2> QED
    BY <1>5, <2>1, NullIsDocument DEF SaveOpen
<1>6. CASE SaveWrite
  BY <1>6 DEF SaveWrite, gtMemory
<1>7. CASE ReadExtrinsicsGT
  <2>1. extrinsics_gt' \in Poses
    BY <1>7 DEF ReadExtrinsicsGT, Document
  <2> QED
    BY <1>7, <2>1 DEF ReadExtrinsicsGT
<1> QED
  BY <1>1, <1>2, <1>3, <1>4, <1>5, <1>6, <1>7 DEF InitCalibFuncStep

LEMMA MemoryInitTypes ==
  ASSUME MemoryInit
  PROVE  /\ gt_step \in GTSteps /\ config_node \in Document
         /\ sensors_to \subseteq Cams
         /\ extrinsic_params \in Mounts \cup {Unreadable}
         /\ robobus_params \in BOOLEAN
         /\ relativePositionMap \in Poses /\ extrinsics_gt \in Poses
BY NullIsDocument DEF MemoryInit, GTSteps

LEMMA MemoryResetTypes ==
  ASSUME MemoryReset
  PROVE  /\ gt_step' \in GTSteps /\ config_node' \in Document
         /\ sensors_to' \subseteq Cams
         /\ extrinsic_params' \in Mounts \cup {Unreadable}
         /\ robobus_params' \in BOOLEAN
         /\ relativePositionMap' \in Poses /\ extrinsics_gt' \in Poses
BY NullIsDocument DEF MemoryReset, GTSteps

LEMMA PeriodsAreIntegers == \A f \in Frequencies : Periods(f) \subseteq Int
BY LifecycleAssumption DEF Periods

LEMMA TypeInit == Init => TypeOK
<1> SUFFICES ASSUME Init PROVE TypeOK
  OBVIOUS
<1>1. gt_file \in Document
  BY DEF Init, GTInit, InitialDocuments
<1>2. mount \in Mounts \cup {Unreadable} /\ cut_off = FALSE /\ MemoryInit
  BY DEF Init, GTInit
<1>3. GTTypeOK
  BY <1>1, <1>2, MemoryInitTypes DEF GTTypeOK
<1>4. file_at_launch \in Document /\ ok \in BOOLEAN /\ labelled \in BOOLEAN /\ due \in BOOLEAN
  BY <1>1 DEF Init
<1> QED
  BY <1>3, <1>4 DEF Init, TypeOK, Places

LEMMA TypeStep == TypeOK /\ [Next]_vars => TypeOK'
<1> SUFFICES ASSUME TypeOK, [Next]_vars PROVE TypeOK'
  OBVIOUS
<1> USE DEF At, GoTo, Places
<1>a. UNCHANGED gtVars => GTTypeOK'
  BY DEF TypeOK, GTTypeOK, gtVars, gtMemory
<1>1. CASE UNCHANGED vars
  BY <1>1, <1>a DEF vars, processVars, timerVars, TypeOK
<1>2. CASE Construct
  BY <1>2, <1>a, PeriodsAreIntegers DEF Construct, Rearm, timerVars, TypeOK
<1>3. CASE Start
  BY <1>3, <1>a DEF Start, timerVars, TypeOK
<1>4. CASE ReadAllParamsThrows \/ Cameras \/ SpinReturns \/ DestroyMembers
  BY <1>4, <1>a DEF ReadAllParamsThrows, Cameras, SpinReturns, DestroyMembers, processVars,
                   timerVars, TypeOK
<1>5. CASE InitCalibFunc
  <2>1. GTTypeOK'
    BY <1>5, GroundTruthTypes DEF InitCalibFunc, TypeOK
  <2> QED
    BY <1>5, <2>1 DEF InitCalibFunc, processVars, timerVars, TypeOK
<1>6. CASE TimerCallback
  BY <1>6, <1>a DEF TimerCallback, Rearm, TypeOK
<1>7. CASE Destructor
  BY <1>7, <1>a DEF Destructor, timerVars, TypeOK
<1>8. CASE Interrupt \/ Subscribe \/ Tick
  BY <1>8, <1>a DEF Interrupt, Subscribe, Tick, timerVars, TypeOK
<1>9. CASE Kill
  BY <1>9 DEF Kill, CutOff, GTAt, processVars, timerVars, gtMemory, TypeOK, GTTypeOK
<1>10. CASE Relaunch
  <2>1. GTTypeOK'
    BY <1>10, MemoryResetTypes DEF Relaunch, TypeOK, GTTypeOK
  <2>2. /\ file_at_launch' \in Document
        /\ ok' \in BOOLEAN /\ labelled' \in BOOLEAN /\ due' \in BOOLEAN
    BY <1>10 DEF Relaunch, TypeOK, GTTypeOK
  <2>3. logger' = "spdlog" /\ period' = -1 /\ run' = run + 1 /\ viewer' = viewer
    BY <1>10 DEF Relaunch
  <2> QED
    BY <1>10, <2>1, <2>2, <2>3 DEF Relaunch, TypeOK
<1> QED
  BY <1>1, <1>2, <1>3, <1>4, <1>5, <1>6, <1>7, <1>8, <1>9, <1>10 DEF Next, MainStep

(* All variables keep their types, through every launch: in particular the *)
(* document in memory and the file are whole documents, whatever failed.   *)
THEOREM TypeCorrect == Spec => []TypeOK
BY TypeInit, TypeStep, PTL DEF Spec

-----------------------------------------------------------------------------
(***************************************************************************)
(* The file's source.  From the moment it was read, the document in memory *)
(* has what the file had at launch; and only a process that was killed is  *)
(* gone with the file open.                                                *)
(***************************************************************************)
SourceInv ==
  /\ GTAt("write") => At("init_CalibFunc") \/ cut_off
  /\ HasSource(file_at_launch) /\ ~cut_off =>
       /\ ~GTAt("read_config") => HasSource(config_node)
       /\ ~GTAt("write") => HasSource(gt_file)

LEMMA SourceInit == Init => SourceInv
BY DEF Init, GTInit, MemoryInit, SourceInv, GTAt, At

LEMMA SourceStep == TypeOK /\ SourceInv /\ [Next]_vars => SourceInv'
<1> SUFFICES ASSUME TypeOK, SourceInv, GroundTruthStep PROVE SourceInv'
  BY StepsSeen
<1> USE DEF SourceInv, GTAt, At, GTGoTo, GoTo
<1>1. CASE At("init_CalibFunc") /\ InitCalibFuncStep /\ InitCalibFunc
  <2> USE <1>1
  <2>1. UNCHANGED <<file_at_launch, cut_off>>
    BY DEF InitCalibFunc, InitCalibFuncStep, processVars, ReadConfig, ReadSensorsParams,
           ReadRobobusGroundTruth, GetExtrinsicParamsGT, SaveOpen, SaveWrite, ReadExtrinsicsGT
  <2>2. gt_step' = "write" => pc' = "init_CalibFunc"
    BY DEF InitCalibFunc
  <2>3. CASE ReadConfig
    BY <2>1, <2>2, <2>3 DEF ReadConfig
  <2>4. CASE SaveOpen
    <3>1. HasSource(config_node') <=> HasSource(config_node)
      BY <2>4, WithPosesIsDocument DEF SaveOpen, TypeOK, GTTypeOK
    <3> QED
      BY <2>1, <2>2, <2>4, <3>1 DEF SaveOpen
  <2>5. CASE SaveWrite
    BY <2>1, <2>2, <2>5 DEF SaveWrite, gtMemory
  <2>6. CASE ReadSensorsParams \/ ReadRobobusGroundTruth \/ GetExtrinsicParamsGT \/ ReadExtrinsicsGT
    BY <2>1, <2>2, <2>6 DEF ReadSensorsParams, ReadRobobusGroundTruth, GetExtrinsicParamsGT,
                           ReadExtrinsicsGT
  <2> QED
    BY <2>3, <2>4, <2>5, <2>6 DEF InitCalibFuncStep
<1>2. CASE Relaunch
  BY <1>2 DEF Relaunch, MemoryReset
<1>3. CASE Kill
  BY <1>3 DEF Kill, CutOff, processVars, gtMemory
<1>4. CASE /\ UNCHANGED <<gtVars, file_at_launch>>
           /\ At("init_CalibFunc") /\ GTAt("write") => UNCHANGED pc
  BY <1>4 DEF gtVars, gtMemory
<1> QED
  BY <1>1, <1>2, <1>3, <1>4 DEF GroundTruthStep

(* However often the node is launched, interrupted and killed: a ground-   *)
(* truth file that had its origin and lists when a launch began still has  *)
(* them, or they are in memory about to be written, unless some process    *)
(* was killed with the file open.                                          *)
THEOREM SourceIsKept == Spec => []SourceSurvives
<1>1. SourceInv => SourceSurvives
  BY DEF SourceInv, SourceSurvives, GTAt
<1> QED
  BY <1>1, SourceInit, SourceStep, TypeCorrect, PTL DEF Spec

-----------------------------------------------------------------------------
(***************************************************************************)
(* The reference poses.  What is in memory was computed in this launch,    *)
(* for the listed cameras or for none.  The document gets these poses, in  *)
(* the place of those it was read with, before anything is taken from it.  *)
(***************************************************************************)
Fresh(poses) == \A c \in Cams : poses[c] # NoPose => poses[c] = mount

Complete(poses) ==
  \/ \A c \in Cams : poses[c] = NoPose
  \/ \A c \in Cams : poses[c] # NoPose <=> c \in Listed

Sound(poses) == Fresh(poses) /\ Complete(poses)

PosesInv ==
  /\ extrinsic_params \in {mount, Unreadable}
  /\ sensors_to \in {{}, Listed}
  /\ Sound(relativePositionMap)
  /\ gt_step \in {"write", "read_back", "ready"} => Sound(config_node.sensor_kit_base_link)
  /\ Sound(extrinsics_gt)

LEMMA NoPosesAreSound == Sound(NoPoses) /\ (MemoryReset => Sound(NoPoses)')
BY DEF Sound, Fresh, Complete, NoPoses

LEMMA PosesInit == Init => PosesInv
BY NoPosesAreSound DEF Init, GTInit, MemoryInit, PosesInv

LEMMA PosesStep == TypeOK /\ PosesInv /\ [Next]_vars => PosesInv'
<1> SUFFICES ASSUME TypeOK, PosesInv, GroundTruthStep PROVE PosesInv'
  BY StepsSeen
<1> USE ReferenceAssumption DEF GTAt, GTGoTo
<1>1. CASE At("init_CalibFunc") /\ InitCalibFuncStep /\ InitCalibFunc
  <2> USE <1>1
  <2>a. mount' = mount
    BY DEF InitCalibFuncStep, ReadConfig, ReadSensorsParams, ReadRobobusGroundTruth,
           GetExtrinsicParamsGT, SaveOpen, SaveWrite, ReadExtrinsicsGT, gtMemory
  <2>1. CASE ReadConfig
    BY <2>1, <2>a DEF ReadConfig, PosesInv, Sound, Fresh, Complete
  <2>2. CASE ReadSensorsParams
    BY <2>2, <2>a DEF ReadSensorsParams, PosesInv, Sound, Fresh, Complete
  <2>3. CASE ReadRobobusGroundTruth
    BY <2>3, <2>a DEF ReadRobobusGroundTruth, PosesInv, Sound, Fresh, Complete
  <2>4. CASE GetExtrinsicParamsGT
    <3>1. Sound(relativePositionMap)'
      <4>1. CASE relativePositionMap' = relativePositionMap
        BY <4>1, <2>a DEF PosesInv, Sound, Fresh, Complete
      <4>2. CASE /\ sensors_to = {} \/ extrinsic_params # Unreadable
                 /\ relativePositionMap' =
                      [c \in Cams |-> IF c \in sensors_to THEN extrinsic_params ELSE NoPose]
        BY <4>2, <2>a DEF PosesInv, Sound, Fresh, Complete, TypeOK, GTTypeOK
      <4> QED
        BY <2>4, <4>1, <4>2 DEF GetExtrinsicParamsGT
    <3> QED
      BY <2>4, <2>a, <3>1 DEF GetExtrinsicParamsGT, PosesInv, Sound, Fresh, Complete
  <2>5. CASE SaveOpen
    <3>1. config_node'.sensor_kit_base_link = relativePositionMap
      BY <2>5, WithPosesIsDocument DEF SaveOpen, TypeOK, GTTypeOK
    <3>2. Sound(config_node.sensor_kit_base_link)'
      BY <2>a, <3>1 DEF PosesInv, Sound, Fresh, Complete
    <3> QED
      BY <2>5, <2>a, <3>2 DEF SaveOpen, PosesInv, Sound, Fresh, Complete
  <2>6. CASE SaveWrite
    BY <2>6, <2>a DEF SaveWrite, gtMemory, PosesInv, Sound, Fresh, Complete
  <2>7. CASE ReadExtrinsicsGT
    BY <2>7, <2>a DEF ReadExtrinsicsGT, PosesInv, Sound, Fresh, Complete
  <2> QED
    BY <2>1, <2>2, <2>3, <2>4, <2>5, <2>6, <2>7 DEF InitCalibFuncStep
<1>2. CASE Relaunch
  <2>1. Sound(relativePositionMap)' /\ Sound(extrinsics_gt)'
    BY <1>2 DEF Relaunch, MemoryReset, Sound, Fresh, Complete, NoPoses
  <2> QED
    BY <1>2, <2>1 DEF Relaunch, MemoryReset, PosesInv
<1>3. CASE Kill
  BY <1>3 DEF Kill, gtMemory, PosesInv, Sound, Fresh, Complete
<1>4. CASE UNCHANGED <<gtVars, file_at_launch>>
  BY <1>4 DEF gtVars, gtMemory, PosesInv, Sound, Fresh, Complete
<1> QED
  BY <1>1, <1>2, <1>3, <1>4 DEF GroundTruthStep

LEMMA PosesAreSound == Spec => []PosesInv
BY PosesInit, PosesStep, TypeCorrect, PTL DEF Spec

(* No reference pose is left over from an earlier launch: each was         *)
(* computed from where the lidars are mounted now.                         *)
THEOREM FreshReference == Spec => []ReferenceIsFresh
<1>1. PosesInv => ReferenceIsFresh
  BY DEF PosesInv, Sound, Fresh, ReferenceIsFresh
<1> QED
  BY <1>1, PosesAreSound, PTL

(* The reference poses are those of the listed cameras, or none.           *)
THEOREM CompleteReference == Spec => []ReferenceIsComplete
<1>1. PosesInv => ReferenceIsComplete
  BY DEF PosesInv, Sound, Complete, ReferenceIsComplete
<1> QED
  BY <1>1, PosesAreSound, PTL

-----------------------------------------------------------------------------
(***************************************************************************)
(* The way to the end.                                                     *)
(***************************************************************************)

LEMMA StepsAreCounted ==
  TypeOK => /\ StepsLeft[pc] \in Nat /\ GTStepsLeft[gt_step] \in 0..7
            /\ StepsToEnd \in Nat
            /\ StepsToEnd = 0 <=> ~Running
BY DEF TypeOK, GTTypeOK, Places, GTSteps, StepsLeft, GTStepsLeft, StepsToEnd, Running, At

(* init_CalibFunc only goes forward through its calls.                     *)
LEMMA InitCalibFuncAdvances ==
  ASSUME TypeOK, InitCalibFuncStep
  PROVE  GTStepsLeft[gt_step'] < GTStepsLeft[gt_step]
<1> USE DEF GTStepsLeft, GTAt, GTGoTo
<1>1. CASE ReadConfig \/ ReadSensorsParams \/ ReadRobobusGroundTruth
  BY <1>1 DEF ReadConfig, ReadSensorsParams, ReadRobobusGroundTruth
<1>2. CASE GetExtrinsicParamsGT
  BY <1>2 DEF GetExtrinsicParamsGT
<1>3. CASE SaveOpen \/ SaveWrite \/ ReadExtrinsicsGT
  BY <1>3 DEF SaveOpen, SaveWrite, ReadExtrinsicsGT
<1> QED
  BY <1>1, <1>2, <1>3 DEF InitCalibFuncStep

LEMMA MainAdvances ==
  ASSUME TypeOK, TypeOK', MainStep
  PROVE  /\ StepsToEnd' <= StepsToEnd
         /\ ~(ok /\ At("spin")) => StepsToEnd' < StepsToEnd
<1> USE DEF At, GoTo, StepsToEnd
<1>t. GTStepsLeft[gt_step] \in 0..7 /\ GTStepsLeft[gt_step'] \in 0..7
  BY DEF TypeOK, GTTypeOK, GTSteps, GTStepsLeft
<1>1. CASE Construct \/ Start
  BY <1>1, <1>t DEF Construct, Start, StepsLeft
<1>2. CASE ReadAllParamsThrows \/ Cameras
  BY <1>2, <1>t DEF ReadAllParamsThrows, Cameras, StepsLeft
<1>3. CASE InitCalibFunc
  <2>1. GTStepsLeft[gt_step'] < GTStepsLeft[gt_step]
    BY <1>3, InitCalibFuncAdvances DEF InitCalibFunc
  <2>2. pc = "init_CalibFunc" /\ pc' \in {"init_CalibFunc", "cameras", "dead"}
    BY <1>3 DEF InitCalibFunc
  <2> QED
    BY <1>t, <2>1, <2>2 DEF StepsLeft
<1>4. CASE TimerCallback
  BY <1>4, <1>t DEF TimerCallback, StepsLeft
<1>5. CASE SpinReturns \/ Destructor \/ DestroyMembers
  BY <1>5, <1>t DEF SpinReturns, Destructor, DestroyMembers, StepsLeft
<1> QED
  BY <1>1, <1>2, <1>3, <1>4, <1>5 DEF MainStep

LEMMA NothingGoesBack ==
  ASSUME TypeOK, TypeOK', [Next]_vars, Running
  PROVE  StepsToEnd' <= StepsToEnd
<1>1. CASE MainStep
  BY <1>1, MainAdvances
<1>2. CASE Kill
  <2>1. StepsToEnd' = 0
    BY <1>2 DEF Kill, GoTo, StepsToEnd, StepsLeft, At
  <2> QED
    BY <2>1, StepsAreCounted
<1>3. CASE Interrupt \/ Subscribe \/ Tick \/ UNCHANGED vars
  <2>1. StepsToEnd' = StepsToEnd
    BY <1>3 DEF Interrupt, Subscribe, Tick, vars, processVars, gtVars, gtMemory, StepsToEnd, At
  <2> QED
    BY <2>1, StepsAreCounted
<1>4. CASE Relaunch
  BY <1>4 DEF Relaunch
<1> QED
  BY <1>1, <1>2, <1>3, <1>4 DEF Next

(* After Ctrl-C at most as many steps of main are left as StepsToEnd says,  *)
(* wherever start() was, whatever fails in it, and however many cameras,    *)
(* viewers and launches there are: fairness of main alone ends the process. *)
THEOREM BoundedStop == Spec => StopIsBounded
<1>1. TypeOK /\ TypeOK' /\ [Next]_vars =>
        [/\ Running => StepsToEnd' <= StepsToEnd
         /\ MainStep /\ ~(ok /\ At("spin")) => StepsToEnd' < StepsToEnd]_vars
  BY MainAdvances, NothingGoesBack
<1>2. Spec => [][Next]_vars
  BY DEF Spec
<1> QED
  BY <1>1, <1>2, TypeCorrect, PTL DEF StopIsBounded
=============================================================================
