--------------------------- MODULE NodeLifecycle ----------------------------
(***************************************************************************)
(* The life of the node's process (src/main.cpp, RclComm): construction,   *)
(* start(), spinning with the publishing timer, destruction; SIGINT and    *)
(* SIGKILL at any moment; launches one after another.  Of start() it keeps *)
(* what outlives it: the ground-truth file of init_CalibFunc, step by      *)
(* step, and whether boards with corners are there to be published.        *)
(***************************************************************************)
EXTENDS GroundTruth

CONSTANTS
  Frequencies,  \* values of the parameter publish_frequency, in Hz
  MaxRuns       \* bound: launches of the node

ASSUME LifecycleAssumption == Frequencies \subseteq Int /\ MaxRuns \in Nat

VARIABLES
  pc,         \* where main is
  run,        \* launches so far
  ok,         \* rclcpp::ok(): the context has not been shut down
  logger,     \* spdlog's default logger: its own, SPD_LOG's "node", or none
  period,     \* the timer's period in ms; -1 before there is a timer
  due,        \* the timer's period has passed since its last call
  labelled,   \* boards with valid corners: what the timer has labels for
  viewer,     \* rviz: not there, subscribed, or has received labels
  file_at_launch \* history: what the ground-truth file held

timerVars == <<period, due>>
processVars == <<run, ok, logger, timerVars, labelled, viewer, file_at_launch>>
vars == <<pc, processVars, gtVars>>

Places == {"construct", "start", "init_CalibFunc", "cameras", "spin",
           "destructor", "members", "exited", "dead"}
Running == pc \notin {"exited", "dead"}

TypeOK ==
  /\ pc \in Places
  /\ run \in Nat
  /\ ok \in BOOLEAN
  /\ logger \in {"spdlog", "node", "none"}
  /\ period \in Int /\ due \in BOOLEAN
  /\ labelled \in BOOLEAN
  /\ viewer \in {"none", "subscribed", "served"}
  /\ file_at_launch \in Document
  /\ GTTypeOK

Init ==
  /\ pc = "construct"
  /\ run = 1
  /\ ok = TRUE
  /\ logger = "spdlog"
  /\ period = -1 /\ due = FALSE
  /\ labelled = FALSE
  /\ viewer = "none"
  /\ GTInit
  /\ file_at_launch = gt_file

At(place) == pc = place
GoTo(place) == pc' = place

(***************************************************************************)
(* int(1000 / frequency); for 0 the conversion is undefined.  A negative   *)
(* period makes create_wall_timer throw.                                   *)
(***************************************************************************)
Periods(f) ==
  IF f > 0 THEN {1000 \div f}
  ELSE IF f < 0 THEN {-(1000 \div (-f))}
  ELSE {-1, 0, 1}

(* A timer of period 0 is due whenever the executor looks. *)
Rearm(p) == due' = (p = 0)

(* RclComm(): parameters, logger, publishers and the timer.  Nothing can be *)
(* created in a context that has been shut down.                           *)
Construct ==
  /\ At("construct")
  /\ logger' = "node"
  /\ \E f \in Frequencies : \E p \in Periods(f) :
       \/ p >= 0 /\ period' = p /\ Rearm(p) /\ GoTo("start")
       \/ (p < 0 \/ ~ok) /\ UNCHANGED timerVars /\ GoTo("dead")
  /\ UNCHANGED <<run, ok, labelled, viewer, file_at_launch, gtVars>>

(* start() up to init_CalibFunc; without template or with an unusable       *)
(* camera list it returns, and saving the extracted cloud may throw.        *)
Start ==
  /\ At("start")
  /\ \/ GoTo("spin") /\ UNCHANGED labelled
     \/ GoTo("init_CalibFunc") /\ labelled' \in BOOLEAN
     \/ GoTo("dead") /\ UNCHANGED labelled
  /\ UNCHANGED <<run, ok, logger, timerVars, viewer, file_at_launch, gtVars>>

(* readAllParams throws first when a parameter file cannot be read.        *)
ReadAllParamsThrows ==
  /\ At("init_CalibFunc") /\ GTAt("read_config")
  /\ GoTo("dead")
  /\ UNCHANGED <<processVars, gtVars>>

InitCalibFunc ==
  /\ At("init_CalibFunc")
  /\ InitCalibFuncStep
  /\ GoTo(CASE gt_step' = "ready"  -> "cameras"
            [] gt_step' = "thrown" -> "dead"
            [] OTHER               -> "init_CalibFunc")
  /\ UNCHANGED processVars

(* The loop over the cameras and write_Extrinsics return or throw.         *)
Cameras ==
  /\ At("cameras")
  /\ GoTo("spin") \/ GoTo("dead")
  /\ UNCHANGED <<processVars, gtVars>>

(* Mutation: the labels are published once, and the timer cancelled.       *)
PublishOnce ==
  /\ At("spin") /\ ok /\ due
  /\ viewer' = IF labelled /\ viewer = "subscribed" THEN "served" ELSE viewer
  /\ period' = -1 /\ due' = FALSE
  /\ UNCHANGED <<pc, run, ok, logger, labelled, file_at_launch, gtVars>>

(* rclcpp::spin calls the timer whenever it is due, until the context is   *)
(* shut down; who listens then gets the labels.                            *)
TimerCallback ==
  /\ At("spin") /\ ok /\ due
  /\ viewer' = IF labelled /\ viewer = "subscribed" THEN "served" ELSE viewer
  /\ Rearm(period)
  /\ UNCHANGED <<pc, run, ok, logger, period, labelled, file_at_launch, gtVars>>

(* Mutation: the node waits for a viewer before it stops.                  *)
SpinReturnsIfServed ==
  /\ At("spin") /\ ~ok
  /\ labelled => viewer = "served"
  /\ GoTo("destructor")
  /\ UNCHANGED <<processVars, gtVars>>

(* Spinning begins with an executor, which cannot be made after Ctrl-C.    *)
SpinReturns ==
  /\ At("spin") /\ ~ok
  /\ GoTo("destructor") \/ GoTo("dead")
  /\ UNCHANGED <<processVars, gtVars>>

(***************************************************************************)
(* main returns and its node goes: the body of ~RclComm shuts logging      *)
(* down, then the members are destroyed, and ~ExtraBoard logs.  Logging    *)
(* without a default logger is undefined: the process may crash.           *)
(***************************************************************************)
Destructor ==
  /\ At("destructor")
  /\ logger' = "none"
  /\ GoTo("members")
  /\ UNCHANGED <<run, ok, timerVars, labelled, viewer, file_at_launch, gtVars>>

DestroyMembers ==
  /\ At("members")
  /\ GoTo("exited") \/ (logger = "none" /\ GoTo("dead"))
  /\ UNCHANGED <<processVars, gtVars>>

MainStep ==
  \/ Construct \/ Start \/ ReadAllParamsThrows \/ InitCalibFunc \/ Cameras
  \/ TimerCallback \/ SpinReturns \/ Destructor \/ DestroyMembers

(***************************************************************************)
(* The world around the process.                                           *)
(***************************************************************************)

(* Ctrl-C only shuts the context down; start() does not look at it.        *)
Interrupt ==
  /\ Running /\ ok
  /\ ok' = FALSE
  /\ UNCHANGED <<pc, run, logger, timerVars, labelled, viewer, file_at_launch, gtVars>>

Kill ==
  /\ Running
  /\ GoTo("dead")
  /\ CutOff
  /\ UNCHANGED <<processVars, gt_file, mount, gt_step, gtMemory>>

Subscribe ==
  /\ viewer' = IF viewer = "none" THEN "subscribed" ELSE "none"
  /\ UNCHANGED <<pc, run, ok, logger, timerVars, labelled, file_at_launch, gtVars>>

(* The period passes, start() still running or the node spinning. *)
Tick ==
  /\ Running /\ period > 0 /\ ~due
  /\ due' = TRUE
  /\ UNCHANGED <<pc, run, ok, logger, period, labelled, viewer, file_at_launch, gtVars>>

(* Between launches the lidars may be calibrated anew.                     *)
Relaunch ==
  /\ ~Running
  /\ run < MaxRuns
  /\ run' = run + 1
  /\ GoTo("construct")
  /\ ok' = TRUE /\ logger' = "spdlog" /\ labelled' = FALSE
  /\ period' = -1 /\ due' = FALSE
  /\ mount' \in Mounts \cup {Unreadable}
  /\ MemoryReset
  /\ file_at_launch' = gt_file
  /\ UNCHANGED <<viewer, gt_file, cut_off>>

Next == MainStep \/ Interrupt \/ Kill \/ Subscribe \/ Tick \/ Relaunch

Spec == Init /\ [][Next]_vars

(* The main thread keeps running and time passes; signals, viewers and     *)
(* launches come when they come.                                           *)
FairSpec == Spec /\ WF_vars(MainStep) /\ WF_vars(Tick)

(***************************************************************************)
(* Properties.                                                             *)
(***************************************************************************)

(* However often the node is launched, interrupted and killed, the         *)
(* measured origin and the lists are never lost from a ground-truth file   *)
(* that had them, except by a process killed between opening and writing.  *)
SourceSurvives ==
  HasSource(file_at_launch) /\ ~cut_off =>
    \/ HasSource(gt_file)
    \/ GTAt("write") /\ HasSource(config_node)

(* The poses a launch calibrates against were computed in this launch from *)
(* where the lidars are mounted now: none is left over from an earlier     *)
(* launch, although the file holds them and every failure is ignored.      *)
ReferenceIsFresh ==
  \A c \in Cams : extrinsics_gt[c] # NoPose => extrinsics_gt[c] = mount

(* Either every listed camera has a reference pose or none has, and only   *)
(* listed ones have: no launch calibrates some cameras against nothing.    *)
ReferenceIsComplete ==
  \/ \A c \in Cams : extrinsics_gt[c] = NoPose
  \/ \A c \in Cams : extrinsics_gt[c] # NoPose <=> c \in Listed

(* The comment of ~RclComm, that logging is shut down before the node is   *)
(* closed, and of SPD_LOG::shutdown, that it may be called anywhere:        *)
(* whatever logs afterwards, during the destruction, still has a logger.   *)
MembersCanLog == At("members") => logger # "none"

(* Whenever a viewer subscribes, in the middle of start() or long after    *)
(* it, it gets the labels of the boards, at any rate that makes a timer:   *)
(* nothing is published in start(), but the timer outlives it and is not   *)
(* used up by the calls no one listened to.                                *)
LabelsReachViewer ==
  (labelled /\ Running /\ viewer = "subscribed")
    ~> (viewer # "subscribed" \/ ~ok \/ ~Running)

(* A bound on the steps main takes until the process has ended, once the    *)
(* context is shut down.                                                    *)
StepsLeft ==
  [construct |-> 14, start |-> 13, init_CalibFunc |-> 5, cameras |-> 4, spin |-> 3,
   destructor |-> 2, members |-> 1, exited |-> 0, dead |-> 0]

GTStepsLeft ==
  [read_config |-> 7, read_sensors |-> 6, read_origin |-> 5, compute |-> 4, save |-> 3,
   write |-> 2, read_back |-> 1, ready |-> 0, thrown |-> 0]

StepsToEnd ==
  StepsLeft[pc] + IF At("init_CalibFunc") THEN GTStepsLeft[gt_step] ELSE 0

(* Main never goes back, and only spinning holds it up: whatever cannot be  *)
(* read or written and whoever is listening, each other step brings the     *)
(* process nearer to its end, so few are left after Ctrl-C.                 *)
StopIsBounded ==
  [][/\ Running => StepsToEnd' <= StepsToEnd
     /\ MainStep /\ ~(ok /\ At("spin")) => StepsToEnd' < StepsToEnd]_vars

(* A node that was told to stop does stop, wherever it was in start().     *)
StopsWhenTold == ~ok ~> ~Running
=============================================================================
