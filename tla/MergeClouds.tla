---------------------------- MODULE MergeClouds -----------------------------
(***************************************************************************)
(* MergeCloudsNode (script/extrat_first_frame.py, and concate_points.py    *)
(* with its single topic): keeps the first cloud with points of each       *)
(* lidar, and when it has one of each, writes those whose mounting the     *)
(* YAML file names into the PCD file that the calibration node loads.      *)
(*                                                                         *)
(* A cloud is the launch it was received in and its number among those of  *)
(* its topic.  The executor has one thread: taking a message and its       *)
(* callback are one step.                                                  *)
(***************************************************************************)
EXTENDS Naturals, FiniteSets

CONSTANTS
  Topics,    \* the keys of TOPIC_MAP
  Cut,       \* a PCD file that has been truncated and not filled, or not quite
  MaxFrames, \* bound: numbers that tell the clouds of a topic apart
  MaxRuns    \* bound: launches of the tool

Frame(runs) == [run : runs, number : 0..MaxFrames]

ASSUME MergeAssumption ==
  /\ Topics # {} /\ IsFiniteSet(Topics)
  /\ MaxFrames \in Nat \ {0}
  /\ MaxRuns \in Nat
  /\ \A T \in SUBSET Topics : Cut \notin [T -> Frame(Nat)]

VARIABLES
  pc,              \* spinning, saving, ended or raised
  run,             \* launches so far
  sensor_kit_data, \* the topics whose frame the document has a pose for
  number,          \* of the last cloud received on each topic
  first_frames,    \* the clouds kept, by topic; these have no subscription
  pcd,             \* OUTPUT_PCD: the clouds merged into it, by topic
  first_full,      \* history: the first cloud with points of each topic
  cut_off          \* history: a process ended while it was writing

vars == <<pc, run, sensor_kit_data, number, first_frames, pcd, first_full, cut_off>>

TypeOK ==
  /\ pc \in {"spin", "saving", "ended", "raised"}
  /\ run \in Nat \ {0}
  /\ sensor_kit_data \subseteq Topics
  /\ number \in [Topics -> 0..MaxFrames]
  /\ DOMAIN first_frames \subseteq Topics
  /\ \A t \in DOMAIN first_frames : first_frames[t] \in Frame({run})
  /\ first_full \in [Topics -> 0..MaxFrames]
  /\ pcd = Cut \/ \A t \in DOMAIN pcd : pcd[t] \in Frame(1..run)
  /\ cut_off \in BOOLEAN

Nothing == [t \in {} |-> [run |-> 0, number |-> 0]]
Zero    == [t \in Topics |-> 0]

(* A YAML file that is missing or unreadable counts as an empty dictionary. *)
Init ==
  /\ pc = "spin"
  /\ run = 1
  /\ sensor_kit_data \in SUBSET Topics
  /\ number = Zero
  /\ first_frames = Nothing
  /\ pcd = Nothing
  /\ first_full = Zero
  /\ cut_off = FALSE

At(place) == pc = place
GoTo(place) == pc' = place

(***************************************************************************)
(* cloud_cb.  It destroys the subscription of the topic it keeps a cloud   *)
(* of: no other cloud of that topic reaches it.                            *)
(***************************************************************************)
Subscribed(t) == t \notin DOMAIN first_frames

Count(t) == number' = [number EXCEPT ![t] = IF @ < MaxFrames THEN @ + 1 ELSE @]

EmptyCloud(t) ==
  /\ At("spin") /\ Subscribed(t)
  /\ Count(t)
  /\ UNCHANGED <<pc, run, sensor_kit_data, first_frames, pcd, first_full, cut_off>>

(* Mutation: the dictionary is made anew for each cloud. *)
KeepOnlyLast(t) == [s \in {t} |-> [run |-> run, number |-> number'[t]]]

Keep(t) ==
  [s \in DOMAIN first_frames \cup {t} |->
     IF s \in DOMAIN first_frames THEN first_frames[s]
     ELSE [run |-> run, number |-> number'[t]]]

FullCloud(t) ==
  /\ At("spin") /\ Subscribed(t)
  /\ Count(t)
  /\ first_frames' = Keep(t)
  /\ first_full' = [first_full EXCEPT ![t] = IF @ = 0 THEN number'[t] ELSE @]
  /\ UNCHANGED <<pc, run, sensor_kit_data, pcd, cut_off>>

(***************************************************************************)
(* check_done, every half second.                                          *)
(***************************************************************************)

(* Mutation: one cloud is enough. *)
AnyReceived == DOMAIN first_frames # {}

AllReceived == Cardinality(DOMAIN first_frames) = Cardinality(Topics)

(* Topics whose frame has no pose in the document are left out. *)
Posed == {t \in DOMAIN first_frames : t \in sensor_kit_data}

CheckDone ==
  /\ At("spin")
  /\ AllReceived
  /\ IF Posed = {}
     THEN GoTo("ended") /\ UNCHANGED pcd
     ELSE GoTo("saving") /\ pcd' = Cut
  /\ UNCHANGED <<run, sensor_kit_data, number, first_frames, first_full, cut_off>>

(* An empty document, a cloud without an intensity, a directory that does  *)
(* not exist: the exception ends the process.                              *)
CheckDoneRaises ==
  /\ At("spin")
  /\ AllReceived
  /\ GoTo("raised")
  /\ UNCHANGED <<run, sensor_kit_data, number, first_frames, pcd, first_full, cut_off>>

SavePcd ==
  /\ At("saving")
  /\ GoTo("ended")
  /\ pcd' = [t \in Posed |-> first_frames[t]]
  /\ UNCHANGED <<run, sensor_kit_data, number, first_frames, first_full, cut_off>>

(* Ctrl-C, or a kill, wherever the process is. *)
Interrupt ==
  /\ pc \in {"spin", "saving"}
  /\ GoTo("ended")
  /\ cut_off' = (cut_off \/ At("saving"))
  /\ UNCHANGED <<run, sensor_kit_data, number, first_frames, pcd, first_full>>

Relaunch ==
  /\ pc \in {"ended", "raised"}
  /\ run < MaxRuns
  /\ run' = run + 1
  /\ GoTo("spin")
  /\ sensor_kit_data' \in SUBSET Topics
  /\ number' = Zero /\ first_full' = Zero
  /\ first_frames' = Nothing
  /\ UNCHANGED <<pcd, cut_off>>

Next ==
  \/ \E t \in Topics : EmptyCloud(t) \/ FullCloud(t)
  \/ CheckDone \/ CheckDoneRaises \/ SavePcd
  \/ Interrupt \/ Relaunch

Spec == Init /\ [][Next]_vars

(* The timer and the writing go on; each lidar publishes a cloud with      *)
(* points at some time, as long as the node spins and waits for it.        *)
FairSpec ==
  /\ Spec
  /\ WF_vars(CheckDone \/ CheckDoneRaises)
  /\ WF_vars(SavePcd)
  /\ \A t \in Topics : WF_vars(FullCloud(t))

(***************************************************************************)
(* Properties.                                                             *)
(***************************************************************************)

(* A PCD file is one scene: it was written by a single launch and has the  *)
(* first cloud with points of every lidar whose pose that launch knew, so  *)
(* that no cloud is from after the vehicle moved.  Only a process that was *)
(* stopped in the middle of writing leaves another one.                    *)
OneScene ==
  \/ pcd = Cut /\ (cut_off \/ At("saving"))
  \/ /\ pcd # Cut
     /\ \A s, t \in DOMAIN pcd : pcd[s].run = pcd[t].run
     /\ \A t \in DOMAIN pcd : pcd[t].run = run =>
          /\ DOMAIN pcd = sensor_kit_data
          /\ pcd[t].number = first_full[t]

(* With lidars that publish, the tool does not wait for ever.              *)
MergeEnds == At("spin") ~> ~At("spin")
=============================================================================
