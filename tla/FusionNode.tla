----------------------------- MODULE FusionNode -----------------------------
(***************************************************************************)
(* One window of script/project_points_to_image.py.  The executor thread   *)
(* runs FusionNode's callbacks one at a time; the Tk thread GuiApp adjusts *)
(* the extrinsics and stores the resulting R and t, which the executor     *)
(* reads, without a lock.  The interpreter may switch threads between any  *)
(* two attribute accesses.                                                 *)
(*                                                                         *)
(* The pose is the number of adjustments made; rotation and translation n  *)
(* are those of pose n.  They change together, for the translation of the  *)
(* inverse depends on the angles.                                          *)
(***************************************************************************)
EXTENDS Integers

CONSTANTS
  MaxPresses,  \* bound: presses of the three adjusting buttons
  NoResult     \* self.result before the first projection

ASSUME PressAssumption == MaxPresses \in Nat /\ NoResult \notin [R : Nat, t : Nat]

VARIABLES
  pose,          \* roll_, pitch_, yaw_
  gui,           \* Tk thread: next step of update_params
  R, t,          \* self.R, self.t
  executor,      \* executor thread: "idle", in the middle of fuse_once, "ended"
  taken,         \* the R it has read
  latest_cloud,  \* a cloud has arrived
  latest_image,  \* an image has arrived
  result         \* what self.result was projected with

guiVars == <<pose, gui, R, t>>
execVars == <<executor, taken, latest_cloud, latest_image, result>>
vars == <<guiVars, execVars>>

TypeOK ==
  /\ pose \in 0..MaxPresses
  /\ gui \in {"idle", "store_R", "store_t"}
  /\ R \in 0..pose /\ t \in 0..pose
  /\ executor \in {"idle", "read_t", "ended"}
  /\ taken \in 0..pose
  /\ latest_cloud \in BOOLEAN /\ latest_image \in BOOLEAN
  /\ result \in [R : 0..pose, t : 0..pose] \cup {NoResult}

Init ==
  /\ pose = 0 /\ R = 0 /\ t = 0 /\ taken = 0
  /\ gui = "idle"
  /\ executor = "idle"
  /\ latest_cloud = FALSE /\ latest_image = FALSE
  /\ result = NoResult

Running == executor # "ended"

(***************************************************************************)
(* The Tk thread, a daemon: it stops with the process, wherever it is.     *)
(***************************************************************************)

(* Mutation: every button runs update_params on a thread of its own. *)
PressBusy ==
  /\ Running
  /\ pose < MaxPresses
  /\ pose' = pose + 1
  /\ gui' = "store_R"
  /\ UNCHANGED <<R, t, execVars>>

(* A button's angle is added to the pose and the inverse is computed. *)
Press ==
  /\ Running
  /\ gui = "idle"
  /\ pose < MaxPresses
  /\ pose' = pose + 1
  /\ gui' = "store_R"
  /\ UNCHANGED <<R, t, execVars>>

(* Mutation: each press computes on a thread of its own; an earlier one     *)
(* may come to store after a later one.                                     *)
StoreROutOfOrder ==
  /\ Running
  /\ gui = "store_R"
  /\ R' \in 1..pose
  /\ gui' = "store_t"
  /\ UNCHANGED <<pose, t, execVars>>

StoreR ==
  /\ Running
  /\ gui = "store_R"
  /\ R' = pose
  /\ gui' = "store_t"
  /\ UNCHANGED <<pose, t, execVars>>

(* Mutation: the translation is kept. *)
KeepT ==
  /\ Running
  /\ gui = "store_t"
  /\ gui' = "idle"
  /\ UNCHANGED <<pose, R, t, execVars>>

StoreT ==
  /\ Running
  /\ gui = "store_t"
  /\ t' = pose
  /\ gui' = "idle"
  /\ UNCHANGED <<pose, R, execVars>>

(***************************************************************************)
(* The executor's callbacks.                                               *)
(***************************************************************************)
cloud_cb ==
  /\ executor = "idle"
  /\ latest_cloud' = TRUE
  /\ UNCHANGED <<guiVars, executor, taken, latest_image, result>>

img_cb ==
  /\ executor = "idle"
  /\ latest_image' = TRUE
  /\ UNCHANGED <<guiVars, executor, taken, latest_cloud, result>>

(* fuse_once, as soon as there is data: the arguments of the projection    *)
(* are read one after the other.                                           *)
FuseReadR ==
  /\ executor = "idle"
  /\ latest_cloud /\ latest_image
  /\ taken' = R
  /\ executor' = "read_t"
  /\ UNCHANGED <<guiVars, latest_cloud, latest_image, result>>

FuseReadT ==
  /\ executor = "read_t"
  /\ result' = [R |-> taken, t |-> t]
  /\ executor' = "idle"
  /\ UNCHANGED <<guiVars, taken, latest_cloud, latest_image>>

(* Escape shuts the node down; so does s, by the AttributeError of reading *)
(* self.current_result, which nothing ever sets.                           *)
keyboard_cb ==
  /\ executor = "idle"
  /\ executor' = "ended"
  /\ UNCHANGED <<guiVars, taken, latest_cloud, latest_image, result>>

GuiStore == StoreR \/ StoreT
FuseStep == FuseReadR \/ FuseReadT

Next == Press \/ GuiStore \/ cloud_cb \/ img_cb \/ FuseStep \/ keyboard_cb

Spec == Init /\ [][Next]_vars

(* Neither thread starves the other, and the 1 Hz timer keeps firing.       *)
FairSpec == Spec /\ WF_vars(GuiStore) /\ WF_vars(FuseStep)

(***************************************************************************)
(* Properties.                                                             *)
(***************************************************************************)

(* However presses and projections interleave, the translation projected   *)
(* with is at most one adjustment behind the rotation.                      *)
AtMostOneBehind == result # NoResult => result.t + 1 >= result.R

(* The picture follows the buttons: however late a projection finishes, it  *)
(* never takes back an adjustment that an earlier one has shown.            *)
NeverGoesBack ==
  [][result # NoResult =>
       result' # NoResult /\ result'.R >= result.R /\ result'.t >= result.t]_vars

(* Once data has arrived, the user who stops adjusting sees the projection  *)
(* of exactly the pose adjusted to, unless the window is closed.            *)
Shows(n) == result = [R |-> n, t |-> n]
CatchesUp ==
  \A n \in 0..MaxPresses :
    (pose = n /\ latest_cloud /\ latest_image)
      ~> (Shows(n) \/ pose # n \/ ~Running)

(***************************************************************************)
(* The strengthening that makes AtMostOneBehind inductive.                 *)
(***************************************************************************)
BehindInv ==
  /\ gui = "idle" => R = pose /\ t = pose
  /\ gui = "store_R" => R = pose - 1 /\ t = pose - 1
  /\ gui = "store_t" => R = pose /\ t = pose - 1
  /\ executor = "read_t" => taken <= t + 1
  /\ AtMostOneBehind

(* The one NeverGoesBack needs: what is shown is no newer than what is      *)
(* stored, nor than the rotation the projection under way has taken.        *)
ShownInv ==
  /\ taken <= R
  /\ result # NoResult =>
       /\ result.R <= R /\ result.t <= t
       /\ executor = "read_t" => result.R <= taken
=============================================================================
