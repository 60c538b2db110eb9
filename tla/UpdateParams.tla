---------------------------- MODULE UpdateParams ----------------------------
(***************************************************************************)
(* script/update_pix_params.py: each folder of the vehicle's parameter     *)
(* tree replaces the one of that name in the calibration's config          *)
(* directory, deleted first and then copied; after that the rectification  *)
(* matrix of cameras 0 to LastChecked is replaced where it is the identity. *)
(*                                                                         *)
(* Deleting and copying may fail half-way, and the script may be stopped   *)
(* anywhere and run again.  A failed folder is only reported.              *)
(***************************************************************************)
EXTENDS Integers

CONSTANTS
  Folders,     \* the folders of the source directory
  Intrinsic,   \* of these: intrinsic_parameters
  Cameras,     \* the cameras with a file in it
  LastChecked, \* the last camera that main looks at
  Source,      \* [Cameras -> Kinds]: the cameras' files in the source
  MaxRuns      \* bound: runs of the script

(* A camera's file: the identity with a camera matrix, the identity alone,  *)
(* another rectification; truncated; missing.                              *)
Kinds == {"identity", "lone_identity", "rectified", "empty", "missing"}

ASSUME UpdateAssumption ==
  /\ Intrinsic \in Folders
  /\ Cameras \subseteq Int
  /\ LastChecked \in Nat /\ 0..LastChecked \subseteq Cameras
  /\ Source \in [Cameras -> Kinds]
  /\ MaxRuns \in Nat

VARIABLES
  pc,     \* the step that comes next
  run,    \* runs so far
  target, \* what the config directory has under each folder's name
  file,   \* the cameras' files there
  todo,   \* items of the directory listing not reached yet
  item,   \* the folder of the current iteration
  camera, \* i of the loop over the cameras
  failed  \* history: folders not copied in this run because of an error

folderVars == <<target, file>>
vars == <<pc, run, folderVars, todo, item, camera, failed>>

Contents == {"absent", "no_folder", "before", "part", "copy"}

TypeOK ==
  /\ pc \in {"copy_pix_params", "items", "rmtree", "copytree", "check", "write",
             "finished", "stopped"}
  /\ run \in Nat \ {0}
  /\ target \in [Folders -> Contents]
  /\ file \in [Cameras -> Kinds]
  /\ todo \subseteq Folders
  /\ item \in Folders
  /\ pc \in {"rmtree", "copytree"} => item \notin todo
  /\ pc = "copytree" => target[item] = "absent"
  /\ camera \in 0..(LastChecked + 1)
  /\ pc = "write" => camera <= LastChecked
  /\ failed \subseteq Folders

(* Before the first run: anything, with its camera files as they may be.   *)
Init ==
  /\ pc = "copy_pix_params"
  /\ run = 1
  /\ target \in [Folders -> {"absent", "no_folder", "before"}]
  /\ file \in [Cameras -> IF target[Intrinsic] = "before" THEN {"identity", "rectified"}
                          ELSE {"missing"}]
  /\ todo = {}
  /\ item = Intrinsic
  /\ camera = 0
  /\ failed = {}

At(step) == pc = step
GoTo(step) == pc' = step

(***************************************************************************)
(* The camera files move with their folder.                                *)
(***************************************************************************)
FilesAmong(kinds) == {f \in [Cameras -> Kinds] : \A c \in Cameras : f[c] \in kinds[c]}

Replace(folder, content, kinds) ==
  /\ target' = [target EXCEPT ![folder] = content]
  /\ file' \in IF folder = Intrinsic THEN FilesAmong(kinds) ELSE {file}

Delete(folder) == Replace(folder, "absent", [c \in Cameras |-> {"missing"}])
HalfDelete(folder) == Replace(folder, "part", [c \in Cameras |-> {file[c], "missing"}])
Copy(folder) == Replace(folder, "copy", [c \in Cameras |-> {Source[c]}])
HalfCopy(folder) ==
  Replace(folder, "part", [c \in Cameras |-> {Source[c], "empty", "missing"}])

(***************************************************************************)
(* copy_pix_params.                                                        *)
(***************************************************************************)
ListItems ==
  /\ At("copy_pix_params")
  /\ GoTo("items")
  /\ todo' = Folders
  /\ UNCHANGED <<run, folderVars, item, camera, failed>>

(* The source is missing or may not be read; main does not look at the     *)
(* result.                                                                 *)
NoSource ==
  /\ At("copy_pix_params")
  /\ GoTo("check")
  /\ failed' = Folders
  /\ UNCHANGED <<run, folderVars, todo, item, camera>>

(* Mutation: a folder that is there is taken for the current one.          *)
NextItemIfMissing ==
  /\ At("items")
  /\ \E f \in todo :
       /\ item' = f
       /\ todo' = todo \ {f}
       /\ \/ target[f] = "absent" /\ GoTo("copytree") /\ UNCHANGED failed
          \/ target[f] # "absent" /\ GoTo("items") /\ UNCHANGED failed
  /\ UNCHANGED <<run, folderVars, camera>>

NextItem ==
  /\ At("items")
  /\ \E f \in todo :
       /\ item' = f
       /\ todo' = todo \ {f}
       /\ \/ target[f] = "absent" /\ GoTo("copytree") /\ UNCHANGED failed
          \/ target[f] = "no_folder" /\ GoTo("items") /\ failed' = failed \cup {f}
          \/ target[f] \notin {"absent", "no_folder"} /\ GoTo("rmtree") /\ UNCHANGED failed
  /\ UNCHANGED <<run, folderVars, camera>>

Rmtree ==
  /\ At("rmtree")
  /\ \/ Delete(item) /\ GoTo("copytree") /\ UNCHANGED failed
     \/ /\ HalfDelete(item) \/ UNCHANGED folderVars
        /\ GoTo("items")
        /\ failed' = failed \cup {item}
  /\ UNCHANGED <<run, todo, item, camera>>

Copytree ==
  /\ At("copytree")
  /\ GoTo("items")
  /\ \/ Copy(item) /\ UNCHANGED failed
     \/ /\ HalfCopy(item) \/ UNCHANGED folderVars
        /\ failed' = failed \cup {item}
  /\ UNCHANGED <<run, todo, item, camera>>

CopyDone ==
  /\ At("items") /\ todo = {}
  /\ GoTo("check")
  /\ UNCHANGED <<run, folderVars, todo, item, camera, failed>>

(***************************************************************************)
(* check_camera_intrinsics.  A file that is missing or empty raises, which *)
(* nothing catches; an identity is replaced by the camera matrix, and the  *)
(* file truncated before it is written.                                    *)
(***************************************************************************)

(* Mutation: a file that is not there is passed over.                      *)
RaisesIfEmpty == file[camera] = "empty"

Raises == file[camera] \in {"missing", "empty"}

CheckCamera ==
  /\ At("check") /\ camera <= LastChecked
  /\ \/ /\ Raises
        /\ GoTo("stopped") /\ UNCHANGED <<file, camera>>
     \/ /\ ~Raises /\ file[camera] # "identity"
        /\ camera' = camera + 1 /\ UNCHANGED <<pc, file>>
     \/ /\ file[camera] = "identity"
        /\ file' = [file EXCEPT ![camera] = "empty"]
        /\ GoTo("write") /\ UNCHANGED camera
  /\ UNCHANGED <<run, target, todo, item, failed>>

(* Mutation: the data is changed and not written.                          *)
WriteNothing ==
  /\ At("write")
  /\ GoTo("check")
  /\ camera' = camera + 1
  /\ UNCHANGED <<run, folderVars, todo, item, failed>>

WriteCamera ==
  /\ At("write")
  /\ GoTo("check")
  /\ file' = [file EXCEPT ![camera] = "rectified"]
  /\ camera' = camera + 1
  /\ UNCHANGED <<run, target, todo, item, failed>>

Finish ==
  /\ At("check") /\ camera > LastChecked
  /\ GoTo("finished")
  /\ UNCHANGED <<run, folderVars, todo, item, camera, failed>>

(***************************************************************************)
(* The script is stopped, maybe while it deletes or copies; it is run      *)
(* again.                                                                  *)
(***************************************************************************)
Stop ==
  /\ pc \notin {"finished", "stopped"}
  /\ GoTo("stopped")
  /\ \/ UNCHANGED folderVars
     \/ At("rmtree") /\ HalfDelete(item)
     \/ At("copytree") /\ HalfCopy(item)
  /\ UNCHANGED <<run, todo, item, camera, failed>>

RunAgain ==
  /\ pc \in {"finished", "stopped"}
  /\ run < MaxRuns
  /\ run' = run + 1
  /\ GoTo("copy_pix_params")
  /\ target' = [f \in Folders |-> IF target[f] = "copy" THEN "before" ELSE target[f]]
  /\ todo' = {} /\ item' = Intrinsic /\ camera' = 0 /\ failed' = {}
  /\ UNCHANGED file

Next ==
  \/ ListItems \/ NoSource \/ NextItem \/ Rmtree \/ Copytree \/ CopyDone
  \/ CheckCamera \/ WriteCamera \/ Finish \/ Stop \/ RunAgain

Spec == Init /\ [][Next]_vars

(***************************************************************************)
(* Properties.                                                             *)
(***************************************************************************)

(* Errors stay in their folder, and leftovers do not survive: whatever was *)
(* there before, from half a run or another vehicle, a folder without an   *)
(* error of its own is the vehicle's, once the copying is over.            *)
OthersAreCopied ==
  pc \in {"check", "write", "finished"} =>
    \A f \in Folders \ failed : target[f] = "copy"

(* When the intrinsics were copied, each camera's file is the vehicle's,   *)
(* but for the identities that have been replaced; only the one that is    *)
(* being written may be empty on top of that.                              *)
IntrinsicsAreTheVehicles ==
  pc \in {"check", "write", "finished"} /\ Intrinsic \notin failed =>
    \A c \in Cameras :
      \/ file[c] = Source[c]
      \/ Source[c] = "identity" /\ c < camera /\ file[c] = "rectified"
      \/ Source[c] = "identity" /\ c = camera /\ At("write")

(* A run that gets to its end leaves no checked camera with an identity to *)
(* be replaced, nor with a file an earlier run was stopped while writing.  *)
CheckedAreUsable ==
  At("finished") =>
    \A c \in 0..LastChecked : file[c] \in {"lone_identity", "rectified"}

(***************************************************************************)
(* The strengthenings that make the properties above inductive.            *)
(***************************************************************************)
Copying  == {"items", "rmtree", "copytree"}
Checking == {"check", "write", "finished"}

(* What the loop over the items has not done with.                         *)
Outstanding == todo \cup IF pc \in {"rmtree", "copytree"} THEN {item} ELSE {}

CopyInv ==
  /\ pc \in Copying => \A f \in Folders \ (failed \cup Outstanding) : target[f] = "copy"
  /\ OthersAreCopied

VehicleInv ==
  /\ pc \in Copying \cup {"copy_pix_params"} => camera = 0
  /\ pc \in Copying /\ Intrinsic \notin failed \cup Outstanding =>
       \A c \in Cameras : file[c] = Source[c]
  /\ At("write") /\ Intrinsic \notin failed => Source[camera] = "identity"
  /\ IntrinsicsAreTheVehicles

CheckedInv ==
  /\ pc \in Copying \cup {"copy_pix_params"} => camera = 0
  /\ pc \in Checking =>
       \A c \in 0..(camera - 1) : file[c] \in {"lone_identity", "rectified"}
  /\ At("finished") => camera > LastChecked
=============================================================================
