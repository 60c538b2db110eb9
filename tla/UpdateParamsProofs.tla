-------------------------- MODULE UpdateParamsProofs --------------------------
(***************************************************************************)
(* Theorems about UpdateParams, for any folders, any cameras in the        *)
(* vehicle's tree, any number of checked ones and any number of runs.      *)
(***************************************************************************)
EXTENDS UpdateParams, TLAPS

(***************************************************************************)
(* Replacing a folder.                                                     *)
(***************************************************************************)

(* What a replacement leaves is well-formed, changes no other folder, and   *)
(* changes camera files only along with the folder that holds them.         *)
LEMMA ReplaceEffect ==
  ASSUME TypeOK, NEW folder \in Folders, NEW content \in Contents, NEW kinds,
         Replace(folder, content, kinds)
  PROVE  /\ target' \in [Folders -> Contents]
         /\ target'[folder] = content
         /\ \A f \in Folders \ {folder} : target'[f] = target[f]
         /\ file' \in [Cameras -> Kinds]
         /\ IF folder = Intrinsic THEN \A c \in Cameras : file'[c] \in kinds[c]
            ELSE file' = file
<1>1. /\ target \in [Folders -> Contents] /\ file \in [Cameras -> Kinds]
      /\ target' = [target EXCEPT ![folder] = content]
  BY DEF TypeOK, Replace
<1>2. file' \in IF folder = Intrinsic THEN FilesAmong(kinds) ELSE {file}
  BY DEF Replace
<1>3. CASE folder = Intrinsic
  BY <1>1, <1>2, <1>3 DEF FilesAmong
<1>4. CASE folder # Intrinsic
  BY <1>1, <1>2, <1>4
<1> QED
  BY <1>3, <1>4

(* The four ways a folder is replaced, as far as the proofs look at them.   *)
LEMMA FolderStep ==
  ASSUME TypeOK, NEW folder \in Folders,
         Delete(folder) \/ HalfDelete(folder) \/ Copy(folder) \/ HalfCopy(folder)
  PROVE  /\ target' \in [Folders -> Contents]
         /\ \A f \in Folders \ {folder} : target'[f] = target[f]
         /\ file' \in [Cameras -> Kinds]
         /\ folder # Intrinsic => file' = file
         /\ Delete(folder) => target'[folder] = "absent"
         /\ Copy(folder) =>
              /\ target'[folder] = "copy"
              /\ folder = Intrinsic => \A c \in Cameras : file'[c] = Source[c]
<1>1. {"absent", "part", "copy"} \subseteq Contents
  BY DEF Contents
<1>2. CASE Delete(folder)
  <2>1. target'[folder] = "absent"
    BY <1>1, <1>2, ReplaceEffect DEF Delete
  <2>2. ~Copy(folder)
    <3>1. Copy(folder) => target'[folder] = "copy"
      BY <1>1, ReplaceEffect DEF Copy
    <3> QED
      BY <2>1, <3>1
  <2> QED
    BY <1>1, <1>2, <2>1, <2>2, ReplaceEffect DEF Delete
<1>3. CASE Copy(folder)
  <2>1. target'[folder] = "copy"
    BY <1>1, <1>3, ReplaceEffect DEF Copy
  <2>2. ~Delete(folder)
    <3>1. Delete(folder) => target'[folder] = "absent"
      BY <1>1, ReplaceEffect DEF Delete
    <3> QED
      BY <2>1, <3>1
  <2>3. folder = Intrinsic => \A c \in Cameras : file'[c] = Source[c]
    BY <1>1, <1>3, ReplaceEffect DEF Copy
  <2> QED
    BY <1>1, <1>3, <2>1, <2>2, <2>3, ReplaceEffect DEF Copy
<1>4. CASE HalfDelete(folder) \/ HalfCopy(folder)
  <2>1. PICK kinds : Replace(folder, "part", kinds)
    BY <1>4 DEF HalfDelete, HalfCopy
  <2>2. target'[folder] = "part"
    BY <1>1, <2>1, ReplaceEffect
  <2>3. ~Delete(folder) /\ ~Copy(folder)
    <3>1. /\ Delete(folder) => target'[folder] = "absent"
          /\ Copy(folder) => target'[folder] = "copy"
      BY <1>1, ReplaceEffect DEF Delete, Copy
    <3> QED
      BY <2>2, <3>1
  <2> QED
    BY <1>1, <2>1, <2>3, ReplaceEffect
<1> QED
  BY <1>2, <1>3, <1>4

(***************************************************************************)
(* Type correctness.                                                       *)
(***************************************************************************)
LEMMA TypeInit == Init => TypeOK
<1> SUFFICES ASSUME Init PROVE TypeOK
  OBVIOUS
<1>1. target \in [Folders -> Contents]
  BY DEF Init, Contents
<1>2. file \in [Cameras -> Kinds]
  BY DEF Init, Kinds
<1>3. camera \in 0..(LastChecked + 1) /\ item \in Folders /\ run \in Nat \ {0}
  BY UpdateAssumption DEF Init
<1> QED
  BY <1>1, <1>2, <1>3 DEF Init, TypeOK

LEMMA TypeStep == TypeOK /\ [Next]_vars => TypeOK'
<1> SUFFICES ASSUME TypeOK, [Next]_vars PROVE TypeOK'
  OBVIOUS
<1> USE DEF At, GoTo
<1>1. CASE ListItems \/ NoSource \/ CopyDone \/ Finish
  BY <1>1 DEF TypeOK, ListItems, NoSource, CopyDone, Finish, folderVars
<1>2. CASE NextItem
  <2>1. PICK f \in todo :
          /\ item' = f
          /\ todo' = todo \ {f}
          /\ \/ target[f] = "absent" /\ GoTo("copytree") /\ UNCHANGED failed
             \/ target[f] = "no_folder" /\ GoTo("items") /\ failed' = failed \cup {f}
             \/ target[f] \notin {"absent", "no_folder"} /\ GoTo("rmtree") /\ UNCHANGED failed
    BY <1>2 DEF NextItem
  <2> QED
    BY <1>2, <2>1 DEF TypeOK, NextItem, folderVars
<1>3. CASE Rmtree
  <2>1. item \in Folders /\ item \notin todo
    BY <1>3 DEF TypeOK, Rmtree
  <2>2. CASE Delete(item) /\ GoTo("copytree") /\ UNCHANGED failed
    <3>1. /\ target' \in [Folders -> Contents] /\ target'[item] = "absent"
          /\ file' \in [Cameras -> Kinds]
      BY <2>1, <2>2, FolderStep
    <3> QED
      BY <1>3, <2>1, <2>2, <3>1 DEF TypeOK, Rmtree
  <2>3. CASE /\ HalfDelete(item) \/ UNCHANGED folderVars
             /\ GoTo("items")
             /\ failed' = failed \cup {item}
    <3>1. target' \in [Folders -> Contents] /\ file' \in [Cameras -> Kinds]
      BY <2>1, <2>3, FolderStep DEF TypeOK, folderVars
    <3> QED
      BY <1>3, <2>1, <2>3, <3>1 DEF TypeOK, Rmtree
  <2> QED
    BY <1>3, <2>2, <2>3 DEF Rmtree
<1>4. CASE Copytree
  <2>1. item \in Folders
    BY DEF TypeOK
  <2>2. target' \in [Folders -> Contents] /\ file' \in [Cameras -> Kinds]
    BY <1>4, <2>1, FolderStep DEF TypeOK, Copytree, folderVars
  <2> QED
    BY <1>4, <2>1, <2>2 DEF TypeOK, Copytree
<1>5. CASE CheckCamera
  <2>1. camera' \in 0..(LastChecked + 1)
    BY <1>5, UpdateAssumption DEF TypeOK, CheckCamera
  <2>2. file' \in [Cameras -> Kinds]
    BY <1>5 DEF TypeOK, CheckCamera, Kinds
  <2>3. pc' \in {"check", "write", "stopped"} /\ (pc' = "write" => camera' <= LastChecked)
    BY <1>5 DEF CheckCamera
  <2> QED
    BY <1>5, <2>1, <2>2, <2>3 DEF TypeOK, CheckCamera
<1>6. CASE WriteCamera
  <2>1. camera' \in 0..(LastChecked + 1)
    BY <1>6, UpdateAssumption DEF TypeOK, WriteCamera
  <2>2. file' \in [Cameras -> Kinds]
    BY <1>6 DEF TypeOK, WriteCamera, Kinds
  <2> QED
    BY <1>6, <2>1, <2>2 DEF TypeOK, WriteCamera
<1>7. CASE Stop
  <2>1. item \in Folders
    BY DEF TypeOK
  <2>2. target' \in [Folders -> Contents] /\ file' \in [Cameras -> Kinds]
    BY <1>7, <2>1, FolderStep DEF TypeOK, Stop, folderVars
  <2> QED
    BY <1>7, <2>2 DEF TypeOK, Stop
<1>8. CASE RunAgain
  <2>1. target' \in [Folders -> Contents]
    BY <1>8 DEF TypeOK, RunAgain, Contents
  <2>2. camera' \in 0..(LastChecked + 1) /\ item' \in Folders /\ run' \in Nat \ {0}
    BY <1>8, UpdateAssumption DEF TypeOK, RunAgain
  <2> QED
    BY <1>8, <2>1, <2>2 DEF TypeOK, RunAgain
<1>9. CASE UNCHANGED vars
  BY <1>9 DEF TypeOK, vars, folderVars
<1> QED
  BY <1>1, <1>2, <1>3, <1>4, <1>5, <1>6, <1>7, <1>8, <1>9 DEF Next

(* Every variable keeps its type; a folder is copied only to where nothing  *)
(* is, and a file is written only for a camera that main looks at.          *)
THEOREM TypeCorrect == Spec => []TypeOK
BY TypeInit, TypeStep, PTL DEF Spec

(***************************************************************************)
(* What a folder ends up with.                                             *)
(***************************************************************************)

(* The steps of the camera loop, and those before the folders are listed,   *)
(* leave the folders and the record of errors alone.                        *)
LEMMA CopyStep == TypeOK /\ CopyInv /\ [Next]_vars => CopyInv'
<1> SUFFICES ASSUME TypeOK, CopyInv, [Next]_vars PROVE CopyInv'
  OBVIOUS
<1> USE DEF At, GoTo, Copying
<1>1. CASE ListItems
  BY <1>1 DEF CopyInv, OthersAreCopied, Outstanding, ListItems
<1>2. CASE NoSource
  BY <1>2 DEF CopyInv, OthersAreCopied, NoSource
<1>3. CASE NextItem
  <2>1. PICK f \in todo :
          /\ item' = f
          /\ todo' = todo \ {f}
          /\ \/ target[f] = "absent" /\ GoTo("copytree") /\ UNCHANGED failed
             \/ target[f] = "no_folder" /\ GoTo("items") /\ failed' = failed \cup {f}
             \/ target[f] \notin {"absent", "no_folder"} /\ GoTo("rmtree") /\ UNCHANGED failed
    BY <1>3 DEF NextItem
  <2>2. pc = "items" /\ UNCHANGED target
    BY <1>3 DEF NextItem, folderVars
  <2> QED
    BY <2>1, <2>2 DEF CopyInv, OthersAreCopied, Outstanding
<1>4. CASE Rmtree
  <2>1. pc = "rmtree" /\ item \in Folders /\ UNCHANGED <<todo, item>>
    BY <1>4 DEF Rmtree, TypeOK
  <2>2. \A f \in Folders \ {item} : target'[f] = target[f]
    BY <1>4, <2>1, FolderStep DEF Rmtree, folderVars
  <2>3. \/ pc' = "copytree" /\ UNCHANGED failed
        \/ pc' = "items" /\ failed' = failed \cup {item}
    BY <1>4 DEF Rmtree
  <2> QED
    BY <2>1, <2>2, <2>3 DEF CopyInv, OthersAreCopied, Outstanding
<1>5. CASE Copytree
  <2>1. pc = "copytree" /\ pc' = "items" /\ item \in Folders /\ UNCHANGED todo
    BY <1>5 DEF Copytree, TypeOK
  <2>2. \A f \in Folders \ {item} : target'[f] = target[f]
    BY <1>5, <2>1, FolderStep DEF Copytree, folderVars
  <2>3. \/ target'[item] = "copy" /\ UNCHANGED failed
        \/ failed' = failed \cup {item}
    BY <1>5, <2>1, FolderStep DEF Copytree
  <2> QED
    BY <2>1, <2>2, <2>3 DEF CopyInv, OthersAreCopied, Outstanding
<1>6. CASE CopyDone
  BY <1>6 DEF CopyInv, OthersAreCopied, Outstanding, CopyDone, folderVars
<1>7. CASE CheckCamera \/ WriteCamera \/ Finish
  <2>1. /\ pc \in {"check", "write"} /\ pc' \notin Copying
        /\ UNCHANGED <<target, failed>>
    BY <1>7 DEF CheckCamera, WriteCamera, Finish, folderVars
  <2> QED
    BY <2>1 DEF CopyInv, OthersAreCopied
<1>8. CASE Stop \/ RunAgain
  BY <1>8 DEF CopyInv, OthersAreCopied, Stop, RunAgain
<1>9. CASE UNCHANGED vars
  BY <1>9 DEF CopyInv, OthersAreCopied, Outstanding, vars, folderVars
<1> QED
  BY <1>1, <1>2, <1>3, <1>4, <1>5, <1>6, <1>7, <1>8, <1>9 DEF Next

(* Whatever was in the config directory, also half of an earlier run, a     *)
(* folder without an error of its own is the vehicle's after the copying.   *)
THEOREM FoldersAreCopied == Spec => []OthersAreCopied
<1>1. Init => TypeOK /\ CopyInv
  BY TypeInit DEF Init, CopyInv, Copying, OthersAreCopied
<1>2. TypeOK /\ CopyInv /\ [Next]_vars => TypeOK' /\ CopyInv'
  BY TypeStep, CopyStep
<1>3. CopyInv => OthersAreCopied
  BY DEF CopyInv
<1> QED
  BY <1>1, <1>2, <1>3, PTL DEF Spec

(***************************************************************************)
(* What a camera's file ends up with.                                      *)
(***************************************************************************)

(* A file passed over is neither missing, empty nor an identity; one that   *)
(* is written was an identity.                                              *)
LEMMA CheckCameraEffect ==
  ASSUME TypeOK, CheckCamera
  PROVE  /\ pc = "check" /\ camera \in Cameras /\ camera \in 0..LastChecked
         /\ UNCHANGED <<target, failed>>
         /\ \/ pc' = "stopped"
            \/ /\ pc' = "check" /\ camera' = camera + 1 /\ UNCHANGED file
               /\ file[camera] \in {"lone_identity", "rectified"}
            \/ /\ pc' = "write" /\ UNCHANGED camera
               /\ file[camera] = "identity"
               /\ file' = [file EXCEPT ![camera] = "empty"]
<1>1. pc = "check" /\ camera \in 0..LastChecked
  BY UpdateAssumption DEF CheckCamera, At, TypeOK
<1>2. camera \in Cameras
  BY <1>1, UpdateAssumption
<1>3. file[camera] \in Kinds
  BY <1>2 DEF TypeOK
<1> QED
  BY <1>1, <1>2, <1>3 DEF CheckCamera, At, GoTo, Raises, Kinds

(* The cameras before the next one are those before this one, and this one. *)
LEMMA BelowNext ==
  ASSUME NEW n \in Int
  PROVE  \A c \in Cameras : c < n + 1 <=> c < n \/ c = n
<1> TAKE c \in Cameras
<1>1. c \in Int
  BY UpdateAssumption
<1> QED
  BY <1>1

LEMMA VehicleStep == TypeOK /\ VehicleInv /\ [Next]_vars => VehicleInv'
<1> SUFFICES ASSUME TypeOK, VehicleInv, [Next]_vars PROVE VehicleInv'
  OBVIOUS
<1> USE DEF At, GoTo, Copying
<1> USE UpdateAssumption
<1>1. CASE ListItems \/ NoSource \/ CopyDone
  BY <1>1 DEF VehicleInv, IntrinsicsAreTheVehicles, Outstanding, ListItems, NoSource,
         CopyDone, folderVars
<1>2. CASE NextItem
  <2>1. PICK f \in todo :
          /\ item' = f
          /\ todo' = todo \ {f}
          /\ \/ target[f] = "absent" /\ GoTo("copytree") /\ UNCHANGED failed
             \/ target[f] = "no_folder" /\ GoTo("items") /\ failed' = failed \cup {f}
             \/ target[f] \notin {"absent", "no_folder"} /\ GoTo("rmtree") /\ UNCHANGED failed
    BY <1>2 DEF NextItem
  <2>2. pc = "items" /\ UNCHANGED <<file, camera>>
    BY <1>2 DEF NextItem, folderVars
  <2> QED
    BY <2>1, <2>2 DEF VehicleInv, IntrinsicsAreTheVehicles, Outstanding
<1>3. CASE Rmtree
  <2>1. pc = "rmtree" /\ item \in Folders /\ UNCHANGED <<todo, item, camera>>
    BY <1>3 DEF Rmtree, TypeOK
  <2>2. item # Intrinsic => UNCHANGED file
    BY <1>3, <2>1, FolderStep DEF Rmtree, folderVars
  <2>3. \/ pc' = "copytree" /\ UNCHANGED failed
        \/ pc' = "items" /\ failed' = failed \cup {item}
    BY <1>3 DEF Rmtree
  <2> QED
    BY <2>1, <2>2, <2>3 DEF VehicleInv, IntrinsicsAreTheVehicles, Outstanding
<1>4. CASE Copytree
  <2>1. pc = "copytree" /\ pc' = "items" /\ item \in Folders /\ UNCHANGED <<todo, camera>>
    BY <1>4 DEF Copytree, TypeOK
  <2>2. item # Intrinsic => UNCHANGED file
    BY <1>4, <2>1, FolderStep DEF Copytree, folderVars
  <2>3. \/ /\ item = Intrinsic => \A c \in Cameras : file'[c] = Source[c]
           /\ UNCHANGED failed
        \/ failed' = failed \cup {item}
    BY <1>4, <2>1, FolderStep DEF Copytree
  <2> QED
    BY <2>1, <2>2, <2>3 DEF VehicleInv, IntrinsicsAreTheVehicles, Outstanding
<1>5. CASE CheckCamera
  <2>1. CASE pc' = "stopped"
    BY <2>1 DEF VehicleInv, IntrinsicsAreTheVehicles
  <2>2. CASE pc' = "check" /\ camera' = camera + 1 /\ UNCHANGED <<file, failed>>
    <3>1. \A c \in Cameras : c < camera => c < camera + 1
      BY BelowNext DEF TypeOK
    <3> QED
      BY <1>5, <2>2, <3>1, CheckCameraEffect DEF VehicleInv, IntrinsicsAreTheVehicles
  <2>3. CASE /\ pc' = "write" /\ UNCHANGED <<camera, failed>>
             /\ file[camera] = "identity"
             /\ file' = [file EXCEPT ![camera] = "empty"]
    <3>1. pc = "check" /\ camera \in Cameras
      BY <1>5, CheckCameraEffect
    <3>2. \A c \in Cameras : c # camera => file'[c] = file[c]
      BY <2>3 DEF TypeOK
    <3>3. Intrinsic \notin failed => Source[camera] = "identity"
      BY <2>3, <3>1 DEF VehicleInv, IntrinsicsAreTheVehicles
    <3> QED
      BY <2>3, <3>1, <3>2, <3>3 DEF VehicleInv, IntrinsicsAreTheVehicles
  <2> QED
    BY <1>5, <2>1, <2>2, <2>3, CheckCameraEffect
<1>6. CASE WriteCamera
  <2>1. /\ pc = "write" /\ pc' = "check" /\ camera' = camera + 1 /\ UNCHANGED failed
        /\ file' = [file EXCEPT ![camera] = "rectified"]
        /\ camera \in 0..LastChecked
    BY <1>6 DEF WriteCamera, TypeOK
  <2>2. camera \in Cameras /\ camera \in Int
    BY <2>1
  <2>3. /\ file'[camera] = "rectified"
        /\ \A c \in Cameras : c # camera => file'[c] = file[c]
    BY <2>1, <2>2 DEF TypeOK
  <2>4. \A c \in Cameras : c < camera + 1 <=> c < camera \/ c = camera
    BY <2>2, BelowNext
  <2>5. IntrinsicsAreTheVehicles'
    <3> SUFFICES ASSUME Intrinsic \notin failed, NEW c \in Cameras
                 PROVE  \/ file'[c] = Source[c]
                        \/ Source[c] = "identity" /\ c < camera' /\ file'[c] = "rectified"
      BY <2>1 DEF IntrinsicsAreTheVehicles
    <3>1. \/ file[c] = Source[c]
          \/ Source[c] = "identity" /\ c < camera /\ file[c] = "rectified"
          \/ Source[c] = "identity" /\ c = camera
      BY <2>1 DEF VehicleInv, IntrinsicsAreTheVehicles
    <3>2. c < camera' <=> c < camera \/ c = camera
      BY <2>1, <2>4
    <3>3. CASE c = camera
      <4>1. Source[c] = "identity"
        BY <2>1, <3>3 DEF VehicleInv
      <4> QED
        BY <2>3, <3>2, <3>3, <4>1
    <3>4. CASE c # camera
      BY <2>3, <3>1, <3>2, <3>4
    <3> QED
      BY <3>3, <3>4
  <2> QED
    BY <2>1, <2>5 DEF VehicleInv
<1>7. CASE Finish
  BY <1>7 DEF VehicleInv, IntrinsicsAreTheVehicles, Finish, folderVars
<1>8. CASE Stop \/ RunAgain
  BY <1>8 DEF VehicleInv, IntrinsicsAreTheVehicles, Stop, RunAgain
<1>9. CASE UNCHANGED vars
  BY <1>9 DEF VehicleInv, IntrinsicsAreTheVehicles, Outstanding, vars, folderVars
<1> QED
  BY <1>1, <1>2, <1>3, <1>4, <1>5, <1>6, <1>7, <1>8, <1>9 DEF Next

(* When the intrinsics were copied without an error, a camera's file is the *)
(* vehicle's, or a replaced identity of the vehicle, or just being written. *)
THEOREM VehicleIntrinsics == Spec => []IntrinsicsAreTheVehicles
<1>1. Init => TypeOK /\ VehicleInv
  BY TypeInit DEF Init, VehicleInv, Copying, IntrinsicsAreTheVehicles, At
<1>2. TypeOK /\ VehicleInv /\ [Next]_vars => TypeOK' /\ VehicleInv'
  BY TypeStep, VehicleStep
<1>3. VehicleInv => IntrinsicsAreTheVehicles
  BY DEF VehicleInv
<1> QED
  BY <1>1, <1>2, <1>3, PTL DEF Spec

LEMMA CheckedStep == TypeOK /\ CheckedInv /\ [Next]_vars => CheckedInv'
<1> SUFFICES ASSUME TypeOK, CheckedInv, [Next]_vars PROVE CheckedInv'
  OBVIOUS
<1> USE DEF At, GoTo, Copying, Checking
<1>1. camera \in Nat
  BY UpdateAssumption DEF TypeOK
<1>2. CASE ListItems \/ NextItem \/ Rmtree \/ Copytree
  <2>1. pc' \in Copying /\ camera = 0 /\ UNCHANGED camera
    BY <1>2 DEF CheckedInv, ListItems, NextItem, Rmtree, Copytree
  <2> QED
    BY <2>1 DEF CheckedInv
<1>3. CASE NoSource \/ CopyDone
  <2>1. pc' = "check" /\ camera' = 0
    BY <1>3 DEF CheckedInv, NoSource, CopyDone
  <2>2. 0..(camera' - 1) = {}
    BY <2>1
  <2> QED
    BY <2>1, <2>2 DEF CheckedInv
<1>4. CASE CheckCamera
  <2>1. CASE pc' = "stopped"
    BY <2>1 DEF CheckedInv
  <2>2. CASE /\ pc' = "check" /\ camera' = camera + 1 /\ UNCHANGED file
             /\ file[camera] \in {"lone_identity", "rectified"}
    <3>1. \A c \in 0..(camera' - 1) : c \in 0..(camera - 1) \/ c = camera
      BY <1>1, <2>2
    <3> QED
      BY <1>4, <2>2, <3>1, CheckCameraEffect DEF CheckedInv
  <2>3. CASE /\ pc' = "write" /\ UNCHANGED camera
             /\ file' = [file EXCEPT ![camera] = "empty"]
    <3>1. \A c \in 0..(camera - 1) : file'[c] = file[c]
      <4>1. \A c \in 0..(camera - 1) : c \in Cameras /\ c # camera
        <5>1. camera \in 0..LastChecked
          BY <1>4, CheckCameraEffect
        <5>2. \A c \in 0..(camera - 1) : c \in 0..LastChecked /\ c # camera
          BY <1>1, <5>1, UpdateAssumption
        <5> QED
          BY <5>2, UpdateAssumption
      <4> QED
        BY <2>3, <4>1 DEF TypeOK
    <3> QED
      BY <1>4, <2>3, <3>1, CheckCameraEffect DEF CheckedInv
  <2> QED
    BY <1>4, <2>1, <2>2, <2>3, CheckCameraEffect
<1>5. CASE WriteCamera
  <2>1. /\ pc = "write" /\ pc' = "check" /\ camera' = camera + 1
        /\ file' = [file EXCEPT ![camera] = "rectified"]
        /\ camera \in 0..LastChecked
    BY <1>5, UpdateAssumption DEF WriteCamera, TypeOK
  <2>2. \A c \in 0..(camera' - 1) : c \in 0..(camera - 1) \/ c = camera
    BY <1>1, <2>1
  <2>3. \A c \in 0..(camera' - 1) : c \in Cameras
    BY <1>1, <2>1, UpdateAssumption
  <2>4. \A c \in 0..(camera' - 1) : file'[c] \in {file[c], "rectified"}
    BY <2>1, <2>3 DEF TypeOK
  <2>5. camera \in Cameras => file'[camera] = "rectified"
    BY <2>1 DEF TypeOK
  <2> QED
    BY <2>1, <2>2, <2>3, <2>4, <2>5 DEF CheckedInv
<1>6. CASE Finish
  BY <1>6 DEF CheckedInv, Finish, folderVars
<1>7. CASE Stop \/ RunAgain
  BY <1>7 DEF CheckedInv, Stop, RunAgain
<1>8. CASE UNCHANGED vars
  BY <1>8 DEF CheckedInv, vars, folderVars
<1> QED
  BY <1>2, <1>3, <1>4, <1>5, <1>6, <1>7, <1>8 DEF Next

(* A run that gets to its end has seen, for every checked camera, a file    *)
(* that is there, not empty and has no identity left to replace.            *)
THEOREM FinishedIsUsable == Spec => []CheckedAreUsable
<1>1. Init => TypeOK /\ CheckedInv
  BY TypeInit DEF Init, CheckedInv, Copying, Checking, At
<1>2. TypeOK /\ CheckedInv /\ [Next]_vars => TypeOK' /\ CheckedInv'
  BY TypeStep, CheckedStep
<1>3. TypeOK /\ CheckedInv => CheckedAreUsable
  <2> SUFFICES ASSUME TypeOK, CheckedInv, pc = "finished", NEW c \in 0..LastChecked
               PROVE  file[c] \in {"lone_identity", "rectified"}
    BY DEF CheckedAreUsable, At
  <2>1. c \in 0..(camera - 1)
    BY UpdateAssumption DEF TypeOK, CheckedInv, At
  <2> QED
    BY <2>1 DEF CheckedInv, Checking
<1> QED
  BY <1>1, <1>2, <1>3, PTL DEF Spec
=============================================================================
