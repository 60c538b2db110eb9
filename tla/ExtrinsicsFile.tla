--------------------------- MODULE ExtrinsicsFile ---------------------------
(***************************************************************************)
(* sensor_kit_calibration.yaml and the programs that write it: the         *)
(* calibration node (src/calibrate.cpp) and any number of windows of       *)
(* script/project_points_to_image.py.  Nobody locks the file; each writer  *)
(* reads all of it, changes some cameras, truncates it by opening it for   *)
(* writing, and fills it; the content, some 3 KB, goes out in one write.   *)
(* A program can die between any two of these steps: the window's writes   *)
(* run on a daemon thread.                                                 *)
(*                                                                         *)
(* An empty file has no entry for any camera; the file starts with some.   *)
(* A file two writers filled at once may be Garbled, and then nothing can  *)
(* parse it.                                                               *)
(***************************************************************************)
EXTENDS Integers

CONSTANTS
  Cams,      \* camera indices
  Poses,     \* the values an extrinsic can take
  ZeroPose,  \* a default-constructed ExtParams
  Absent,    \* no entry of that camera
  Garbled,   \* the content of an unreadable file
  Tools,     \* windows of the projection tool
  CamOf,     \* [Tools -> Cams]: the command-line argument of each
  Node,      \* the calibration node
  Requested  \* the cameras in its calib_camera_list

Writers == Tools \cup {Node}

ASSUME FileAssumption ==
  /\ Cams \subseteq Int
  /\ ZeroPose \in Poses
  /\ Absent \notin Poses
  /\ Garbled \notin [Cams -> Poses \cup {Absent}]
  /\ CamOf \in [Tools -> Cams]
  /\ Node \notin Tools
  /\ Requested \subseteq Cams

VARIABLES
  file,           \* what a reader finds
  stage,          \* [Writers -> Stages]
  copy,           \* [Writers -> contents]: the document to be written
  window,         \* [Tools -> Poses]: x_ .. yaw_ of each tool
  camera_params,  \* the node's extrinsics_ of each camera
  loaded,         \* cameras readAllParams has read
  flag_init,      \* init_CalibFunc has come to its end
  solved,         \* cameras calibrated since
  committed,      \* history: what the last write left behind
  clean,          \* history: no other write overlaps this writer's session
  damaged,        \* history: a writer died, or the node read, in mid-write
  entries         \* history: the cameras the file had at first

nodeVars == <<camera_params, loaded, flag_init, solved>>
historyVars == <<committed, clean, damaged, entries>>
vars == <<file, stage, copy, window, nodeVars, historyVars>>

Contents == [Cams -> Poses \cup {Absent}]
Empty == [c \in Cams |-> Absent]
Present(content) == {c \in Cams : content[c] # Absent}

(* A writer is off, running, has read the file for a write, or has it open. *)
Stages == {"off", "running", "copied", "open"}

TypeOK ==
  /\ file \in Contents \cup {Garbled}
  /\ stage \in [Writers -> Stages]
  /\ copy \in [Writers -> Contents]
  /\ window \in [Tools -> Poses]
  /\ camera_params \in [Cams -> Poses]
  /\ loaded \subseteq Cams /\ solved \subseteq loaded
  /\ flag_init \in BOOLEAN /\ (flag_init => loaded = Cams)
  /\ committed \in Contents \cup {Garbled}
  /\ clean \in [Writers -> BOOLEAN]
  /\ damaged \in BOOLEAN
  /\ entries \subseteq Cams

Init ==
  /\ file \in Contents \ {Empty}
  /\ stage = [w \in Writers |-> "off"]
  /\ copy = [w \in Writers |-> Empty]
  /\ window = [t \in Tools |-> ZeroPose]
  /\ camera_params = [c \in Cams |-> ZeroPose]
  /\ loaded = {} /\ flag_init = FALSE /\ solved = {}
  /\ committed = file
  /\ clean = [w \in Writers |-> FALSE]
  /\ damaged = FALSE
  /\ entries = Present(file)

Open(w) == stage[w] = "open"
NobodyWrites == \A w \in Writers : ~Open(w)
Readable == file # Garbled

(***************************************************************************)
(* The node.  readAllParams opens the file once per camera, in order.      *)
(***************************************************************************)
NodeLaunch ==
  /\ stage[Node] = "off"
  /\ stage' = [stage EXCEPT ![Node] = "running"]
  /\ camera_params' = [c \in Cams |-> ZeroPose]
  /\ loaded' = {} /\ flag_init' = FALSE /\ solved' = {}
  /\ clean' = [clean EXCEPT ![Node] = NobodyWrites]
  /\ UNCHANGED <<file, copy, window, committed, damaged, entries>>

Entry(content, c) == IF content[c] = Absent THEN ZeroPose ELSE content[c]

NodeLoad(c) ==
  /\ stage[Node] = "running"
  /\ c \in Cams \ loaded
  /\ \A d \in Cams \ loaded : c <= d
  /\ Readable
  /\ camera_params' = [camera_params EXCEPT ![c] = Entry(file, c)]
  /\ loaded' = loaded \cup {c}
  /\ UNCHANGED <<file, stage, copy, window, flag_init, solved, historyVars>>

(* The ground-truth poses are computed from the lidar entries of the same  *)
(* file, as the shipped configuration has it: an empty file throws.        *)
NodeGroundTruth ==
  /\ stage[Node] = "running"
  /\ loaded = Cams
  /\ file \notin {Empty, Garbled}
  /\ flag_init' = TRUE
  /\ UNCHANGED <<file, stage, copy, window, camera_params, loaded, solved, historyVars>>

NodeSolve(c) ==
  /\ stage[Node] = "running"
  /\ flag_init
  /\ c \in loaded \cap Requested
  /\ \E pose \in Poses : camera_params' = [camera_params EXCEPT ![c] = pose]
  /\ solved' = solved \cup {c}
  /\ UNCHANGED <<file, stage, copy, window, loaded, flag_init, historyVars>>

(* write_Extrinsics up to the loop's end: every camera that has an entry   *)
(* gets the pose in memory.                                                *)
NodeDocument == [c \in Cams |-> IF file[c] = Absent THEN Absent ELSE camera_params[c]]

NodeReadBack ==
  /\ stage[Node] = "running"
  /\ flag_init
  /\ Readable
  /\ stage' = [stage EXCEPT ![Node] = "copied"]
  /\ copy' = [copy EXCEPT ![Node] = NodeDocument]
  /\ damaged' = (damaged \/ ~NobodyWrites)
  /\ UNCHANGED <<file, window, nodeVars, committed, clean, entries>>

(***************************************************************************)
(* A window of the projection tool.                                        *)
(***************************************************************************)

(* Mutation: an entry that is missing is created. *)
HasAnyEntry(t) == Readable

(* Reading an entry that is not there raises, in the file as in a dict.     *)
HasEntry(t) == Readable /\ file[CamOf[t]] # Absent

ToolOpen(t) ==
  /\ stage[t] = "off"
  /\ HasEntry(t)
  /\ stage' = [stage EXCEPT ![t] = "running"]
  /\ window' = [window EXCEPT ![t] = file[CamOf[t]]]
  /\ UNCHANGED <<file, copy, nodeVars, historyVars>>

ToolAdjust(t) ==
  /\ stage[t] = "running"
  /\ \E pose \in Poses : window' = [window EXCEPT ![t] = pose]
  /\ UNCHANGED <<file, stage, copy, nodeVars, historyVars>>

(* Mutation: the document is rebuilt around the one camera. *)
RebuiltDocument(t) == [Empty EXCEPT ![CamOf[t]] = window[t]]

ToolDocument(t) == [file EXCEPT ![CamOf[t]] = window[t]]

(* write_camera_extrinsics up to the second open. *)
ToolRead(t) ==
  /\ stage[t] = "running"
  /\ HasEntry(t)
  /\ stage' = [stage EXCEPT ![t] = "copied"]
  /\ copy' = [copy EXCEPT ![t] = ToolDocument(t)]
  /\ clean' = [clean EXCEPT ![t] = NobodyWrites]
  /\ UNCHANGED <<file, window, nodeVars, committed, damaged, entries>>

(***************************************************************************)
(* Both: the file is opened for writing, and written.                      *)
(***************************************************************************)
Truncate(w) ==
  /\ stage[w] = "copied"
  /\ stage' = [stage EXCEPT ![w] = "open"]
  /\ file' = Empty
  /\ clean' = [v \in Writers |-> clean[v] /\ v = w]
  /\ UNCHANGED <<copy, window, nodeVars, committed, damaged, entries>>

(* The bytes go to the start of the file; if another writer filled it in   *)
(* the meantime, the tail of its content may stick out.                    *)
Finish(w) ==
  /\ Open(w)
  /\ file' \in IF file = Empty THEN {copy[w]} ELSE {copy[w], Garbled}
  /\ stage' = [stage EXCEPT ![w] = IF w = Node THEN "off" ELSE "running"]
  /\ copy' = [copy EXCEPT ![w] = Empty]
  /\ committed' = file'
  /\ UNCHANGED <<window, nodeVars, clean, damaged, entries>>

(* The process ends: killed, by an exception, or (the tool's daemon thread) *)
(* because its main thread returned.                                       *)
Die(w) ==
  /\ stage[w] # "off"
  /\ stage' = [stage EXCEPT ![w] = "off"]
  /\ copy' = [copy EXCEPT ![w] = Empty]
  /\ committed' = IF Open(w) THEN file ELSE committed
  /\ damaged' = (damaged \/ Open(w))
  /\ UNCHANGED <<file, window, nodeVars, clean, entries>>

Next ==
  \/ NodeLaunch \/ NodeGroundTruth \/ NodeReadBack
  \/ \E c \in Cams : NodeLoad(c) \/ NodeSolve(c)
  \/ \E t \in Tools : ToolOpen(t) \/ ToolAdjust(t) \/ ToolRead(t)
  \/ \E w \in Writers : Truncate(w) \/ Finish(w) \/ Die(w)

Spec == Init /\ [][Next]_vars

(***************************************************************************)
(* Properties.                                                             *)
(***************************************************************************)
Own(w) == IF w = Node THEN solved ELSE {CamOf[w]}

(* A write changes no camera but the writer's own, unless another write     *)
(* overlapped its session: a press of the button for a tool, but all the    *)
(* time since it loaded its parameters for the node.                        *)
IsolatedWritesKeepOthers ==
  [][\A w \in Writers : Finish(w) /\ clean[w] =>
       \A c \in Cams \ Own(w) : file'[c] = committed[c]]_vars

(* However the tools interleave, no camera's entry gets lost: they refuse   *)
(* to write what they could not read.  Only a writer that dies with the     *)
(* file open, or the node reading it in that moment, can empty it.          *)
EntriesSurvive ==
  ~damaged /\ NobodyWrites /\ Readable => Present(file) = entries

(* The file as a table in which every writer replaces poses of its own      *)
(* cameras in one step.  This is what CalibNode, whose write is one step,   *)
(* takes it for.                                                           *)
Table == INSTANCE PoseTable WITH
  table <- committed,
  Owned <- [w \in Writers |-> IF w = Node THEN Requested ELSE {CamOf[w]}]

(* A session that no other write overlaps amounts to one step of the table, *)
(* whatever the other writers have done to the file before: no entry of the *)
(* writer's own comes or goes either, and what it read was not Garbled.     *)
IsolatedWritesAreAtomic ==
  [][\A w \in Writers : Finish(w) /\ clean[w] => Table!Write(w)]_vars

(* The discipline the programs leave to their users: nobody starts to write *)
(* when another has written since it read the file, and nobody is cut off.  *)
Serial == \A w \in Writers : (Truncate(w) => clean[w]) /\ (Die(w) => ~Open(w))

SerialSpec == Init /\ [][Next /\ Serial]_vars

(* Under that discipline the file is the table.                             *)
ImplementsTable == Table!TableSpec

(***************************************************************************)
(* The strengthenings that make the properties above inductive.            *)
(***************************************************************************)

(* Between writes the file is what the last one left.                      *)
QuietFile == NobodyWrites => file = committed

(* A clean session: nobody else has the file open, what the node loaded    *)
(* and what is to be written agree with the file as it was committed.      *)
InSession(w) == stage[w] \in IF w = Node THEN {"running", "copied", "open"}
                                         ELSE {"copied", "open"}
CleanSession(w) ==
  clean[w] /\ InSession(w) =>
    /\ \A v \in Writers \ {w} : ~Open(v)
    /\ Open(w) => file = Empty
    /\ stage[w] \in {"copied", "open"} =>
         /\ committed # Garbled
         /\ Present(copy[w]) = Present(committed)
         /\ \A c \in Cams \ Own(w) : copy[w][c] = committed[c]

NodeMemory ==
  clean[Node] /\ InSession(Node) =>
    /\ loaded # {} => committed # Garbled
    /\ \A c \in loaded \ solved : camera_params[c] = Entry(committed, c)

IsolationInv ==
  /\ QuietFile
  /\ \A w \in Writers : CleanSession(w)
  /\ NodeMemory

RequestedInv == solved \subseteq Requested

(* As long as no writer was cut off, a file is whole or just truncated.    *)
Whole(content) == content = Garbled \/ Present(content) = entries
SurvivalInv ==
  ~damaged =>
    /\ Whole(file) \/ (file = Empty /\ ~NobodyWrites)
    /\ \A w \in Writers : stage[w] \in {"copied", "open"} => Present(copy[w]) = entries

(* In serial behaviour whoever has the file open is in a clean session.     *)
SerialInv == \A w \in Writers : Open(w) => clean[w]
=============================================================================
