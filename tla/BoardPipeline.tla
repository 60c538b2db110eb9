--------------------------- MODULE BoardPipeline ----------------------------
(***************************************************************************)
(* ExtraBoard::extract_points and board_register (src/extraboard.cpp):     *)
(* from the loaded cloud to boards with 3D corners, one action per stage.  *)
(*                                                                         *)
(* A cluster is a flat object of the scene, seen as horizontal levels in   *)
(* units of 5 mm, each reaching from a left to a right end along the plane *)
(* (in 5 mm as well).  A cloud is the cluster it was cut from and the      *)
(* number of copies it holds of each level.  What depends on single points *)
(* (point filters, RANSAC, sizes, the template) is a choice.               *)
(***************************************************************************)
EXTENDS Integers, Sequences, FiniteSets

CONSTANTS
  Clusters,     \* flat objects of the scene
  Extent,       \* [Clusters -> [levels -> [left : Int, right : Int]]]
  BracketWidth, \* parameter algorithm_params.bracket_width, in units
  NoCorners     \* a board whose 3D corners were never filled in

SliceStep  == 8   \* 4 cm
HalfSlice  == 5   \* 2.5 cm
Margin     == 20  \* 10 cm
Tolerance  == 20  \* cluster tolerance, 10 cm

Levels(c) == DOMAIN Extent[c]

ASSUME ShapeAssumption ==
  /\ NoCorners \notin Clusters
  /\ BracketWidth \in Nat
  /\ \A c \in Clusters :
       /\ Levels(c) \subseteq Int
       /\ Extent[c] \in [Levels(c) -> [left : Int, right : Int]]
       /\ \A l \in Levels(c) : Extent[c][l].left <= Extent[c][l].right
       /\ \E top \in Levels(c) : \A l \in Levels(c) : l <= top
       /\ \E bottom \in Levels(c) : \A l \in Levels(c) : bottom <= l

VARIABLES
  pc,                \* the stage that comes next
  clouds,            \* the vector the stages of extract_points hand on
  processed_cloud,   \* processed_cloud_: the clouds merged into it
  size_filtered,     \* size_filtered_clouds, of the size filter
  bboxes,            \* ExtraBoard::bboxes: the cluster each box was computed on
  extracted,         \* extracted_clouds, the vector board_register gets
  idx,               \* index of the loop that runs
  img_pc_trans_info, \* transform_valid_ of each board
  corners_2d,        \* is_valid of each board's 2D corners
  boards             \* the 3D corners of each board

extractVars == <<size_filtered, bboxes, extracted>>
cloudVars == <<clouds, processed_cloud, extractVars>>
registerVars == <<img_pc_trans_info, corners_2d, boards>>
boardVars == <<idx, registerVars>>
vars == <<pc, cloudVars, boardVars>>

Stages == {"filter", "cluster", "ransac", "scaffold", "save", "euclidean", "size",
           "collect", "register", "plane", "done", "thrown"}

AllLevels == UNION {Levels(c) : c \in Clusters}
Cloud == [source : Clusters, copies : [AllLevels -> Nat]]
Support(cloud) == {l \in AllLevels : cloud.copies[l] > 0}
Whole(c) ==
  [source |-> c, copies |-> [l \in AllLevels |-> IF l \in Levels(c) THEN 1 ELSE 0]]

TypeOK ==
  /\ pc \in Stages
  /\ clouds \in Seq(Cloud)
  /\ processed_cloud \in SUBSET Cloud
  /\ size_filtered \in Seq(Cloud)
  /\ bboxes \in Seq(Clusters)
  /\ extracted \in Seq(Clusters)
  /\ idx \in Nat
  /\ img_pc_trans_info \in Seq(BOOLEAN)
  /\ corners_2d \in Seq(BOOLEAN)
  /\ boards \in Seq(Clusters \cup {NoCorners})

Init ==
  /\ pc = "filter"
  /\ clouds = <<>> /\ processed_cloud = {}
  /\ size_filtered = <<>> /\ bboxes = <<>> /\ extracted = <<>>
  /\ idx = 1
  /\ img_pc_trans_info = <<>> /\ corners_2d = <<>> /\ boards = <<>>

At(stage) == pc = stage
GoTo(stage) == pc' = stage

(* Some of n elements, in their order: increasing maps into the indices.   *)
Picks(m, n) ==
  {p \in [1..m -> 1..n] : \A i, j \in 1..m : i < j => p[i] < p[j]}

(***************************************************************************)
(* extract_points.                                                         *)
(***************************************************************************)

(* No cloud, or a box, intensity or outlier filter that leaves nothing: the *)
(* function returns.                                                        *)
FilterPoints ==
  /\ At("filter")
  /\ GoTo("cluster") \/ GoTo("register")
  /\ UNCHANGED <<cloudVars, boardVars>>

(* The clusters, by size; finding none is an error that is only logged. *)
EuclideanClustering ==
  /\ At("cluster")
  /\ GoTo("ransac")
  /\ \E n \in 0..Cardinality(Clusters) :
       \E found \in [1..n -> Clusters] :
         /\ \A i, j \in 1..n : found[i] = found[j] => i = j
         /\ clouds' = [i \in 1..n |-> Whole(found[i])]
  /\ UNCHANGED <<processed_cloud, extractVars, boardVars>>

(* Clusters without a plane are dropped. *)
RansacPlanes ==
  /\ At("ransac")
  /\ GoTo("scaffold")
  /\ \E m \in 0..Len(clouds) :
       \E p \in Picks(m, Len(clouds)) :
         clouds' = [k \in 1..m |-> clouds[p[k]]]
  /\ UNCHANGED <<processed_cloud, extractVars, boardVars>>

(***************************************************************************)
(* apply_scaffold_filter: slices from the top down while they are above    *)
(* the lowest point; a slice wider than the bracket goes into the result.  *)
(***************************************************************************)
Top(c)    == CHOOSE top \in Levels(c) : \A l \in Levels(c) : l <= top
Bottom(c) == CHOOSE bottom \in Levels(c) : \A l \in Levels(c) : bottom <= l

(* Mutation: the slices go on while the whole of them is above the lowest  *)
(* point, not their middle.                                                *)
FullSlices(c) ==
  {z \in {Top(c) - SliceStep * k : k \in 0..(Top(c) - Bottom(c))} :
     z - HalfSlice > Bottom(c)}

Slices(c) ==
  {z \in {Top(c) - SliceStep * k : k \in 0..(Top(c) - Bottom(c))} : z > Bottom(c)}

(* Mutation: a slice reaches a whole step up and down. *)
InTallSlice(l, z) == z - SliceStep <= l /\ l <= z + SliceStep

InSlice(l, z) == z - HalfSlice <= l /\ l <= z + HalfSlice

(* From the left end of one level to the right end of another it is more   *)
(* than a bracket; a slice is as wide as all its levels are together.      *)
Wide(c, l, m) == Extent[c][m].right - Extent[c][l].left > BracketWidth + Margin
WideSlice(c, z) ==
  \E l, m \in Levels(c) : InSlice(l, z) /\ InSlice(m, z) /\ Wide(c, l, m)

KeptSlices(c, l) == {z \in Slices(c) : InSlice(l, z) /\ WideSlice(c, z)}

(* Mutation: the slices count only the levels of their own cluster. *)
SlicedAlone(c) ==
  [source |-> c, copies |-> [l \in Levels(c) |-> Cardinality(KeptSlices(c, l))]]

Sliced(c) ==
  [source |-> c,
   copies |-> [l \in AllLevels |->
                 IF l \in Levels(c) THEN Cardinality(KeptSlices(c, l)) ELSE 0]]

ScaffoldFilter ==
  /\ At("scaffold")
  /\ GoTo("save")
  /\ clouds' = [i \in DOMAIN clouds |-> Sliced(clouds[i].source)]
  /\ processed_cloud' = {clouds'[i] : i \in DOMAIN clouds}
  /\ UNCHANGED <<extractVars, boardVars>>

(* The merged cloud goes into the cache directory.  PCL throws where the   *)
(* file does not open (and, in some versions, where the cloud is empty),   *)
(* and nothing catches it: the process ends.                               *)
SaveProcessed ==
  /\ At("save")
  /\ GoTo("euclidean") \/ GoTo("thrown")
  /\ UNCHANGED <<cloudVars, boardVars>>

(***************************************************************************)
(* apply_euclidean_filter on each cloud: only the largest connected part   *)
(* stays; without one of an admissible size the cloud stays as it is.      *)
(***************************************************************************)
Connected(S, l, m) ==
  \A a \in S : (l <= a /\ a < m) \/ (m <= a /\ a < l) =>
    \E b \in S : a < b /\ b <= a + Tolerance

Part(cloud, l) ==
  [cloud EXCEPT !.copies =
     [m \in DOMAIN @ |-> IF Connected(Support(cloud), l, m) THEN @[m] ELSE 0]]

Parts(cloud) == {cloud} \cup {Part(cloud, l) : l \in Support(cloud)}

EuclideanFilter ==
  /\ At("euclidean")
  /\ GoTo("size")
  /\ clouds' \in {kept \in [DOMAIN clouds -> UNION {Parts(clouds[i]) : i \in DOMAIN clouds}] :
                    \A i \in DOMAIN clouds : kept[i] \in Parts(clouds[i])}
  /\ UNCHANGED <<processed_cloud, extractVars, boardVars>>

(***************************************************************************)
(* The size filter: a cloud with a box of the right size, and the box, go  *)
(* into two vectors.  A second loop takes the clouds over that are not     *)
(* empty, and leaves the boxes as they are.                                *)
(***************************************************************************)

(* Mutation: compute_bounding_box takes any cloud.                         *)
AnyBox(cloud) == TRUE

(* compute_bounding_box: an empty cloud has none.                          *)
HasBox(cloud) == Support(cloud) # {}

SizeFilter ==
  /\ At("size") /\ idx \in DOMAIN clouds
  /\ \/ /\ HasBox(clouds[idx])
        /\ size_filtered' = Append(size_filtered, clouds[idx])
        /\ bboxes' = Append(bboxes, clouds[idx].source)
     \/ UNCHANGED <<size_filtered, bboxes>>
  /\ idx' = idx + 1
  /\ UNCHANGED <<pc, clouds, processed_cloud, extracted, registerVars>>

SizesFiltered ==
  /\ At("size") /\ idx \notin DOMAIN clouds
  /\ GoTo("collect")
  /\ idx' = 1
  /\ UNCHANGED <<cloudVars, registerVars>>

Collect ==
  /\ At("collect") /\ idx \in DOMAIN size_filtered
  /\ extracted' = IF Support(size_filtered[idx]) # {}
                  THEN Append(extracted, size_filtered[idx].source)
                  ELSE extracted
  /\ idx' = idx + 1
  /\ UNCHANGED <<pc, clouds, processed_cloud, size_filtered, bboxes, registerVars>>

Collected ==
  /\ At("collect") /\ idx \notin DOMAIN size_filtered
  /\ GoTo("register")
  /\ idx' = 1
  /\ UNCHANGED <<cloudVars, registerVars>>

(***************************************************************************)
(* board_register.  The first loop projects each cluster onto its plane    *)
(* and matches the template; a cluster without a plane ends the function.  *)
(* Only after it, the second loop gives 3D corners to the boards that have *)
(* 2D ones.                                                                *)
(***************************************************************************)
AllFor(value) == [i \in DOMAIN extracted |-> value]

StartRegister ==
  /\ At("register")
  /\ IF extracted = <<>>
     THEN GoTo("done") /\ UNCHANGED boardVars
     ELSE /\ GoTo("plane")
          /\ idx' = 1
          /\ boards' = AllFor(NoCorners)
          /\ corners_2d' = AllFor(FALSE)
          /\ img_pc_trans_info' = AllFor(FALSE)
  /\ UNCHANGED cloudVars

(* Mutation: a cluster without a plane is skipped. *)
SkipWithoutPlane ==
  /\ At("plane") /\ idx \in DOMAIN extracted
  /\ idx' = idx + 1
  /\ UNCHANGED <<pc, cloudVars, img_pc_trans_info, corners_2d, boards>>

NoPlane ==
  /\ At("plane") /\ idx \in DOMAIN extracted
  /\ GoTo("done")
  /\ UNCHANGED <<cloudVars, boardVars>>

(* Mutation: the loop does not go on to the next board.                    *)
MatchAgain ==
  /\ At("plane") /\ idx \in DOMAIN extracted
  /\ img_pc_trans_info' = [img_pc_trans_info EXCEPT ![idx] = TRUE]
  /\ \E matched \in BOOLEAN : corners_2d' = [corners_2d EXCEPT ![idx] = matched]
  /\ UNCHANGED <<pc, cloudVars, idx, boards>>

MatchTemplate ==
  /\ At("plane") /\ idx \in DOMAIN extracted
  /\ img_pc_trans_info' = [img_pc_trans_info EXCEPT ![idx] = TRUE]
  /\ \E matched \in BOOLEAN : corners_2d' = [corners_2d EXCEPT ![idx] = matched]
  /\ idx' = idx + 1
  /\ UNCHANGED <<pc, cloudVars, boards>>

(* Mutation: corners are computed for every board. *)
CornersForAll ==
  /\ At("plane") /\ idx \notin DOMAIN extracted
  /\ GoTo("done")
  /\ boards' = [i \in DOMAIN boards |-> extracted[Len(extracted) + 1 - i]]
  /\ UNCHANGED <<cloudVars, idx, img_pc_trans_info, corners_2d>>

ComputeCorners ==
  /\ At("plane") /\ idx \notin DOMAIN extracted
  /\ GoTo("done")
  /\ boards' = [i \in DOMAIN boards |->
                  IF corners_2d[i] THEN extracted[i] ELSE boards[i]]
  /\ UNCHANGED <<cloudVars, idx, img_pc_trans_info, corners_2d>>

Next ==
  \/ FilterPoints \/ EuclideanClustering \/ RansacPlanes \/ ScaffoldFilter
  \/ SaveProcessed \/ EuclideanFilter
  \/ SizeFilter \/ SizesFiltered \/ Collect \/ Collected
  \/ StartRegister \/ NoPlane \/ MatchTemplate \/ ComputeCorners

Spec == Init /\ [][Next]_vars

(* Straight-line code on the main thread. *)
FairSpec == Spec /\ WF_vars(Next)

(***************************************************************************)
(* Properties.                                                             *)
(***************************************************************************)

(* To the rest of the node this is a source of distinct clusters and of    *)
(* one board per cluster: CalibNode is written against that, and the ids   *)
(* it publishes are right only because of it.                              *)
Source == INSTANCE BoardSource WITH
  clusters <- IF pc \in {"register", "plane", "done"} THEN extracted ELSE <<>>,
  corners  <- IF At("done") THEN boards ELSE <<>>

ImplementsSource == Source!SourceSpec

Scaffolded == pc \in {"save", "euclidean"}

WideLevel(c, l) == Wide(c, l, l)

(* The slices lose nothing of a board but the lowest 1.5 cm of its cloud:  *)
(* a level as wide as a board stays, wherever the slices happen to fall.   *)
BoardLevelsStay ==
  Scaffolded =>
    \A i \in DOMAIN clouds : LET c == clouds[i].source IN
      \A l \in Levels(c) :
        WideLevel(c, l) /\ l >= Bottom(c) + 3 => clouds[i].copies[l] > 0

(* A bracket stays only where it is near the board: a level that stays is  *)
(* within a slice's height of two levels that are wide together, and they  *)
(* are of one another.                                                     *)
BracketStaysShort ==
  Scaffolded =>
    \A i \in DOMAIN clouds : LET c == clouds[i].source IN
      \A l \in Support(clouds[i]) :
        \E m, n \in Levels(c) :
          Wide(c, m, n) /\ \A a, b \in {l, m, n} : a - b <= 2 * HalfSlice

(* Overlapping slices copy points, but no point more than once: the sizes  *)
(* that the next filter counts are at most twice the true ones.            *)
AtMostTwoCopies ==
  \A i \in DOMAIN clouds : \A l \in AllLevels : clouds[i].copies[l] <= 2

(* The timer draws bboxes[i] and the label of boards[i] under one marker   *)
(* id each.  They come from two loops, of which the second drops clouds    *)
(* but no boxes, and a registration between them: the box still frames the *)
(* board that the label names.                                             *)
BoxFramesLabelledBoard ==
  At("done") =>
    \A i \in DOMAIN boards :
      boards[i] # NoCorners => i \in DOMAIN bboxes /\ bboxes[i] = boards[i]

(* Corners are all or nothing with respect to planes: a single cluster     *)
(* without a plane leaves every board without corners.                     *)
CornersNeedAllPlanes ==
  (\E i \in DOMAIN boards : boards[i] # NoCorners) =>
    /\ DOMAIN img_pc_trans_info = DOMAIN boards
    /\ \A j \in DOMAIN img_pc_trans_info : img_pc_trans_info[j]

(* Whatever a stage fails at, the pipeline gets to its end, unless saving  *)
(* the merged cloud has ended the process.                                 *)
PipelineEnds == <>(At("done") \/ At("thrown"))
=============================================================================
