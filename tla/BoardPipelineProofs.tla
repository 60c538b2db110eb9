------------------------ MODULE BoardPipelineProofs -------------------------
(***************************************************************************)
(* Proofs about BoardPipeline, for any scene: any number of flat objects   *)
(* of any shape and any bracket width.                                     *)
(***************************************************************************)
EXTENDS BoardPipeline, FiniteSetTheorems, TLAPS

-----------------------------------------------------------------------------
(***************************************************************************)
(* The slices of apply_scaffold_filter.                                    *)
(***************************************************************************)

LEMMA ShapeFacts ==
  ASSUME NEW c \in Clusters
  PROVE  /\ Levels(c) \subseteq Int
         /\ Levels(c) \subseteq AllLevels
         /\ Top(c) \in Levels(c) /\ Bottom(c) \in Levels(c)
         /\ \A l \in Levels(c) : Bottom(c) <= l /\ l <= Top(c)
BY ShapeAssumption DEF Top, Bottom, AllLevels

LEMMA SliceType ==
  ASSUME NEW c \in Clusters
  PROVE  Slices(c) \subseteq Int
BY ShapeFacts DEF Slices, SliceStep

(* Slices are 4 cm apart and reach 2.5 cm up and down: a level lies in two *)
(* of them at most.                                                        *)
LEMMA TwoSlices ==
  ASSUME NEW c \in Clusters, NEW l \in Levels(c)
  PROVE  /\ IsFiniteSet(KeptSlices(c, l))
         /\ Cardinality(KeptSlices(c, l)) \in 0..2
<1> DEFINE K == KeptSlices(c, l)
<1>1. \A z, w \in K : w \in {z - 8, z, z + 8}
  <2> SUFFICES ASSUME NEW z \in K, NEW w \in K PROVE w \in {z - 8, z, z + 8}
    OBVIOUS
  <2>1. PICK k \in Int : z = Top(c) - 8 * k
    BY ShapeFacts DEF KeptSlices, Slices, SliceStep
  <2>2. PICK m \in Int : w = Top(c) - 8 * m
    BY ShapeFacts DEF KeptSlices, Slices, SliceStep
  <2>3. z - 5 <= l /\ l <= z + 5 /\ w - 5 <= l /\ l <= w + 5
    BY DEF KeptSlices, InSlice, HalfSlice
  <2>4. l \in Int /\ Top(c) \in Int
    BY ShapeFacts
  <2>5. k - 1 <= m /\ m <= k + 1
    BY <2>1, <2>2, <2>3, <2>4
  <2> QED
    BY <2>1, <2>2, <2>4, <2>5
<1>2. \A z \in K : z \in Int /\ z - 5 <= l /\ l <= z + 5
  BY SliceType DEF KeptSlices, InSlice, HalfSlice
<1>3. CASE K = {}
  BY <1>3, FS_EmptySet
<1>4. CASE K # {}
  <2>1. PICK z \in K : TRUE
    BY <1>4
  <2>2. \E w : K \subseteq {z} \cup {w}
    <3>1. ~(z - 8 \in K /\ z + 8 \in K)
      BY <1>2, ShapeFacts
    <3> QED
      BY <1>1, <3>1
  <2>3. PICK w : K \subseteq {z} \cup {w}
    BY <2>2
  <2>4. IsFiniteSet({z} \cup {w}) /\ Cardinality({z} \cup {w}) \in 0..2
    <3>1. IsFiniteSet({z}) /\ Cardinality({z}) = 1
      BY FS_Singleton
    <3> QED
      BY <3>1, FS_AddElement
  <2>5. IsFiniteSet(K) /\ Cardinality(K) <= Cardinality({z} \cup {w})
    BY <2>3, <2>4, FS_Subset
  <2> QED
    BY <2>4, <2>5, FS_CardinalityType
<1> QED
  BY <1>3, <1>4

LEMMA SlicedType ==
  ASSUME NEW c \in Clusters
  PROVE  /\ Sliced(c) \in Cloud
         /\ Sliced(c).source = c
         /\ \A l \in AllLevels : Sliced(c).copies[l] \in 0..2
<1>1. \A l \in AllLevels :
        (IF l \in Levels(c) THEN Cardinality(KeptSlices(c, l)) ELSE 0) \in 0..2
  BY TwoSlices
<1> QED
  BY <1>1 DEF Sliced, Cloud

(* Some slice reaches every level but the lowest 1.5 cm: the nearest slice *)
(* at or above it, or the next one below, which is no more than a          *)
(* centimetre lower.                                                       *)
LEMMA SomeSlice ==
  ASSUME NEW c \in Clusters, NEW l \in Levels(c), l >= Bottom(c) + 3
  PROVE  \E z \in Slices(c) : InSlice(l, z)
<1> DEFINE d == Top(c) - l
           k == d \div 8
           r == d % 8
<1>1. /\ l \in Int /\ Top(c) \in Int /\ Bottom(c) \in Int /\ d \in Nat
      /\ d <= Top(c) - Bottom(c)
  BY ShapeFacts
<1>2. k \in Nat /\ r \in 0..7 /\ d = 8 * k + r
  BY <1>1
<1> HIDE DEF k, r
<1>3. CASE r <= 5
  <2>1. k \in 0..(Top(c) - Bottom(c)) /\ Top(c) - 8 * k > Bottom(c)
    BY <1>1, <1>2, <1>3
  <2>2. InSlice(l, Top(c) - 8 * k)
    BY <1>1, <1>2, <1>3 DEF InSlice, HalfSlice
  <2> QED
    BY <2>1, <2>2 DEF Slices, SliceStep
<1>4. CASE r > 5
  <2>1. k + 1 \in 0..(Top(c) - Bottom(c)) /\ Top(c) - 8 * (k + 1) > Bottom(c)
    BY <1>1, <1>2, <1>4
  <2>2. InSlice(l, Top(c) - 8 * (k + 1))
    BY <1>1, <1>2, <1>4 DEF InSlice, HalfSlice
  <2> QED
    BY <2>1, <2>2 DEF Slices, SliceStep
<1> QED
  BY <1>2, <1>3, <1>4

(* So a level as wide as a board is kept.                                  *)
LEMMA BoardLevelKept ==
  ASSUME NEW c \in Clusters, NEW l \in Levels(c),
         l >= Bottom(c) + 3, WideLevel(c, l)
  PROVE  Sliced(c).copies[l] > 0
<1>1. PICK z \in Slices(c) : InSlice(l, z)
  BY SomeSlice
<1>2. z \in KeptSlices(c, l)
  BY <1>1 DEF KeptSlices, WideSlice, WideLevel
<1>3. Cardinality(KeptSlices(c, l)) > 0
  BY <1>2, TwoSlices, FS_EmptySet
<1> QED
  BY <1>3, ShapeFacts DEF Sliced

(* A level that is kept shares a slice with two that are wide together.    *)
LEMMA KeptNearBoard ==
  ASSUME NEW c \in Clusters, NEW l \in AllLevels, Sliced(c).copies[l] > 0
  PROVE  \E m, n \in Levels(c) :
           Wide(c, m, n) /\ \A a, b \in {l, m, n} : a - b <= 2 * HalfSlice
<1>1. l \in Levels(c) /\ Cardinality(KeptSlices(c, l)) > 0
  BY DEF Sliced
<1>2. PICK z \in KeptSlices(c, l) : TRUE
  BY <1>1, FS_EmptySet
<1>3. PICK m, n \in Levels(c) : InSlice(m, z) /\ InSlice(n, z) /\ Wide(c, m, n)
  BY <1>2 DEF KeptSlices, WideSlice
<1>4. z \in Int /\ l \in Int /\ m \in Int /\ n \in Int
  BY <1>1, <1>2, SliceType, ShapeFacts DEF KeptSlices
<1>5. \A a \in {l, m, n} : a \in Int /\ z - 5 <= a /\ a <= z + 5
  BY <1>2, <1>3, <1>4 DEF KeptSlices, InSlice, HalfSlice
<1>6. \A a, b \in {l, m, n} : a - b <= 2 * HalfSlice
  BY <1>4, <1>5 DEF HalfSlice
<1> QED
  BY <1>3, <1>6

-----------------------------------------------------------------------------
(***************************************************************************)
(* The clouds: of different objects, with no level more than twice, and    *)
(* just after the scaffold filter with exactly the levels it kept.         *)
(***************************************************************************)
CloudsInv ==
  /\ pc \in Stages
  /\ clouds \in Seq(Cloud)
  /\ \A i \in DOMAIN clouds : \A l \in AllLevels : clouds[i].copies[l] <= 2
  /\ \A i, j \in DOMAIN clouds : clouds[i].source = clouds[j].source => i = j
  /\ Scaffolded => \A i \in DOMAIN clouds : clouds[i] = Sliced(clouds[i].source)
  /\ processed_cloud \in SUBSET Cloud

LEMMA WholeType ==
  ASSUME NEW c \in Clusters
  PROVE  /\ Whole(c) \in Cloud
         /\ Whole(c).source = c
         /\ \A l \in AllLevels : Whole(c).copies[l] <= 2
BY DEF Whole, Cloud

LEMMA PartType ==
  ASSUME NEW cloud \in Cloud, NEW kept \in Parts(cloud)
  PROVE  /\ kept \in Cloud
         /\ kept.source = cloud.source
         /\ \A l \in AllLevels : kept.copies[l] <= cloud.copies[l]
<1>1. CASE kept = cloud
  BY <1>1 DEF Cloud
<1>2. ASSUME NEW l \in Support(cloud), kept = Part(cloud, l)
      PROVE  /\ kept \in Cloud
             /\ kept.source = cloud.source
             /\ \A m \in AllLevels : kept.copies[m] <= cloud.copies[m]
  <2> DEFINE C == [m \in AllLevels |->
                     IF Connected(Support(cloud), l, m) THEN cloud.copies[m] ELSE 0]
  <2>1. kept = [cloud EXCEPT !.copies = C] /\ cloud.copies \in [AllLevels -> Nat]
    BY <1>2 DEF Part, Cloud
  <2>2. C \in [AllLevels -> Nat] /\ \A m \in AllLevels : C[m] <= cloud.copies[m]
    BY <2>1
  <2> HIDE DEF C
  <2> QED
    BY <2>1, <2>2 DEF Cloud
<1> QED
  BY <1>1, <1>2 DEF Parts

LEMMA CloudFacts ==
  ASSUME NEW s \in Seq(Cloud), NEW i \in DOMAIN s
  PROVE  s[i] \in Cloud /\ s[i].source \in Clusters /\ s[i].copies \in [AllLevels -> Nat]
<1>1. s[i] \in Cloud
  OBVIOUS
<1> QED
  BY <1>1 DEF Cloud

LEMMA PickFacts ==
  ASSUME NEW n \in Nat, NEW m \in 0..n, NEW p \in Picks(m, n)
  PROVE  /\ p \in [1..m -> 1..n]
         /\ \A i, j \in 1..m : p[i] = p[j] => i = j
BY DEF Picks

LEMMA CloudsInit == Init => CloudsInv
BY DEF Init, CloudsInv, Stages, Scaffolded, At

LEMMA CloudsStep == CloudsInv /\ [Next]_vars => CloudsInv'
<1> SUFFICES ASSUME CloudsInv, [Next]_vars PROVE CloudsInv'
  OBVIOUS
<1> USE DEF At, GoTo, Stages, Scaffolded
<1>0. /\ clouds \in Seq(Cloud) /\ Len(clouds) \in Nat /\ DOMAIN clouds = 1..Len(clouds)
      /\ \A i \in DOMAIN clouds : clouds[i] \in Cloud /\ clouds[i].source \in Clusters
  BY CloudFacts DEF CloudsInv
<1>1. CASE \/ FilterPoints \/ SaveProcessed \/ SizeFilter \/ SizesFiltered \/ Collect
           \/ Collected \/ StartRegister \/ NoPlane \/ MatchTemplate \/ ComputeCorners
           \/ UNCHANGED vars
  <2>1. pc' \in Stages /\ clouds' = clouds /\ processed_cloud' = processed_cloud
    BY <1>1 DEF CloudsInv, FilterPoints, SaveProcessed, SizeFilter, SizesFiltered, Collect,
                Collected, StartRegister, NoPlane, MatchTemplate, ComputeCorners, vars, cloudVars
  <2>2. pc' \in {"save", "euclidean"} => pc \in {"save", "euclidean"}
    BY <1>1 DEF FilterPoints, SaveProcessed, SizeFilter, SizesFiltered, Collect, Collected,
                StartRegister, NoPlane, MatchTemplate, ComputeCorners, vars
  <2> QED
    BY <2>1, <2>2 DEF CloudsInv
<1>2. CASE EuclideanClustering
  <2>0. PICK n \in 0..Cardinality(Clusters) :
          \E found \in [1..n -> Clusters] :
            /\ \A i, j \in 1..n : found[i] = found[j] => i = j
            /\ clouds' = [i \in 1..n |-> Whole(found[i])]
    BY <1>2 DEF EuclideanClustering
  <2>1. PICK found \in [1..n -> Clusters] :
          /\ \A i, j \in 1..n : found[i] = found[j] => i = j
          /\ clouds' = [i \in 1..n |-> Whole(found[i])]
    BY <2>0
  <2>2. \A i \in 1..n : /\ clouds'[i] \in Cloud
                        /\ clouds'[i].source = found[i]
                        /\ \A l \in AllLevels : clouds'[i].copies[l] <= 2
    BY <2>1, WholeType
  <2>3. DOMAIN clouds' = 1..n /\ clouds' \in Seq(Cloud)
    BY <2>1, <2>2
  <2>4. \A i, j \in DOMAIN clouds' : clouds'[i].source = clouds'[j].source => i = j
    BY <2>1, <2>2, <2>3
  <2>5. pc' = "ransac" /\ processed_cloud' = processed_cloud
    BY <1>2 DEF EuclideanClustering
  <2> QED
    BY <2>2, <2>3, <2>4, <2>5 DEF CloudsInv
<1>3. CASE RansacPlanes
  <2>0. PICK m \in 0..Len(clouds) :
          \E p \in Picks(m, Len(clouds)) : clouds' = [k \in 1..m |-> clouds[p[k]]]
    BY <1>3 DEF RansacPlanes
  <2>1. PICK p \in Picks(m, Len(clouds)) : clouds' = [k \in 1..m |-> clouds[p[k]]]
    BY <2>0
  <2>2. p \in [1..m -> 1..Len(clouds)] /\ \A i, j \in 1..m : p[i] = p[j] => i = j
    BY <1>0, PickFacts
  <2>3. DOMAIN clouds' = 1..m /\ \A k \in 1..m : clouds'[k] = clouds[p[k]] /\ p[k] \in DOMAIN clouds
    BY <1>0, <2>1, <2>2
  <2>4. clouds' \in Seq(Cloud)
    BY <1>0, <2>1, <2>2
  <2>5. \A i, j \in DOMAIN clouds' : clouds'[i].source = clouds'[j].source => i = j
    <3> SUFFICES ASSUME NEW i \in 1..m, NEW j \in 1..m,
                        clouds[p[i]].source = clouds[p[j]].source
                 PROVE  i = j
      BY <2>3
    <3>1. p[i] = p[j]
      BY <2>3 DEF CloudsInv
    <3> QED
      BY <2>2, <3>1
  <2>6. \A k \in DOMAIN clouds' : \A l \in AllLevels : clouds'[k].copies[l] <= 2
    BY <2>3 DEF CloudsInv
  <2>7. pc' = "scaffold" /\ processed_cloud' = processed_cloud
    BY <1>3 DEF RansacPlanes
  <2> QED
    BY <2>4, <2>5, <2>6, <2>7 DEF CloudsInv
<1>4. CASE ScaffoldFilter
  <2>1. clouds' = [i \in DOMAIN clouds |-> Sliced(clouds[i].source)]
    BY <1>4 DEF ScaffoldFilter
  <2>2. \A i \in DOMAIN clouds : /\ clouds'[i] \in Cloud
                                 /\ clouds'[i].source = clouds[i].source
                                 /\ \A l \in AllLevels : clouds'[i].copies[l] <= 2
    BY <1>0, <2>1, SlicedType
  <2>3. DOMAIN clouds' = DOMAIN clouds /\ clouds' \in Seq(Cloud)
    BY <1>0, <2>1, <2>2
  <2>4. processed_cloud' \in SUBSET Cloud
    BY <1>4, <2>2 DEF ScaffoldFilter
  <2> QED
    BY <1>4, <2>1, <2>2, <2>3, <2>4 DEF ScaffoldFilter, CloudsInv
<1>5. CASE EuclideanFilter
  <2>1. /\ DOMAIN clouds' = DOMAIN clouds
        /\ clouds' \in [DOMAIN clouds -> UNION {Parts(clouds[i]) : i \in DOMAIN clouds}]
        /\ \A i \in DOMAIN clouds : clouds'[i] \in Parts(clouds[i])
    BY <1>5 DEF EuclideanFilter
  <2>2. \A i \in DOMAIN clouds : /\ clouds'[i] \in Cloud
                                 /\ clouds'[i].source = clouds[i].source
                                 /\ \A l \in AllLevels : clouds'[i].copies[l] <= clouds[i].copies[l]
    BY <1>0, <2>1, PartType
  <2>3. \A i \in DOMAIN clouds : \A l \in AllLevels : clouds'[i].copies[l] <= 2
    <3> SUFFICES ASSUME NEW i \in DOMAIN clouds, NEW l \in AllLevels
                 PROVE  clouds'[i].copies[l] <= 2
      OBVIOUS
    <3>1. clouds[i].copies[l] \in Nat /\ clouds'[i].copies[l] \in Nat
      BY <1>0, <2>2 DEF Cloud
    <3> QED
      BY <2>2, <3>1 DEF CloudsInv
  <2>4. clouds' \in Seq(Cloud)
    <3>1. clouds' \in [1..Len(clouds) -> Cloud]
      BY <1>0, <2>1, <2>2
    <3> QED
      BY <1>0, <3>1
  <2> QED
    BY <1>5, <2>1, <2>2, <2>3, <2>4 DEF EuclideanFilter, CloudsInv
<1> QED
  BY <1>1, <1>2, <1>3, <1>4, <1>5 DEF Next

LEMMA CloudsCorrect == Spec => []CloudsInv
BY CloudsInit, CloudsStep, PTL DEF Spec

(* However thin the board's cloud, and wherever the slices fall: no level  *)
(* as wide as a board is lost, but in the lowest 1.5 cm.                   *)
THEOREM LevelsStay == Spec => []BoardLevelsStay
<1>1. CloudsInv => BoardLevelsStay
  BY BoardLevelKept, CloudFacts DEF CloudsInv, BoardLevelsStay
<1> QED
  BY <1>1, CloudsCorrect, PTL

(* Of a pole only what lies within a slice's height of a board stays.      *)
THEOREM BracketIsShort == Spec => []BracketStaysShort
<1>1. CloudsInv => BracketStaysShort
  BY KeptNearBoard, CloudFacts DEF CloudsInv, BracketStaysShort, Support
<1> QED
  BY <1>1, CloudsCorrect, PTL

(* No point is copied more than once.                                      *)
THEOREM TwoCopies == Spec => []AtMostTwoCopies
<1>1. CloudsInv => AtMostTwoCopies
  BY DEF CloudsInv, AtMostTwoCopies
<1> QED
  BY <1>1, CloudsCorrect, PTL

-----------------------------------------------------------------------------
(***************************************************************************)
(* The boards.  The size filter pairs boxes and clouds that are not empty, *)
(* so the second loop takes all of them over and no box is left behind.  A *)
(* board is either its cluster or without corners, and only the second     *)
(* loop of board_register, after all planes were found, gives corners.     *)
(***************************************************************************)
Early  == {"filter", "cluster", "ransac", "scaffold", "save", "euclidean", "thrown"}
Listed == {"register", "plane", "done"}

Different(s) == \A i, j \in DOMAIN s : s[i] = s[j] => i = j

BoardTypes ==
  /\ pc \in Stages
  /\ size_filtered \in Seq(Cloud)
  /\ bboxes \in Seq(Clusters)
  /\ extracted \in Seq(Clusters)
  /\ idx \in Nat \ {0}
  /\ img_pc_trans_info \in Seq(BOOLEAN)
  /\ corners_2d \in Seq(BOOLEAN)
  /\ boards \in Seq(Clusters \cup {NoCorners})

Paired ==
  /\ Len(bboxes) = Len(size_filtered)
  /\ \A k \in 1..Len(bboxes) : /\ bboxes[k] = size_filtered[k].source
                               /\ Support(size_filtered[k]) # {}

Behind == \A k \in DOMAIN bboxes : \E i \in DOMAIN clouds :
            i < idx /\ bboxes[k] = clouds[i].source

TakenOver ==
  /\ idx <= Len(bboxes) + 1
  /\ Len(extracted) = idx - 1
  /\ \A k \in 1..Len(extracted) : extracted[k] = bboxes[k]

ListInv ==
  /\ Paired
  /\ Different(bboxes)
  /\ pc \in Early => idx = 1 /\ bboxes = <<>> /\ extracted = <<>>
  /\ At("size") => Behind /\ extracted = <<>>
  /\ At("collect") => TakenOver
  /\ pc \in Listed => extracted = bboxes

NoBoards == img_pc_trans_info = <<>> /\ corners_2d = <<>> /\ boards = <<>>

Registering ==
  /\ extracted # <<>>
  /\ DOMAIN boards = DOMAIN extracted
  /\ DOMAIN corners_2d = DOMAIN extracted
  /\ DOMAIN img_pc_trans_info = DOMAIN extracted
  /\ \A i \in DOMAIN boards : boards[i] = NoCorners
  /\ \A j \in DOMAIN img_pc_trans_info : j < idx => img_pc_trans_info[j] = TRUE

Registered ==
  /\ extracted # <<>>
  /\ DOMAIN boards = DOMAIN extracted
  /\ DOMAIN img_pc_trans_info = DOMAIN extracted
  /\ \A i \in DOMAIN boards : boards[i] \in {extracted[i], NoCorners}
  /\ \/ \A i \in DOMAIN boards : boards[i] = NoCorners
     \/ \A j \in DOMAIN img_pc_trans_info : img_pc_trans_info[j] = TRUE

BoardInv ==
  /\ BoardTypes
  /\ ListInv
  /\ ~At("plane") /\ ~At("done") => NoBoards
  /\ At("plane") => Registering
  /\ At("done") => NoBoards \/ Registered

LEMMA EmptySeq == ASSUME NEW S PROVE <<>> \in Seq(S) /\ Len(<<>>) = 0
OBVIOUS

LEMMA AppendFacts ==
  ASSUME NEW S, NEW s \in Seq(S), NEW e \in S
  PROVE  /\ Append(s, e) \in Seq(S)
         /\ Len(Append(s, e)) = Len(s) + 1
         /\ \A k \in 1..Len(s) : Append(s, e)[k] = s[k]
         /\ Append(s, e)[Len(s) + 1] = e
OBVIOUS

LEMMA SameSeq ==
  ASSUME NEW S, NEW s \in Seq(S), NEW t \in Seq(S), Len(s) = Len(t),
         \A k \in 1..Len(s) : s[k] = t[k]
  PROVE  s = t
OBVIOUS

LEMMA BoardInit == Init => BoardInv
<1> SUFFICES ASSUME Init PROVE BoardInv
  OBVIOUS
<1>1. BoardTypes
  BY EmptySeq DEF Init, BoardTypes, Stages
<1>2. ListInv
  BY EmptySeq DEF Init, ListInv, Paired, Different, Early, Listed, At
<1> QED
  BY <1>1, <1>2 DEF Init, BoardInv, NoBoards, At

(* Where none of the four loop steps is taken, the lists stay.             *)
LEMMA ListsKept ==
  ASSUME ListInv, UNCHANGED extractVars,
         pc \in Early => idx' = 1,
         pc' \in Listed => pc \in Early \cup Listed,
         pc' \in Early \cup {"size"} => pc \in Early,
         pc' # "collect"
  PROVE  ListInv'
<1>1. Paired' /\ Different(bboxes')
  BY DEF ListInv, Paired, Different, extractVars
<1>2. pc' \in Early => idx' = 1 /\ bboxes' = <<>> /\ extracted' = <<>>
  BY DEF ListInv, extractVars
<1>3. pc' = "size" => Behind' /\ extracted' = <<>>
  BY DEF ListInv, extractVars, Behind
<1>4. pc' \in Listed => extracted' = bboxes'
  BY DEF ListInv, extractVars
<1> QED
  BY <1>1, <1>2, <1>3, <1>4 DEF ListInv, At

LEMMA BoardStep == CloudsInv /\ BoardInv /\ [Next]_vars => BoardInv'
<1> SUFFICES ASSUME CloudsInv, BoardInv, [Next]_vars PROVE BoardInv'
  OBVIOUS
<1> USE DEF At, GoTo
<1>0. /\ BoardTypes /\ ListInv
      /\ Len(extracted) \in Nat /\ DOMAIN extracted = 1..Len(extracted)
      /\ Len(bboxes) \in Nat /\ DOMAIN bboxes = 1..Len(bboxes)
      /\ Len(size_filtered) \in Nat /\ DOMAIN size_filtered = 1..Len(size_filtered)
  BY DEF BoardInv, BoardTypes
<1>1. CASE \/ FilterPoints \/ EuclideanClustering \/ RansacPlanes \/ ScaffoldFilter
           \/ SaveProcessed \/ EuclideanFilter
  <2>1. /\ pc \in Early /\ pc' \in Early \cup {"size", "register"} /\ pc' \in Stages
        /\ pc # "plane" /\ pc # "done"
    BY <1>1 DEF FilterPoints, EuclideanClustering, RansacPlanes, ScaffoldFilter, SaveProcessed,
                EuclideanFilter, Stages, Early
  <2>2. UNCHANGED <<extractVars, boardVars>>
    BY <1>1 DEF FilterPoints, EuclideanClustering, RansacPlanes, ScaffoldFilter, SaveProcessed,
                EuclideanFilter, cloudVars
  <2>3. ListInv'
    <3>1. idx' = 1
      BY <1>0, <2>1, <2>2 DEF ListInv, boardVars
    <3> QED
      BY <1>0, <2>1, <2>2, <3>1, ListsKept DEF Early, Listed
  <2> QED
    BY <2>1, <2>2, <2>3 DEF BoardInv, BoardTypes, NoBoards, boardVars, registerVars, extractVars, Early
<1>2. CASE SizeFilter
  <2>1. /\ pc = "size" /\ pc' = "size" /\ idx \in DOMAIN clouds /\ idx' = idx + 1
        /\ clouds' = clouds /\ extracted' = extracted /\ UNCHANGED registerVars
        /\ Behind /\ extracted = <<>> /\ NoBoards
    BY <1>0, <1>2 DEF SizeFilter, BoardInv, ListInv
  <2>2. idx \in Nat \ {0} /\ idx' \in Nat \ {0} /\ clouds[idx] \in Cloud
        /\ clouds[idx].source \in Clusters
    BY <1>0, <2>1, CloudFacts DEF BoardTypes, CloudsInv
  <2>3. CASE UNCHANGED <<size_filtered, bboxes>>
    <3>1. Behind'
      BY <2>1, <2>2, <2>3, CloudFacts DEF Behind, CloudsInv
    <3>2. ListInv'
      BY <1>0, <2>1, <2>3, <3>1 DEF ListInv, Paired, Different, Early, Listed
    <3> QED
      BY <1>0, <2>1, <2>2, <2>3, <3>2 DEF BoardInv, BoardTypes, NoBoards, registerVars
  <2>4. CASE /\ HasBox(clouds[idx])
             /\ size_filtered' = Append(size_filtered, clouds[idx])
             /\ bboxes' = Append(bboxes, clouds[idx].source)
    <3>1. /\ size_filtered' \in Seq(Cloud)
          /\ Len(size_filtered') = Len(size_filtered) + 1
          /\ \A k \in 1..Len(size_filtered) : size_filtered'[k] = size_filtered[k]
          /\ size_filtered'[Len(size_filtered) + 1] = clouds[idx]
      <4>1. size_filtered \in Seq(Cloud)
        BY <1>0 DEF BoardTypes
      <4> QED
        BY <2>2, <2>4, <4>1, AppendFacts
    <3>2. /\ bboxes' \in Seq(Clusters)
          /\ Len(bboxes') = Len(bboxes) + 1
          /\ \A k \in 1..Len(bboxes) : bboxes'[k] = bboxes[k]
          /\ bboxes'[Len(bboxes) + 1] = clouds[idx].source
      <4>1. bboxes \in Seq(Clusters)
        BY <1>0 DEF BoardTypes
      <4> QED
        BY <2>2, <2>4, <4>1, AppendFacts
    <3>3. DOMAIN bboxes' = 1..(Len(bboxes) + 1)
      BY <3>2
    <3>4. Paired'
      <4>1. Len(bboxes) = Len(size_filtered) /\ Support(clouds[idx]) # {}
        BY <1>0, <2>4 DEF ListInv, Paired, HasBox
      <4>2. \A k \in 1..(Len(bboxes) + 1) : k \in 1..Len(bboxes) \/ k = Len(bboxes) + 1
        BY <1>0
      <4> QED
        BY <1>0, <3>1, <3>2, <4>1, <4>2 DEF ListInv, Paired, Support
    <3>5. \A k \in 1..(Len(bboxes) + 1) : k \in 1..Len(bboxes) \/ k = Len(bboxes) + 1
      BY <1>0
    <3>6. \A k \in 1..Len(bboxes) : \E i \in DOMAIN clouds :
            i < idx /\ bboxes[k] = clouds[i].source
      BY <1>0, <2>1 DEF Behind
    <3>7. \A i \in DOMAIN clouds : i \in Nat
      BY DEF CloudsInv
    <3>8. Different(bboxes')
      <4>1. \A k \in 1..Len(bboxes) : bboxes[k] # clouds[idx].source
        BY <2>1, <2>2, <3>6, <3>7 DEF CloudsInv
      <4> QED
        BY <1>0, <3>2, <3>3, <3>5, <4>1 DEF ListInv, Different
    <3>9. Behind'
      <4>1. \A i \in DOMAIN clouds : i < idx => i < idx'
        BY <2>1, <2>2, <3>7
      <4>2. idx < idx'
        BY <2>1, <2>2
      <4>3. \A k \in DOMAIN bboxes' : \E i \in DOMAIN clouds :
              i < idx' /\ bboxes'[k] = clouds[i].source
        BY <2>1, <3>2, <3>3, <3>5, <3>6, <4>1, <4>2
      <4> QED
        BY <2>1, <4>3 DEF Behind
    <3>10. ListInv'
      BY <2>1, <3>4, <3>8, <3>9 DEF ListInv, Early, Listed
    <3> QED
      BY <1>0, <2>1, <2>2, <3>1, <3>2, <3>10 DEF BoardInv, BoardTypes, NoBoards, registerVars
  <2> QED
    BY <1>2, <2>3, <2>4 DEF SizeFilter
<1>3. CASE SizesFiltered
  <2>1. /\ pc = "size" /\ pc' = "collect" /\ idx' = 1 /\ extracted = <<>>
        /\ UNCHANGED <<extractVars, registerVars>> /\ NoBoards
    BY <1>0, <1>3 DEF SizesFiltered, cloudVars, BoardInv, ListInv
  <2>2. TakenOver'
    BY <1>0, <2>1, EmptySeq DEF TakenOver, extractVars
  <2>3. ListInv'
    BY <1>0, <2>1, <2>2 DEF ListInv, Paired, Different, Early, Listed, extractVars
  <2> QED
    BY <1>0, <2>1, <2>3 DEF BoardInv, BoardTypes, NoBoards, registerVars, extractVars, Stages
<1>4. CASE Collect
  <2>1. /\ pc = "collect" /\ pc' = "collect" /\ idx \in 1..Len(bboxes) /\ idx' = idx + 1
        /\ UNCHANGED <<size_filtered, bboxes, registerVars>> /\ NoBoards /\ TakenOver
    BY <1>0, <1>4 DEF Collect, BoardInv, ListInv, Paired
  <2>2. extracted' = Append(extracted, bboxes[idx])
    BY <1>0, <1>4, <2>1 DEF Collect, ListInv, Paired
  <2>3. bboxes[idx] \in Clusters /\ extracted \in Seq(Clusters)
    BY <1>0, <2>1 DEF BoardTypes
  <2>4. /\ extracted' \in Seq(Clusters)
        /\ Len(extracted') = Len(extracted) + 1
        /\ \A k \in 1..Len(extracted) : extracted'[k] = extracted[k]
        /\ extracted'[Len(extracted) + 1] = bboxes[idx]
    BY <2>2, <2>3, AppendFacts
  <2>5. TakenOver'
    <3>1. idx \in Nat /\ Len(extracted) = idx - 1
      BY <2>1 DEF TakenOver
    <3>2. \A k \in 1..(Len(extracted) + 1) : k \in 1..Len(extracted) \/ k = idx
      BY <1>0, <3>1
    <3> QED
      BY <1>0, <2>1, <2>4, <3>1, <3>2 DEF TakenOver
  <2>6. ListInv'
    BY <1>0, <2>1, <2>5 DEF ListInv, Paired, Different, Early, Listed
  <2> QED
    BY <1>0, <2>1, <2>4, <2>6 DEF BoardInv, BoardTypes, NoBoards, registerVars
<1>5. CASE Collected
  <2>1. /\ pc = "collect" /\ pc' = "register" /\ idx' = 1 /\ idx \notin 1..Len(bboxes)
        /\ UNCHANGED <<extractVars, registerVars>> /\ NoBoards /\ TakenOver
    BY <1>0, <1>5 DEF Collected, cloudVars, BoardInv, ListInv, Paired
  <2>2. extracted = bboxes
    <3>1. Len(extracted) = Len(bboxes)
      BY <1>0, <2>1 DEF TakenOver, BoardTypes
    <3>2. extracted \in Seq(Clusters) /\ bboxes \in Seq(Clusters)
      BY <1>0 DEF BoardTypes
    <3> QED
      BY <2>1, <3>1, <3>2, SameSeq DEF TakenOver
  <2>3. ListInv'
    BY <1>0, <2>1, <2>2 DEF ListInv, Paired, Different, Early, Listed, extractVars
  <2> QED
    BY <1>0, <2>1, <2>3 DEF BoardInv, BoardTypes, NoBoards, registerVars, extractVars, Stages
<1>6. CASE StartRegister
  <2>1. UNCHANGED extractVars /\ NoBoards /\ pc = "register" /\ pc' \in {"plane", "done"}
    BY <1>6 DEF StartRegister, cloudVars, BoardInv
  <2>0. ListInv'
    BY <1>0, <2>1, ListsKept DEF Early, Listed
  <2>2. CASE extracted = <<>>
    BY <1>0, <1>6, <2>0, <2>1, <2>2 DEF StartRegister, BoardInv, BoardTypes, NoBoards, Stages,
                                        boardVars, registerVars, extractVars
  <2>3. CASE extracted # <<>>
    <3>1. /\ pc' = "plane" /\ idx' = 1
          /\ boards' = [i \in 1..Len(extracted) |-> NoCorners]
          /\ corners_2d' = [i \in 1..Len(extracted) |-> FALSE]
          /\ img_pc_trans_info' = [i \in 1..Len(extracted) |-> FALSE]
      BY <1>0, <1>6, <2>3 DEF StartRegister, AllFor
    <3>2. boards' \in Seq(Clusters \cup {NoCorners})
      BY <1>0, <3>1
    <3>3. corners_2d' \in Seq(BOOLEAN) /\ img_pc_trans_info' \in Seq(BOOLEAN)
      BY <1>0, <3>1
    <3>4. Registering'
      BY <1>0, <2>1, <2>3, <3>1 DEF Registering, extractVars
    <3> QED
      BY <1>0, <2>0, <2>1, <3>1, <3>2, <3>3, <3>4 DEF BoardInv, BoardTypes, Stages, extractVars
  <2> QED
    BY <2>2, <2>3
<1>7. CASE NoPlane
  <2>1. Registering /\ pc = "plane" /\ pc' = "done" /\ UNCHANGED <<extractVars, boardVars>>
    BY <1>7 DEF NoPlane, BoardInv, cloudVars
  <2>2. Registered'
    BY <2>1 DEF Registering, Registered, boardVars, registerVars, extractVars
  <2>3. ListInv'
    BY <1>0, <2>1, ListsKept DEF Early, Listed
  <2> QED
    BY <1>0, <2>1, <2>2, <2>3 DEF BoardInv, BoardTypes, Stages, boardVars, registerVars, extractVars
<1>8. CASE MatchTemplate
  <2>1. /\ Registering /\ idx \in DOMAIN extracted
        /\ UNCHANGED <<pc, extractVars, boards>> /\ pc = "plane"
        /\ idx' = idx + 1
        /\ img_pc_trans_info' = [img_pc_trans_info EXCEPT ![idx] = TRUE]
    BY <1>8 DEF MatchTemplate, BoardInv, cloudVars
  <2>2. PICK matched \in BOOLEAN : corners_2d' = [corners_2d EXCEPT ![idx] = matched]
    BY <1>8 DEF MatchTemplate
  <2>3. img_pc_trans_info' \in Seq(BOOLEAN) /\ corners_2d' \in Seq(BOOLEAN)
    BY <1>0, <2>1, <2>2 DEF BoardTypes, Registering
  <2>4. Registering'
    BY <1>0, <2>1, <2>2 DEF Registering, BoardTypes, extractVars
  <2>5. ListInv'
    BY <1>0, <2>1, ListsKept DEF Early, Listed
  <2> QED
    BY <1>0, <2>1, <2>3, <2>4, <2>5 DEF BoardInv, BoardTypes, extractVars
<1>9. CASE ComputeCorners
  <2>1. /\ Registering /\ idx \notin DOMAIN extracted /\ pc = "plane" /\ pc' = "done"
        /\ UNCHANGED <<extractVars, idx, img_pc_trans_info, corners_2d>>
        /\ boards' = [i \in DOMAIN boards |-> IF corners_2d[i] THEN extracted[i] ELSE boards[i]]
    BY <1>9 DEF ComputeCorners, BoardInv, cloudVars
  <2>2. DOMAIN boards' = DOMAIN extracted
    BY <2>1 DEF Registering
  <2>3. \A i \in DOMAIN boards' : boards'[i] \in {extracted[i], NoCorners}
    BY <2>1, <2>2 DEF Registering
  <2>4. boards' \in Seq(Clusters \cup {NoCorners})
    <3>1. \A i \in DOMAIN extracted : extracted[i] \in Clusters
      BY <1>0 DEF BoardTypes
    <3>2. boards' \in [1..Len(extracted) -> Clusters \cup {NoCorners}]
      BY <1>0, <2>1, <2>2, <2>3, <3>1
    <3> QED
      BY <1>0, <3>2
  <2>5. \A j \in DOMAIN img_pc_trans_info : j < idx
    BY <1>0, <2>1 DEF Registering, BoardTypes
  <2>6. ListInv'
    BY <1>0, <2>1, ListsKept DEF Early, Listed
  <2>7. Registered'
    BY <2>1, <2>2, <2>3, <2>5 DEF Registering, Registered, extractVars
  <2> QED
    BY <1>0, <2>1, <2>4, <2>6, <2>7 DEF BoardInv, BoardTypes, Stages, extractVars
<1>10. CASE UNCHANGED vars
  <2>1. UNCHANGED <<pc, extractVars, boardVars, clouds>>
    BY <1>10 DEF vars, cloudVars
  <2>2. ListInv'
    BY <1>0, <2>1 DEF ListInv, Paired, Different, Behind, TakenOver, extractVars, boardVars
  <2> QED
    BY <1>0, <2>1, <2>2 DEF extractVars, boardVars, registerVars, BoardInv, BoardTypes, NoBoards,
                            Registering, Registered
<1> QED
  BY <1>1, <1>2, <1>3, <1>4, <1>5, <1>6, <1>7, <1>8, <1>9, <1>10 DEF Next

LEMMA BoardsCorrect == Spec => [](CloudsInv /\ BoardInv)
BY CloudsInit, BoardInit, CloudsStep, BoardStep, PTL DEF Spec

(* All variables keep their types: in particular a level's copies are      *)
(* counted, not more than there are slices.                                *)
THEOREM TypeCorrect == Spec => []TypeOK
<1>1. CloudsInv /\ BoardInv => TypeOK
  <2> SUFFICES ASSUME CloudsInv, BoardInv PROVE TypeOK
    OBVIOUS
  <2>1. clouds \in Seq(Cloud) /\ processed_cloud \in SUBSET Cloud
    BY DEF CloudsInv
  <2> QED
    BY <2>1 DEF BoardInv, BoardTypes, TypeOK
<1> QED
  BY <1>1, BoardsCorrect, PTL

(* Whatever the two loops of the size filter drop: box and label number i  *)
(* are of one cluster.                                                     *)
THEOREM BoxesFrame == Spec => []BoxFramesLabelledBoard
<1>1. BoardInv => BoxFramesLabelledBoard
  BY DEF BoardInv, ListInv, Listed, At, BoxFramesLabelledBoard, NoBoards, Registered
<1> QED
  BY <1>1, BoardsCorrect, PTL

(* One cluster without a plane, and no board has corners.                  *)
THEOREM AllPlanes == Spec => []CornersNeedAllPlanes
<1>1. BoardInv => CornersNeedAllPlanes
  BY DEF BoardInv, BoardTypes, CornersNeedAllPlanes, NoBoards, Registering, Registered, At, Stages
<1> QED
  BY <1>1, BoardsCorrect, PTL

-----------------------------------------------------------------------------
(***************************************************************************)
(* The refinement: extract_points delivers its list where it returns, and  *)
(* board_register its boards.                                              *)
(***************************************************************************)
LEMMA SourceInit == Init => Source!Nothing
BY DEF Init, Source!Nothing, At

LEMMA RegisterIsAbstract ==
  ASSUME At("plane"), At("done")', extracted # <<>>, UNCHANGED extracted,
         boards' \in Seq(Clusters \cup {NoCorners}), Registered'
  PROVE  Source!Register
BY DEF Source!Register, Registered, At

LEMMA SourceStep ==
  CloudsInv /\ BoardInv /\ BoardInv' /\ [Next]_vars
    => [Source!Extract \/ Source!Register \/ Source!Discard]_(Source!sourceVars)
<1> SUFFICES ASSUME CloudsInv, BoardInv, BoardInv', [Next]_vars
             PROVE  Source!Extract \/ Source!Register \/ UNCHANGED Source!sourceVars
  OBVIOUS
<1> USE DEF At, GoTo
<1>1. CASE \/ EuclideanClustering \/ RansacPlanes \/ ScaffoldFilter \/ SaveProcessed
           \/ EuclideanFilter \/ SizeFilter \/ SizesFiltered \/ Collect
  <2>1. pc \notin Listed /\ pc' \notin Listed
    BY <1>1 DEF EuclideanClustering, RansacPlanes, ScaffoldFilter, SaveProcessed,
                EuclideanFilter, SizeFilter, SizesFiltered, Collect, Listed
  <2> QED
    BY <2>1 DEF Source!sourceVars, Listed
<1>2. CASE FilterPoints \/ Collected
  <2>1. pc \notin Listed /\ pc' \in {"cluster", "register"}
    BY <1>2 DEF FilterPoints, Collected, Listed
  <2>2. pc' = "register" => extracted' \in Seq(Clusters) /\ Different(extracted')
    BY <2>1 DEF BoardInv, BoardTypes, ListInv, Listed
  <2>3. CASE pc' = "cluster"
    BY <2>1, <2>3 DEF Source!sourceVars, Listed
  <2>4. CASE pc' = "register"
    <3>1. Source!Extract
      BY <2>1, <2>2, <2>4 DEF Source!Extract, Source!Nothing, Source!Distinct, Different, Listed
    <3> QED
      BY <3>1
  <2> QED
    BY <2>1, <2>3, <2>4
<1>3. CASE StartRegister
  <2>1. pc = "register" /\ pc' \in {"plane", "done"} /\ extracted' = extracted /\ NoBoards
    BY <1>3 DEF StartRegister, cloudVars, extractVars, BoardInv
  <2>2. pc' = "done" => boards' = <<>>
    BY <1>3, <2>1 DEF StartRegister, boardVars, registerVars, NoBoards
  <2> QED
    BY <2>1, <2>2 DEF Source!sourceVars
<1>4. CASE NoPlane \/ ComputeCorners
  <2>1. pc = "plane" /\ pc' = "done" /\ extracted' = extracted /\ extracted # <<>>
    BY <1>4 DEF NoPlane, ComputeCorners, cloudVars, extractVars, BoardInv, Registering
  <2>2. boards' \in Seq(Clusters \cup {NoCorners}) /\ (NoBoards' \/ Registered')
    BY <2>1 DEF BoardInv, BoardTypes
  <2>3. DOMAIN boards' # {}
    <3>1. DOMAIN boards = DOMAIN extracted /\ extracted \in Seq(Clusters)
      BY <2>1 DEF BoardInv, BoardTypes, Registering
    <3>2. DOMAIN boards' = DOMAIN boards
      BY <1>4 DEF NoPlane, ComputeCorners, boardVars, registerVars
    <3>3. Len(extracted) \in Nat \ {0} /\ DOMAIN extracted = 1..Len(extracted)
      BY <2>1, <3>1
    <3>4. 1 \in DOMAIN extracted
      BY <3>3
    <3> QED
      BY <3>1, <3>2, <3>4
  <2>4. Registered'
    BY <2>2, <2>3 DEF NoBoards
  <2> QED
    BY <2>1, <2>2, <2>4, RegisterIsAbstract
<1>5. CASE MatchTemplate
  <2>1. pc = "plane" /\ pc' = "plane" /\ extracted' = extracted
    BY <1>5 DEF MatchTemplate, cloudVars, extractVars
  <2> QED
    BY <2>1 DEF Source!sourceVars
<1>6. CASE UNCHANGED vars
  BY <1>6 DEF vars, cloudVars, extractVars, boardVars, registerVars, Source!sourceVars
<1> QED
  BY <1>1, <1>2, <1>3, <1>4, <1>5, <1>6 DEF Next

(* ExtraBoard delivers distinct clusters and then one board per cluster,   *)
(* in that order, with the cluster's own corners or with none.             *)
THEOREM Implementation == Spec => ImplementsSource
<1>1. Spec => Source!SourceSpec
  BY SourceInit, SourceStep, BoardsCorrect, PTL DEF Spec, Source!SourceSpec
<1> QED
  BY <1>1 DEF ImplementsSource
=============================================================================
