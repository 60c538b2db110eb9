-------------------------- MODULE CalibNodeProofs --------------------------
(***************************************************************************)
(* Theorems about CalibNode, for every camera set, camera list, marker     *)
(* order, scene and number of launches; first those about the operators of *)
(* CornersMatch, for every list of boards and every bearing.               *)
(***************************************************************************)
EXTENDS CalibNode, FiniteSetTheorems, FunctionTheorems, SequenceTheorems,
        WellFoundedInduction, TLAPS

(***************************************************************************)
(* The sort by bearing loses no board: SortedIndex is a permutation of the *)
(* indices of boards.  From it follow the types of what the operations of  *)
(* CornersMatch return.                                                    *)
(***************************************************************************)

(* The boards that sort before board i. *)
Before(list, i) == {j \in DOMAIN list : SortsBefore(list, j, i)}
Rank(list) == [i \in DOMAIN list |-> Cardinality(Before(list, i)) + 1]

(* Angles are integers, so the pairs (angle, index) are totally ordered.    *)
LEMMA SortsBeforeOrder ==
  ASSUME NEW list \in Seq(BoardCloudCorners),
         NEW i \in DOMAIN list, NEW j \in DOMAIN list, NEW k \in DOMAIN list
  PROVE  /\ ~SortsBefore(list, i, i)
         /\ i # j => SortsBefore(list, i, j) \/ SortsBefore(list, j, i)
         /\ SortsBefore(list, i, j) /\ SortsBefore(list, j, k)
              => SortsBefore(list, i, k)
<1>1. \A n \in DOMAIN list : n \in Int /\ Angle(list[n]) \in Int
  <2> TAKE n \in DOMAIN list
  <2>1. n \in Int /\ list[n] \in BoardCloudCorners
    OBVIOUS
  <2>2. list[n].corners \in Clusters \cup {NoCorners}
    BY <2>1 DEF BoardCloudCorners, Corners3D
  <2>3. CASE list[n].corners = NoCorners
    BY <2>1, <2>3 DEF Angle
  <2>4. CASE list[n].corners \in Clusters
    <3>1. Bearing[list[n].corners] \in Int
      <4>1. Bearing[list[n].corners] \in 0..359
        BY <2>4, BearingAssumption
      <4>2. \A angle \in 0..359 : angle \in Int
        OBVIOUS
      <4> QED
        BY <4>1, <4>2, Zenon
    <3>2. list[n].corners # NoCorners
      BY <2>4, BearingAssumption
    <3> QED
      BY <2>1, <3>1, <3>2 DEF Angle
  <2> QED
    BY <2>2, <2>3, <2>4
<1>2. Angle(list[i]) \in Int /\ Angle(list[j]) \in Int /\ Angle(list[k]) \in Int
  BY <1>1
<1>3. i \in Int /\ j \in Int /\ k \in Int
  BY <1>1
<1> QED
  BY <1>2, <1>3 DEF SortsBefore

(* Each board's rank is its place in the sorted list.                       *)
LEMMA RankType ==
  ASSUME NEW list \in Seq(BoardCloudCorners), NEW i \in DOMAIN list
  PROVE  /\ IsFiniteSet(Before(list, i))
         /\ Rank(list)[i] \in DOMAIN list
<1> DEFINE others == DOMAIN list \ {i}
<1>1. IsFiniteSet(DOMAIN list) /\ Cardinality(DOMAIN list) = Len(list)
  <2>1. DOMAIN list = 1..Len(list) /\ Len(list) \in Nat
    OBVIOUS
  <2>2. /\ IsFiniteSet(1..Len(list))
        /\ Cardinality(1..Len(list)) = IF 1 > Len(list) THEN 0 ELSE Len(list) - 1 + 1
    BY <2>1, FS_Interval
  <2> QED
    BY <2>1, <2>2
<1>2. IsFiniteSet(others) /\ Cardinality(others) = Len(list) - 1
  BY <1>1, FS_RemoveElement
<1>3. Before(list, i) \subseteq others
  BY SortsBeforeOrder DEF Before
<1>4. /\ IsFiniteSet(Before(list, i))
      /\ Cardinality(Before(list, i)) <= Len(list) - 1
  BY <1>2, <1>3, FS_Subset
<1>5. Cardinality(Before(list, i)) \in Nat
  BY <1>4, FS_CardinalityType
<1> QED
  BY <1>4, <1>5 DEF Rank

(* A board that sorts before another has the smaller place. *)
LEMMA RankIncreases ==
  ASSUME NEW list \in Seq(BoardCloudCorners),
         NEW i \in DOMAIN list, NEW j \in DOMAIN list, SortsBefore(list, i, j)
  PROVE  Rank(list)[i] < Rank(list)[j]
<1>1. Before(list, i) \subseteq Before(list, j)
  BY SortsBeforeOrder DEF Before
<1>2. i \in Before(list, j) /\ i \notin Before(list, i)
  BY SortsBeforeOrder DEF Before
<1>3. IsFiniteSet(Before(list, i)) /\ IsFiniteSet(Before(list, j))
  BY RankType
<1>4. /\ Cardinality(Before(list, i)) <= Cardinality(Before(list, j))
      /\ Cardinality(Before(list, i)) # Cardinality(Before(list, j))
  BY <1>1, <1>2, <1>3, FS_Subset
<1>5. /\ Cardinality(Before(list, i)) \in Nat
      /\ Cardinality(Before(list, j)) \in Nat
  BY <1>3, FS_CardinalityType
<1> QED
  BY <1>4, <1>5 DEF Rank

(* No two boards share a place. *)
LEMMA RankInjective ==
  ASSUME NEW list \in Seq(BoardCloudCorners),
         NEW i \in DOMAIN list, NEW j \in DOMAIN list, i # j
  PROVE  Rank(list)[i] # Rank(list)[j]
<1>1. Rank(list)[i] \in Nat /\ Rank(list)[j] \in Nat
  BY RankType
<1>2. Rank(list)[i] < Rank(list)[j] \/ Rank(list)[j] < Rank(list)[i]
  BY SortsBeforeOrder, RankIncreases
<1> QED
  BY <1>1, <1>2

(* setBoardPointCloudCenters_Q visits every board exactly once: the indices *)
(* it takes from the sorted pairs are a permutation, inverse to the ranks.  *)
THEOREM SortedIndexPermutes ==
  ASSUME NEW list \in Seq(BoardCloudCorners)
  PROVE  /\ SortedIndex(list) \in Bijection(DOMAIN list, DOMAIN list)
         /\ \A k \in DOMAIN list : Rank(list)[SortedIndex(list)[k]] = k
<1> DEFINE D == DOMAIN list
           sorted == SortedIndex(list)
<1>1. Rank(list) \in [D -> D]
  BY RankType DEF Rank
<1>2. \A i, j \in D : i # j => Rank(list)[i] # Rank(list)[j]
  BY RankInjective
<1>3. IsFiniteSet(D)
  <2>1. D = 1..Len(list) /\ Len(list) \in Nat
    OBVIOUS
  <2> QED
    BY <2>1, FS_Interval
<1>4. Rank(list) \in Surjection(D, D)
  <2>1. Rank(list) \in Injection(D, D)
    BY <1>1, <1>2, Fun_IsInj
  <2> QED
    BY <2>1, <1>3, FS_Injection
<1>5. \A k \in D : sorted[k] \in D /\ Rank(list)[sorted[k]] = k
  <2> TAKE k \in D
  <2>1. PICK i \in D : Rank(list)[i] = k
    BY <1>4, Fun_SurjectionProperties DEF Surjection
  <2>2. \A n \in D : Rank(list)[n] = k <=> Cardinality(Before(list, n)) = k - 1
    <3> TAKE n \in D
    <3>1. Cardinality(Before(list, n)) \in Nat /\ k \in Int
      BY RankType, FS_CardinalityType
    <3> QED
      BY <3>1 DEF Rank
  <2>3. sorted[k] = CHOOSE n \in D : Cardinality(Before(list, n)) = k - 1
    BY DEF SortedIndex, Before
  <2> QED
    BY <2>1, <2>2, <2>3
<1>6. sorted \in [D -> D]
  BY <1>5 DEF SortedIndex
<1>7. sorted \in Injection(D, D)
  BY <1>5, <1>6, Fun_IsInj
<1>8. sorted \in Surjection(D, D)
  BY <1>7, <1>3, FS_Injection
<1> QED
  BY <1>5, <1>7, <1>8 DEF Bijection

(* The permutation is the sorted one: in Q no board comes before one of     *)
(* smaller bearing, and boards of equal bearing keep the order they had.    *)
THEOREM SortedByBearing ==
  ASSUME NEW list \in Seq(BoardCloudCorners),
         NEW k \in DOMAIN list, NEW m \in DOMAIN list, k < m
  PROVE  SortsBefore(list, SortedIndex(list)[k], SortedIndex(list)[m])
<1> DEFINE i == SortedIndex(list)[k]
           j == SortedIndex(list)[m]
<1>1. i \in DOMAIN list /\ j \in DOMAIN list
  BY SortedIndexPermutes, Fun_BijectionProperties
<1>2. Rank(list)[i] = k /\ Rank(list)[j] = m
  BY SortedIndexPermutes
<1>3. k \in Int /\ m \in Int
  OBVIOUS
<1>4. i # j /\ ~SortsBefore(list, j, i)
  <2> HIDE DEF i, j
  <2>1. ASSUME SortsBefore(list, j, i) PROVE FALSE
    <3>1. Rank(list)[j] < Rank(list)[i]
      BY <1>1, <2>1, RankIncreases
    <3> QED
      BY <1>2, <1>3, <3>1
  <2> QED
    BY <1>2, <1>3, <2>1
<1> QED
  BY <1>1, <1>4, SortsBeforeOrder

(* Every list of boards is turned into well-formed Q and labelled boards.   *)
LEMMA FilledQType ==
  ASSUME NEW list \in Seq(BoardCloudCorners), NEW stray \in StrayIds
  PROVE  FilledQ(list, stray) \in Seq(BoardCloudCorners)
<1>1. \A k \in DOMAIN list : SortedIndex(list)[k] \in DOMAIN list
  BY SortedIndexPermutes, Fun_BijectionProperties
<1>2. \A k \in DOMAIN list : list[SortedIndex(list)[k]].corners \in Corners3D
  <2> TAKE k \in DOMAIN list
  <2>1. list[SortedIndex(list)[k]] \in BoardCloudCorners
    BY <1>1
  <2> QED
    BY <2>1 DEF BoardCloudCorners
<1>3. \A k : OrderedId(k, stray) \in Int
  BY MarkerAssumption DEF OrderedId
<1>4. \A k \in DOMAIN list :
        [board_id |-> OrderedId(k, stray),
         corners  |-> list[SortedIndex(list)[k]].corners] \in BoardCloudCorners
  BY <1>2, <1>3 DEF BoardCloudCorners
<1>5. DOMAIN list = 1..Len(list) /\ Len(list) \in Nat
  OBVIOUS
<1>6. FilledQ(list, stray) \in [1..Len(list) -> BoardCloudCorners]
  BY <1>4, <1>5 DEF FilledQ
<1> QED
  BY <1>5, <1>6, SeqDef

LEMMA LabelledType ==
  ASSUME NEW list \in Seq(BoardCloudCorners)
  PROVE  Labelled(list) \in Seq(BoardCloudCorners)
<1>1. \A k : LabelOf(k) \in Int
  BY MarkerAssumption DEF LabelOf
<1>2. \A i \in DOMAIN list : \A id \in Int :
        [list[i] EXCEPT !.board_id = id] \in BoardCloudCorners
  <2> TAKE i \in DOMAIN list
  <2>1. list[i] \in BoardCloudCorners
    OBVIOUS
  <2> QED
    BY <2>1 DEF BoardCloudCorners
<1>3. DOMAIN list = 1..Len(list) /\ Len(list) \in Nat
  OBVIOUS
<1>4. Labelled(list) \in [1..Len(list) -> BoardCloudCorners]
  BY <1>1, <1>2, <1>3 DEF Labelled
<1> QED
  BY <1>3, <1>4, SeqDef

LEMMA LeastIndex ==
  ASSUME NEW S \in SUBSET Nat, S # {}
  PROVE  \E m \in S : \A k \in S : m <= k
<1>1. PICK m \in S : \A k \in S : ~(<<k, m>> \in OpToRel(<, Nat))
  BY NatLessThanWellFounded, WFMin
<1>2. \A k \in S : ~(k < m)
  BY <1>1 DEF OpToRel
<1> QED
  BY <1>2

(* The scan of Q stops at a lidar board of the id it looks for.             *)
LEMMA FirstWithIdFound ==
  ASSUME Q_board_corners \in Seq(BoardCloudCorners), NEW id, WithId(id) # {}
  PROVE  FirstWithId(id) \in BoardCloudCorners /\ FirstWithId(id).board_id = id
<1>1. WithId(id) \in SUBSET Nat
  BY DEF WithId
<1>2. PICK m \in WithId(id) : \A k \in WithId(id) : m <= k
  BY <1>1, LeastIndex
<1> DEFINE first == CHOOSE j \in WithId(id) : \A k \in WithId(id) : j <= k
<1>3. first \in WithId(id)
  BY <1>2
<1> QED
  BY <1>3 DEF FirstWithId, WithId

(* getMatchResult returns well-formed pairs, whose image corners are those  *)
(* of an entry of P and whose id both sides carry.                          *)
LEMMA MatchResultType ==
  ASSUME NEW Ids, Q_board_corners \in Seq(BoardCloudCorners),
         P_board_corners \in Seq(Board2DCorners(Ids)),
         NEW pair \in MatchResult
  PROVE  /\ pair \in BoardInfo(Ids)
         /\ \E i \in DOMAIN P_board_corners :
              pair.corners_2d = P_board_corners[i] /\ pair.board_id = P_board_corners[i].board_id
         /\ \E j \in DOMAIN Q_board_corners :
              /\ pair.corners_cloud = Q_board_corners[j].corners
              /\ pair.board_id = Q_board_corners[j].board_id
<1>1. PICK i \in DOMAIN P_board_corners :
        /\ WithId(P_board_corners[i].board_id) # {}
        /\ pair = [board_id      |-> P_board_corners[i].board_id,
                   corners_2d    |-> P_board_corners[i],
                   corners_cloud |-> FirstWithId(P_board_corners[i].board_id).corners]
  BY DEF MatchResult
<1> DEFINE id == P_board_corners[i].board_id
<1>2. P_board_corners[i] \in Board2DCorners(Ids) /\ id \in Int
  <2>1. P_board_corners[i] \in Board2DCorners(Ids)
    OBVIOUS
  <2> QED
    BY <2>1 DEF Board2DCorners
<1>3. FirstWithId(id) \in BoardCloudCorners
  BY <1>1, FirstWithIdFound
<1>4. FirstWithId(id).corners \in Corners3D
  BY <1>3 DEF BoardCloudCorners
<1>5. PICK j \in WithId(id) : FirstWithId(id) = Q_board_corners[j]
  <2>1. WithId(id) \in SUBSET Nat
    BY DEF WithId
  <2>2. PICK m \in WithId(id) : \A k \in WithId(id) : m <= k
    BY <1>1, <2>1, LeastIndex
  <2> QED
    BY <2>2 DEF FirstWithId
<1> QED
  BY <1>1, <1>2, <1>4, <1>5 DEF BoardInfo, WithId

(* Where no id occurs twice in Q, the pairs are the join of P and Q by id:  *)
(* every two boards of one id are paired, and nothing else.                 *)
PairOf(i, j) ==
  [board_id      |-> P_board_corners[i].board_id,
   corners_2d    |-> P_board_corners[i],
   corners_cloud |-> Q_board_corners[j].corners]

DistinctQIds ==
  \A j, k \in DOMAIN Q_board_corners :
    Q_board_corners[j].board_id = Q_board_corners[k].board_id => j = k

JoinsById ==
  \A pair :
    pair \in MatchResult <=>
      \E i \in DOMAIN P_board_corners, j \in DOMAIN Q_board_corners :
        /\ P_board_corners[i].board_id = Q_board_corners[j].board_id
        /\ pair = PairOf(i, j)

LEMMA MatchIsJoin ==
  ASSUME Q_board_corners \in Seq(BoardCloudCorners), DistinctQIds
  PROVE  JoinsById
<1>1. ASSUME NEW id, NEW j \in WithId(id)
      PROVE  FirstWithId(id) = Q_board_corners[j]
  <2>1. WithId(id) = {j}
    BY <1>1 DEF WithId, DistinctQIds
  <2>2. j <= j
    BY <1>1 DEF WithId
  <2>3. (CHOOSE n \in WithId(id) : \A k \in WithId(id) : n <= k) = j
    BY <2>1, <2>2
  <2> QED
    BY <2>3 DEF FirstWithId
<1>2. ASSUME NEW pair \in MatchResult
      PROVE  \E i \in DOMAIN P_board_corners, j \in DOMAIN Q_board_corners :
               /\ P_board_corners[i].board_id = Q_board_corners[j].board_id
               /\ pair = PairOf(i, j)
  <2>1. PICK i \in DOMAIN P_board_corners :
          /\ WithId(P_board_corners[i].board_id) # {}
          /\ pair = [board_id      |-> P_board_corners[i].board_id,
                     corners_2d    |-> P_board_corners[i],
                     corners_cloud |-> FirstWithId(P_board_corners[i].board_id).corners]
    BY <1>2 DEF MatchResult
  <2>2. PICK j \in WithId(P_board_corners[i].board_id) : TRUE
    BY <2>1
  <2>3. pair = PairOf(i, j)
    BY <1>1, <2>1, <2>2 DEF PairOf
  <2>4. /\ j \in DOMAIN Q_board_corners
        /\ P_board_corners[i].board_id = Q_board_corners[j].board_id
    BY <2>2 DEF WithId
  <2> QED
    BY <2>3, <2>4
<1>3. ASSUME NEW i \in DOMAIN P_board_corners, NEW j \in DOMAIN Q_board_corners,
             P_board_corners[i].board_id = Q_board_corners[j].board_id
      PROVE  PairOf(i, j) \in MatchResult
  <2>1. j \in WithId(P_board_corners[i].board_id)
    BY <1>3 DEF WithId
  <2>2. FirstWithId(P_board_corners[i].board_id) = Q_board_corners[j]
    BY <1>1, <2>1
  <2> QED
    BY <2>1, <2>2 DEF MatchResult, PairOf
<1> QED
  BY <1>2, <1>3 DEF JoinsById

(* Ids in Q are distinct whenever marker_order has enough, distinct ids.    *)
DistinctOrder == \A j, k \in DOMAIN MarkerOrder : MarkerOrder[j] = MarkerOrder[k] => j = k

LEMMA FilledQDistinct ==
  ASSUME NEW list \in Seq(BoardCloudCorners), Len(list) <= Len(MarkerOrder), NEW stray,
         DistinctOrder,
         NEW j \in DOMAIN list, NEW k \in DOMAIN list,
         FilledQ(list, stray)[j].board_id = FilledQ(list, stray)[k].board_id
  PROVE  j = k
<1>1. j \in DOMAIN MarkerOrder /\ k \in DOMAIN MarkerOrder
  BY MarkerAssumption
<1>2. /\ FilledQ(list, stray)[j].board_id = MarkerOrder[j]
      /\ FilledQ(list, stray)[k].board_id = MarkerOrder[k]
  BY <1>1 DEF FilledQ, OrderedId
<1> QED
  BY <1>1, <1>2 DEF DistinctOrder

(* As far as marker_order reaches, the label written back to the board that *)
(* comes k-th in bearing order is the id of entry k of Q.                   *)
LEMMA LabelAgreesWithQ ==
  ASSUME NEW list \in Seq(BoardCloudCorners), Len(list) <= Len(MarkerOrder),
         NEW stray, NEW k \in DOMAIN list
  PROVE  /\ SortedIndex(list)[k] \in DOMAIN list
         /\ Labelled(list)[SortedIndex(list)[k]].board_id = FilledQ(list, stray)[k].board_id
         /\ Labelled(list)[SortedIndex(list)[k]].corners = FilledQ(list, stray)[k].corners
<1> DEFINE sorted == SortedIndex(list)
           i == sorted[k]
<1>1. i \in DOMAIN list
  BY SortedIndexPermutes, Fun_BijectionProperties
<1>2. \A n \in DOMAIN list : sorted[n] = i <=> n = k
  BY SortedIndexPermutes
<1>3. (CHOOSE n \in DOMAIN list : sorted[n] = i) = k
  BY <1>2
<1>4. list[i] \in BoardCloudCorners
  BY <1>1
<1>5. k \in DOMAIN MarkerOrder
  BY MarkerAssumption
<1>6. Labelled(list)[i] = [list[i] EXCEPT !.board_id = MarkerOrder[k]]
  BY <1>1, <1>3, <1>5 DEF Labelled, LabelOf
<1>7. FilledQ(list, stray)[k] = [board_id |-> MarkerOrder[k], corners |-> list[i].corners]
  BY <1>5 DEF FilledQ, OrderedId
<1>8. /\ [list[i] EXCEPT !.board_id = MarkerOrder[k]].board_id = MarkerOrder[k]
      /\ [list[i] EXCEPT !.board_id = MarkerOrder[k]].corners = list[i].corners
  <2> HIDE DEF i
  <2> QED
    BY <1>4 DEF BoardCloudCorners
<1> QED
  BY <1>1, <1>6, <1>7, <1>8

(***************************************************************************)
(* Type correctness.                                                       *)
(***************************************************************************)

(* A function on the indices of a sequence is a sequence.                   *)
LEMMA SeqFromDomain ==
  ASSUME NEW S, NEW T, NEW s \in Seq(S), NEW f, f \in [DOMAIN s -> T]
  PROVE  f \in Seq(T) /\ DOMAIN f = DOMAIN s
<1>1. DOMAIN s = 1..Len(s) /\ Len(s) \in Nat
  OBVIOUS
<1>2. f \in [1..Len(s) -> T]
  BY <1>1
<1> QED
  BY <1>1, <1>2, SeqDef

LEMMA InitType == Init => TypeOK
<1> SUFFICES ASSUME Init PROVE TypeOK
  OBVIOUS
<1>1. cam_id_name_map \subseteq CameraIds
  BY DEF Init, KnownToDetAruco
<1>2. CalibTypeOK
  BY PoseAssumption DEF Init, CalibFuncInit, CalibTypeOK
<1>3. board_data \in [Cams -> SUBSET BoardInfo(Cams)]
  BY DEF Init, CalibFuncInit
<1>4. position \in Nat \ {0} /\ run \in Nat
  BY DEF Init
<1>5. \A S : <<>> \in Seq(S)
  OBVIOUS
<1>6. /\ input \in Seq(Clusters)
      /\ boards \in Seq(BoardCloudCorners) /\ Q_board_corners \in Seq(BoardCloudCorners)
      /\ aruco_info \in Seq(Board2DCorners(Cams)) /\ P_board_corners \in Seq(Board2DCorners(Cams))
  BY <1>5 DEF Init
<1> QED
  BY <1>1, <1>2, <1>3, <1>4, <1>6 DEF Init, TypeOK, Steps

LEMMA LoadTemplateImageType == TypeOK /\ LoadTemplateImage => TypeOK'
BY DEF TypeOK, CalibTypeOK, LoadTemplateImage, At, GoTo, Steps, launchVars, CameraIds,
       cloudVars, loopVars, historyVars, matchVars, calibVars, paramVars

LEMMA LoadPcdFileType == TypeOK /\ LoadPcdFile => TypeOK'
BY DEF TypeOK, CalibTypeOK, LoadPcdFile, At, GoTo, Steps, launchVars, CameraIds,
       loopVars, historyVars, matchVars, calibVars, paramVars

LEMMA CheckOrientationType == TypeOK /\ CheckOrientation => TypeOK'
<1> SUFFICES ASSUME TypeOK, CheckOrientation PROVE TypeOK'
  OBVIOUS
<1>1. pc' \in Steps
  BY DEF CheckOrientation, GoTo, Steps
<1> QED
  BY <1>1 DEF TypeOK, CalibTypeOK, CheckOrientation, launchVars, CameraIds,
       cloudVars, loopVars, historyVars, matchVars, calibVars, paramVars

LEMMA ExtractPointsType == TypeOK /\ ExtractPoints => TypeOK'
<1> SUFFICES ASSUME TypeOK, ExtractPoints PROVE TypeOK'
  OBVIOUS
<1>1. input' \in Seq(Clusters)
  BY NodeAssumption DEF ExtractPoints
<1> QED
  BY <1>1 DEF TypeOK, CalibTypeOK, ExtractPoints, GoTo, Steps, launchVars, CameraIds,
       loopVars, historyVars, matchVars, calibVars, paramVars

LEMMA BoardRegisterType == TypeOK /\ BoardRegister => TypeOK'
<1> SUFFICES ASSUME TypeOK, BoardRegister PROVE TypeOK'
  OBVIOUS
<1>1. boards' \in Seq(BoardCloudCorners)
  <2>1. CASE boards' = boards
    BY <2>1 DEF TypeOK
  <2>2. CASE \E matched \in SUBSET DOMAIN input :
               boards' = [i \in DOMAIN input |->
                            [board_id |-> 0,
                             corners  |-> IF i \in matched THEN input[i] ELSE NoCorners]]
    <3>1. input \in Seq(Clusters)
      BY DEF TypeOK
    <3>2. \A i \in DOMAIN input : input[i] \in Corners3D
      BY <3>1 DEF Corners3D
    <3>3. NoCorners \in Corners3D
      BY DEF Corners3D
    <3>4. boards' \in [DOMAIN input -> BoardCloudCorners]
      BY <2>2, <3>2, <3>3 DEF BoardCloudCorners
    <3> QED
      BY <3>1, <3>4, SeqFromDomain
  <2> QED
    BY <2>1, <2>2 DEF BoardRegister
<1> QED
  BY <1>1 DEF TypeOK, CalibTypeOK, BoardRegister, GoTo, Steps, launchVars, CameraIds,
       loopVars, historyVars, matchVars, calibVars, paramVars

LEMMA SetQType == TypeOK /\ SetQ => TypeOK'
<1> SUFFICES ASSUME TypeOK, SetQ PROVE TypeOK'
  OBVIOUS
<1>1. boards \in Seq(BoardCloudCorners) /\ <<>> \in Seq(BoardCloudCorners)
  BY DEF TypeOK
<1>2. Q_board_corners' \in Seq(BoardCloudCorners) /\ boards' \in Seq(BoardCloudCorners)
  BY <1>1, FilledQType, LabelledType DEF SetQ, SetBoardPointCloudCenters_Q
<1> QED
  BY <1>2 DEF TypeOK, CalibTypeOK, SetQ, GoTo, Steps, launchVars, CameraIds,
       loopVars, historyVars, calibVars, paramVars

LEMMA InitCalibType == TypeOK /\ InitCalib => TypeOK'
<1> SUFFICES ASSUME TypeOK, InitCalib PROVE TypeOK'
  OBVIOUS
<1>1. camera_params' \in [Cams -> Poses]
  BY PoseAssumption DEF InitCalib, InitCalibFunc, LoadedPose, TypeOK, CalibTypeOK
<1>2. extrinsics_gt' \subseteq Cams
  BY PoseAssumption DEF InitCalib, InitCalibFunc
<1> QED
  BY <1>1, <1>2 DEF TypeOK, CalibTypeOK, InitCalib, InitCalibFunc, GoTo, Steps,
       launchVars, CameraIds, cloudVars, loopVars, historyVars, matchVars

LEMMA DetectArucoMarkersType == TypeOK /\ DetectArucoMarkers => TypeOK'
<1> SUFFICES ASSUME TypeOK, DetectArucoMarkers PROVE TypeOK'
  OBVIOUS
<1> DEFINE Tag == [board_id : Int, detected : BOOLEAN]
<1>1. PICK tags \in Seq(Tag) :
        aruco_info' = [i \in DOMAIN tags |->
                         [board_id |-> tags[i].board_id,
                          cam      |-> Cam,
                          detected |-> tags[i].detected]]
  BY NodeAssumption DEF DetectArucoMarkers
<1>2. \A i \in DOMAIN tags : tags[i] \in Tag
  <2> HIDE DEF Tag
  <2> QED
    OBVIOUS
<1>3. Cam \in Cams
  BY DEF DetectArucoMarkers
<1>4. aruco_info' \in [DOMAIN tags -> Board2DCorners(Cams)]
  BY <1>1, <1>2, <1>3 DEF Board2DCorners
<1>5. aruco_info' \in Seq(Board2DCorners(Cams))
  BY <1>4, SeqFromDomain
<1> QED
  BY <1>5 DEF TypeOK, CalibTypeOK, DetectArucoMarkers, GoTo, Steps, launchVars, CameraIds,
       cloudVars, historyVars, matchVars, calibVars, paramVars

LEMMA SetPType == TypeOK /\ CurrentCamera /\ SetP => TypeOK'
<1> SUFFICES ASSUME TypeOK, CurrentCamera, SetP PROVE TypeOK'
  OBVIOUS
<1>1. Cam \in Cams
  BY DEF CurrentCamera, SetP, At, LoopBody
<1> QED
  BY <1>1 DEF TypeOK, CalibTypeOK, SetP, SetBoardArucoCenters_P, GoTo, Steps,
       launchVars, CameraIds, cloudVars, loopVars, calibVars, paramVars

LEMMA GetMatchResultType == TypeOK /\ GetMatchResult => TypeOK'
<1> SUFFICES ASSUME TypeOK, GetMatchResult PROVE TypeOK'
  OBVIOUS
<1>1. Q_board_corners \in Seq(BoardCloudCorners) /\ P_board_corners \in Seq(Board2DCorners(Cams))
  BY DEF TypeOK
<1>2. result' \subseteq BoardInfo(Cams)
  BY <1>1, MatchResultType DEF GetMatchResult
<1> QED
  BY <1>2 DEF TypeOK, CalibTypeOK, GetMatchResult, GoTo, Steps, launchVars, CameraIds,
       cloudVars, historyVars, matchVars, calibVars, paramVars

LEMMA SetDataType == TypeOK /\ SetData => TypeOK'
BY DEF TypeOK, CalibTypeOK, SetData, SetDataForCalib, GoTo, Steps, launchVars, CameraIds,
       cloudVars, loopVars, historyVars, matchVars

LEMMA CalibrateType == TypeOK /\ CurrentCamera /\ Calibrate => TypeOK'
<1> SUFFICES ASSUME TypeOK, CurrentCamera, Calibrate PROVE TypeOK'
  OBVIOUS
<1>1. Cam \in Cams
  BY DEF CurrentCamera, Calibrate, At, LoopBody
<1>2. position' \in Nat \ {0}
  BY DEF TypeOK, Calibrate
<1>3. solved' \subseteq Cams
  BY <1>1 DEF TypeOK, Calibrate
<1>4. /\ CalibTypeOK'
      /\ UNCHANGED board_data
  BY DEF TypeOK, CalibTypeOK, Calibrate, CalibrationSucceeds, CalibrationFails, paramVars
<1> QED
  BY <1>2, <1>3, <1>4 DEF TypeOK, Calibrate, GoTo, Steps, launchVars, CameraIds,
       cloudVars, loopVars, matchVars

LEMMA WriteAllType == TypeOK /\ WriteAll => TypeOK'
BY DEF TypeOK, CalibTypeOK, WriteAll, WriteExtrinsics, GoTo, Steps, launchVars, CameraIds,
       cloudVars, loopVars, historyVars, matchVars, paramVars

LEMMA TerminateType == TypeOK /\ Terminate => TypeOK'
BY DEF TypeOK, CalibTypeOK, Terminate, GoTo, Steps, launchVars, CameraIds,
       cloudVars, loopVars, historyVars, matchVars, calibVars, paramVars

LEMMA RelaunchType == TypeOK /\ Relaunch => TypeOK'
<1> SUFFICES ASSUME TypeOK, Relaunch PROVE TypeOK'
  OBVIOUS
<1>1. cam_id_name_map' \subseteq CameraIds'
  BY DEF Relaunch, KnownToDetAruco
<1>2. CalibTypeOK' /\ board_data' \in [Cams -> SUBSET BoardInfo(Cams)]
  BY PoseAssumption DEF TypeOK, Relaunch, CalibFuncRestart, CalibTypeOK
<1>3. position' \in Nat \ {0} /\ run' \in Nat
  BY DEF TypeOK, Relaunch
<1>4. \A S : <<>> \in Seq(S)
  OBVIOUS
<1>5. /\ input' \in Seq(Clusters)
      /\ boards' \in Seq(BoardCloudCorners) /\ Q_board_corners' \in Seq(BoardCloudCorners)
      /\ aruco_info' \in Seq(Board2DCorners(Cams)) /\ P_board_corners' \in Seq(Board2DCorners(Cams))
  BY <1>4 DEF Relaunch
<1> QED
  BY <1>1, <1>2, <1>3, <1>5 DEF TypeOK, Relaunch, GoTo, Steps

(* CurrentCamera holds beside the types: the index of the loop is only used *)
(* where the loop's own condition, and the vectors' size, let it be.        *)
LEMMA CurrentCameraStep == TypeOK /\ CurrentCamera /\ [Next]_vars => CurrentCamera'
<1> SUFFICES ASSUME TypeOK, CurrentCamera, [Next]_vars PROVE CurrentCamera'
  OBVIOUS
<1>1. CASE DetectArucoMarkers
  BY <1>1 DEF CurrentCamera, DetectArucoMarkers, Cam, launchVars
<1>2. CASE SetP \/ GetMatchResult \/ SetData
  BY <1>2 DEF CurrentCamera, LoopBody, Cam, SetP, GetMatchResult, SetData, At,
         launchVars
<1>3. CASE UNCHANGED vars
  BY <1>3 DEF CurrentCamera, Cam, vars, launchVars
<1>4. CASE \/ LoadTemplateImage \/ LoadPcdFile \/ CheckOrientation \/ ExtractPoints
           \/ BoardRegister \/ SetQ \/ InitCalib \/ Calibrate \/ WriteAll
           \/ Terminate \/ Relaunch
  <2>1. pc' \notin LoopBody
    BY <1>4 DEF LoadTemplateImage, LoadPcdFile, CheckOrientation, ExtractPoints,
           BoardRegister, SetQ, InitCalib, Calibrate, WriteAll, Terminate, Relaunch,
           GoTo, LoopBody
  <2> QED
    BY <2>1 DEF CurrentCamera
<1> QED
  BY <1>1, <1>2, <1>3, <1>4 DEF Next, StartStep

TypeInv == TypeOK /\ CurrentCamera

LEMMA TypeInit == Init => TypeInv
<1>1. Init => CurrentCamera
  BY DEF Init, CurrentCamera, LoopBody
<1> QED
  BY <1>1, InitType DEF TypeInv

LEMMA TypeStep == TypeInv /\ [Next]_vars => TypeInv'
<1> SUFFICES ASSUME TypeInv, [Next]_vars PROVE TypeOK'
  BY CurrentCameraStep DEF TypeInv
<1>1. CASE LoadTemplateImage BY <1>1, LoadTemplateImageType DEF TypeInv
<1>2. CASE LoadPcdFile BY <1>2, LoadPcdFileType DEF TypeInv
<1>3. CASE CheckOrientation BY <1>3, CheckOrientationType DEF TypeInv
<1>4. CASE ExtractPoints BY <1>4, ExtractPointsType DEF TypeInv
<1>5. CASE BoardRegister BY <1>5, BoardRegisterType DEF TypeInv
<1>6. CASE SetQ BY <1>6, SetQType DEF TypeInv
<1>7. CASE InitCalib BY <1>7, InitCalibType DEF TypeInv
<1>8. CASE DetectArucoMarkers BY <1>8, DetectArucoMarkersType DEF TypeInv
<1>9. CASE SetP BY <1>9, SetPType DEF TypeInv
<1>10. CASE GetMatchResult BY <1>10, GetMatchResultType DEF TypeInv
<1>11. CASE SetData BY <1>11, SetDataType DEF TypeInv
<1>12. CASE Calibrate BY <1>12, CalibrateType DEF TypeInv
<1>13. CASE WriteAll BY <1>13, WriteAllType DEF TypeInv
<1>14. CASE Terminate BY <1>14, TerminateType DEF TypeInv
<1>15. CASE Relaunch BY <1>15, RelaunchType DEF TypeInv
<1>16. CASE UNCHANGED vars
  BY <1>16 DEF TypeInv, TypeOK, CalibTypeOK, vars, launchVars, CameraIds, cloudVars, loopVars,
         historyVars, matchVars, calibVars, paramVars
<1> QED
  BY <1>1, <1>2, <1>3, <1>4, <1>5, <1>6, <1>7, <1>8, <1>9, <1>10, <1>11, <1>12,
     <1>13, <1>14, <1>15, <1>16 DEF Next, StartStep

(* Every variable stays within its type, and inside the loop body there is  *)
(* a current camera that has a slot in camera_params_vec_.                  *)
THEOREM TypeCorrect == Spec => [](TypeOK /\ CurrentCamera)
<1>1. Init => TypeInv
  BY TypeInit
<1>2. TypeInv /\ [Next]_vars => TypeInv'
  BY TypeStep
<1>3. TypeInv => TypeOK /\ CurrentCamera
  BY DEF TypeInv
<1> QED
  BY <1>1, <1>2, <1>3, PTL DEF Spec

(***************************************************************************)
(* A camera's data holds its own corners.                                  *)
(***************************************************************************)
QuietForCorners ==
  \/ LoadTemplateImage \/ LoadPcdFile \/ CheckOrientation \/ ExtractPoints
  \/ BoardRegister \/ SetQ \/ InitCalib \/ Calibrate \/ WriteAll \/ Terminate

LEMMA OwnInit == Init => OwnInv
BY DEF Init, CalibFuncInit, OwnInv, CurrentCamera, LoopBody, OwnOnTheWay, At, CornersAreOwn

LEMMA OwnStep == TypeInv /\ OwnInv /\ [Next]_vars => OwnInv'
<1> SUFFICES ASSUME TypeInv, OwnInv, [Next]_vars
             PROVE  OwnOnTheWay' /\ CornersAreOwn'
  BY CurrentCameraStep DEF OwnInv, TypeInv
<1>1. CASE QuietForCorners
  <2>1. pc' \notin {"set_P", "match", "set_data"}
    BY <1>1 DEF QuietForCorners, LoadTemplateImage, LoadPcdFile, CheckOrientation,
           ExtractPoints, BoardRegister, SetQ, InitCalib, Calibrate, WriteAll,
           Terminate, GoTo
  <2>2. UNCHANGED <<board_data, refused>>
    BY <1>1 DEF QuietForCorners, LoadTemplateImage, LoadPcdFile, CheckOrientation,
           ExtractPoints, BoardRegister, SetQ, InitCalib, InitCalibFunc, Calibrate,
           CalibrationSucceeds, CalibrationFails, WriteAll, WriteExtrinsics, Terminate,
           historyVars, calibVars, paramVars
  <2> QED
    BY <2>1, <2>2 DEF OwnInv, OwnOnTheWay, CornersAreOwn, At
<1>2. CASE DetectArucoMarkers
  <2>1. pc' = "set_P" /\ Cam' = Cam /\ UNCHANGED <<board_data, refused>>
    BY <1>2 DEF DetectArucoMarkers, GoTo, Cam, launchVars, historyVars, calibVars, paramVars
  <2>2. \A i \in DOMAIN aruco_info' : aruco_info'[i].cam = Cam
    BY <1>2 DEF DetectArucoMarkers
  <2> QED
    BY <2>1, <2>2 DEF OwnInv, OwnOnTheWay, CornersAreOwn, At
<1>3. CASE SetP
  <2>1. pc' = "match" /\ Cam' = Cam /\ UNCHANGED board_data /\ refused \subseteq refused'
    BY <1>3 DEF SetP, GoTo, Cam, launchVars, calibVars, paramVars
  <2>2. \A i \in DOMAIN P_board_corners' :
          P_board_corners'[i].cam = Cam \/ Cam \in refused'
    <3>1. CASE Accepts(aruco_info)
      <4>1. P_board_corners' = aruco_info
        BY <1>3, <3>1 DEF SetP, SetBoardArucoCenters_P
      <4>2. \A i \in DOMAIN aruco_info : aruco_info[i].cam = Cam
        BY <1>3 DEF SetP, OwnInv, OwnOnTheWay, At
      <4> QED
        BY <4>1, <4>2
    <3>2. CASE ~Accepts(aruco_info)
      BY <1>3, <3>2 DEF SetP
    <3> QED
      BY <3>1, <3>2
  <2> QED
    BY <2>1, <2>2 DEF OwnInv, OwnOnTheWay, OwnOrRefused, CornersAreOwn, At
<1>4. CASE GetMatchResult
  <2>1. pc' = "set_data" /\ Cam' = Cam /\ UNCHANGED <<board_data, refused>>
    BY <1>4 DEF GetMatchResult, GoTo, Cam, launchVars, historyVars, calibVars, paramVars
  <2>2. \A pair \in MatchResult : OwnOrRefused(pair.corners_2d)
    <3> TAKE pair \in MatchResult
    <3>1. Q_board_corners \in Seq(BoardCloudCorners) /\ P_board_corners \in Seq(Board2DCorners(Cams))
      BY DEF TypeInv, TypeOK
    <3>2. PICK i \in DOMAIN P_board_corners : pair.corners_2d = P_board_corners[i]
      BY <3>1, MatchResultType
    <3> QED
      BY <1>4, <3>2 DEF GetMatchResult, OwnInv, OwnOnTheWay, At
  <2>3. result' = MatchResult
    BY <1>4 DEF GetMatchResult
  <2> QED
    BY <2>1, <2>2, <2>3 DEF OwnInv, OwnOnTheWay, OwnOrRefused, CornersAreOwn, At
<1>5. CASE SetData
  <2>1. pc' = "calibrate" /\ UNCHANGED refused
    BY <1>5 DEF SetData, GoTo, historyVars
  <2>2. board_data' = [board_data EXCEPT ![Cam] = result]
    BY <1>5 DEF SetData, SetDataForCalib
  <2>3. \A pair \in result : OwnOrRefused(pair.corners_2d)
    BY <1>5 DEF SetData, OwnInv, OwnOnTheWay, At
  <2>4. \A c \in Cams : board_data'[c] = IF c = Cam THEN result ELSE board_data[c]
    BY <2>2 DEF TypeInv, TypeOK
  <2> QED
    BY <2>1, <2>3, <2>4 DEF OwnInv, OwnOnTheWay, OwnOrRefused, CornersAreOwn, At
<1>6. CASE Relaunch
  <2>1. pc' = "load_template_image" /\ board_data' = [c \in Cams |-> {}]
    BY <1>6 DEF Relaunch, GoTo, CalibFuncRestart
  <2> QED
    BY <2>1 DEF OwnOnTheWay, CornersAreOwn, At
<1>7. CASE UNCHANGED vars
  BY <1>7 DEF OwnInv, OwnOnTheWay, OwnOrRefused, CornersAreOwn, At, Cam, vars,
         launchVars, loopVars, historyVars, matchVars, calibVars, paramVars
<1> QED
  BY <1>1, <1>2, <1>3, <1>4, <1>5, <1>6, <1>7 DEF Next, StartStep, QuietForCorners

(* The image corners handed to the solver for a camera come from that       *)
(* camera's image, unless its tags were refused in this launch.             *)
THEOREM OwnCorners == Spec => []CornersAreOwn
<1>1. Init => TypeInv /\ OwnInv
  BY TypeInit, OwnInit
<1>2. TypeInv /\ OwnInv /\ [Next]_vars => TypeInv' /\ OwnInv'
  BY TypeStep, OwnStep
<1>3. OwnInv => CornersAreOwn
  BY DEF OwnInv
<1> QED
  BY <1>1, <1>2, <1>3, PTL DEF Spec

(***************************************************************************)
(* Only solved cameras change in the file.                                 *)
(***************************************************************************)
QuietForSolutions ==
  \/ LoadTemplateImage \/ LoadPcdFile \/ CheckOrientation \/ ExtractPoints
  \/ BoardRegister \/ SetQ \/ DetectArucoMarkers \/ SetP \/ GetMatchResult

LEMMA SolvedInit == Init => SolvedInv
BY DEF Init, SolvedInv, BeforeLoop, UnsolvedAsLoaded, LoopBody, SolvedHadData

(* SolverRuns reads only what the launch and init_CalibFunc fixed.          *)
LEMMA SolverRunsStable ==
  ASSUME UNCHANGED <<algorithm, extrinsics_gt, flag_init>>, NEW c
  PROVE  SolverRuns(c, algorithm)' <=> SolverRuns(c, algorithm)
BY DEF SolverRuns, CanStart, KnownAlgorithms

LEMMA SolvedStep == TypeInv /\ SolvedInv /\ [Next]_vars => SolvedInv'
<1> SUFFICES ASSUME TypeInv, SolvedInv, [Next]_vars
             PROVE  SolvedInv'
  OBVIOUS
<1>1. CASE QuietForSolutions
  <2>1. /\ UNCHANGED <<calib_list, algorithm, solved, camera_params, board_data,
                       extrinsics_gt, flag_init, extrinsics_file>>
        /\ pc \notin {"calibrate", "terminated"}
    BY <1>1 DEF QuietForSolutions, LoadTemplateImage, LoadPcdFile, CheckOrientation,
           ExtractPoints, BoardRegister, SetQ, DetectArucoMarkers, SetP, GetMatchResult,
           At, launchVars, historyVars, calibVars, paramVars
  <2>2. /\ pc' \in BeforeLoop => pc \in BeforeLoop
        /\ pc' \in LoopBody \cup {"next_camera"} => pc \in LoopBody \cup {"next_camera"}
    BY <1>1 DEF QuietForSolutions, LoadTemplateImage, LoadPcdFile, CheckOrientation,
           ExtractPoints, BoardRegister, SetQ, DetectArucoMarkers, SetP, GetMatchResult,
           At, GoTo, BeforeLoop, LoopBody
  <2>3. \A c \in solved : c \in ListedIds /\ SolverRuns(c, algorithm) /\ board_data[c] # {}
    BY <2>1 DEF SolvedInv, SolvedHadData, At
  <2>4. \A c \in solved : SolverRuns(c, algorithm)'
    BY <2>1, <2>3, SolverRunsStable
  <2>5. SolvedHadData'
    BY <2>1, <2>3, <2>4 DEF SolvedHadData, ListedIds
  <2> QED
    BY <2>1, <2>2, <2>5 DEF SolvedInv, UnsolvedAsLoaded, LoadedPose
<1>2. CASE InitCalib
  <2>1. solved = {} /\ solved' = {}
    BY <1>2 DEF InitCalib, At, SolvedInv, BeforeLoop, historyVars
  <2>2. /\ camera_params' = [c \in Cams |-> LoadedPose(c)]
        /\ UNCHANGED extrinsics_file
    BY <1>2 DEF InitCalib, InitCalibFunc
  <2> QED
    BY <2>1, <2>2 DEF SolvedInv, UnsolvedAsLoaded, SolvedHadData, LoadedPose
<1>3. CASE SetData
  <2>1. /\ pc = "set_data" /\ pc' = "calibrate"
        /\ UNCHANGED <<calib_list, position, algorithm, solved, camera_params,
                       extrinsics_gt, flag_init, extrinsics_file>>
    BY <1>3 DEF SetData, SetDataForCalib, At, GoTo, launchVars, historyVars
  <2>2. \A c \in Cams : c # Cam => board_data'[c] = board_data[c]
    BY <1>3 DEF SetData, SetDataForCalib, TypeInv, TypeOK
  <2>3. \A c \in solved : c \in Cams /\ c \in ListedIds /\ board_data[c] # {}
    BY <2>1 DEF SolvedInv, SolvedHadData, At, TypeInv, TypeOK
  <2>4. \A c \in solved : SolverRuns(c, algorithm)'
    BY <2>1, SolverRunsStable DEF SolvedInv, SolvedHadData
  <2>5. SolvedHadData'
    BY <2>1, <2>2, <2>3, <2>4 DEF SolvedHadData, ListedIds, At, Cam
  <2> QED
    BY <2>1, <2>5 DEF SolvedInv, UnsolvedAsLoaded, LoadedPose, BeforeLoop, LoopBody
<1>4. CASE Calibrate
  <2>1. /\ pc = "calibrate" /\ pc' = "next_camera" /\ Cam \in Cams /\ Cam \in ListedIds
        /\ UNCHANGED <<calib_list, algorithm, board_data, extrinsics_gt, flag_init,
                       extrinsics_file>>
    BY <1>4 DEF Calibrate, CalibrationSucceeds, CalibrationFails, At, GoTo, launchVars,
           paramVars, TypeInv, CurrentCamera, LoopBody, ListedIds, Cam
  <2>2. \A c \in Cams : SolverRuns(c, algorithm)' <=> SolverRuns(c, algorithm)
    BY <2>1, SolverRunsStable
  <2>3. CASE CalibrationSucceeds(Cam, algorithm) /\ solved' = solved \cup {Cam}
    <3>1. SolverRuns(Cam, algorithm) /\ board_data[Cam] # {}
      BY <2>3 DEF CalibrationSucceeds
    <3>2. \A c \in Cams \ {Cam} : camera_params'[c] = camera_params[c]
      BY <2>3 DEF CalibrationSucceeds, TypeInv, TypeOK, CalibTypeOK
    <3>3. SolvedHadData'
      BY <2>1, <2>2, <2>3, <3>1
         DEF SolvedInv, SolvedHadData, ListedIds, At, TypeInv, TypeOK
    <3> QED
      BY <2>1, <2>3, <3>2, <3>3
         DEF SolvedInv, UnsolvedAsLoaded, LoadedPose, BeforeLoop, LoopBody
  <2>4. CASE CalibrationFails(Cam, algorithm) /\ UNCHANGED solved
    <3>1. SolverRuns(Cam, algorithm) => board_data[Cam] # {}
      BY <2>4 DEF CalibrationFails, SolverAborts
    <3>2. UNCHANGED camera_params
      BY <2>4 DEF CalibrationFails, paramVars
    <3>3. SolvedHadData'
      BY <2>1, <2>2, <2>4, <3>1
         DEF SolvedInv, SolvedHadData, ListedIds, At, TypeInv, TypeOK
    <3> QED
      BY <2>1, <2>4, <3>2, <3>3
         DEF SolvedInv, UnsolvedAsLoaded, LoadedPose, BeforeLoop, LoopBody
  <2> QED
    BY <1>4, <2>3, <2>4 DEF Calibrate
<1>5. CASE WriteAll
  <2>1. /\ pc = "next_camera" /\ pc' = "returned"
        /\ UNCHANGED <<calib_list, algorithm, solved, board_data, extrinsics_gt, flag_init>>
    BY <1>5 DEF WriteAll, WriteExtrinsics, At, GoTo, launchVars, historyVars, paramVars
  <2>2. \A c \in solved : SolverRuns(c, algorithm)'
    BY <2>1, SolverRunsStable DEF SolvedInv, SolvedHadData
  <2> QED
    BY <2>1, <2>2 DEF SolvedInv, UnsolvedAsLoaded, SolvedHadData, ListedIds, At,
           BeforeLoop, LoopBody
<1>6. CASE Terminate
  <2>1. /\ pc' = "terminated"
        /\ UNCHANGED <<calib_list, algorithm, solved, extrinsics_gt, flag_init>>
    BY <1>6 DEF Terminate, GoTo, launchVars, historyVars, calibVars, paramVars
  <2>2. \A c \in solved : SolverRuns(c, algorithm)'
    BY <2>1, SolverRunsStable DEF SolvedInv, SolvedHadData
  <2> QED
    BY <2>1, <2>2 DEF SolvedInv, UnsolvedAsLoaded, SolvedHadData, ListedIds, At,
           BeforeLoop, LoopBody
<1>7. CASE Relaunch
  <2>1. pc' = "load_template_image" /\ solved' = {}
    BY <1>7 DEF Relaunch, GoTo
  <2> QED
    BY <2>1 DEF SolvedInv, UnsolvedAsLoaded, SolvedHadData, BeforeLoop, LoopBody
<1>8. CASE UNCHANGED vars
  <2>1. UNCHANGED <<pc, calib_list, position, algorithm, solved, camera_params, board_data,
                    extrinsics_gt, flag_init, extrinsics_file>>
    BY <1>8 DEF vars, launchVars, historyVars, calibVars, paramVars
  <2>2. \A c \in solved : SolverRuns(c, algorithm)'
    BY <2>1, SolverRunsStable DEF SolvedInv, SolvedHadData
  <2> QED
    BY <2>1, <2>2 DEF SolvedInv, UnsolvedAsLoaded, SolvedHadData, ListedIds, At, Cam,
           LoadedPose
<1> QED
  BY <1>1, <1>2, <1>3, <1>4, <1>5, <1>6, <1>7, <1>8 DEF Next, StartStep, QuietForSolutions

(* A pose in memory that differs from the file's was solved in this launch, *)
(* from corner pairs and a reference pose, for a camera that was asked for. *)
SolvedOnly(c) ==
  c \in solved /\ c \in ListedIds /\ c \in extrinsics_gt /\ board_data[c] # {}

LEMMA FileChangeIsWrite ==
  ASSUME TypeInv, SolvedInv, [Next]_vars,
         NEW c \in Cams, extrinsics_file'[c] # extrinsics_file[c]
  PROVE  /\ WriteAll
         /\ extrinsics_file[c] # Absent /\ extrinsics_file'[c] = camera_params[c]
         /\ SolvedOnly(c)
<1>1. extrinsics_file' # extrinsics_file
  OBVIOUS
<1>2. WriteAll
  BY <1>1 DEF Next, StartStep, LoadTemplateImage, LoadPcdFile, CheckOrientation,
         ExtractPoints, BoardRegister, SetQ, InitCalib, InitCalibFunc, DetectArucoMarkers,
         SetP, GetMatchResult, SetData, SetDataForCalib, Calibrate, CalibrationSucceeds,
         CalibrationFails, Terminate, Relaunch, CalibFuncRestart, vars, calibVars
<1>3. /\ pc = "next_camera"
      /\ extrinsics_file' =
           [d \in Cams |-> IF extrinsics_file[d] = Absent THEN Absent ELSE camera_params[d]]
  BY <1>2 DEF WriteAll, WriteExtrinsics, At
<1>4. extrinsics_file[c] # Absent /\ extrinsics_file'[c] = camera_params[c]
  BY <1>3
<1>5. c \in solved
  BY <1>3, <1>4 DEF SolvedInv, UnsolvedAsLoaded, LoadedPose
<1>6. c \in ListedIds /\ SolverRuns(c, algorithm) /\ board_data[c] # {}
  BY <1>3, <1>5 DEF SolvedInv, SolvedHadData, At
<1> QED
  BY <1>2, <1>4, <1>5, <1>6 DEF SolvedOnly, SolverRuns, CanStart

LEMMA Invariants == Spec => [](TypeInv /\ OwnInv /\ SolvedInv)
<1>1. Init => TypeInv /\ OwnInv /\ SolvedInv
  BY TypeInit, OwnInit, SolvedInit
<1>2. TypeInv /\ OwnInv /\ SolvedInv /\ [Next]_vars => TypeInv' /\ OwnInv' /\ SolvedInv'
  BY TypeStep, OwnStep, SolvedStep
<1> QED
  BY <1>1, <1>2, PTL DEF Spec

(* No entry of sensor_kit_calibration.yaml changes but those of cameras     *)
(* this launch solved.                                                      *)
THEOREM OnlySolvedChange == Spec => OnlySolvedCamerasChange
<1>1. TypeInv /\ SolvedInv /\ [Next]_vars
        => [\A c \in Cams : extrinsics_file'[c] # extrinsics_file[c] =>
              /\ c \in solved /\ c \in ListedIds /\ c \in extrinsics_gt
              /\ board_data[c] # {}]_vars
  BY FileChangeIsWrite DEF SolvedOnly
<1> QED
  BY <1>1, Invariants, PTL DEF Spec, OnlySolvedCamerasChange

(***************************************************************************)
(* A launch implements the abstract store.                                 *)
(***************************************************************************)
LEMMA StoreInitMaps == Init => Store!StoreInit
BY DEF Init, CalibFuncInit, Store!StoreInit, Finished

(* The steps that end the launch without writing commit nothing.            *)
LEMMA EndsWithoutWriting ==
  ASSUME TypeInv, pc \notin {"returned", "terminated"},
         pc' \in {"returned", "terminated"},
         UNCHANGED <<calib_list, extrinsics_file>>
  PROVE  Store!Commit
<1>1. extrinsics_file = [c \in Cams |-> extrinsics_file[c]]
  BY DEF TypeInv, TypeOK, CalibTypeOK
<1> DEFINE none == {}
           new == [c \in none |-> ZeroPose]
<1>2. none \in SUBSET Store!Replaceable /\ new \in [none -> Poses]
  OBVIOUS
<1>3. extrinsics_file' =
        [c \in Cams |-> IF c \in none THEN new[c] ELSE extrinsics_file[c]]
  BY <1>1
<1> HIDE DEF none, new
<1> QED
  BY <1>2, <1>3 DEF Store!Commit, Finished, ListedIds

LEMMA WriteAllCommits == TypeInv /\ SolvedInv /\ WriteAll => Store!Commit
<1> SUFFICES ASSUME TypeInv, SolvedInv, WriteAll PROVE Store!Commit
  OBVIOUS
<1> DEFINE replaced == {c \in Cams : extrinsics_file'[c] # extrinsics_file[c]}
           new == [c \in replaced |-> camera_params[c]]
<1>1. \A c \in replaced : /\ extrinsics_file[c] # Absent
                          /\ extrinsics_file'[c] = camera_params[c]
                          /\ c \in ListedIds
  BY FileChangeIsWrite DEF Next, StartStep, SolvedOnly
<1>2. replaced \in SUBSET Store!Replaceable
  BY <1>1 DEF Store!Replaceable
<1>3. new \in [replaced -> Poses]
  BY DEF TypeInv, TypeOK, CalibTypeOK
<1>4. extrinsics_file' =
        [c \in Cams |-> IF c \in replaced THEN new[c] ELSE extrinsics_file[c]]
  <2>1. extrinsics_file' = [c \in Cams |-> extrinsics_file'[c]]
    BY DEF WriteAll, WriteExtrinsics
  <2>2. \A c \in Cams :
          extrinsics_file'[c] = IF c \in replaced THEN new[c] ELSE extrinsics_file[c]
    BY <1>1
  <2> HIDE DEF replaced, new
  <2> QED
    BY <2>1, <2>2
<1>5. /\ pc = "next_camera" /\ pc' = "returned"
      /\ UNCHANGED calib_list
  BY DEF WriteAll, At, GoTo, launchVars
<1> HIDE DEF replaced, new
<1> QED
  BY <1>2, <1>3, <1>4, <1>5 DEF Store!Commit, Finished, ListedIds

LEMMA StoreStepMaps == TypeInv /\ SolvedInv /\ [Next]_vars => [Store!StoreNext]_(Store!storeVars)
<1> SUFFICES ASSUME TypeInv, SolvedInv, [Next]_vars
             PROVE  Store!StoreNext \/ UNCHANGED Store!storeVars
  OBVIOUS
<1>1. CASE LoadTemplateImage \/ LoadPcdFile \/ CheckOrientation \/ ExtractPoints
           \/ BoardRegister \/ SetQ \/ InitCalib \/ DetectArucoMarkers \/ SetP
           \/ GetMatchResult \/ SetData \/ Calibrate \/ Terminate
  <2>1. /\ pc \notin {"returned", "terminated"}
        /\ UNCHANGED <<calib_list, extrinsics_file>>
    BY <1>1 DEF LoadTemplateImage, LoadPcdFile, CheckOrientation, ExtractPoints,
           BoardRegister, SetQ, InitCalib, InitCalibFunc, DetectArucoMarkers, SetP,
           GetMatchResult, SetData, SetDataForCalib, Calibrate, CalibrationSucceeds,
           CalibrationFails, Terminate, MayTerminate, At, launchVars, calibVars
  <2>2. CASE pc' \in {"returned", "terminated"}
    BY <2>1, <2>2, EndsWithoutWriting DEF Store!StoreNext
  <2>3. CASE pc' \notin {"returned", "terminated"}
    BY <2>1, <2>3 DEF Store!storeVars, Finished, ListedIds
  <2> QED
    BY <2>2, <2>3
<1>2. CASE WriteAll
  BY <1>2, WriteAllCommits DEF Store!StoreNext
<1>3. CASE Relaunch
  <2>1. /\ pc \in {"returned", "terminated"} /\ pc' = "load_template_image"
        /\ UNCHANGED extrinsics_file
    BY <1>3 DEF Relaunch, GoTo, CalibFuncRestart
  <2> QED
    BY <2>1 DEF Store!StoreNext, Store!NewRun, Finished
<1>4. CASE UNCHANGED vars
  BY <1>4 DEF vars, launchVars, calibVars, Store!storeVars, Finished, ListedIds
<1> QED
  BY <1>1, <1>2, <1>3, <1>4 DEF Next, StartStep

(* Seen from the file, every launch either leaves it alone or replaces, in  *)
(* one write, poses of requested cameras that already had an entry.         *)
THEOREM Implementation == Spec => ImplementsStore
<1>1. Init => Store!StoreInit
  BY StoreInitMaps
<1>2. TypeInv /\ SolvedInv /\ [Next]_vars => [Store!StoreNext]_(Store!storeVars)
  BY StoreStepMaps
<1> QED
  BY <1>1, <1>2, Invariants, PTL DEF Spec, ImplementsStore, Store!StoreSpec

(***************************************************************************)
(* The ids on display are the ids used.                                    *)
(***************************************************************************)
LEMMA PublishedInit == Init => PublishedInv
<1> SUFFICES ASSUME Init PROVE PublishedInv
  OBVIOUS
<1>1. /\ pc = "load_template_image" /\ boards = <<>> /\ Q_board_corners = <<>>
      /\ \A c \in Cams : board_data[c] = {}
  BY DEF Init, CalibFuncInit
<1> QED
  BY <1>1 DEF PublishedInv, QPublished, PublishedIdIsMatchedId, At

(* Nothing to do where boards, Q and the board data stay as they are.       *)
LEMMA PublishedKept ==
  ASSUME PublishedInv, UNCHANGED <<boards, Q_board_corners, board_data>>
  PROVE  QPublished' /\ PublishedIdIsMatchedId'
<1>1. \A pair : Published(pair)' <=> Published(pair)
  BY DEF Published
<1> QED
  BY <1>1 DEF PublishedInv, QPublished, PublishedIdIsMatchedId

QuietForPublished ==
  \/ LoadTemplateImage \/ LoadPcdFile \/ CheckOrientation \/ InitCalib
  \/ DetectArucoMarkers \/ SetP \/ Calibrate \/ WriteAll \/ Terminate

(* One board per cluster, so boards with corners differ in their corners.   *)
LEMMA RegisteredDistinct ==
  ASSUME TypeInv, PublishedInv, BoardRegister
  PROVE  BoardsDistinct'
<1>1. CASE input = <<>> /\ UNCHANGED boards
  <2>1. boards' = <<>>
    BY <1>1 DEF BoardRegister, PublishedInv, At, BeforeLoop
  <2> QED
    BY <2>1 DEF BoardsDistinct
<1>2. CASE \E matched \in SUBSET DOMAIN input :
             boards' = [i \in DOMAIN input |->
                          [board_id |-> 0,
                           corners  |-> IF i \in matched THEN input[i] ELSE NoCorners]]
  <2>1. PICK matched \in SUBSET DOMAIN input :
          boards' = [i \in DOMAIN input |->
                       [board_id |-> 0,
                        corners  |-> IF i \in matched THEN input[i] ELSE NoCorners]]
    BY <1>2
  <2>2. Distinct(input)
    BY DEF BoardRegister, PublishedInv
  <2>3. /\ DOMAIN boards' = DOMAIN input
        /\ \A i \in DOMAIN boards' :
             boards'[i].corners # NoCorners => boards'[i].corners = input[i]
    BY <2>1
  <2> QED
    BY <2>2, <2>3 DEF BoardsDistinct, Distinct
<1> QED
  BY <1>1, <1>2 DEF BoardRegister

(* Q and the labels come from the same sort: the board that has the corners *)
(* of entry j of Q is the one labelled with the id of entry j.              *)
LEMMA SetQPublished ==
  ASSUME LongOrder, TypeInv, PublishedInv, SetQ
  PROVE  QPublished'
<1>1. CASE Q_board_corners' = <<>>
  BY <1>1 DEF QPublished
<1>2. CASE /\ Len(boards) = MarkerNum
           /\ \E stray \in StrayIds : Q_board_corners' = FilledQ(boards, stray)
           /\ boards' = Labelled(boards)
  <2>1. PICK stray \in StrayIds : Q_board_corners' = FilledQ(boards, stray)
    BY <1>2
  <2>2. boards \in Seq(BoardCloudCorners) /\ Len(boards) <= Len(MarkerOrder)
    BY <1>2 DEF TypeInv, TypeOK, LongOrder
  <2>3. BoardsDistinct
    BY DEF SetQ, PublishedInv
  <2>4. /\ DOMAIN boards' = DOMAIN boards
        /\ \A i \in DOMAIN boards : boards'[i].corners = boards[i].corners
    <3>1. \A i \in DOMAIN boards : \A id :
            [boards[i] EXCEPT !.board_id = id].corners = boards[i].corners
      <4> TAKE i \in DOMAIN boards
      <4>1. boards[i] \in BoardCloudCorners
        BY <2>2
      <4> QED
        BY <4>1 DEF BoardCloudCorners
    <3> QED
      BY <1>2, <3>1 DEF Labelled
  <2>5. ASSUME NEW j \in DOMAIN boards, NEW i \in DOMAIN boards,
               boards'[i].corners = Q_board_corners'[j].corners,
               Q_board_corners'[j].corners # NoCorners
        PROVE  boards'[i].board_id = Q_board_corners'[j].board_id
    <3> DEFINE n == SortedIndex(boards)[j]
    <3>1. /\ n \in DOMAIN boards
          /\ boards'[n].board_id = Q_board_corners'[j].board_id
          /\ boards'[n].corners = Q_board_corners'[j].corners
      BY <1>2, <2>1, <2>2, LabelAgreesWithQ
    <3>2. i = n
      <4> HIDE DEF n
      <4> QED
        BY <2>3, <2>4, <2>5, <3>1 DEF BoardsDistinct
    <3> QED
      BY <3>1, <3>2
  <2>6. DOMAIN Q_board_corners' = DOMAIN boards
    BY <2>1 DEF FilledQ
  <2> QED
    BY <2>4, <2>5, <2>6 DEF QPublished
<1> QED
  BY <1>1, <1>2 DEF SetQ, SetBoardPointCloudCenters_Q

LEMMA PublishedStep ==
  ASSUME LongOrder, DistinctClusters, TypeInv, PublishedInv, [Next]_vars
  PROVE  PublishedInv'
<1>1. CASE QuietForPublished
  <2>1. pc' \notin {"board_register", "set_Q", "set_data"}
    BY <1>1 DEF QuietForPublished, LoadTemplateImage, LoadPcdFile, CheckOrientation,
           InitCalib, DetectArucoMarkers, SetP, Calibrate, WriteAll, Terminate, GoTo
  <2>2. UNCHANGED <<boards, Q_board_corners, board_data>>
    BY <1>1 DEF QuietForPublished, LoadTemplateImage, LoadPcdFile, CheckOrientation,
           InitCalib, InitCalibFunc, DetectArucoMarkers, SetP, Calibrate,
           CalibrationSucceeds, CalibrationFails, WriteAll, WriteExtrinsics, Terminate,
           cloudVars, matchVars, calibVars, paramVars
  <2>3. pc' \in BeforeLoop \ {"init_CalibFunc"} => pc \in BeforeLoop \ {"init_CalibFunc", "set_Q"}
    BY <1>1 DEF QuietForPublished, LoadTemplateImage, LoadPcdFile, CheckOrientation,
           InitCalib, DetectArucoMarkers, SetP, Calibrate, WriteAll, Terminate, At, GoTo,
           BeforeLoop
  <2>4. QPublished' /\ PublishedIdIsMatchedId'
    BY <2>2, PublishedKept
  <2> QED
    BY <2>1, <2>2, <2>3, <2>4 DEF PublishedInv, At, BeforeLoop
<1>2. CASE ExtractPoints
  <2>1. /\ pc = "extract_points" /\ pc' = "board_register"
        /\ UNCHANGED <<boards, Q_board_corners, board_data>>
    BY <1>2 DEF ExtractPoints, At, GoTo, matchVars, calibVars, paramVars
  <2>2. Distinct(input')
    <3>1. input' \in Extractions \/ input' = <<>>
      BY <1>2 DEF ExtractPoints
    <3>2. Distinct(<<>>)
      BY DEF Distinct
    <3> QED
      BY <3>1, <3>2 DEF DistinctClusters
  <2>3. QPublished' /\ PublishedIdIsMatchedId'
    BY <2>1, PublishedKept
  <2> QED
    BY <2>1, <2>2, <2>3 DEF PublishedInv, At, BeforeLoop, Distinct
<1>3. CASE BoardRegister
  <2>1. /\ pc = "board_register" /\ pc' = "set_Q"
        /\ UNCHANGED <<Q_board_corners, board_data>>
    BY <1>3 DEF BoardRegister, At, GoTo, matchVars, calibVars, paramVars
  <2>2. BoardsDistinct'
    BY <1>3, RegisteredDistinct
  <2>3. Q_board_corners = <<>> /\ \A c \in Cams : board_data[c] = {}
    BY <2>1 DEF PublishedInv, BeforeLoop
  <2> QED
    BY <2>1, <2>2, <2>3 DEF PublishedInv, QPublished, PublishedIdIsMatchedId, At, BeforeLoop
<1>4. CASE SetQ
  <2>1. pc = "set_Q" /\ pc' = "init_CalibFunc" /\ UNCHANGED board_data
    BY <1>4 DEF SetQ, At, GoTo, calibVars, paramVars
  <2>2. QPublished'
    BY <1>4, SetQPublished
  <2>3. \A c \in Cams : board_data[c] = {}
    BY <2>1 DEF PublishedInv, BeforeLoop
  <2> QED
    BY <2>1, <2>2, <2>3 DEF PublishedInv, PublishedIdIsMatchedId, At, BeforeLoop
<1>5. CASE GetMatchResult
  <2>1. /\ pc' = "set_data" /\ result' = MatchResult
        /\ UNCHANGED <<boards, Q_board_corners, board_data>>
    BY <1>5 DEF GetMatchResult, GoTo, cloudVars, matchVars, calibVars, paramVars
  <2>2. \A pair \in MatchResult : Published(pair)
    <3> TAKE pair \in MatchResult
    <3>1. Q_board_corners \in Seq(BoardCloudCorners) /\ P_board_corners \in Seq(Board2DCorners(Cams))
      BY DEF TypeInv, TypeOK
    <3>2. PICK j \in DOMAIN Q_board_corners :
            /\ pair.corners_cloud = Q_board_corners[j].corners
            /\ pair.board_id = Q_board_corners[j].board_id
      BY <3>1, MatchResultType
    <3> QED
      BY <3>2 DEF PublishedInv, QPublished, Published
  <2>3. \A pair \in result' : Published(pair)'
    BY <2>1, <2>2 DEF Published
  <2>4. QPublished' /\ PublishedIdIsMatchedId'
    BY <2>1, PublishedKept
  <2> QED
    BY <2>1, <2>3, <2>4 DEF PublishedInv, At, BeforeLoop
<1>6. CASE SetData
  <2>1. /\ pc = "set_data" /\ pc' = "calibrate"
        /\ UNCHANGED <<boards, Q_board_corners>>
    BY <1>6 DEF SetData, At, GoTo, cloudVars, matchVars
  <2>2. board_data' = [board_data EXCEPT ![Cam] = result]
    BY <1>6 DEF SetData, SetDataForCalib
  <2>3. \A c \in Cams : board_data'[c] = result \/ board_data'[c] = board_data[c]
    BY <2>2 DEF TypeInv, TypeOK
  <2>4. \A c \in Cams : \A pair \in board_data'[c] : Published(pair)
    BY <2>1, <2>3 DEF PublishedInv, PublishedIdIsMatchedId, At
  <2>5. \A pair : Published(pair)' <=> Published(pair)
    BY <2>1 DEF Published
  <2>6. QPublished'
    BY <2>1 DEF PublishedInv, QPublished
  <2> QED
    BY <2>1, <2>4, <2>5, <2>6 DEF PublishedInv, PublishedIdIsMatchedId, At, BeforeLoop
<1>7. CASE Relaunch
  <2>1. /\ pc' = "load_template_image" /\ boards' = <<>> /\ Q_board_corners' = <<>>
        /\ \A c \in Cams : board_data'[c] = {}
    BY <1>7 DEF Relaunch, GoTo, CalibFuncRestart
  <2> QED
    BY <2>1 DEF PublishedInv, QPublished, PublishedIdIsMatchedId, At, BeforeLoop
<1>8. CASE UNCHANGED vars
  <2>1. UNCHANGED <<pc, input, boards, result, Q_board_corners, board_data>>
    BY <1>8 DEF vars, cloudVars, loopVars, matchVars, calibVars, paramVars
  <2>2. QPublished' /\ PublishedIdIsMatchedId'
    BY <2>1, PublishedKept
  <2> QED
    BY <2>1, <2>2 DEF PublishedInv, BoardsDistinct, Distinct, Published, At
<1> QED
  BY <1>1, <1>2, <1>3, <1>4, <1>5, <1>6, <1>7, <1>8
     DEF Next, StartStep, QuietForPublished

(* The id the timer publishes above a lidar board is the id under which its *)
(* corners are used, as long as marker_order has an entry for every board   *)
(* and no cluster is extracted twice.                                       *)
THEOREM PublishedIds ==
  ASSUME LongOrder, DistinctClusters
  PROVE  Spec => []PublishedIdIsMatchedId
<1>1. Init => TypeInv /\ PublishedInv
  BY TypeInit, PublishedInit
<1>2. TypeInv /\ PublishedInv /\ [Next]_vars => TypeInv' /\ PublishedInv'
  BY TypeStep, PublishedStep
<1>3. PublishedInv => PublishedIdIsMatchedId
  BY DEF PublishedInv
<1> QED
  BY <1>1, <1>2, <1>3, PTL DEF Spec

(***************************************************************************)
(* ExtraBoard, as this node drives it, implements the abstract source.     *)
(***************************************************************************)
BeforeClusters == {"load_template_image", "load_pcd_file", "check_orientation",
                   "extract_points"}

(* Until it is called there are no clusters, and no boards before the       *)
(* registration; the clusters the registration is given are distinct.       *)
SourceInv ==
  /\ pc \in BeforeClusters => input = <<>>
  /\ pc \in BeforeClusters \cup {"board_register"} => boards = <<>>
  /\ At("board_register") => Distinct(input)

CornersOf(b) == [i \in DOMAIN b |-> b[i].corners]

LEMMA NoBoardsNoCorners == CornersOf(<<>>) = <<>>
<1>1. CornersOf(<<>>) \in [DOMAIN <<>> -> {}]
  BY DEF CornersOf
<1>2. <<>> \in Seq({})
  OBVIOUS
<1>3. CornersOf(<<>>) \in Seq({}) /\ DOMAIN CornersOf(<<>>) = DOMAIN <<>>
  BY <1>1, <1>2, SeqFromDomain
<1> QED
  BY <1>3

QuietForSource ==
  \/ InitCalib \/ DetectArucoMarkers \/ SetP \/ GetMatchResult \/ SetData
  \/ Calibrate \/ WriteAll \/ Terminate

LEMMA SourceInvStep ==
  ASSUME DistinctClusters, SourceInv, [Next]_vars
  PROVE  SourceInv'
<1>1. CASE LoadTemplateImage \/ LoadPcdFile \/ CheckOrientation
  <2>1. /\ pc \in BeforeClusters /\ pc' # "board_register"
        /\ UNCHANGED <<input, boards>>
    BY <1>1 DEF LoadTemplateImage, LoadPcdFile, CheckOrientation, At, GoTo, cloudVars,
           BeforeClusters
  <2> QED
    BY <2>1 DEF SourceInv, At
<1>2. CASE ExtractPoints
  <2>1. pc \in BeforeClusters /\ pc' = "board_register" /\ UNCHANGED boards
    BY <1>2 DEF ExtractPoints, At, GoTo, BeforeClusters
  <2>2. input' \in Extractions \/ input' = <<>>
    BY <1>2 DEF ExtractPoints
  <2>3. Distinct(input')
    BY <2>2 DEF DistinctClusters, Distinct
  <2> QED
    BY <2>1, <2>3 DEF SourceInv, At, BeforeClusters, Distinct
<1>3. CASE BoardRegister \/ SetQ \/ QuietForSource
  <2>1. pc' \notin BeforeClusters \cup {"board_register"}
    BY <1>3 DEF QuietForSource, BoardRegister, SetQ, InitCalib, DetectArucoMarkers,
           SetP, GetMatchResult, SetData, Calibrate, WriteAll, Terminate, GoTo,
           BeforeClusters
  <2> QED
    BY <2>1 DEF SourceInv, At
<1>4. CASE Relaunch
  BY <1>4 DEF Relaunch, GoTo, SourceInv, At
<1>5. CASE UNCHANGED vars
  BY <1>5 DEF vars, cloudVars, SourceInv, At, Distinct
<1> QED
  BY <1>1, <1>2, <1>3, <1>4, <1>5 DEF Next, StartStep, QuietForSource

LEMMA ExtractsSource ==
  ASSUME DistinctClusters, SourceInv, ExtractPoints
  PROVE  Source!Extract
<1>1. input = <<>> /\ boards = <<>> /\ UNCHANGED boards
  BY DEF ExtractPoints, SourceInv, At, BeforeClusters
<1>2. CornersOf(boards) = <<>>
  BY <1>1, NoBoardsNoCorners
<1>3. input' \in Extractions
  BY NodeAssumption DEF ExtractPoints
<1>4. input' \in Seq(Clusters) /\ Distinct(input')
  BY <1>3, NodeAssumption DEF DistinctClusters
<1> QED
  BY <1>1, <1>2, <1>4 DEF Source!Extract, Source!Nothing, Source!Distinct, Distinct,
     CornersOf

LEMMA RegistersSource ==
  ASSUME TypeInv, SourceInv, BoardRegister
  PROVE  Source!Register \/ UNCHANGED Source!sourceVars
<1>1. CASE input = <<>> /\ UNCHANGED boards
  BY <1>1 DEF BoardRegister, Source!sourceVars
<1>2. CASE /\ input # <<>>
           /\ \E matched \in SUBSET DOMAIN input :
                boards' = [i \in DOMAIN input |->
                             [board_id |-> 0,
                              corners  |-> IF i \in matched THEN input[i] ELSE NoCorners]]
  <2>1. PICK matched \in SUBSET DOMAIN input :
          boards' = [i \in DOMAIN input |->
                       [board_id |-> 0,
                        corners  |-> IF i \in matched THEN input[i] ELSE NoCorners]]
    BY <1>2
  <2>2. /\ DOMAIN CornersOf(boards') = DOMAIN input
        /\ \A i \in DOMAIN input : CornersOf(boards')[i] \in {input[i], NoCorners}
    BY <2>1 DEF CornersOf
  <2>3. input \in Seq(Clusters)
    BY DEF TypeInv, TypeOK
  <2>4. \A i \in DOMAIN input : input[i] \in Clusters
    BY <2>3
  <2>5. CornersOf(boards') \in [DOMAIN input -> Clusters \cup {NoCorners}]
    <3>1. CornersOf(boards') = [i \in DOMAIN input |-> CornersOf(boards')[i]]
      BY <2>2 DEF CornersOf
    <3> QED
      BY <2>2, <2>4, <3>1
  <2>6. CornersOf(boards') \in Seq(Clusters \cup {NoCorners})
    BY <2>3, <2>5, SeqFromDomain
  <2>7. CornersOf(boards) = <<>> /\ UNCHANGED input
    BY NoBoardsNoCorners DEF SourceInv, BoardRegister, At
  <2> QED
    BY <1>2, <2>2, <2>6, <2>7 DEF Source!Register, CornersOf
<1> QED
  BY <1>1, <1>2 DEF BoardRegister

(* set_Q labels the boards and leaves their corners as they are.            *)
LEMMA SetQKeepsCorners ==
  ASSUME TypeInv, SetQ
  PROVE  UNCHANGED Source!sourceVars
<1>1. CASE UNCHANGED boards
  BY <1>1 DEF SetQ, Source!sourceVars
<1>2. CASE boards' = Labelled(boards)
  <2>1. boards \in Seq(BoardCloudCorners)
    BY DEF TypeInv, TypeOK
  <2>2. \A i \in DOMAIN boards : \A id :
          [boards[i] EXCEPT !.board_id = id].corners = boards[i].corners
    <3> TAKE i \in DOMAIN boards
    <3>1. boards[i] \in BoardCloudCorners
      BY <2>1
    <3> QED
      BY <3>1 DEF BoardCloudCorners
  <2>3. DOMAIN boards' = DOMAIN boards
    BY <1>2 DEF Labelled
  <2>4. \A i \in DOMAIN boards : boards'[i].corners = boards[i].corners
    BY <1>2, <2>2 DEF Labelled
  <2> QED
    BY <2>3, <2>4 DEF SetQ, Source!sourceVars
<1> QED
  BY <1>1, <1>2 DEF SetQ, SetBoardPointCloudCenters_Q

LEMMA SourceStepMaps ==
  ASSUME DistinctClusters, TypeInv, SourceInv, [Next]_vars
  PROVE  [Source!Extract \/ Source!Register \/ Source!Discard]_(Source!sourceVars)
<1>1. CASE LoadTemplateImage \/ LoadPcdFile \/ CheckOrientation \/ QuietForSource
           \/ UNCHANGED vars
  <2>1. UNCHANGED <<input, boards>>
    BY <1>1 DEF QuietForSource, LoadTemplateImage, LoadPcdFile, CheckOrientation,
           InitCalib, DetectArucoMarkers, SetP, GetMatchResult, SetData, Calibrate,
           WriteAll, Terminate, cloudVars, vars
  <2> QED
    BY <2>1 DEF Source!sourceVars
<1>2. CASE ExtractPoints
  BY <1>2, ExtractsSource
<1>3. CASE BoardRegister
  BY <1>3, RegistersSource
<1>4. CASE SetQ
  BY <1>4, SetQKeepsCorners
<1>5. CASE Relaunch
  <2>1. input' = <<>> /\ boards' = <<>>
    BY <1>5 DEF Relaunch
  <2>2. CornersOf(boards') = <<>>
    BY <2>1, NoBoardsNoCorners
  <2> QED
    BY <2>1, <2>2 DEF Source!Discard, CornersOf
<1> QED
  BY <1>1, <1>2, <1>3, <1>4, <1>5 DEF Next, StartStep, QuietForSource

(* Seen from the node, ExtraBoard gives at most one list of distinct        *)
(* clusters and at most one list of boards for them, in their order, in     *)
(* every launch, and start() never rearranges or overwrites their corners.  *)
THEOREM SourceImplementation ==
  ASSUME DistinctClusters
  PROVE  Spec => ImplementsSource
<1>1. Init => TypeInv /\ SourceInv /\ Source!Nothing
  <2>1. Init => input = <<>> /\ boards = <<>> /\ pc = "load_template_image"
    BY DEF Init
  <2>2. Init => CornersOf(boards) = <<>>
    BY <2>1, NoBoardsNoCorners
  <2> QED
    BY <2>1, <2>2, TypeInit DEF SourceInv, At, Source!Nothing, CornersOf
<1>2. TypeInv /\ SourceInv /\ [Next]_vars => TypeInv' /\ SourceInv'
  BY TypeStep, SourceInvStep
<1>3. TypeInv /\ SourceInv /\ [Next]_vars
        => [Source!Extract \/ Source!Register \/ Source!Discard]_(Source!sourceVars)
  BY SourceStepMaps
<1> QED
  BY <1>1, <1>2, <1>3, PTL DEF Spec, ImplementsSource, Source!SourceSpec

(***************************************************************************)
(* A scene seen completely is paired right.                                *)
(***************************************************************************)
LEMMA BearingType == \A a \in Clusters : Bearing[a] \in Int
<1> TAKE a \in Clusters
<1>1. Bearing[a] \in 0..359
  BY BearingAssumption
<1>2. \A angle \in 0..359 : angle \in Int
  OBVIOUS
<1> QED
  BY <1>1, <1>2, Zenon

(* When all boards have different corners, at different bearings, a board's *)
(* place in the sorted list is the rank of its cluster among the seen ones. *)
LEMMA SeenRank ==
  ASSUME boards \in Seq(BoardCloudCorners), AllBoardsSeen, NEW n \in DOMAIN boards
  PROVE  Rank(boards)[n] =
           Cardinality({a \in SeenClusters : Bearing[a] < Bearing[boards[n].corners]}) + 1
<1> DEFINE D == DOMAIN boards
           f == [i \in D |-> boards[i].corners]
           lower == {a \in SeenClusters : Bearing[a] < Bearing[boards[n].corners]}
           before == Before(boards, n)
           g == [i \in before |-> boards[i].corners]
<1>1. \A i \in D : /\ boards[i].corners \in SeenClusters
                   /\ boards[i].corners \in Clusters
                   /\ boards[i].corners # NoCorners
  <2> TAKE i \in D
  <2>1. boards[i] \in BoardCloudCorners
    OBVIOUS
  <2>2. boards[i].corners \in SeenClusters /\ NoCorners \notin SeenClusters
    BY DEF SeenClusters, AllBoardsSeen
  <2> QED
    BY <2>1, <2>2 DEF BoardCloudCorners, Corners3D
<1>2. \A i, j \in D : boards[i].corners = boards[j].corners => i = j
  <2>1. IsFiniteSet(D) /\ Cardinality(D) = Len(boards)
    <3>1. D = 1..Len(boards) /\ Len(boards) \in Nat
      OBVIOUS
    <3>2. /\ IsFiniteSet(1..Len(boards))
          /\ Cardinality(1..Len(boards)) = IF 1 > Len(boards) THEN 0 ELSE Len(boards) - 1 + 1
      BY <3>1, FS_Interval
    <3> QED
      BY <3>1, <3>2
  <2>2. f \in Surjection(D, SeenClusters)
    BY Fun_IsSurj DEF SeenClusters
  <2>3. f \in Injection(D, SeenClusters)
    <3>1. Cardinality(SeenClusters) = Cardinality(D)
      BY <2>1 DEF AllBoardsSeen
    <3> HIDE DEF f, D
    <3> QED
      BY <2>1, <2>2, <3>1, FS_Surjection
  <2> QED
    BY <2>3 DEF Injection, IsInjective
<1>3. \A i \in D : i \in before <=> Bearing[boards[i].corners] < Bearing[boards[n].corners]
  <2> TAKE i \in D
  <2>1. /\ Angle(boards[i]) = Bearing[boards[i].corners]
        /\ Angle(boards[n]) = Bearing[boards[n].corners]
    BY <1>1 DEF Angle
  <2>2. Bearing[boards[i].corners] = Bearing[boards[n].corners] => i = n
    BY <1>1, <1>2 DEF AllBoardsSeen
  <2>3. ~(n < n)
    OBVIOUS
  <2> QED
    BY <2>1, <2>2, <2>3 DEF Before, SortsBefore
<1>4. before \subseteq D /\ IsFiniteSet(before)
  BY RankType DEF Before
<1>5. g \in Bijection(before, lower)
  <2>1. g \in [before -> lower]
    BY <1>1, <1>3, <1>4
  <2>2. \A a \in lower : \E i \in before : g[i] = a
    <3> TAKE a \in lower
    <3>1. PICK i \in D : a = boards[i].corners
      BY DEF SeenClusters
    <3> QED
      BY <1>3, <3>1
  <2>3. \A i, j \in before : g[i] = g[j] => i = j
    BY <1>2, <1>4
  <2> HIDE DEF g, before, lower
  <2> QED
    BY <2>1, <2>2, <2>3, Fun_IsBij
<1>6. Cardinality(lower) = Cardinality(before)
  <2> HIDE DEF g, before, lower
  <2> QED
    BY <1>4, <1>5, FS_Bijection DEF ExistsBijection
<1> QED
  BY <1>6 DEF Rank

TagsRight(q) == \A j \in DOMAIN q : TagOn[q[j].corners] = q[j].board_id

(* Then the k-th entry of Q, and the k-th tag of marker_order, are of the   *)
(* same board.                                                              *)
LEMMA FilledQRight ==
  ASSUME boards \in Seq(BoardCloudCorners), AllBoardsSeen, NEW stray
  PROVE  TagsRight(FilledQ(boards, stray))
<1> SUFFICES ASSUME NEW k \in DOMAIN boards
             PROVE  TagOn[FilledQ(boards, stray)[k].corners] = FilledQ(boards, stray)[k].board_id
  BY DEF TagsRight, FilledQ
<1> DEFINE n == SortedIndex(boards)[k]
           a == boards[n].corners
<1>1. n \in DOMAIN boards /\ Rank(boards)[n] = k
  BY SortedIndexPermutes, Fun_BijectionProperties
<1>2. a \in SeenClusters
  BY <1>1 DEF SeenClusters
<1>3. k = Cardinality({b \in SeenClusters : Bearing[b] < Bearing[a]}) + 1
  <2> HIDE DEF n
  <2> QED
    BY <1>1, SeenRank
<1>4. k \in DOMAIN MarkerOrder /\ TagOn[a] = MarkerOrder[k]
  <2> HIDE DEF a
  <2> QED
    BY <1>2, <1>3 DEF AllBoardsSeen, FollowsMarkerOrder
<1>5. FilledQ(boards, stray)[k] = [board_id |-> MarkerOrder[k], corners |-> a]
  BY <1>4 DEF FilledQ, OrderedId
<1> QED
  BY <1>4, <1>5

(* The right pairs on their way: in Q, in the result of the match, and in   *)
(* the board data; nothing is there before setQ has been called.            *)
CompleteInv ==
  /\ pc \in BeforeLoop \ {"init_CalibFunc"} =>
       Q_board_corners = <<>> /\ \A c \in Cams : board_data[c] = {}
  /\ AllBoardsSeen => TagsRight(Q_board_corners)
  /\ AllBoardsSeen /\ At("set_data") =>
       \A pair \in result : TagOn[pair.corners_cloud] = pair.board_id
  /\ CompleteScenePairsRight

(* Whether the scene was seen completely depends on the boards' corners.    *)
LEMMA SetQSees ==
  ASSUME TypeInv, SetQ, AllBoardsSeen'
  PROVE  AllBoardsSeen
<1>1. boards \in Seq(BoardCloudCorners)
  BY DEF TypeInv, TypeOK
<1>2. /\ DOMAIN boards' = DOMAIN boards
      /\ \A i \in DOMAIN boards : boards'[i].corners = boards[i].corners
  <2>1. \A i \in DOMAIN boards : \A id :
          [boards[i] EXCEPT !.board_id = id].corners = boards[i].corners
    <3> TAKE i \in DOMAIN boards
    <3>1. boards[i] \in BoardCloudCorners
      BY <1>1
    <3> QED
      BY <3>1 DEF BoardCloudCorners
  <2>2. CASE boards' = boards
    BY <2>2
  <2>3. CASE boards' = Labelled(boards)
    BY <2>1, <2>3 DEF Labelled
  <2> QED
    BY <2>2, <2>3 DEF SetQ, SetBoardPointCloudCenters_Q
<1>3. SeenClusters' = SeenClusters
  BY <1>2 DEF SeenClusters
<1>4. Len(boards') = Len(boards)
  <2>1. boards' \in Seq(BoardCloudCorners)
    BY SetQType DEF TypeInv, TypeOK
  <2> QED
    BY <1>1, <1>2, <2>1
<1> QED
  BY <1>3, <1>4 DEF AllBoardsSeen, FollowsMarkerOrder

LEMMA SeenKept ==
  ASSUME UNCHANGED boards
  PROVE  AllBoardsSeen' <=> AllBoardsSeen
<1>1. SeenClusters' = SeenClusters
  BY DEF SeenClusters
<1> QED
  BY <1>1 DEF AllBoardsSeen, FollowsMarkerOrder

LEMMA CompleteStep == TypeInv /\ CompleteInv /\ [Next]_vars => CompleteInv'
<1> SUFFICES ASSUME TypeInv, CompleteInv, [Next]_vars PROVE CompleteInv'
  OBVIOUS
<1>1. CASE \/ LoadTemplateImage \/ LoadPcdFile \/ CheckOrientation \/ ExtractPoints
           \/ InitCalib \/ DetectArucoMarkers \/ SetP \/ Calibrate \/ WriteAll \/ Terminate
  <2>1. UNCHANGED <<boards, Q_board_corners, board_data>>
    BY <1>1 DEF LoadTemplateImage, LoadPcdFile, CheckOrientation, ExtractPoints,
           InitCalib, InitCalibFunc, DetectArucoMarkers, SetP, SetBoardArucoCenters_P,
           Calibrate, CalibrationSucceeds, CalibrationFails, WriteAll, WriteExtrinsics,
           Terminate, cloudVars, matchVars, calibVars, paramVars
  <2>2. /\ pc' # "set_data"
        /\ pc' \in BeforeLoop \ {"init_CalibFunc"} => pc \in BeforeLoop \ {"init_CalibFunc"}
    BY <1>1 DEF LoadTemplateImage, LoadPcdFile, CheckOrientation, ExtractPoints,
           InitCalib, DetectArucoMarkers, SetP, Calibrate, WriteAll, Terminate, At, GoTo,
           BeforeLoop
  <2>3. AllBoardsSeen' <=> AllBoardsSeen
    BY <2>1, SeenKept
  <2> QED
    BY <2>1, <2>2, <2>3 DEF CompleteInv, CompleteScenePairsRight, TagsRight, At
<1>2. CASE BoardRegister
  <2>1. /\ pc' = "set_Q" /\ Q_board_corners' = <<>>
        /\ \A c \in Cams : board_data'[c] = {}
    BY <1>2 DEF BoardRegister, At, GoTo, matchVars, calibVars, paramVars, CompleteInv,
           BeforeLoop
  <2> QED
    BY <2>1 DEF CompleteInv, CompleteScenePairsRight, TagsRight, At
<1>3. CASE SetQ
  <2>1. pc' = "init_CalibFunc" /\ \A c \in Cams : board_data'[c] = {}
    BY <1>3 DEF SetQ, At, GoTo, calibVars, paramVars, CompleteInv, BeforeLoop
  <2>2. AllBoardsSeen' => TagsRight(Q_board_corners')
    <3>1. CASE Q_board_corners' = <<>>
      BY <3>1 DEF TagsRight
    <3>2. CASE \E stray \in StrayIds : Q_board_corners' = FilledQ(boards, stray)
      <4>1. boards \in Seq(BoardCloudCorners)
        BY DEF TypeInv, TypeOK
      <4> QED
        BY <1>3, <3>2, <4>1, SetQSees, FilledQRight
    <3> QED
      BY <1>3, <3>1, <3>2 DEF SetQ, SetBoardPointCloudCenters_Q
  <2>3. AllBoardsSeen' => TagsRight(Q_board_corners)'
    BY <2>2 DEF TagsRight
  <2> QED
    BY <2>1, <2>3 DEF CompleteInv, CompleteScenePairsRight, At, BeforeLoop
<1>4. CASE GetMatchResult
  <2>1. /\ pc' = "set_data" /\ result' = MatchResult
        /\ UNCHANGED <<boards, Q_board_corners, board_data>>
    BY <1>4 DEF GetMatchResult, GoTo, cloudVars, matchVars, calibVars, paramVars
  <2>2. AllBoardsSeen' <=> AllBoardsSeen
    BY <2>1, SeenKept
  <2>3. ASSUME AllBoardsSeen, NEW pair \in MatchResult
        PROVE  TagOn[pair.corners_cloud] = pair.board_id
    <3>1. Q_board_corners \in Seq(BoardCloudCorners) /\ P_board_corners \in Seq(Board2DCorners(Cams))
      BY DEF TypeInv, TypeOK
    <3>2. PICK j \in DOMAIN Q_board_corners :
            /\ pair.corners_cloud = Q_board_corners[j].corners
            /\ pair.board_id = Q_board_corners[j].board_id
      BY <3>1, MatchResultType
    <3> QED
      BY <2>3, <3>2 DEF CompleteInv, TagsRight
  <2> QED
    BY <2>1, <2>2, <2>3 DEF CompleteInv, CompleteScenePairsRight, TagsRight, BeforeLoop
<1>5. CASE SetData
  <2>1. /\ pc = "set_data" /\ pc' = "calibrate"
        /\ UNCHANGED <<boards, Q_board_corners>>
    BY <1>5 DEF SetData, At, GoTo, cloudVars, matchVars
  <2>2. board_data' = [board_data EXCEPT ![Cam] = result]
    BY <1>5 DEF SetData, SetDataForCalib
  <2>3. \A c \in Cams : board_data'[c] = result \/ board_data'[c] = board_data[c]
    BY <2>2 DEF TypeInv, TypeOK
  <2>4. AllBoardsSeen' <=> AllBoardsSeen
    BY <2>1, SeenKept
  <2> QED
    BY <2>1, <2>3, <2>4 DEF CompleteInv, CompleteScenePairsRight, TagsRight, At, BeforeLoop
<1>6. CASE Relaunch
  <2>1. /\ pc' = "load_template_image" /\ Q_board_corners' = <<>>
        /\ \A c \in Cams : board_data'[c] = {}
    BY <1>6 DEF Relaunch, GoTo, CalibFuncRestart
  <2> QED
    BY <2>1 DEF CompleteInv, CompleteScenePairsRight, TagsRight, At
<1>7. CASE UNCHANGED vars
  <2>1. UNCHANGED <<pc, boards, result, Q_board_corners, board_data>>
    BY <1>7 DEF vars, cloudVars, loopVars, matchVars, calibVars, paramVars
  <2>2. AllBoardsSeen' <=> AllBoardsSeen
    BY <2>1, SeenKept
  <2> QED
    BY <2>1, <2>2 DEF CompleteInv, CompleteScenePairsRight, TagsRight, At
<1> QED
  BY <1>1, <1>2, <1>3, <1>4, <1>5, <1>6, <1>7 DEF Next, StartStep

(* When every board of the scene was registered, at bearings of its own,    *)
(* and the boards hang in the order of marker_order, each pair handed to    *)
(* the solver joins a tag with the board that carries it.                   *)
THEOREM CompleteScene == Spec => []CompleteScenePairsRight
<1>1. Init => TypeInv /\ CompleteInv
  <2>1. Init => /\ pc = "load_template_image" /\ Q_board_corners = <<>>
                /\ \A c \in Cams : board_data[c] = {}
    BY DEF Init, CalibFuncInit
  <2> QED
    BY <2>1, TypeInit DEF CompleteInv, CompleteScenePairsRight, TagsRight, At
<1>2. TypeInv /\ CompleteInv /\ [Next]_vars => TypeInv' /\ CompleteInv'
  BY TypeStep, CompleteStep
<1>3. CompleteInv => CompleteScenePairsRight
  BY DEF CompleteInv
<1> QED
  BY <1>1, <1>2, <1>3, PTL DEF Spec

(***************************************************************************)
(* start() is bounded, and what it solved is written when it returns.      *)
(***************************************************************************)
LEMMA ListLength == TypeInv => Len(calib_list) \in Nat /\ DOMAIN calib_list = 1..Len(calib_list)
BY NodeAssumption DEF TypeInv, TypeOK

LEMMA PositionStep == TypeInv /\ PositionInv /\ [Next]_vars => PositionInv'
<1> SUFFICES ASSUME TypeInv, PositionInv, [Next]_vars PROVE PositionInv'
  OBVIOUS
<1>1. CASE Calibrate
  <2>1. position \in DOMAIN calib_list /\ position' = position + 1 /\ UNCHANGED calib_list
    BY <1>1 DEF TypeInv, CurrentCamera, LoopBody, Calibrate, At, launchVars
  <2> QED
    BY <2>1, ListLength DEF PositionInv
<1>2. CASE Relaunch
  <2>1. position' = 1 /\ calib_list' \in CalibLists
    BY <1>2 DEF Relaunch
  <2> QED
    BY <2>1, NodeAssumption DEF PositionInv
<1>3. CASE UNCHANGED <<position, calib_list>>
  BY <1>3 DEF PositionInv
<1>4. Calibrate \/ Relaunch \/ UNCHANGED <<position, calib_list>>
  BY DEF Next, StartStep, LoadTemplateImage, LoadPcdFile, CheckOrientation, ExtractPoints,
         BoardRegister, SetQ, InitCalib, DetectArucoMarkers, SetP, GetMatchResult, SetData,
         WriteAll, Terminate, launchVars, vars
<1> QED
  BY <1>1, <1>2, <1>3, <1>4

(* Wherever start() is, the count is positive; it is zero at the end.       *)
LEMMA StepsLeftBounds ==
  TypeInv /\ PositionInv =>
    IF Finished THEN StepsLeft = 0 ELSE StepsLeft \in Nat /\ StepsLeft > 0
<1> SUFFICES ASSUME TypeInv, PositionInv
             PROVE  IF Finished THEN StepsLeft = 0 ELSE StepsLeft \in Nat /\ StepsLeft > 0
  OBVIOUS
<1>1. CASE Finished
  BY <1>1 DEF StepsLeft
<1>2. CASE ~Finished /\ pc \in LoopBody
  <2>1. position \in 1..Len(calib_list)
    BY <1>2, ListLength DEF TypeInv, CurrentCamera
  <2>2. CallsAhead[pc] \in 2..5
    BY <1>2 DEF LoopBody, CallsAhead
  <2> QED
    BY <1>2, <2>1, <2>2, ListLength DEF StepsLeft
<1>3. CASE ~Finished /\ pc \notin LoopBody
  <2>1. CallsAhead[pc] \in 6..13
    BY <1>3 DEF Finished, LoopBody, CallsAhead, TypeInv, TypeOK, Steps
  <2>2. position \in Nat /\ position <= Len(calib_list) + 1
    BY DEF TypeInv, TypeOK, PositionInv
  <2> QED
    BY <1>3, <2>1, <2>2, ListLength DEF StepsLeft
<1> QED
  BY <1>1, <1>2, <1>3

LEMMA StartStepDecreases ==
  ASSUME TypeInv, PositionInv, TypeInv', PositionInv', StartStep
  PROVE  StepsLeft' < StepsLeft /\ 0 <= StepsLeft'
<1>1. ~Finished
  BY DEF Finished, StartStep, LoadTemplateImage, LoadPcdFile, CheckOrientation, ExtractPoints,
         BoardRegister, SetQ, InitCalib, DetectArucoMarkers, SetP, GetMatchResult, SetData,
         Calibrate, WriteAll, Terminate, MayTerminate, At
<1>2. StepsLeft \in Nat /\ StepsLeft > 0
  BY <1>1, StepsLeftBounds
<1>3. (IF Finished THEN StepsLeft = 0 ELSE StepsLeft \in Nat /\ StepsLeft > 0)'
  BY StepsLeftBounds, PTL
<1>4. CASE Finished'
  BY <1>2, <1>3, <1>4
<1>5. CASE ~Finished'
  <2>1. /\ StepsLeft = 5 * (Len(calib_list) - position) + CallsAhead[pc]
        /\ StepsLeft' = 5 * (Len(calib_list') - position') + CallsAhead[pc']
    BY <1>1, <1>5 DEF StepsLeft, CallsAhead
  <2>2. Len(calib_list) \in Nat /\ position \in Nat
    BY ListLength DEF TypeInv, TypeOK
  <2>3. CASE Calibrate
    <3>1. /\ pc = "calibrate" /\ pc' = "next_camera"
          /\ position' = position + 1 /\ UNCHANGED calib_list
      BY <2>3 DEF Calibrate, At, GoTo, launchVars
    <3>2. CallsAhead[pc] = 2 /\ CallsAhead[pc'] = 6
      BY <3>1 DEF CallsAhead
    <3> QED
      BY <1>3, <1>5, <2>1, <2>2, <3>1, <3>2
  <2>4. CASE ~Calibrate
    <3>1. UNCHANGED <<position, calib_list>>
      BY <2>4 DEF StartStep, LoadTemplateImage, LoadPcdFile, CheckOrientation, ExtractPoints,
             BoardRegister, SetQ, InitCalib, DetectArucoMarkers, SetP, GetMatchResult, SetData,
             WriteAll, Terminate, launchVars
    <3>2. CallsAhead[pc] \in Nat /\ CallsAhead[pc'] \in Nat /\ CallsAhead[pc'] < CallsAhead[pc]
      BY <1>5, <2>4
         DEF StartStep, LoadTemplateImage, LoadPcdFile, CheckOrientation, ExtractPoints,
             BoardRegister, SetQ, InitCalib, DetectArucoMarkers, SetP, GetMatchResult, SetData,
             WriteAll, Terminate, At, GoTo, Finished, CallsAhead
    <3> QED
      BY <1>3, <1>5, <2>1, <2>2, <3>1, <3>2
  <2> QED
    BY <2>3, <2>4
<1> QED
  BY <1>4, <1>5

(* start() makes at most 8 + 5 n calls for a list of n cameras, whatever    *)
(* they find: what fairness adds is only that each of them returns.         *)
THEOREM BoundedStart == Spec => StartIsBounded
<1>1. Init => TypeInv /\ PositionInv
  <2>1. Init => PositionInv
    BY NodeAssumption DEF Init, PositionInv
  <2> QED
    BY <2>1, TypeInit
<1>2. TypeInv /\ PositionInv /\ [Next]_vars => TypeInv' /\ PositionInv'
  BY TypeStep, PositionStep
<1>3. TypeInv /\ PositionInv /\ TypeInv' /\ PositionInv'
        => [StartStep => StepsLeft' < StepsLeft /\ 0 <= StepsLeft']_vars
  BY StartStepDecreases
<1> QED
  BY <1>1, <1>2, <1>3, PTL DEF Spec, StartIsBounded

LEMMA WrittenStep ==
  TypeInv /\ SolvedInv /\ ReturnedHasWritten /\ [Next]_vars => ReturnedHasWritten'
<1> SUFFICES ASSUME TypeInv, SolvedInv, ReturnedHasWritten, [Next]_vars, pc' = "returned"
             PROVE  \A c \in solved' : extrinsics_file'[c] \in {Absent, camera_params'[c]}
  BY DEF ReturnedHasWritten, At
<1>1. CASE WriteAll
  <2>1. /\ UNCHANGED <<solved, camera_params>>
        /\ extrinsics_file' =
             [c \in Cams |-> IF extrinsics_file[c] = Absent THEN Absent ELSE camera_params[c]]
    BY <1>1 DEF WriteAll, WriteExtrinsics, historyVars, paramVars
  <2> QED
    BY <2>1 DEF TypeInv, TypeOK
<1>2. CASE LoadTemplateImage \/ CheckOrientation
  <2>1. solved' = {}
    BY <1>2 DEF LoadTemplateImage, CheckOrientation, At, historyVars, SolvedInv, BeforeLoop
  <2> QED
    BY <2>1
<1>3. CASE UNCHANGED vars
  BY <1>3 DEF ReturnedHasWritten, At, vars, historyVars, calibVars, paramVars
<1>4. WriteAll \/ LoadTemplateImage \/ CheckOrientation \/ UNCHANGED vars
  BY DEF Next, StartStep, LoadPcdFile, ExtractPoints, BoardRegister, SetQ, InitCalib,
         DetectArucoMarkers, SetP, GetMatchResult, SetData, Calibrate, Terminate, Relaunch, GoTo
<1> QED
  BY <1>1, <1>2, <1>3, <1>4

(* A launch that returns has its accepted solutions in the file: no path to *)
(* the end of start() leaves one in memory only.                            *)
THEOREM SolutionsAreWritten == Spec => []ReturnedHasWritten
<1>1. Init => ReturnedHasWritten
  BY DEF Init, ReturnedHasWritten, At
<1>2. TypeInv /\ SolvedInv /\ ReturnedHasWritten /\ [Next]_vars => ReturnedHasWritten'
  BY WrittenStep
<1> QED
  BY <1>1, <1>2, Invariants, PTL DEF Spec

(***************************************************************************)
(* Cameras without a name are not solved.                                  *)
(***************************************************************************)
QuietForNames ==
  \/ LoadTemplateImage \/ LoadPcdFile \/ CheckOrientation \/ ExtractPoints
  \/ BoardRegister \/ SetQ \/ InitCalib \/ WriteAll \/ Terminate

LEMMA NamedInit == Init => NamedInv
BY DEF Init, CalibFuncInit, NamedInv, LoopBody, OnlyNamedCamerasSolved

LEMMA NamedStep == TypeInv /\ NamedInv /\ [Next]_vars => NamedInv'
<1> SUFFICES ASSUME TypeInv, NamedInv, [Next]_vars PROVE NamedInv'
  OBVIOUS
<1> USE DEF NamedInv, OnlyNamedCamerasSolved, At
<1>1. UNCHANGED camera_group => KnownToDetAruco' = KnownToDetAruco
  BY DEF KnownToDetAruco, CameraIds
<1>2. CASE QuietForNames
  <2>1. /\ pc' \notin LoopBody
        /\ UNCHANGED <<camera_group, cam_id_name_map, board_data, solved>>
    BY <1>2 DEF QuietForNames, LoadTemplateImage, LoadPcdFile, CheckOrientation, ExtractPoints,
           BoardRegister, SetQ, InitCalib, InitCalibFunc, WriteAll, WriteExtrinsics, Terminate,
           GoTo, LoopBody, launchVars, historyVars, calibVars, paramVars
  <2> QED
    BY <1>1, <2>1
<1>3. CASE DetectArucoMarkers
  <2>1. /\ pc' = "set_P" /\ Cam' = Cam
        /\ UNCHANGED <<camera_group, cam_id_name_map, board_data, solved>>
        /\ Cam \notin cam_id_name_map => aruco_info' = <<>>
    BY <1>3 DEF DetectArucoMarkers, GoTo, Cam, launchVars, historyVars, calibVars, paramVars
  <2> QED
    BY <1>1, <2>1
<1>4. CASE SetP
  <2>1. /\ pc = "set_P" /\ pc' = "match" /\ Cam' = Cam
        /\ UNCHANGED <<camera_group, cam_id_name_map, board_data, solved>>
    BY <1>4 DEF SetP, GoTo, Cam, launchVars, calibVars, paramVars
  <2>2. aruco_info = <<>> => P_board_corners' = <<>>
    BY <1>4, MarkerAssumption DEF SetP, SetBoardArucoCenters_P, Accepts
  <2> QED
    BY <1>1, <2>1, <2>2 DEF LoopBody
<1>5. CASE GetMatchResult
  <2>1. /\ pc = "match" /\ pc' = "set_data" /\ Cam' = Cam
        /\ UNCHANGED <<camera_group, cam_id_name_map, board_data, solved>>
    BY <1>5 DEF GetMatchResult, GoTo, Cam, launchVars, historyVars, calibVars, paramVars
  <2>2. P_board_corners = <<>> => result' = {}
    BY <1>5 DEF GetMatchResult, MatchResult
  <2> QED
    BY <1>1, <2>1, <2>2 DEF LoopBody
<1>6. CASE SetData
  <2>1. /\ pc = "set_data" /\ pc' = "calibrate"
        /\ UNCHANGED <<camera_group, cam_id_name_map, solved>>
        /\ board_data' = [board_data EXCEPT ![Cam] = result]
    BY <1>6 DEF SetData, SetDataForCalib, GoTo, launchVars, historyVars
  <2>2. \A c \in Cams : board_data'[c] = IF c = Cam THEN result ELSE board_data[c]
    BY <2>1 DEF TypeInv, TypeOK
  <2> QED
    BY <1>1, <2>1, <2>2 DEF LoopBody
<1>7. CASE Calibrate
  <2>1. /\ pc' = "next_camera" /\ Cam \in Cams
        /\ UNCHANGED <<camera_group, cam_id_name_map, board_data>>
    BY <1>7 DEF Calibrate, CalibrationSucceeds, CalibrationFails, GoTo, launchVars, paramVars,
           TypeInv, CurrentCamera, LoopBody
  <2>2. solved' = solved \/ (solved' = solved \cup {Cam} /\ board_data[Cam] # {})
    BY <1>7 DEF Calibrate, CalibrationSucceeds
  <2> QED
    BY <1>1, <2>1, <2>2 DEF LoopBody
<1>8. CASE Relaunch
  <2>1. /\ pc' = "load_template_image" /\ cam_id_name_map' = KnownToDetAruco'
        /\ solved' = {} /\ board_data' = [c \in Cams |-> {}]
    BY <1>8 DEF Relaunch, GoTo, CalibFuncRestart
  <2> QED
    BY <2>1 DEF LoopBody
<1>9. CASE UNCHANGED vars
  BY <1>1, <1>9 DEF Cam, vars, launchVars, loopVars, historyVars, matchVars, calibVars, paramVars
<1> QED
  BY <1>2, <1>3, <1>4, <1>5, <1>6, <1>7, <1>8, <1>9 DEF Next, StartStep, QuietForNames

(* No camera is solved that the detector has no image for, in particular    *)
(* not on corners that another camera left behind in the singleton.         *)
THEOREM NamedSolved == Spec => []OnlyNamedCamerasSolved
<1>1. TypeInv /\ NamedInv /\ [Next]_vars => TypeInv' /\ NamedInv'
  BY TypeStep, NamedStep
<1>2. NamedInv => OnlyNamedCamerasSolved
  BY DEF NamedInv
<1> QED
  BY <1>1, <1>2, TypeInit, NamedInit, PTL DEF Spec

(* A launch with a single camera configured, which init_DetAruco takes for  *)
(* lists that differ in length, calibrates nothing: the extrinsics file     *)
(* stays as it is, whatever launches came before.                           *)
THEOREM SingleCameraChangesNothing ==
  Spec => [][Cardinality(CameraIds) = 1 => UNCHANGED extrinsics_file]_vars
<1>1. TypeInv /\ SolvedInv /\ NamedInv /\ [Next]_vars =>
        [Cardinality(CameraIds) = 1 => UNCHANGED extrinsics_file]_vars
  <2> SUFFICES ASSUME TypeInv, SolvedInv, NamedInv, [Next]_vars, Cardinality(CameraIds) = 1
               PROVE  UNCHANGED extrinsics_file
    OBVIOUS
  <2>1. KnownToDetAruco = {}
    BY DEF KnownToDetAruco
  <2>2. solved = {}
    BY <2>1 DEF NamedInv, OnlyNamedCamerasSolved
  <2>3. \A c \in Cams : extrinsics_file'[c] = extrinsics_file[c]
    BY <2>2, FileChangeIsWrite DEF SolvedOnly
  <2>4. /\ extrinsics_file \in [Cams -> Poses \cup {Absent}]
        /\ extrinsics_file' \in [Cams -> Poses \cup {Absent}]
    BY TypeStep DEF TypeInv, TypeOK, CalibTypeOK
  <2> QED
    BY <2>3, <2>4
<1>2. TypeInv /\ NamedInv /\ [Next]_vars => TypeInv' /\ NamedInv'
  BY TypeStep, NamedStep
<1> QED
  BY <1>1, <1>2, TypeInit, NamedInit, Invariants, PTL DEF Spec

(***************************************************************************)
(* Matching is a join by id.                                               *)
(***************************************************************************)
LEMMA DistinctQStep ==
  ASSUME TypeInv, DistinctQIds, LongOrder, DistinctOrder, [Next]_vars
  PROVE  DistinctQIds'
<1>1. CASE UNCHANGED Q_board_corners \/ Q_board_corners' = <<>>
  BY <1>1 DEF DistinctQIds
<1>2. CASE SetQ
  <2>1. CASE Len(boards) = MarkerNum
    <3>1. PICK stray \in StrayIds : Q_board_corners' = FilledQ(boards, stray)
      BY <1>2, <2>1 DEF SetQ, SetBoardPointCloudCenters_Q
    <3>2. boards \in Seq(BoardCloudCorners) /\ Len(boards) <= Len(MarkerOrder)
      BY <2>1 DEF TypeInv, TypeOK, LongOrder
    <3>3. DOMAIN FilledQ(boards, stray) = DOMAIN boards
      BY DEF FilledQ
    <3> QED
      BY <3>1, <3>2, <3>3, FilledQDistinct DEF DistinctQIds
  <2>2. CASE Len(boards) # MarkerNum
    BY <1>1, <1>2, <2>2 DEF SetQ, SetBoardPointCloudCenters_Q
  <2> QED
    BY <2>1, <2>2
<1>3. SetQ \/ UNCHANGED Q_board_corners \/ Q_board_corners' = <<>>
  BY DEF Next, StartStep, LoadTemplateImage, LoadPcdFile, CheckOrientation, ExtractPoints,
         BoardRegister, InitCalib, DetectArucoMarkers, SetP, GetMatchResult, SetData,
         Calibrate, WriteAll, Terminate, Relaunch, matchVars, vars
<1> QED
  BY <1>1, <1>2, <1>3

(* With a marker_order of enough, distinct ids, getMatchResult called at    *)
(* any moment pairs every image board with every lidar board of its id, and *)
(* no others: the optimal assignment that the readme speaks of has nothing  *)
(* to choose.                                                              *)
THEOREM MatchingIsJoin ==
  ASSUME LongOrder, DistinctOrder
  PROVE  Spec => []JoinsById
<1>1. Init => TypeInv /\ DistinctQIds
  <2>1. Init => DistinctQIds
    BY DEF Init, DistinctQIds
  <2> QED
    BY <2>1, TypeInit
<1>2. TypeInv /\ DistinctQIds /\ [Next]_vars => TypeInv' /\ DistinctQIds'
  BY TypeStep, DistinctQStep
<1>3. TypeInv /\ DistinctQIds => JoinsById
  BY MatchIsJoin DEF TypeInv, TypeOK
<1> QED
  BY <1>1, <1>2, <1>3, PTL DEF Spec
=============================================================================
