---------------------------- MODULE CornersMatch ----------------------------
(***************************************************************************)
(* CornersMatch (src/cornersmatch.cpp): the singleton that pairs the       *)
(* calibration boards a camera sees (P, from the ArUco tags) with the      *)
(* boards the lidar sees (Q, from the point cloud).                        *)
(*                                                                         *)
(* A lidar board's corners are abstracted to the point-cloud cluster they  *)
(* were measured on, or NoCorners where registration left the structure at *)
(* zero.  An image board keeps its tag id, the camera whose image it comes *)
(* from, and whether its four corners were computed.                       *)
(***************************************************************************)
EXTENDS Integers, Sequences, FiniteSets

CONSTANTS
  Clusters,    \* board-sized planes of the scene
  NoCorners,   \* a board whose 3D corners were never filled in: all zero
  Bearing,     \* [Clusters -> 0..359]: angle of a centre from the -X axis
  MarkerNum,   \* parameter marker_num
  MarkerOrder, \* parameter marker_order: tag ids in bearing order
  StrayIds     \* the values a read past the end of marker_order may return

ASSUME BearingAssumption ==
  /\ NoCorners \notin Clusters
  /\ Bearing \in [Clusters -> 0..359]

ASSUME MarkerAssumption ==
  /\ MarkerNum \in Nat
  /\ MarkerOrder \in Seq(Int)
  /\ StrayIds \subseteq Int
  /\ StrayIds # {}

VARIABLES
  Q_board_corners,  \* lidar boards in bearing order, with their tag ids
  P_board_corners   \* image boards of the camera being calibrated

matchVars == <<Q_board_corners, P_board_corners>>

(***************************************************************************)
(* The structures of include/base_struct.h.                                *)
(***************************************************************************)
Corners3D == Clusters \cup {NoCorners}
Board2DCorners(Ids) == [board_id : Int, cam : Ids, detected : BOOLEAN]
BoardCloudCorners   == [board_id : Int, corners : Corners3D]
BoardInfo(Ids) ==
  [board_id : Int, corners_2d : Board2DCorners(Ids), corners_cloud : Corners3D]

(* A centre left at (0,0,0) is read as atan2(0, -0) = pi. *)
Angle(board) ==
  IF board.corners = NoCorners THEN 180 ELSE Bearing[board.corners]

(* Mutation: the pairs are sorted by index alone. *)
SortsBeforeByIndex(boards, i, j) == i < j

(* std::sort of the pairs (angle, index): index i comes before index j. *)
SortsBefore(boards, i, j) ==
  \/ Angle(boards[i]) < Angle(boards[j])
  \/ Angle(boards[i]) = Angle(boards[j]) /\ i < j

SortedIndex(boards) ==
  [k \in DOMAIN boards |->
     CHOOSE i \in DOMAIN boards :
       Cardinality({j \in DOMAIN boards : SortsBefore(boards, j, i)}) = k - 1]

(* marker_order[k] is read before the check that k is in range. *)
OrderedId(k, stray) == IF k \in DOMAIN MarkerOrder THEN MarkerOrder[k] ELSE stray

(* The label written back to the board, which the check does guard. *)
LabelOf(k) == IF k \in DOMAIN MarkerOrder THEN MarkerOrder[k] ELSE -1

(***************************************************************************)
(* setBoardPointCloudCenters_Q: Q is cleared, and filled only when the     *)
(* number of boards is the configured one; every board takes part in the   *)
(* sort, the ones without corners too.  The ids are written both to Q and, *)
(* through the reference, to boards.                                       *)
(***************************************************************************)
FilledQ(boards, stray) ==
  LET sorted == SortedIndex(boards)
  IN  [k \in DOMAIN boards |->
         [board_id |-> OrderedId(k, stray), corners |-> boards[sorted[k]].corners]]

(* Mutation: labels are written by position in boards, not by rank. *)
LabelledInPlace(boards) ==
  [i \in DOMAIN boards |-> [boards[i] EXCEPT !.board_id = LabelOf(i)]]

Labelled(boards) ==
  LET sorted == SortedIndex(boards)
  IN  [i \in DOMAIN boards |->
         [boards[i] EXCEPT !.board_id =
            LabelOf(CHOOSE k \in DOMAIN boards : sorted[k] = i)]]

SetBoardPointCloudCenters_Q(boards, boardsNext) ==
  \/ /\ Len(boards) = MarkerNum
     /\ \E stray \in StrayIds : Q_board_corners' = FilledQ(boards, stray)
     /\ boardsNext = Labelled(boards)
  \/ /\ Len(boards) # MarkerNum
     /\ Q_board_corners' = <<>>
     /\ boardsNext = boards

(***************************************************************************)
(* setBoardArucoCenters_P: a camera that reports more tags than marker_num *)
(* is refused, and then P is left as it was.                               *)
(***************************************************************************)
Accepts(boards_2d) == Len(boards_2d) <= MarkerNum

(* Mutation: P is not cleared before the tags are added. *)
AppendBoardArucoCenters_P(boards_2d) ==
  P_board_corners' =
    IF Accepts(boards_2d) THEN P_board_corners \o boards_2d ELSE P_board_corners

SetBoardArucoCenters_P(boards_2d) ==
  P_board_corners' = IF Accepts(boards_2d) THEN boards_2d ELSE P_board_corners

(***************************************************************************)
(* getMatchResult: each image board is paired with the first lidar board   *)
(* of the same id; neither side's validity is consulted.                   *)
(***************************************************************************)
WithId(id) == {j \in DOMAIN Q_board_corners : Q_board_corners[j].board_id = id}

FirstWithId(id) ==
  Q_board_corners[CHOOSE j \in WithId(id) : \A k \in WithId(id) : j <= k]

MatchResult ==
  {[board_id      |-> P_board_corners[i].board_id,
    corners_2d    |-> P_board_corners[i],
    corners_cloud |-> FirstWithId(P_board_corners[i].board_id).corners] :
      i \in {n \in DOMAIN P_board_corners :
               WithId(P_board_corners[n].board_id) # {}}}
=============================================================================
