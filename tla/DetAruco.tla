------------------------------ MODULE DetAruco ------------------------------
(***************************************************************************)
(* DetAruco::detectArucoMarkers (src/detaruco.cpp): the tags in one        *)
(* camera's image and, around each, the three round anchors of its board,  *)
(* whose directions from their common centre decide which corner each is.  *)
(*                                                                         *)
(* Points are in pixels, x to the right and y down.  A board's corners are *)
(* named as the code names them, mirrored: left_top is the right one in    *)
(* the image.  The fourth corner is the tag's own and always right.        *)
(***************************************************************************)
EXTENDS Integers, Sequences, FiniteSets

CONSTANTS
  Ids,       \* marker ids
  Sightings, \* tag sequences the marker detector may report
  NoCorners  \* the corners of a board that was not computed: zero

Point   == [x : Int, y : Int]
Corners == [left_top : Point, right_top : Point, right_bottom : Point, left_bottom : Point]
Box     == [at : Point, score : Int]
Tag     == [board_id : Ids, true : Corners, boxes : SUBSET Box]

ASSUME SightingsAssumption ==
  /\ Sightings \subseteq Seq(Tag)
  /\ NoCorners \notin Corners
  /\ \A tags \in Sightings : \A i \in DOMAIN tags : IsFiniteSet(tags[i].boxes)

VARIABLES
  pc,        \* the step that comes next
  markers,   \* what the marker detector reported
  boards_2d, \* the boards of the result
  i,         \* index of the loop over the tags
  res        \* the boxes of the current tag

vars == <<pc, markers, boards_2d, i, res>>

Board2D == [board_id : Ids \cup {NoCorners}, corners : Corners \cup {NoCorners}]
Blank   == [board_id |-> NoCorners, corners |-> NoCorners]

Steps == {"detect", "anchors", "keep", "corners", "returned", "thrown"}

TypeOK ==
  /\ pc \in Steps
  /\ markers \in Seq(Tag)
  /\ boards_2d \in Seq(Board2D)
  /\ DOMAIN boards_2d = DOMAIN markers
  /\ i \in Nat \ {0}
  /\ res \in SUBSET Box
  /\ pc \in {"keep", "corners"} => i \in DOMAIN markers

Init ==
  /\ pc = "detect"
  /\ markers = <<>> /\ boards_2d = <<>>
  /\ i = 1
  /\ res = {}

At(step) == pc = step
GoTo(step) == pc' = step

(* Without a detector, a name for the camera or its image: no tags. *)
DetectMarkers ==
  /\ At("detect")
  /\ GoTo("anchors")
  /\ markers' \in Sightings \cup {<<>>}
  /\ boards_2d' = [k \in DOMAIN markers' |-> Blank]
  /\ UNCHANGED <<i, res>>

RunSession ==
  /\ At("anchors") /\ i \in DOMAIN markers
  /\ GoTo("keep")
  /\ res' = markers[i].boxes
  /\ UNCHANGED <<markers, boards_2d, i>>

(* An empty image region, or a failing inference, throws through start(). *)
Throw ==
  /\ At("anchors") /\ i \in DOMAIN markers
  /\ GoTo("thrown")
  /\ UNCHANGED <<markers, boards_2d, i, res>>

(***************************************************************************)
(* keepTop3ByScore.  The score is area times confidence; equal scores are  *)
(* ordered anyhow.                                                         *)
(***************************************************************************)

(* Mutation: the score is not looked at. *)
AnyThree(boxes) == {kept \in SUBSET boxes : Cardinality(kept) = 3}

BestThree(boxes) ==
  {kept \in SUBSET boxes :
     /\ Cardinality(kept) = 3
     /\ \A in \in kept, out \in boxes \ kept : in.score >= out.score}

KeepTop3ByScore ==
  /\ At("keep")
  /\ GoTo("corners")
  /\ IF Cardinality(res) <= 3 THEN UNCHANGED res ELSE res' \in BestThree(res)
  /\ UNCHANGED <<markers, boards_2d, i>>

(***************************************************************************)
(* The direction from the centre of three points to one of them, times     *)
(* three; its angle in [0, 2 pi) is compared by the half plane and by the  *)
(* cross product.                                                          *)
(***************************************************************************)
Vec(p, k) ==
  [x |-> 3 * p[k].x - (p[1].x + p[2].x + p[3].x),
   y |-> 3 * p[k].y - (p[1].y + p[2].y + p[3].y)]

Cross(v, w) == v.x * w.y - v.y * w.x

(* Mutation: the angle stays as atan2 gives it, in (-pi, pi]. *)
SecondHalfRaw(v) == ~(v.y < 0 \/ (v.y = 0 /\ v.x < 0))

SecondHalf(v) == v.y < 0 \/ (v.y = 0 /\ v.x < 0)

AngleLess(v, w) ==
  \/ ~SecondHalf(v) /\ SecondHalf(w)
  \/ (SecondHalf(v) <=> SecondHalf(w)) /\ Cross(v, w) > 0

(* Mutation: ascending, as the comment above the sort says. *)
AscendingAngles(p) ==
  \A j, k \in 1..3 : j < k => ~AngleLess(Vec(p, k), Vec(p, j))

DescendingAngles(p) ==
  \A j, k \in 1..3 : j < k => ~AngleLess(Vec(p, j), Vec(p, k))

(* The anchors in the order of std::sort, which is free for equal angles. *)
Sorted(boxes) ==
  {p \in [1..3 -> {box.at : box \in boxes}] :
     /\ \E from \in [1..3 -> boxes] :
          /\ \A j, k \in 1..3 : from[j] = from[k] => j = k
          /\ \A k \in 1..3 : p[k] = from[k].at
     /\ DescendingAngles(p)}

Named(p, own) ==
  [left_top |-> p[1], right_top |-> p[2], right_bottom |-> p[3], left_bottom |-> own]

CornersFound ==
  IF Cardinality(res) = 3
  THEN {Named(p, markers[i].true.left_bottom) : p \in Sorted(res)}
  ELSE {NoCorners}

Board(found) == [board_id |-> markers[i].board_id, corners |-> found]

(* Mutation: a tag without its three anchors is left out. *)
ComputeOrSkip ==
  /\ At("corners")
  /\ GoTo("anchors")
  /\ \E found \in CornersFound :
       boards_2d' = IF found = NoCorners THEN boards_2d
                    ELSE [boards_2d EXCEPT ![i] = Board(found)]
  /\ i' = i + 1
  /\ UNCHANGED <<markers, res>>

ComputeCorners ==
  /\ At("corners")
  /\ GoTo("anchors")
  /\ \E found \in CornersFound :
       boards_2d' = [boards_2d EXCEPT ![i] = Board(found)]
  /\ i' = i + 1
  /\ UNCHANGED <<markers, res>>

Return ==
  /\ At("anchors") /\ i \notin DOMAIN markers
  /\ GoTo("returned")
  /\ UNCHANGED <<markers, boards_2d, i, res>>

Next ==
  \/ DetectMarkers \/ RunSession \/ Throw \/ KeepTop3ByScore
  \/ ComputeCorners \/ Return

Spec == Init /\ [][Next]_vars

(***************************************************************************)
(* Properties.                                                             *)
(***************************************************************************)
Done(k) == k \in DOMAIN boards_2d /\ k < i

Anchors(corners) == <<corners.left_top, corners.right_top, corners.right_bottom>>

Clockwise(p) == Cross(Vec(p, 3), Vec(p, 2)) > 0

(* The anchors were found, and every other box has a lower score. *)
Outranks(tag) ==
  \E best \in SUBSET tag.boxes :
    /\ Cardinality(best) = 3
    /\ {box.at : box \in best} = {Anchors(tag.true)[k] : k \in 1..3}
    /\ \A in \in best, out \in tag.boxes \ best : in.score > out.score

(* Hung so that the first anchor is above their centre and the last below. *)
Upright(tag) ==
  /\ Clockwise(Anchors(tag.true))
  /\ Vec(Anchors(tag.true), 1).y < 0
  /\ Vec(Anchors(tag.true), 3).y > 0

(* A board that hangs upright gets exactly its own corners, in whatever     *)
(* order its anchors were detected, whatever weaker boxes were found near  *)
(* it, and whatever happened to the other tags of the image.               *)
UprightIsExact ==
  \A k \in DOMAIN boards_2d :
    Done(k) /\ Outranks(markers[k]) /\ Upright(markers[k])
      => boards_2d[k].corners = markers[k].true

(* However a board is tilted, its anchors are never mirrored: they are      *)
(* taken round it in the right direction, at worst from the wrong one on.   *)
NeverMirrored ==
  \A k \in DOMAIN boards_2d :
    Done(k) /\ Outranks(markers[k]) /\ Clockwise(Anchors(markers[k].true))
      => LET p == Anchors(markers[k].true) IN
           Anchors(boards_2d[k].corners) \in
             {<<p[1], p[2], p[3]>>, <<p[2], p[3], p[1]>>, <<p[3], p[1], p[2]>>}

(* The result has an entry under the id of each tag of the image, in their  *)
(* order, whether its corners could be computed or not: the matcher counts  *)
(* them to decide whether the camera can be registered.                    *)
EveryTagReported ==
  At("returned") =>
    /\ Len(boards_2d) = Len(markers)
    /\ \A k \in DOMAIN markers : boards_2d[k].board_id = markers[k].board_id
=============================================================================
