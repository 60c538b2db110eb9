--------------------------- MODULE DetArucoProofs ---------------------------
(***************************************************************************)
(* Proofs about DetAruco, for any images: any number of tags, any boxes    *)
(* around them, boards of any size, shape and tilt.                        *)
(***************************************************************************)
EXTENDS DetAruco, FiniteSetTheorems, TLAPS

-----------------------------------------------------------------------------
(***************************************************************************)
(* The order of the anchors.                                               *)
(***************************************************************************)

(* A descending order has no two steps in the ascending sense of rotation:  *)
(* each would have to pass from the second half plane to the first.        *)
LEMMA NoTwoAscents ==
  ASSUME NEW p, DescendingAngles(p),
         Cross(Vec(p, 1), Vec(p, 2)) > 0, Cross(Vec(p, 2), Vec(p, 3)) > 0
  PROVE  FALSE
<1>1. ~AngleLess(Vec(p, 1), Vec(p, 2)) /\ ~AngleLess(Vec(p, 2), Vec(p, 3))
  BY DEF DescendingAngles
<1>2. SecondHalf(Vec(p, 1)) /\ ~SecondHalf(Vec(p, 2))
  BY <1>1, Zenon DEF AngleLess
<1>3. SecondHalf(Vec(p, 2)) /\ ~SecondHalf(Vec(p, 3))
  BY <1>1, Zenon DEF AngleLess
<1> QED
  BY <1>2, <1>3

LEMMA VecType ==
  ASSUME NEW p \in [1..3 -> Point]
  PROVE  /\ \A k \in 1..3 : Vec(p, k).x \in Int /\ Vec(p, k).y \in Int
         /\ Vec(p, 1).x + Vec(p, 2).x + Vec(p, 3).x = 0
         /\ Vec(p, 1).y + Vec(p, 2).y + Vec(p, 3).y = 0
<1>1. \A k \in 1..3 : p[k] \in Point
  OBVIOUS
<1>2. \A k \in 1..3 : p[k].x \in Int /\ p[k].y \in Int
  BY <1>1 DEF Point
<1> QED
  BY <1>2 DEF Vec

(* A triangle taken clockwise turns the same way at each of its corners,   *)
(* since its three directions from the centre sum to zero.                 *)
LEMMA ClockwiseAllRound ==
  ASSUME NEW p \in [1..3 -> Point], Clockwise(p)
  PROVE  /\ Cross(Vec(p, 3), Vec(p, 2)) > 0
         /\ Cross(Vec(p, 2), Vec(p, 1)) > 0
         /\ Cross(Vec(p, 1), Vec(p, 3)) > 0
<1>0. /\ Vec(p, 1).x \in Int /\ Vec(p, 2).x \in Int /\ Vec(p, 3).x \in Int
      /\ Vec(p, 1).y \in Int /\ Vec(p, 2).y \in Int /\ Vec(p, 3).y \in Int
      /\ Vec(p, 1).x + Vec(p, 2).x + Vec(p, 3).x = 0
      /\ Vec(p, 1).y + Vec(p, 2).y + Vec(p, 3).y = 0
  BY VecType
<1>1. PICK x1, y1, x2, y2, x3, y3 \in Int :
        /\ x1 = Vec(p, 1).x /\ x2 = Vec(p, 2).x /\ x3 = Vec(p, 3).x
        /\ y1 = Vec(p, 1).y /\ y2 = Vec(p, 2).y /\ y3 = Vec(p, 3).y
        /\ x1 + x2 + x3 = 0 /\ y1 + y2 + y3 = 0
  BY <1>0, Zenon
<1>2. x3 * y2 - y3 * x2 > 0
  BY <1>1 DEF Clockwise, Cross
<1>3. /\ x3 * y2 - y3 * x2 = x2 * y1 - y2 * x1
      /\ x3 * y2 - y3 * x2 = x1 * y3 - y1 * x3
  <2>0. x1 + x2 + x3 = 0 /\ y1 + y2 + y3 = 0
    BY <1>1, Zenon
  <2>1. x3 = -x1 - x2 /\ y3 = -y1 - y2
    BY <2>0
  <2>2. x3 * y2 = -(x1 * y2) - x2 * y2 /\ y3 * x2 = -(y1 * x2) - y2 * x2
    BY <2>1
  <2>3. x1 * y3 = -(x1 * y1) - x1 * y2 /\ y1 * x3 = -(y1 * x1) - y1 * x2
    BY <2>1
  <2>4. x2 * y2 = y2 * x2 /\ x1 * y1 = y1 * x1 /\ x2 * y1 = y1 * x2 /\ x1 * y2 = y2 * x1
    OBVIOUS
  <2>5. /\ x1 * y1 \in Int /\ x1 * y2 \in Int /\ x2 * y1 \in Int /\ x2 * y2 \in Int
        /\ x3 * y2 \in Int /\ y3 * x2 \in Int /\ x1 * y3 \in Int /\ y1 * x3 \in Int
    OBVIOUS
  <2> QED
    BY <2>2, <2>3, <2>4, <2>5
<1>4. x2 * y1 - y2 * x1 > 0 /\ x1 * y3 - y1 * x3 > 0
  BY <1>2, <1>3, Zenon
<1> QED
  BY <1>1, <1>2, <1>4 DEF Cross

(* The same three points in another order have the same directions.        *)
LEMMA VecOfPermutation ==
  ASSUME NEW p \in [1..3 -> Point], NEW q \in [1..3 -> Point],
         NEW a \in 1..3, NEW b \in 1..3, NEW c \in 1..3,
         a # b, b # c, a # c,
         q[1] = p[a], q[2] = p[b], q[3] = p[c]
  PROVE  Vec(q, 1) = Vec(p, a) /\ Vec(q, 2) = Vec(p, b) /\ Vec(q, 3) = Vec(p, c)
<1>1. \A k \in 1..3 : p[k] \in Point /\ q[k] \in Point
  OBVIOUS
<1>2. \A k \in 1..3 : p[k].x \in Int /\ p[k].y \in Int /\ q[k].x \in Int /\ q[k].y \in Int
  BY <1>1 DEF Point
<1>3. /\ q[1].x + q[2].x + q[3].x = p[1].x + p[2].x + p[3].x
      /\ q[1].y + q[2].y + q[3].y = p[1].y + p[2].y + p[3].y
  BY <1>2
<1> QED
  BY <1>2, <1>3 DEF Vec

(* The descending order of a clockwise triangle is a rotation of it, ...   *)
LEMMA DescendingIsRotation ==
  ASSUME NEW p \in [1..3 -> Point], Clockwise(p),
         NEW q \in [1..3 -> Point], DescendingAngles(q),
         NEW a \in 1..3, NEW b \in 1..3, NEW c \in 1..3,
         a # b, b # c, a # c,
         q[1] = p[a], q[2] = p[b], q[3] = p[c]
  PROVE  \/ a = 1 /\ b = 2 /\ c = 3
         \/ a = 2 /\ b = 3 /\ c = 1
         \/ a = 3 /\ b = 1 /\ c = 2
<1>1. Vec(q, 1) = Vec(p, a) /\ Vec(q, 2) = Vec(p, b) /\ Vec(q, 3) = Vec(p, c)
  BY VecOfPermutation
<1>2. ~(Cross(Vec(p, a), Vec(p, b)) > 0 /\ Cross(Vec(p, b), Vec(p, c)) > 0)
  BY <1>1, NoTwoAscents
<1>3. ~(a = 1 /\ b = 3 /\ c = 2)
  BY <1>2, ClockwiseAllRound
<1>4. ~(a = 3 /\ b = 2 /\ c = 1)
  BY <1>2, ClockwiseAllRound
<1>5. ~(a = 2 /\ b = 1 /\ c = 3)
  BY <1>2, ClockwiseAllRound
<1> QED
  BY <1>3, <1>4, <1>5

(* ... and begins with the first corner if that one is above the centre    *)
(* and the last below it.                                                  *)
LEMMA UprightOrder ==
  ASSUME NEW p \in [1..3 -> Point], Clockwise(p),
         Vec(p, 1).y < 0, Vec(p, 3).y > 0,
         NEW q \in [1..3 -> Point], DescendingAngles(q),
         NEW a \in 1..3, NEW b \in 1..3, NEW c \in 1..3,
         a # b, b # c, a # c,
         q[1] = p[a], q[2] = p[b], q[3] = p[c]
  PROVE  a = 1 /\ b = 2 /\ c = 3
<1>1. Vec(q, 1) = Vec(p, a) /\ Vec(q, 2) = Vec(p, b) /\ Vec(q, 3) = Vec(p, c)
  BY VecOfPermutation
<1>2. AngleLess(Vec(p, 3), Vec(p, 1))
  <2>1. SecondHalf(Vec(p, 1)) /\ ~SecondHalf(Vec(p, 3))
    BY VecType DEF SecondHalf
  <2> QED
    BY <2>1, Zenon DEF AngleLess
<1>3. ~AngleLess(Vec(q, 1), Vec(q, 2)) /\ ~AngleLess(Vec(q, 2), Vec(q, 3))
  BY DEF DescendingAngles
<1>4. ~(a = 3 /\ b = 1) /\ ~(b = 3 /\ c = 1)
  BY <1>1, <1>2, <1>3
<1> QED
  BY <1>4, DescendingIsRotation

-----------------------------------------------------------------------------
(***************************************************************************)
(* One tag: the boxes that are kept, and the corners they give.            *)
(***************************************************************************)

KeptOf(boxes) == (IF Cardinality(boxes) <= 3 THEN {boxes} ELSE {}) \cup BestThree(boxes)

CornersOf(tag, kept) ==
  IF Cardinality(kept) = 3
  THEN {Named(p, tag.true.left_bottom) : p \in Sorted(kept)}
  ELSE {NoCorners}

LEMMA SameSize ==
  ASSUME NEW S, IsFiniteSet(S), NEW T, IsFiniteSet(T), Cardinality(S) = Cardinality(T), S # T
  PROVE  (\E x \in S : x \notin T) /\ (\E y \in T : y \notin S)
<1>1. ~(S \subseteq T)
  BY FS_Subset
<1>2. ~(T \subseteq S)
  BY FS_Subset
<1> QED
  BY <1>1, <1>2

(* The anchors are kept if they outrank what else was found.               *)
LEMMA AnchorsAreKept ==
  ASSUME NEW tag \in Tag, IsFiniteSet(tag.boxes), Outranks(tag),
         NEW kept \in KeptOf(tag.boxes)
  PROVE  /\ kept \subseteq tag.boxes
         /\ IsFiniteSet(kept)
         /\ Cardinality(kept) = 3
         /\ {box.at : box \in kept} = {Anchors(tag.true)[k] : k \in 1..3}
<1>1. PICK best \in SUBSET tag.boxes :
        /\ Cardinality(best) = 3
        /\ {box.at : box \in best} = {Anchors(tag.true)[k] : k \in 1..3}
        /\ \A in \in best, out \in tag.boxes \ best : in.score > out.score
  BY DEF Outranks
<1>2. IsFiniteSet(best)
  BY FS_Subset
<1>3. CASE kept = tag.boxes /\ Cardinality(tag.boxes) <= 3
  <2>1. Cardinality(best) <= Cardinality(tag.boxes) /\ Cardinality(tag.boxes) \in Nat
    BY FS_Subset, FS_CardinalityType
  <2>2. Cardinality(tag.boxes) = 3
    BY <1>1, <1>3, <2>1
  <2>3. best = tag.boxes
    BY <1>1, <2>2, FS_Subset
  <2> QED
    BY <1>1, <1>2, <1>3, <2>3
<1>4. CASE kept \in BestThree(tag.boxes)
  <2>1. /\ kept \subseteq tag.boxes /\ Cardinality(kept) = 3
        /\ \A in \in kept, out \in tag.boxes \ kept : in.score >= out.score
    BY <1>4 DEF BestThree
  <2>2. IsFiniteSet(kept)
    BY <2>1, FS_Subset
  <2>3. kept = best
    <3> SUFFICES ASSUME kept # best PROVE FALSE
      OBVIOUS
    <3>1. PICK x \in kept : x \notin best
      BY <1>1, <1>2, <2>1, <2>2, SameSize
    <3>2. PICK y \in best : y \notin kept
      BY <1>1, <1>2, <2>1, <2>2, SameSize
    <3>3. x \in tag.boxes /\ y \in tag.boxes
      BY <1>1, <2>1, <3>1, <3>2
    <3>4. x.score >= y.score
      BY <2>1, <3>1, <3>2, <3>3
    <3>5. y.score > x.score
      BY <1>1, <3>1, <3>2, <3>3
    <3>6. tag.boxes \subseteq Box
      BY DEF Tag
    <3>7. x.score \in Int /\ y.score \in Int
      BY <3>3, <3>6 DEF Box
    <3> QED
      BY <3>4, <3>5, <3>7
  <2> QED
    BY <1>1, <1>2, <2>3
<1> QED
  BY <1>3, <1>4 DEF KeptOf

LEMMA AnchorsType ==
  ASSUME NEW corners \in Corners
  PROVE  Anchors(corners) \in [1..3 -> Point]
<1>1. corners.left_top \in Point /\ corners.right_top \in Point /\ corners.right_bottom \in Point
  BY DEF Corners
<1> QED
  BY <1>1 DEF Anchors

(* Sorting three boxes puts their three points in some order.              *)
LEMMA SortedIsPermutation ==
  ASSUME NEW boxes, boxes \subseteq Box, IsFiniteSet(boxes), Cardinality(boxes) = 3,
         NEW A \in [1..3 -> Point], Clockwise(A),
         {box.at : box \in boxes} = {A[k] : k \in 1..3},
         NEW p \in Sorted(boxes)
  PROVE  /\ p \in [1..3 -> Point]
         /\ \E a, b, c \in 1..3 : /\ a # b /\ b # c /\ a # c
                                  /\ p[1] = A[a] /\ p[2] = A[b] /\ p[3] = A[c]
<1>1. p \in [1..3 -> {A[k] : k \in 1..3}]
  BY DEF Sorted
<1>2. p \in [1..3 -> Point]
  BY <1>1
<1>3. PICK from \in [1..3 -> boxes] :
        /\ \A j, k \in 1..3 : from[j] = from[k] => j = k
        /\ \A k \in 1..3 : p[k] = from[k].at
  BY DEF Sorted
<1>4. \A box \in boxes : \E k \in 1..3 : from[k] = box
  <2>1. IsFiniteSet(1..3) /\ Cardinality(1..3) = 3
    <3>1. IsFiniteSet(1..3) /\ Cardinality(1..3) = IF 1 > 3 THEN 0 ELSE 3 - 1 + 1
      <4>1. 1 \in Int /\ 3 \in Int
        OBVIOUS
      <4> QED
        BY <4>1, FS_Interval, Zenon
    <3> QED
      BY <3>1
  <2>2. from \in Injection(1..3, boxes)
    BY <1>3 DEF Injection, IsInjective
  <2>3. from \in Surjection(1..3, boxes)
    BY <2>1, <2>2, FS_Injection
  <2> QED
    BY <2>3 DEF Surjection
<1>5. \A k \in 1..3 : \E j \in 1..3 : p[j] = A[k]
  <2> SUFFICES ASSUME NEW k \in 1..3 PROVE \E j \in 1..3 : p[j] = A[k]
    OBVIOUS
  <2>0. A[k] \in {box.at : box \in boxes}
    OBVIOUS
  <2>1. PICK box \in boxes : box.at = A[k]
    BY <2>0
  <2>2. PICK j \in 1..3 : from[j] = box
    BY <1>4
  <2> QED
    BY <1>3, <2>1, <2>2
<1>6. A[1] # A[2] /\ A[2] # A[3] /\ A[1] # A[3]
  <2>1. \A k \in 1..3 : Vec(A, k).x \in Int /\ Vec(A, k).y \in Int
    BY VecType
  <2>2. \A j, k \in 1..3 : A[j] = A[k] => Cross(Vec(A, j), Vec(A, k)) = 0
    <3> SUFFICES ASSUME NEW j \in 1..3, NEW k \in 1..3, A[j] = A[k]
                 PROVE  Cross(Vec(A, j), Vec(A, k)) = 0
      OBVIOUS
    <3>1. Vec(A, j) = Vec(A, k)
      BY DEF Vec
    <3>2. Vec(A, k).x * Vec(A, k).y = Vec(A, k).y * Vec(A, k).x
      BY <2>1
    <3>3. Vec(A, k).x * Vec(A, k).y \in Int
      BY <2>1
    <3> QED
      BY <3>1, <3>2, <3>3 DEF Cross
  <2>3. /\ Cross(Vec(A, 3), Vec(A, 2)) > 0
        /\ Cross(Vec(A, 2), Vec(A, 1)) > 0
        /\ Cross(Vec(A, 1), Vec(A, 3)) > 0
    BY ClockwiseAllRound
  <2> QED
    BY <2>2, <2>3
<1>7. PICK a, b, c \in 1..3 : p[1] = A[a] /\ p[2] = A[b] /\ p[3] = A[c]
  BY <1>1
<1>8. a # b /\ b # c /\ a # c
  BY <1>5, <1>6, <1>7
<1> QED
  BY <1>2, <1>7, <1>8

(* Whichever boxes are kept: anchors that outrank the rest come out as a    *)
(* rotation of themselves, and upright ones exactly.                       *)
LEMMA CornersOfTag ==
  ASSUME NEW tag \in Tag, IsFiniteSet(tag.boxes), Outranks(tag), Clockwise(Anchors(tag.true)),
         NEW kept \in KeptOf(tag.boxes), NEW found \in CornersOf(tag, kept)
  PROVE  LET p == Anchors(tag.true) IN
         /\ Anchors(found) \in
              {<<p[1], p[2], p[3]>>, <<p[2], p[3], p[1]>>, <<p[3], p[1], p[2]>>}
         /\ Upright(tag) => found = tag.true
<1> DEFINE A == Anchors(tag.true)
<1>0. tag.true \in Corners /\ tag.boxes \subseteq Box
  BY DEF Tag
<1>1. A \in [1..3 -> Point]
  BY <1>0, AnchorsType
<1>2. /\ kept \subseteq Box /\ IsFiniteSet(kept) /\ Cardinality(kept) = 3
      /\ {box.at : box \in kept} = {A[k] : k \in 1..3}
  BY <1>0, AnchorsAreKept
<1>3. PICK q \in Sorted(kept) : found = Named(q, tag.true.left_bottom)
  BY <1>2 DEF CornersOf
<1>4. q \in [1..3 -> Point] /\ DescendingAngles(q)
  <2>1. DescendingAngles(q)
    BY DEF Sorted
  <2> QED
    BY <1>1, <1>2, <2>1, SortedIsPermutation
<1>5. PICK a, b, c \in 1..3 : /\ a # b /\ b # c /\ a # c
                              /\ q[1] = A[a] /\ q[2] = A[b] /\ q[3] = A[c]
  BY <1>1, <1>2, SortedIsPermutation
<1>6. Anchors(found) = <<A[a], A[b], A[c]>> /\ found.left_bottom = tag.true.left_bottom
  BY <1>3, <1>5 DEF Named, Anchors
<1>7. \/ a = 1 /\ b = 2 /\ c = 3
      \/ a = 2 /\ b = 3 /\ c = 1
      \/ a = 3 /\ b = 1 /\ c = 2
  BY <1>1, <1>4, <1>5, DescendingIsRotation
<1>8. Anchors(found) \in {<<A[1], A[2], A[3]>>, <<A[2], A[3], A[1]>>, <<A[3], A[1], A[2]>>}
  BY <1>6, <1>7
<1>9. ASSUME Upright(tag) PROVE found = tag.true
  <2>1. a = 1 /\ b = 2 /\ c = 3
    BY <1>1, <1>4, <1>5, <1>9, UprightOrder DEF Upright
  <2>2. /\ found.left_top = tag.true.left_top
        /\ found.right_top = tag.true.right_top
        /\ found.right_bottom = tag.true.right_bottom
    BY <1>3, <1>5, <2>1 DEF Named, Anchors
  <2> QED
    BY <1>0, <1>3, <1>6, <2>2 DEF Named, Corners
<1> QED
  BY <1>8, <1>9

-----------------------------------------------------------------------------
(***************************************************************************)
(* The loop over the tags.                                                 *)
(***************************************************************************)

(* The board of a tag the loop has passed is made of boxes that             *)
(* keepTop3ByScore may keep for that tag, and carries its id.              *)
FromItsTag(k) ==
  /\ \E kept \in KeptOf(markers[k].boxes) : boards_2d[k].corners \in CornersOf(markers[k], kept)
  /\ boards_2d[k].board_id = markers[k].board_id

LoopInv ==
  /\ TypeOK
  /\ markers \in Sightings \cup {<<>>}
  /\ pc = "detect" => i = 1 /\ markers = <<>>
  /\ pc = "keep" => res = markers[i].boxes
  /\ pc = "corners" => res \in KeptOf(markers[i].boxes)
  /\ pc = "returned" => i \notin DOMAIN markers
  /\ \A k \in DOMAIN markers : k < i => FromItsTag(k)

LEMMA TagType ==
  ASSUME NEW tags \in Sightings \cup {<<>>}
  PROVE  /\ tags \in Seq(Tag)
         /\ DOMAIN tags = 1..Len(tags) /\ Len(tags) \in Nat
         /\ \A k \in DOMAIN tags : tags[k] \in Tag /\ IsFiniteSet(tags[k].boxes)
<1>1. tags \in Seq(Tag)
  <2>1. Sightings \subseteq Seq(Tag)
    BY SightingsAssumption, Zenon
  <2>2. <<>> \in Seq(Tag)
    OBVIOUS
  <2> QED
    BY <2>1, <2>2, Zenon
<1>2. DOMAIN tags = 1..Len(tags) /\ Len(tags) \in Nat
  BY <1>1
<1>3. \A k \in DOMAIN tags : tags[k] \in Tag
  BY <1>1
<1>4. \A k \in DOMAIN tags : IsFiniteSet(tags[k].boxes)
  <2>1. CASE tags \in Sightings
    BY <2>1, SightingsAssumption, Zenon
  <2>2. CASE tags = <<>>
    BY <2>2
  <2> QED
    BY <2>1, <2>2
<1> QED
  BY <1>1, <1>2, <1>3, <1>4

LEMMA KeptAreBoxes ==
  ASSUME NEW boxes \in SUBSET Box, NEW kept \in KeptOf(boxes)
  PROVE  kept \in SUBSET Box
BY DEF KeptOf, BestThree

LEMMA CornersType ==
  ASSUME NEW tag \in Tag, NEW kept \in SUBSET Box, NEW found \in CornersOf(tag, kept)
  PROVE  found \in Corners \cup {NoCorners}
<1>1. CASE Cardinality(kept) = 3
  <2>1. PICK p \in Sorted(kept) : found = Named(p, tag.true.left_bottom)
    BY <1>1 DEF CornersOf
  <2>2. PICK from \in [1..3 -> kept] : \A k \in 1..3 : p[k] = from[k].at
    BY DEF Sorted
  <2>3. \A k \in 1..3 : from[k] \in Box
    OBVIOUS
  <2>4. p[1] \in Point /\ p[2] \in Point /\ p[3] \in Point
    BY <2>2, <2>3 DEF Box
  <2>5. tag.true \in Corners
    BY DEF Tag
  <2>6. tag.true.left_bottom \in Point
    BY <2>5 DEF Corners
  <2> QED
    BY <2>1, <2>4, <2>6 DEF Named, Corners
<1>2. CASE Cardinality(kept) # 3
  BY <1>2 DEF CornersOf
<1> QED
  BY <1>1, <1>2

LEMMA LoopInit == Init => LoopInv
<1> SUFFICES ASSUME Init PROVE LoopInv
  OBVIOUS
<1>1. /\ pc = "detect" /\ markers = <<>> /\ boards_2d = <<>> /\ i = 1
      /\ res = {} /\ i \in Nat \ {0}
  BY DEF Init
<1>2. res \in SUBSET Box
  BY <1>1
<1>3. /\ markers \in Seq(Tag) /\ boards_2d \in Seq(Board2D)
      /\ DOMAIN markers = {} /\ DOMAIN boards_2d = {}
  BY <1>1
<1>4. TypeOK
  BY <1>1, <1>2, <1>3 DEF TypeOK, Steps
<1> QED
  BY <1>1, <1>3, <1>4 DEF LoopInv

LEMMA LoopStep == LoopInv /\ [Next]_vars => LoopInv'
<1> SUFFICES ASSUME LoopInv, [Next]_vars PROVE LoopInv'
  OBVIOUS
<1> USE DEF LoopInv, Steps, At, GoTo
<1>0. /\ markers \in Seq(Tag) /\ DOMAIN markers = 1..Len(markers) /\ Len(markers) \in Nat
      /\ \A k \in DOMAIN markers : markers[k] \in Tag /\ IsFiniteSet(markers[k].boxes)
  BY TagType
<1>1. CASE DetectMarkers
  <2>1. pc = "detect" /\ pc' = "anchors" /\ i' = i /\ res' = res /\ i = 1
    BY <1>1 DEF DetectMarkers
  <2>2. markers' \in Sightings \cup {<<>>} /\ boards_2d' = [k \in DOMAIN markers' |-> Blank]
    BY <1>1 DEF DetectMarkers
  <2>3. markers' \in Seq(Tag) /\ DOMAIN markers' = 1..Len(markers') /\ Len(markers') \in Nat
    BY <2>2, TagType
  <2>4. Blank \in Board2D
    BY DEF Blank, Board2D
  <2>5. boards_2d' \in Seq(Board2D) /\ DOMAIN boards_2d' = DOMAIN markers'
    BY <2>2, <2>3, <2>4
  <2> QED
    BY <2>1, <2>2, <2>3, <2>5 DEF TypeOK
<1>2. CASE RunSession
  <2>1. res' \in SUBSET Box
    BY <1>0, <1>2 DEF RunSession, Tag
  <2> QED
    BY <1>2, <2>1 DEF RunSession, TypeOK, FromItsTag
<1>3. CASE Throw
  BY <1>3 DEF Throw, TypeOK, FromItsTag
<1>4. CASE KeepTop3ByScore
  <2>1. res' \in KeptOf(markers[i].boxes)
    BY <1>4 DEF KeepTop3ByScore, KeptOf
  <2>2. res' \in SUBSET Box
    BY <1>4, <2>1, KeptAreBoxes DEF KeepTop3ByScore, TypeOK
  <2> QED
    BY <1>4, <2>1, <2>2 DEF KeepTop3ByScore, TypeOK, FromItsTag
<1>5. CASE ComputeCorners
  <2>1. /\ pc = "corners" /\ pc' = "anchors" /\ i' = i + 1
        /\ markers' = markers /\ res' = res
        /\ i \in DOMAIN markers /\ i \in Nat \ {0} /\ res \in SUBSET Box
        /\ boards_2d \in Seq(Board2D) /\ DOMAIN boards_2d = DOMAIN markers
    BY <1>5 DEF ComputeCorners, TypeOK
  <2>2. PICK found \in CornersOf(markers[i], res) :
          boards_2d' = [boards_2d EXCEPT ![i] = Board(found)]
    BY <1>5 DEF ComputeCorners, CornersFound, CornersOf
  <2>3. markers[i].board_id \in Ids
    BY <1>0, <2>1 DEF Tag
  <2>4. Board(found) \in Board2D
    BY <1>0, <2>1, <2>3, CornersType DEF Board, Board2D
  <2>5. boards_2d' \in Seq(Board2D) /\ DOMAIN boards_2d' = DOMAIN boards_2d
    BY <2>1, <2>2, <2>4
  <2>6. boards_2d'[i].corners = found /\ boards_2d'[i].board_id = markers[i].board_id
    BY <2>1, <2>2 DEF Board
  <2>7. ASSUME NEW k \in DOMAIN markers, k = i PROVE FromItsTag(k)'
    BY <2>1, <2>2, <2>6, <2>7 DEF FromItsTag
  <2>8. ASSUME NEW k \in DOMAIN markers, k < i PROVE FromItsTag(k)'
    <3>1. boards_2d'[k] = boards_2d[k]
      BY <1>0, <2>1, <2>2, <2>8
    <3> QED
      BY <2>1, <2>8, <3>1 DEF FromItsTag
  <2>9. \A k \in DOMAIN markers : k < i + 1 => k = i \/ k < i
    BY <1>0, <2>1
  <2>10. \A k \in DOMAIN markers' : k < i' => FromItsTag(k)'
    BY <2>1, <2>7, <2>8, <2>9
  <2> QED
    BY <2>1, <2>5, <2>10 DEF TypeOK
<1>6. CASE Return
  BY <1>6 DEF Return, TypeOK, FromItsTag
<1>7. CASE UNCHANGED vars
  BY <1>7 DEF vars, TypeOK, FromItsTag
<1> QED
  BY <1>1, <1>2, <1>3, <1>4, <1>5, <1>6, <1>7 DEF Next

(* Every behaviour of detectArucoMarkers keeps the loop invariant.          *)
THEOREM LoopInvariant == Spec => []LoopInv
BY LoopInit, LoopStep, PTL DEF Spec

(* The typing of detectArucoMarkers' variables, its result as long as the   *)
(* list of tags.                                                           *)
THEOREM TypeCorrect == Spec => []TypeOK
<1>1. LoopInv => TypeOK
  BY DEF LoopInv
<1> QED
  BY <1>1, LoopInvariant, PTL

(* computeCorners gives a board that hangs upright its own corners, for      *)
(* anchors of any size and place and any weaker boxes near them.           *)
THEOREM UprightBoards == Spec => []UprightIsExact
<1>1. LoopInv => UprightIsExact
  <2> SUFFICES ASSUME LoopInv, NEW k \in DOMAIN boards_2d, Done(k),
                      Outranks(markers[k]), Upright(markers[k])
               PROVE  boards_2d[k].corners = markers[k].true
    BY DEF UprightIsExact
  <2>1. k \in DOMAIN markers /\ FromItsTag(k)
    BY DEF LoopInv, TypeOK, Done
  <2>2. markers[k] \in Tag /\ IsFiniteSet(markers[k].boxes)
    BY <2>1, TagType DEF LoopInv
  <2>3. PICK kept \in KeptOf(markers[k].boxes) :
          boards_2d[k].corners \in CornersOf(markers[k], kept)
    BY <2>1 DEF FromItsTag
  <2>4. Clockwise(Anchors(markers[k].true))
    BY DEF Upright
  <2> QED
    BY <2>2, <2>3, <2>4, CornersOfTag
<1> QED
  BY <1>1, LoopInvariant, PTL

(* The descending sort of computeCorners never mirrors a board, at any tilt. *)
THEOREM NoMirroredBoard == Spec => []NeverMirrored
<1>1. LoopInv => NeverMirrored
  <2> SUFFICES ASSUME LoopInv, NEW k \in DOMAIN boards_2d, Done(k),
                      Outranks(markers[k]), Clockwise(Anchors(markers[k].true))
               PROVE  LET p == Anchors(markers[k].true) IN
                        Anchors(boards_2d[k].corners) \in
                          {<<p[1], p[2], p[3]>>, <<p[2], p[3], p[1]>>, <<p[3], p[1], p[2]>>}
    BY DEF NeverMirrored
  <2>1. k \in DOMAIN markers /\ FromItsTag(k)
    BY DEF LoopInv, TypeOK, Done
  <2>2. markers[k] \in Tag /\ IsFiniteSet(markers[k].boxes)
    BY <2>1, TagType DEF LoopInv
  <2>3. PICK kept \in KeptOf(markers[k].boxes) :
          boards_2d[k].corners \in CornersOf(markers[k], kept)
    BY <2>1 DEF FromItsTag
  <2> QED
    BY <2>2, <2>3, CornersOfTag
<1> QED
  BY <1>1, LoopInvariant, PTL

(* detectArucoMarkers returns an entry under the id of every tag, in order. *)
THEOREM AllTagsReported == Spec => []EveryTagReported
<1>1. LoopInv => EveryTagReported
  <2> SUFFICES ASSUME LoopInv, pc = "returned"
               PROVE  /\ Len(boards_2d) = Len(markers)
                      /\ \A k \in DOMAIN markers : boards_2d[k].board_id = markers[k].board_id
    BY DEF EveryTagReported, At
  <2>1. DOMAIN markers = 1..Len(markers) /\ Len(markers) \in Nat
    BY TagType DEF LoopInv
  <2>2. /\ boards_2d \in Seq(Board2D) /\ DOMAIN boards_2d = DOMAIN markers
        /\ i \in Nat \ {0} /\ i \notin DOMAIN markers
    BY DEF LoopInv, TypeOK
  <2>3. \A k \in DOMAIN markers : k < i
    BY <2>1, <2>2
  <2>4. \A k \in DOMAIN markers : boards_2d[k].board_id = markers[k].board_id
    BY <2>3 DEF LoopInv, FromItsTag
  <2>5. Len(boards_2d) = Len(markers)
    <3>1. DOMAIN boards_2d = 1..Len(boards_2d) /\ Len(boards_2d) \in Nat
      BY <2>2
    <3> QED
      BY <2>1, <2>2, <3>1
  <2> QED
    BY <2>4, <2>5
<1> QED
  BY <1>1, LoopInvariant, PTL
=============================================================================
