---------------------------- MODULE MCDetAruco -----------------------------
(***************************************************************************)
(* An instance of DetAruco for TLC.  A board is drawn as a parallelogram:  *)
(* the corner at o where its first edge starts, that edge, and the second  *)
(* one at a right angle to it or sheared.  The edges (5,2) and (4,2) are   *)
(* on either side of the tilt at which the first anchor stops being above  *)
(* the centre, (-3,-6) and (-3,-4) of that at which the last stops being   *)
(* below.                                                                  *)
(***************************************************************************)
EXTENDS DetAruco

At2(a, b) == [x |-> a, y |-> b]
Quad(u, v) ==
  [right_top    |-> At2(20, 20),
   left_top     |-> At2(20 + u[1], 20 + u[2]),
   right_bottom |-> At2(20 + v[1], 20 + v[2]),
   left_bottom  |-> At2(20 + u[1] + v[1], 20 + u[2] + v[2])]
Turned(u) == Quad(u, <<-u[2], u[1]>>)

Quads ==
  {Turned(u) : u \in {<<6, 0>>, <<5, 2>>, <<4, 2>>, <<0, 6>>, <<-6, 0>>, <<0, -6>>,
                      <<5, -3>>, <<-3, -6>>, <<-3, -4>>}}
    \cup {Quad(<<6, 1>>, <<2, 5>>), Quad(<<3, -1>>, <<-2, 6>>)}

Scored(points, n) == {[at |-> pt, score |-> n] : pt \in points}
AnchorsOf(q) == {q.left_top, q.right_top, q.right_bottom}
Stray == At2(31, 17)

(* All anchors; one missing; a stray box below, level with or above them. *)
BoxesOf(q) ==
  {Scored(AnchorsOf(q), 2),
   Scored(AnchorsOf(q) \ {q.right_top}, 2),
   Scored(AnchorsOf(q) \ {q.left_top}, 2) \cup Scored({Stray}, 1)}
    \cup {Scored(AnchorsOf(q), 2) \cup Scored({Stray}, n) : n \in 1..3}

TagsWith(id) == UNION {{[board_id |-> id, true |-> q, boxes |-> b] : b \in BoxesOf(q)} : q \in Quads}

(* One tag in every position, and a second one that hangs upright. *)
MCSightings ==
  {<<tag>> : tag \in TagsWith(1)} \cup
  {<<tag, [board_id |-> 2, true |-> Turned(<<6, 0>>), boxes |-> b]>> :
     tag \in TagsWith(1), b \in BoxesOf(Turned(<<6, 0>>))}
=============================================================================
