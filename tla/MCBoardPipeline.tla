-------------------------- MODULE MCBoardPipeline ---------------------------
(***************************************************************************)
(* An instance of BoardPipeline for TLC: a board on a long pole with a    *)
(* crossbar near its foot and, further up, an arm to the left and one, a   *)
(* little higher, to the right; a board whose lower edge is its lowest     *)
(* level; and a flat object that is as narrow as a pole.  The pole is 10   *)
(* cm wide, the crossbar 30 and an arm 15, so that only a slice with both  *)
(* arms is wide; the boards are 80 cm, and levels 0.5 to 5.5 cm apart.     *)
(***************************************************************************)
EXTENDS BoardPipeline

CONSTANTS onPole, bare, narrow

Across(a, b) == [left |-> a, right |-> b]

OnPole(l) ==
  CASE l = 3   -> Across(-30, 30)
    [] l = 18  -> Across(-40, -10)
    [] l = 21  -> Across(10, 40)
    [] l >= 50 -> Across(-80, 80)
    [] OTHER   -> Across(-10, 10)
PoleLevels == {3 * k : k \in 0..22}
BareLevels == {100, 101, 103, 104, 110, 116, 121, 132}

MCClusters == {onPole, bare, narrow}
MCExtent ==
  [c \in MCClusters |->
     IF c = onPole    THEN [l \in PoleLevels |-> OnPole(l)]
     ELSE IF c = bare THEN [l \in BareLevels |-> Across(-80, 80)]
     ELSE [l \in {6 * k : k \in 1..5} |-> Across(-10, 10)]]
=============================================================================
