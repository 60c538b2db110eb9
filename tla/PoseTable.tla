----------------------------- MODULE PoseTable ------------------------------
(***************************************************************************)
(* What the programs that write sensor_kit_calibration.yaml take it for: a *)
(* table in which each of them replaces, in one step, poses of cameras of  *)
(* its own that have an entry.                                             *)
(***************************************************************************)
CONSTANTS
  Cams, Poses, Absent,
  Writers,
  Owned     \* [Writers -> SUBSET Cams]

VARIABLE table  \* [Cams -> Poses \cup {Absent}]

TableInit == table \in [Cams -> Poses \cup {Absent}]

Write(w) ==
  \E new \in [Owned[w] -> Poses] :
    table' = [c \in Cams |-> IF c \in Owned[w] /\ table[c] # Absent
                             THEN new[c] ELSE table[c]]

TableNext == \E w \in Writers : Write(w)

TableSpec == TableInit /\ [][TableNext]_table
=============================================================================
