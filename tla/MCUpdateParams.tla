-------------------------- MODULE MCUpdateParams ---------------------------
(***************************************************************************)
(* An instance of UpdateParams for TLC: two folders; two checked cameras   *)
(* and one that is not.                                                    *)
(***************************************************************************)
EXTENDS UpdateParams

MCSource == [c \in Cameras |-> IF c = 1 THEN "lone_identity" ELSE "identity"]
=============================================================================
