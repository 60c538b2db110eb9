-------------------------- MODULE MCNodeLifecycle ---------------------------
(***************************************************************************)
(* An instance of NodeLifecycle for TLC: three slots of which two are      *)
(* listed, two mountings of the lidars.                                    *)
(***************************************************************************)
EXTENDS NodeLifecycle

MCFrequencies == {-2, 0, 1, 2000}
=============================================================================
