-------------------------- MODULE MCExtrinsicsFile --------------------------
(***************************************************************************)
(* An instance of ExtrinsicsFile for TLC: one window on each of two        *)
(* cameras, and a node asked for the first.                                *)
(***************************************************************************)
EXTENDS ExtrinsicsFile, TLC

CONSTANTS tool0, tool1

MCCamOf == (tool0 :> 0) @@ (tool1 :> 1)
=============================================================================
