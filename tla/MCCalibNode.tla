---------------------------- MODULE MCCalibNode -----------------------------
(***************************************************************************)
(* Instances of CalibNode for TLC.  Two boards, with tags 1 and 2, hang at *)
(* bearings 200 and 270; a third flat cluster may pass the filters.        *)
(***************************************************************************)
EXTENDS CalibNode, TLC

CONSTANTS b1, b2, clutter, zero, pose

MCClusters == {b1, b2, clutter}
MCBearing  == (b1 :> 200) @@ (b2 :> 270) @@ (clutter :> 30)
MCTagOn    == (b1 :> 1) @@ (b2 :> 2) @@ (clutter :> 0)
MCOrder    == <<1, 2>>

MCExtractions ==
  {<<>>, <<b1>>, <<b1, b2>>, <<b2, b1>>, <<clutter, b2>>, <<b2, clutter, b1>>}
OneScene == {<<>>, <<b2, b1>>}
BoardsOnly == {<<>>, <<b1, b2>>, <<b2, b1>>}

Tag(id, ok) == [board_id |-> id, detected |-> ok]
MCSightings ==
  {<<>>, <<Tag(2, TRUE)>>, <<Tag(1, TRUE), Tag(2, FALSE)>>,
   <<Tag(1, TRUE), Tag(2, TRUE), Tag(1, TRUE)>>, <<Tag(7, TRUE)>>}
OrderlySightings == {<<>>, <<Tag(2, TRUE)>>, <<Tag(1, TRUE), Tag(2, TRUE)>>}
FewSightings == {<<>>, <<Tag(1, TRUE)>>, <<Tag(1, TRUE), Tag(2, TRUE), Tag(1, TRUE)>>}

(* Camera 9 has a name of the front group but no slot in the vectors. *)
MCGroup == (0 :> "front") @@ (1 :> "front") @@ (2 :> "rear") @@ (9 :> "front")

(* One camera, which init_DetAruco therefore knows no name for. *)
LoneGroup == (0 :> "front")

FrontAndRear == {MCGroup}
MCGroups == {MCGroup, LoneGroup}

MCLists    == {<<0, 1>>, <<0, 0>>, <<2>>, <<0, 9>>, <<0, 2>>, <<5>>, <<>>}
OneRequest == {<<0>>}
FrontThenRear == {<<0, 1>>, <<2>>}
MCGroundTruth == {{0, 1, 2}, {0, 2}}
=============================================================================
