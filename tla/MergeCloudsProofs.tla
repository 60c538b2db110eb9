------------------------- MODULE MergeCloudsProofs --------------------------
(***************************************************************************)
(* Theorems about MergeClouds, for any number of lidars, clouds and         *)
(* launches.                                                               *)
(***************************************************************************)
EXTENDS MergeClouds, FiniteSetTheorems, TLAPS

(* The pieces FullCloud is made of have the types of what they replace.     *)
LEMMA CountType ==
  ASSUME NEW t \in Topics, TypeOK, Count(t)
  PROVE  /\ number' \in [Topics -> 0..MaxFrames]
         /\ number'[t] \in 1..MaxFrames
<1>1. number[t] \in 0..MaxFrames /\ MaxFrames \in Nat \ {0}
  BY MergeAssumption DEF TypeOK
<1>2. number'[t] = IF number[t] < MaxFrames THEN number[t] + 1 ELSE number[t]
  BY DEF TypeOK, Count
<1>3. number'[t] \in 1..MaxFrames
  BY <1>1, <1>2
<1>4. \A s \in Topics \ {t} : number'[s] = number[s]
  BY DEF TypeOK, Count
<1> QED
  BY <1>1, <1>3, <1>4 DEF TypeOK, Count

LEMMA TypeInit == Init => TypeOK
<1> SUFFICES ASSUME Init PROVE TypeOK
  OBVIOUS
<1>1. Zero \in [Topics -> 0..MaxFrames]
  BY MergeAssumption DEF Zero
<1>2. DOMAIN first_frames = {} /\ DOMAIN pcd = {}
  BY DEF Init, Nothing
<1>3. /\ DOMAIN first_frames \subseteq Topics
      /\ \A t \in DOMAIN first_frames : first_frames[t] \in Frame({run})
      /\ \A t \in DOMAIN pcd : pcd[t] \in Frame(1..run)
  BY <1>2
<1>4. /\ pc = "spin" /\ run = 1 /\ sensor_kit_data \subseteq Topics
      /\ number \in [Topics -> 0..MaxFrames] /\ first_full \in [Topics -> 0..MaxFrames]
      /\ cut_off \in BOOLEAN
  BY <1>1 DEF Init
<1>5. run \in Nat \ {0}
  BY <1>4
<1>6. pc \in {"spin", "saving", "ended", "raised"}
  BY <1>4
<1> QED
  BY <1>3, <1>4, <1>5, <1>6, Zenon DEF TypeOK

LEMMA FullCloudType ==
  ASSUME NEW t \in Topics, TypeOK, FullCloud(t)
  PROVE  TypeOK'
<1>1. /\ number' \in [Topics -> 0..MaxFrames] /\ number'[t] \in 1..MaxFrames
      /\ number'[t] \in 0..MaxFrames
  BY CountType, MergeAssumption DEF FullCloud
<1>2. DOMAIN first_frames' = DOMAIN first_frames \cup {t}
  BY DEF FullCloud, Keep
<1>3. \A s \in DOMAIN first_frames' : first_frames'[s] \in Frame({run})
  <2> SUFFICES ASSUME NEW s \in DOMAIN first_frames \cup {t}
               PROVE  Keep(t)[s] \in Frame({run})
    BY <1>2 DEF FullCloud
  <2>1. CASE s \in DOMAIN first_frames
    BY <2>1 DEF Keep, TypeOK
  <2>2. CASE s \notin DOMAIN first_frames
    BY <1>1, <2>2 DEF Keep, Frame
  <2> QED
    BY <2>1, <2>2
<1>4. first_full' \in [Topics -> 0..MaxFrames]
  BY <1>1 DEF FullCloud, TypeOK
<1> QED
  BY <1>1, <1>2, <1>3, <1>4 DEF TypeOK, FullCloud

LEMMA SavePcdType == TypeOK /\ SavePcd => TypeOK'
<1> SUFFICES ASSUME TypeOK, SavePcd PROVE TypeOK'
  OBVIOUS
<1>1. DOMAIN pcd' = Posed /\ \A t \in Posed : pcd'[t] = first_frames[t] /\ t \in DOMAIN first_frames
  BY DEF SavePcd, Posed
<1>2. \A t \in DOMAIN pcd' : pcd'[t] \in Frame(1..run)
  BY <1>1 DEF TypeOK, Frame
<1> QED
  BY <1>2 DEF TypeOK, SavePcd, GoTo

LEMMA RelaunchType == TypeOK /\ Relaunch => TypeOK'
<1> SUFFICES ASSUME TypeOK, Relaunch PROVE TypeOK'
  OBVIOUS
<1>1. Zero \in [Topics -> 0..MaxFrames]
  BY MergeAssumption DEF Zero
<1>2. DOMAIN Nothing = {}
  BY DEF Nothing
<1>3. run' \in Nat \ {0} /\ 1..run \subseteq 1..run'
  BY DEF TypeOK, Relaunch
<1>4. pcd' = Cut \/ \A t \in DOMAIN pcd' : pcd'[t] \in Frame(1..run')
  BY <1>3 DEF TypeOK, Relaunch, Frame
<1> QED
  BY <1>1, <1>2, <1>3, <1>4 DEF TypeOK, Relaunch, GoTo

LEMMA TypeStep == TypeOK /\ [Next]_vars => TypeOK'
<1> SUFFICES ASSUME TypeOK, [Next]_vars PROVE TypeOK'
  OBVIOUS
<1>1. ASSUME NEW t \in Topics, EmptyCloud(t) PROVE TypeOK'
  BY <1>1, CountType DEF EmptyCloud, TypeOK
<1>2. CASE CheckDone
  BY <1>2 DEF CheckDone, TypeOK, GoTo
<1>3. CASE CheckDoneRaises
  BY <1>3 DEF CheckDoneRaises, TypeOK, GoTo
<1>4. CASE Interrupt
  <2>1. cut_off' \in BOOLEAN
    BY <1>4, Zenon DEF Interrupt, TypeOK
  <2> QED
    BY <1>4, <2>1 DEF Interrupt, TypeOK, GoTo
<1>5. CASE UNCHANGED vars
  BY <1>5 DEF vars, TypeOK
<1> QED
  BY <1>1, <1>2, <1>3, <1>4, <1>5, FullCloudType, SavePcdType, RelaunchType DEF Next

(* What the merging tool keeps are clouds of the running launch, and what   *)
(* is in its file are clouds of launches there have been.                   *)
THEOREM TypeCorrect == Spec => []TypeOK
BY TypeInit, TypeStep, PTL DEF Spec

-----------------------------------------------------------------------------
(***************************************************************************)
(* OneScene is not inductive: the clouds kept have to be this launch's     *)
(* first ones before they are written, all lidars' while they are, and the *)
(* file an earlier launch's until then.                                    *)
(***************************************************************************)
KeptAreFirst ==
  /\ \A t \in Topics : t \in DOMAIN first_frames <=> first_full[t] # 0
  /\ \A t \in DOMAIN first_frames : first_frames[t].number = first_full[t]

SceneInv ==
  /\ KeptAreFirst
  /\ At("saving") => pcd = Cut /\ DOMAIN first_frames = Topics
  /\ At("spin") /\ pcd # Cut => \A t \in DOMAIN pcd : pcd[t].run # run
  /\ OneScene

LEMMA NothingIsNoCut == Nothing # Cut
<1>1. Nothing \in [{} -> Frame(Nat)]
  BY DEF Nothing
<1>2. {} \in SUBSET Topics
  OBVIOUS
<1> QED
  BY <1>1, <1>2, MergeAssumption

LEMMA SceneInit == Init => SceneInv
<1> SUFFICES ASSUME Init PROVE SceneInv
  OBVIOUS
<1>1. DOMAIN Nothing = {} /\ Nothing # Cut /\ \A t \in Topics : Zero[t] = 0
  BY NothingIsNoCut DEF Nothing, Zero
<1> QED
  BY <1>1 DEF Init, SceneInv, KeptAreFirst, OneScene, At

LEMMA FullCloudScene ==
  ASSUME NEW t \in Topics, TypeOK, SceneInv, FullCloud(t)
  PROVE  SceneInv'
<1>1. number'[t] \in 1..MaxFrames /\ number'[t] # 0
  BY CountType, MergeAssumption DEF FullCloud
<1>2. /\ pc = "spin" /\ pc' = pc /\ run' = run /\ sensor_kit_data' = sensor_kit_data
      /\ pcd' = pcd /\ cut_off' = cut_off
  BY DEF FullCloud, At
<1>3. /\ DOMAIN first_frames' = DOMAIN first_frames \cup {t}
      /\ \A s \in DOMAIN first_frames : first_frames'[s] = first_frames[s]
      /\ t \notin DOMAIN first_frames => first_frames'[t].number = number'[t]
  BY DEF FullCloud, Keep
<1>4. /\ \A s \in Topics \ {t} : first_full'[s] = first_full[s]
      /\ first_full'[t] = IF first_full[t] = 0 THEN number'[t] ELSE first_full[t]
  BY DEF FullCloud, TypeOK
<1>5. DOMAIN first_frames \subseteq Topics
  BY DEF TypeOK
<1>6. KeptAreFirst'
  <2>1. \A s \in Topics : s \in DOMAIN first_frames' <=> first_full'[s] # 0
    BY <1>1, <1>3, <1>4 DEF SceneInv, KeptAreFirst
  <2>2. ASSUME NEW s \in DOMAIN first_frames' PROVE first_frames'[s].number = first_full'[s]
    <3>1. CASE s \in DOMAIN first_frames
      BY <1>3, <1>4, <1>5, <3>1 DEF SceneInv, KeptAreFirst
    <3>2. CASE s \notin DOMAIN first_frames
      BY <1>3, <1>4, <3>2 DEF SceneInv, KeptAreFirst
    <3> QED
      BY <3>1, <3>2
  <2> QED
    BY <2>1, <2>2 DEF KeptAreFirst
<1> QED
  BY <1>2, <1>6 DEF SceneInv, OneScene, At

LEMMA CheckDoneScene == TypeOK /\ SceneInv /\ CheckDone => SceneInv'
<1> SUFFICES ASSUME TypeOK, SceneInv, CheckDone PROVE SceneInv'
  OBVIOUS
<1>1. /\ pc = "spin" /\ AllReceived
      /\ UNCHANGED <<run, sensor_kit_data, number, first_frames, first_full, cut_off>>
  BY DEF CheckDone, At
<1>2. DOMAIN first_frames = Topics
  <2>1. DOMAIN first_frames \subseteq Topics /\ IsFiniteSet(Topics)
    BY MergeAssumption DEF TypeOK
  <2> QED
    BY <1>1, <2>1, FS_Subset DEF AllReceived
<1>3. KeptAreFirst'
  BY <1>1 DEF SceneInv, KeptAreFirst
<1>4. CASE pc' = "ended" /\ pcd' = pcd
  BY <1>1, <1>3, <1>4 DEF SceneInv, OneScene, At
<1>5. CASE pc' = "saving" /\ pcd' = Cut
  BY <1>1, <1>2, <1>3, <1>5 DEF SceneInv, OneScene, At
<1> QED
  BY <1>4, <1>5 DEF CheckDone, GoTo

LEMMA SavePcdScene == TypeOK /\ SceneInv /\ SavePcd => SceneInv'
<1> SUFFICES ASSUME TypeOK, SceneInv, SavePcd PROVE SceneInv'
  OBVIOUS
<1>1. /\ pc = "saving" /\ pc' = "ended"
      /\ UNCHANGED <<run, sensor_kit_data, number, first_frames, first_full, cut_off>>
  BY DEF SavePcd, At, GoTo
<1>2. DOMAIN first_frames = Topics
  BY <1>1 DEF SceneInv, At
<1>3. Posed = sensor_kit_data
  BY <1>2 DEF Posed, TypeOK
<1>4. DOMAIN pcd' = Posed /\ \A t \in Posed : pcd'[t] = first_frames[t]
  BY DEF SavePcd
<1>5. \A t \in Posed : first_frames[t] \in Frame({run}) /\ first_frames[t].number = first_full[t]
  BY <1>2, <1>3 DEF TypeOK, SceneInv, KeptAreFirst
<1>6. \A t \in Posed : first_frames[t] \in Frame(Nat) /\ first_frames[t].run = run
  BY <1>5 DEF Frame, TypeOK
<1>7. pcd' # Cut
  <2>1. pcd' \in [Posed -> Frame(Nat)]
    BY <1>6 DEF SavePcd
  <2>2. Posed \in SUBSET Topics
    BY <1>3 DEF TypeOK
  <2> QED
    BY <2>1, <2>2, MergeAssumption
<1>8. \A t \in DOMAIN pcd' : pcd'[t].run = run /\ pcd'[t].number = first_full[t]
  BY <1>4, <1>5, <1>6
<1>9. OneScene'
  BY <1>1, <1>3, <1>4, <1>7, <1>8 DEF OneScene
<1>10. KeptAreFirst'
  BY <1>1 DEF SceneInv, KeptAreFirst
<1> QED
  BY <1>1, <1>9, <1>10 DEF SceneInv, At

LEMMA RelaunchScene == TypeOK /\ SceneInv /\ Relaunch => SceneInv'
<1> SUFFICES ASSUME TypeOK, SceneInv, Relaunch PROVE SceneInv'
  OBVIOUS
<1>1. /\ pc \in {"ended", "raised"} /\ pc' = "spin" /\ run' = run + 1
      /\ first_full' = Zero /\ first_frames' = Nothing
      /\ UNCHANGED <<pcd, cut_off>>
  BY DEF Relaunch, GoTo
<1>2. KeptAreFirst'
  BY <1>1 DEF KeptAreFirst, Zero, Nothing
<1>3. ASSUME pcd # Cut PROVE \A t \in DOMAIN pcd : pcd[t].run # run + 1
  BY <1>3 DEF TypeOK, Frame
<1>4. (At("spin") /\ pcd # Cut => \A t \in DOMAIN pcd : pcd[t].run # run)'
  BY <1>1, <1>3
<1>5. OneScene'
  BY <1>1, <1>3 DEF SceneInv, OneScene, At
<1> QED
  BY <1>1, <1>2, <1>4, <1>5 DEF SceneInv, At

LEMMA SceneStep == TypeOK /\ SceneInv /\ [Next]_vars => SceneInv'
<1> SUFFICES ASSUME TypeOK, SceneInv, [Next]_vars PROVE SceneInv'
  OBVIOUS
<1>1. ASSUME NEW t \in Topics, EmptyCloud(t) PROVE SceneInv'
  BY <1>1 DEF EmptyCloud, SceneInv, KeptAreFirst, OneScene, At
<1>2. CASE CheckDoneRaises
  BY <1>2 DEF CheckDoneRaises, SceneInv, KeptAreFirst, OneScene, At, GoTo
<1>3. CASE Interrupt
  BY <1>3 DEF Interrupt, SceneInv, KeptAreFirst, OneScene, At, GoTo
<1>4. CASE UNCHANGED vars
  BY <1>4 DEF vars, SceneInv, KeptAreFirst, OneScene, At
<1> QED
  BY <1>1, <1>2, <1>3, <1>4, FullCloudScene, CheckDoneScene, SavePcdScene, RelaunchScene
     DEF Next

(* save_pcd_ascii_xyzi never leaves a file that mixes launches, lacks a     *)
(* lidar or holds a later cloud than the first, unless it is cut off.       *)
THEOREM SceneIsOne == Spec => []OneScene
<1>1. Init => TypeOK /\ SceneInv
  BY TypeInit, SceneInit
<1>2. TypeOK /\ SceneInv /\ [Next]_vars => TypeOK' /\ SceneInv'
  BY TypeStep, SceneStep
<1>3. SceneInv => OneScene
  BY DEF SceneInv
<1> QED
  BY <1>1, <1>2, <1>3, PTL DEF Spec
=============================================================================
