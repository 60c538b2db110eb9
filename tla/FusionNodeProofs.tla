-------------------------- MODULE FusionNodeProofs --------------------------
(***************************************************************************)
(* Theorems about FusionNode, for any number of presses.                   *)
(***************************************************************************)
EXTENDS FusionNode, TLAPS

LEMMA TypeInit == Init => TypeOK
<1> SUFFICES ASSUME Init PROVE TypeOK
  OBVIOUS
<1>1. pose \in 0..MaxPresses /\ R \in 0..pose /\ t \in 0..pose /\ taken \in 0..pose
  BY PressAssumption DEF Init
<1>2. result \in [R : 0..pose, t : 0..pose] \cup {NoResult}
  BY DEF Init
<1>3. /\ gui \in {"idle", "store_R", "store_t"} /\ executor \in {"idle", "read_t", "ended"}
      /\ latest_cloud \in BOOLEAN /\ latest_image \in BOOLEAN
  BY DEF Init
<1> QED
  BY <1>1, <1>2, <1>3 DEF TypeOK

LEMMA TypeStep == TypeOK /\ [Next]_vars => TypeOK'
<1> SUFFICES ASSUME TypeOK, [Next]_vars PROVE TypeOK'
  OBVIOUS
<1> USE PressAssumption DEF TypeOK
<1>1. CASE Press
  <2>1. result' \in [R : 0..pose', t : 0..pose'] \cup {NoResult}
    BY <1>1 DEF Press, execVars
  <2> QED
    BY <1>1, <2>1 DEF Press, execVars
<1>2. CASE StoreR
  BY <1>2 DEF StoreR, execVars
<1>3. CASE StoreT
  BY <1>3 DEF StoreT, execVars
<1>4. CASE cloud_cb \/ img_cb \/ keyboard_cb
  BY <1>4 DEF cloud_cb, img_cb, keyboard_cb, guiVars
<1>5. CASE FuseReadR
  BY <1>5 DEF FuseReadR, guiVars
<1>6. CASE FuseReadT
  BY <1>6 DEF FuseReadT, guiVars
<1>7. CASE UNCHANGED vars
  BY <1>7 DEF vars, guiVars, execVars
<1> QED
  BY <1>1, <1>2, <1>3, <1>4, <1>5, <1>6, <1>7 DEF Next, GuiStore, FuseStep

(* Neither thread ever takes or stores a pose that was not adjusted to yet. *)
THEOREM FusionTypeCorrect == Spec => []TypeOK
BY TypeInit, TypeStep, PTL DEF Spec

LEMMA BehindInit == Init => BehindInv
BY DEF Init, BehindInv, AtMostOneBehind

(* The stored translation only grows, so what fuse_once reads last cannot   *)
(* fall further behind the rotation it has read before.                     *)
LEMMA BehindStep == TypeOK /\ BehindInv /\ [Next]_vars => BehindInv'
<1> SUFFICES ASSUME TypeOK, BehindInv, [Next]_vars PROVE BehindInv'
  OBVIOUS
<1> USE DEF BehindInv, AtMostOneBehind
<1>1. /\ pose \in Int /\ R \in Int /\ t \in Int /\ taken \in Int
      /\ result # NoResult => result.R \in Int /\ result.t \in Int
  BY PressAssumption DEF TypeOK
<1>2. CASE Press
  BY <1>1, <1>2 DEF Press, execVars
<1>3. CASE StoreR
  BY <1>1, <1>3 DEF StoreR, execVars
<1>4. CASE StoreT
  BY <1>1, <1>4 DEF StoreT, execVars
<1>5. CASE cloud_cb \/ img_cb \/ keyboard_cb
  BY <1>1, <1>5 DEF cloud_cb, img_cb, keyboard_cb, guiVars
<1>6. CASE FuseReadR
  <2>1. R <= t + 1
    BY <1>1 DEF TypeOK
  <2> QED
    BY <1>1, <1>6, <2>1 DEF FuseReadR, guiVars
<1>7. CASE FuseReadT
  <2>1. result' = [R |-> taken, t |-> t] /\ taken <= t + 1 /\ executor' = "idle"
    BY <1>7 DEF FuseReadT
  <2>2. result'.t + 1 >= result'.R
    BY <1>1, <2>1
  <2> QED
    BY <1>1, <1>7, <2>1, <2>2 DEF FuseReadT, guiVars
<1>8. CASE UNCHANGED vars
  BY <1>8 DEF vars, guiVars, execVars
<1> QED
  BY <1>2, <1>3, <1>4, <1>5, <1>6, <1>7, <1>8 DEF Next, GuiStore, FuseStep

(* However often the user presses while projections run, no projection's    *)
(* translation is more than one adjustment behind its rotation.             *)
THEOREM OneBehind == Spec => []AtMostOneBehind
<1>1. Init => TypeOK /\ BehindInv
  BY TypeInit, BehindInit
<1>2. TypeOK /\ BehindInv /\ [Next]_vars => TypeOK' /\ BehindInv'
  BY TypeStep, BehindStep
<1>3. BehindInv => AtMostOneBehind
  BY DEF BehindInv
<1> QED
  BY <1>1, <1>2, <1>3, PTL DEF Spec

LEMMA ShownInit == Init => ShownInv
BY DEF Init, ShownInv

(* What is stored never gets older, so neither does what fuse_once reads:   *)
(* a projection under way has taken a rotation at least as new as the one   *)
(* shown, and will find a translation at least as new.                      *)
LEMMA ShownStep ==
  TypeOK /\ ShownInv /\ [Next]_vars =>
    /\ ShownInv'
    /\ result # NoResult =>
         result' # NoResult /\ result'.R >= result.R /\ result'.t >= result.t
<1> SUFFICES ASSUME TypeOK, ShownInv, [Next]_vars
             PROVE  /\ ShownInv'
                    /\ result # NoResult =>
                         result' # NoResult /\ result'.R >= result.R /\ result'.t >= result.t
  OBVIOUS
<1> USE DEF ShownInv
<1>1. /\ pose \in Int /\ R \in Int /\ t \in Int /\ taken \in Int
      /\ R <= pose /\ t <= pose
      /\ result # NoResult => result.R \in Int /\ result.t \in Int
  BY PressAssumption DEF TypeOK
<1>2. CASE Press
  BY <1>1, <1>2 DEF Press, execVars
<1>3. CASE StoreR
  BY <1>1, <1>3 DEF StoreR, execVars
<1>4. CASE StoreT
  BY <1>1, <1>4 DEF StoreT, execVars
<1>5. CASE cloud_cb \/ img_cb \/ keyboard_cb
  BY <1>1, <1>5 DEF cloud_cb, img_cb, keyboard_cb, guiVars
<1>6. CASE FuseReadR
  BY <1>1, <1>6 DEF FuseReadR, guiVars
<1>7. CASE FuseReadT
  <2>1. result' = [R |-> taken, t |-> t] /\ executor = "read_t" /\ executor' = "idle"
    BY <1>7 DEF FuseReadT
  <2>2. result'.R = taken /\ result'.t = t
    BY <2>1
  <2>3. result' # NoResult
    <3>1. R \in Nat /\ t \in Nat /\ taken \in Nat
      BY PressAssumption DEF TypeOK
    <3>2. [R |-> taken, t |-> t] \in [R : Nat, t : Nat]
      BY <3>1
    <3> QED
      BY <2>1, <3>2, PressAssumption
  <2> QED
    BY <1>1, <1>7, <2>1, <2>2, <2>3 DEF FuseReadT, guiVars
<1>8. CASE UNCHANGED vars
  BY <1>1, <1>8 DEF vars, guiVars, execVars
<1> QED
  BY <1>2, <1>3, <1>4, <1>5, <1>6, <1>7, <1>8 DEF Next, GuiStore, FuseStep

(* However the two threads interleave, no projection takes back an          *)
(* adjustment, of the rotation or of the translation, that was shown.       *)
THEOREM PictureFollows == Spec => NeverGoesBack
<1>1. Init => TypeOK /\ ShownInv
  BY TypeInit, ShownInit
<1>2. TypeOK /\ ShownInv /\ [Next]_vars => TypeOK' /\ ShownInv'
  BY TypeStep, ShownStep
<1>3. TypeOK /\ ShownInv /\ [Next]_vars =>
        [result # NoResult =>
           result' # NoResult /\ result'.R >= result.R /\ result'.t >= result.t]_vars
  BY ShownStep
<1> QED
  BY <1>1, <1>2, <1>3, PTL DEF Spec, NeverGoesBack
=============================================================================
