----------------------------- MODULE CalibStore -----------------------------
(***************************************************************************)
(* What a calibration run promises the extrinsics file: it is asked for a  *)
(* set of cameras, and either leaves the file alone or, once, replaces the *)
(* poses of some cameras it was asked for that already have an entry.      *)
(***************************************************************************)
CONSTANTS Cams, Poses, Absent

VARIABLES
  store,    \* [Cams -> Poses \cup {Absent}]
  request,  \* the cameras the current run was asked to calibrate
  phase     \* "open" while the run may still commit, then "closed"

storeVars == <<store, request, phase>>

StoreTypeOK ==
  /\ store \in [Cams -> Poses \cup {Absent}]
  /\ request \subseteq Cams
  /\ phase \in {"open", "closed"}

StoreInit ==
  /\ store \in [Cams -> Poses \cup {Absent}]
  /\ request \in SUBSET Cams
  /\ phase = "open"

Replaceable == {c \in request : store[c] # Absent}

Commit ==
  /\ phase = "open"
  /\ phase' = "closed"
  /\ \E replaced \in SUBSET Replaceable :
       \E new \in [replaced -> Poses] :
         store' = [c \in Cams |-> IF c \in replaced THEN new[c] ELSE store[c]]
  /\ UNCHANGED request

NewRun ==
  /\ phase = "closed"
  /\ phase' = "open"
  /\ request' \in SUBSET Cams
  /\ UNCHANGED store

StoreNext == Commit \/ NewRun

StoreSpec == StoreInit /\ [][StoreNext]_storeVars
=============================================================================
