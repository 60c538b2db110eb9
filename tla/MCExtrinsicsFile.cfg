SPECIFICATION Spec
CONSTANTS
  tool0 = tool0
  tool1 = tool1
  Node = Node
  Absent = Absent
  Garbled = Garbled
  Cams = {0, 1}
  ZeroPose = zero
  Poses = {zero, pose}
  Tools = {tool0, tool1}
  CamOf <- MCCamOf
  Requested = {0}
INVARIANTS
  EntriesSurvive
PROPERTIES
  IsolatedWritesKeepOthers
  IsolatedWritesAreAtomic
