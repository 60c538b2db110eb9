SPECIFICATION Spec
CONSTANTS
  b1 = b1
  b2 = b2
  clutter = clutter
  zero = zero
  pose = pose
  Absent = Absent
  NoCorners = NoCorners
  Clusters <- MCClusters
  Bearing <- MCBearing
  TagOn <- MCTagOn
  ZeroPose = zero
  Poses = {zero, pose}
  Cams = {0, 1, 2}
  MarkerNum = 2
  MarkerOrder <- MCOrder
  StrayIds = {0}
  CameraGroups <- FrontAndRear
  ListsMatch = TRUE
  CalibLists <- OneRequest
  Algorithms = {"ceres"}
  GTChoices = {{0, 1, 2}}
  Extractions <- BoardsOnly
  Sightings <- OrderlySightings
  MaxRuns = 1
INVARIANTS
  MatchedCornersCorrespond
CHECK_DEADLOCK FALSE
