SPECIFICATION Spec
CONSTANTS
  b1 = b1
  b2 = b2
  clutter = clutter
  zero = zero
  pose = pose
  Absent = Absent
  NoCorners = NoCorners
  Clusters <- MCClusters
  Bearing <- MCBearing
  TagOn <- MCTagOn
  ZeroPose = zero
  Poses = {zero, pose}
  Cams = {0, 1, 2}
  MarkerNum = 2
  MarkerOrder <- MCOrder
  StrayIds = {0}
  CameraGroups <- MCGroups
  ListsMatch = TRUE
  CalibLists <- MCLists
  Algorithms = {"ceres", "pnp"}
  GTChoices <- MCGroundTruth
  Extractions <- MCExtractions
  Sightings <- MCSightings
  MaxRuns = 1
INVARIANTS
  TypeOK
  CornersAreOwn
  PublishedIdIsMatchedId
  CompleteScenePairsRight
  ReturnedHasWritten
  OnlyNamedCamerasSolved
PROPERTIES
  OnlySolvedCamerasChange
  StartIsBounded
CHECK_DEADLOCK FALSE
