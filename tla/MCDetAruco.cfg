SPECIFICATION Spec
CONSTANTS
  NoCorners = NoCorners
  Ids = {1, 2}
  Sightings <- MCSightings
INVARIANTS
  UprightIsExact
  NeverMirrored
  EveryTagReported
CHECK_DEADLOCK FALSE
