SPECIFICATION FairSpec
CONSTANTS
  Topics = {front_top, front_right, front_left}
  Cut = Cut
  MaxFrames = 2
  MaxRuns = 2
INVARIANTS
  OneScene
PROPERTIES
  MergeEnds
CHECK_DEADLOCK FALSE
