SPECIFICATION FairSpec
CONSTANTS
  Unreadable = Unreadable
  NoPose = NoPose
  Cams = {0, 1, 6}
  Listed = {0, 1}
  Mounts = {m1, m2}
  Frequencies <- MCFrequencies
  MaxRuns = 2
INVARIANTS
  SourceSurvives
  ReferenceIsFresh
  ReferenceIsComplete
PROPERTIES
  StopIsBounded
  LabelsReachViewer
  StopsWhenTold
CHECK_DEADLOCK FALSE
