SPECIFICATION FairSpec
CONSTANTS
  onPole = onPole
  bare = bare
  narrow = narrow
  NoCorners = NoCorners
  Clusters <- MCClusters
  Extent <- MCExtent
  BracketWidth = 30
INVARIANTS
  TypeOK
  BoardLevelsStay
  BracketStaysShort
  AtMostTwoCopies
  BoxFramesLabelledBoard
  CornersNeedAllPlanes
PROPERTIES
  ImplementsSource
  PipelineEnds
CHECK_DEADLOCK FALSE
