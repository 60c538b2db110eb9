SPECIFICATION FairSpec
CONSTANTS
  Unreadable = Unreadable
  NoPose = NoPose
  Cams = {0, 1, 6}
  Listed = {0, 1}
  Mounts = {m1, m2}
  Frequencies <- MCFrequencies
  MaxRuns = 1
INVARIANTS
  MembersCanLog
CHECK_DEADLOCK FALSE
