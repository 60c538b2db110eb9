SPECIFICATION Spec
CONSTANTS
  Folders = {intrinsic_parameters, extrinsic_parameters}
  Intrinsic = intrinsic_parameters
  Cameras = {0, 1, 2}
  LastChecked = 1
  Source <- MCSource
  MaxRuns = 3
INVARIANTS
  OthersAreCopied
  IntrinsicsAreTheVehicles
  CheckedAreUsable
CHECK_DEADLOCK FALSE
