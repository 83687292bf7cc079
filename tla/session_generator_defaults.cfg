SPECIFICATION SessionSpec
CONSTANTS
  Registered <- TwoBenchmarks
  TypeAxes <- OneTypeAxis
  DeviceIds = {0, 1}
  Arguments <- Interacting
  MaxArgs = 3
  Rare <- Nothing
  MaxRare = 0
  MaySelect = {"sample-count"}
INVARIANT SelectionHasDefaults
