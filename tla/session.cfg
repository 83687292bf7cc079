SPECIFICATION SessionSpec
CONSTANTS
  Registered <- TwoBenchmarks
  TypeAxes <- OneTypeAxis
  DeviceIds = {0, 1}
  Arguments <- AllArguments
  MaxArgs = 5
  Rare <- Others
  MaxRare = 1
  MaySelect = {"sample-count"}
INVARIANTS
  EveryBenchmarkAsWritten
  JudgedByItsOwnParameters
