SPECIFICATION Spec
CONSTANTS
  Configs <- Both
  WallCosts = {1, 2, 5}
  MaxInt = 16
INVARIANTS
  OneMoreBatchSuffices
PROPERTIES
  IsMeasurement
