SPECIFICATION VerdictSpec
CONSTANTS
  None = None
  NonFinite = NonFinite
  NotANumber = NotANumber
  NotATable = NotATable
  Refused = Refused
  Comparisons <- AllComparisons
INVARIANTS
  SwappingSwapsTheVerdict
  FasterInCyclesToo
  BulkNeverContradicts
  StricterDecidesLess
  DumpReproduces
  EveryThresholdAsWritten
