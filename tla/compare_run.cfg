SPECIFICATION Spec
CONSTANTS
  None = None
  NonFinite = NonFinite
  NotANumber = NotANumber
  NotATable = NotATable
  Refused = Refused
  Unreadable = Unreadable
  Commands <- AllCommands
  Sanitized <- Sanitize
INVARIANTS
  EveryStateAskedForOnce
  PairedWithItsCounterpart
  BulkRowsNameTheirTableRow
  NoPlotOverwritten
  NoPointLost
  LegacyJudgesTheSamePairs
