CONSTANTS
  None = None
  Invocations <- MCInvocations
  Surroundings <- MCSurroundings
  ScriptOf <- MCScriptOf

SPECIFICATION ExamplesSpec

INVARIANTS
  ConfiguredAsWritten
  NothingAskedForIsLeftOut
  SuccessIsEarned

CHECK_DEADLOCK FALSE
