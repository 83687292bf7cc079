CONSTANTS
  None = None
  Cwd <- MCCwd
  Plans <- MCPlans
  MaxRuns = 2
  MaxFaults = 1
  PartialSizes <- MCPartialSizes
  Directories <- MCDirectories
  Cwds <- MCCwds
  MaxChanges = 1

SPECIFICATION Spec

INVARIANTS
  SamplesAreTheRunsOwn
  LostFileCostsOnlyItsState
  PayloadAndValuesAgree
  ScriptLoadsWhatWasCompared

CHECK_DEADLOCK FALSE
