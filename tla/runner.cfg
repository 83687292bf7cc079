SPECIFICATION Spec
CONSTANTS
  Benchmarks <- ThreeBenchmarks
  Loops = {TRUE, FALSE}
  MayThrow <- Failures
INVARIANTS
  NothingForgotten
  RunsOnItsDevice
PROPERTIES
  IsCampaign
