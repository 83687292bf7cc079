SPECIFICATION FairSpec
CONSTANTS
  QueueDepth = 6
  MaxLaunches = 2
  Configs <- AllConfigs
  MayThrow <- Calls
INVARIANTS
  NeverAwaitsItself
  LaunchesDrained
  NoResetUnderfoot
  TimedWorkWasHeldBack
  SampleComplete
  NothingLeftStarted
PROPERTY
  Ends
