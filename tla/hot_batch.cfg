SPECIFICATION FairSpec
CONSTANTS
  QueueDepth = 6
  Configs <- AllConfigs
  MayThrow <- Calls
  MaxBatch = 4
  MaxBatches = 2
INVARIANTS
  CountedBatchIsSound
PROPERTY Ends
