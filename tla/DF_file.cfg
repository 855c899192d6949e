SPECIFICATION FairSpec
CONSTANTS
  None = None
  MaxVersion = 2
  SizeOf <- TwoFiles
  Expected = 3
  ParallelMin = 2
  MaxThreads = 2
  WorkerUnit = 8
  Retries = 2
  MaxTotal = 12
  MaxParts = 5
INVARIANT TypeOK
INVARIANT PrefixKept
INVARIANT SplitIsLoop
PROPERTY ReturnedIsWhole
PROPERTY ImplementsFetch
PROPERTY CallReturns
