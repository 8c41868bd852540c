SPECIFICATION FairSpec
CONSTANTS
  w1 = w1
  w2 = w2
  c1 = c1
  c2 = c2
  c3 = c3
  c4 = c4
  Master = Master
  Worker <- MCWorker
  Check <- MCCheck
  FailingSets <- MCFailingSets
  nBatchSize = 2
INVARIANTS
  TodoExact
  ReturnExact
PROPERTIES
  WaitReturns
