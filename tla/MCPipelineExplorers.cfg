SPECIFICATION Spec
CONSTANTS
  NumWorkers = 1
  NumExplorers = 1
  QueueDepth = 1
  MicroBatchWorkers = 1
  MicroBatchExplorers = 2
  ResultQueueOf <- ExplorersQueue
  PendingLimit = 3
  PendingAge = 1
  MaxTaskId = 4
  MaxStarts = 2
INVARIANT PendingBound
INVARIANT BookedIsLearned
PROPERTY LedgerSpec
