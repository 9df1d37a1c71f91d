SPECIFICATION Spec
CONSTANTS
  NumWorkers = 2
  NumExplorers = 0
  QueueDepth = 1
  MicroBatchWorkers = 2
  MicroBatchExplorers = 1
  ResultQueueOf <- SharedQueue
  PendingLimit = 8
  PendingAge = 1
  MaxTaskId = 3
  MaxStarts = 1
INVARIANT TypeOK
INVARIANT Custody
INVARIANT AtMostOnce
INVARIANT QueueBound
INVARIANT StopLeavesNothing
