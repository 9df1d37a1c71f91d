SPECIFICATION FairSpec
CONSTANTS
  NumWorkers = 2
  NumExplorers = 0
  QueueDepth = 1
  MicroBatchWorkers = 1
  MicroBatchExplorers = 1
  ResultQueueOf <- SharedQueue
  PendingLimit = 6
  PendingAge = 1
  MaxTaskId = 2
  MaxStarts = 1
PROPERTY StopReturns
PROPERTY QueuedIsTaken
PROPERTY SubmittedIsBooked
