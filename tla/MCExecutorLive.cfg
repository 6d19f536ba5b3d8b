SPECIFICATION FairSpec
CONSTANTS
  j1 = j1
  j2 = j2
  w1 = w1
  w2 = w2
  Jobs <- MCJobs
  Workers <- MCWorkers
  MaxAttempts <- MCMaxAttempts
  Queues <- MCQueues
  QueueOf <- MCQueueOf
  Priority <- MCPriority
  Known <- MCKnown
  StoreFaults = FALSE
  ForeignCancel = FALSE
  Crashes = TRUE
INVARIANT NoOrphan
PROPERTY EventuallySettled
