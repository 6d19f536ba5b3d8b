SPECIFICATION Spec
CONSTANTS
  j1 = j1
  j2 = j2
  w1 = w1
  w2 = w2
  Jobs <- MCJobs
  Workers <- MCWorkers
  MaxAttempts <- MCMaxAttempts
  Queues <- MCQueues
  QueueOf <- MCQueueOf
  Priority <- MCPriority
  Known <- MCJobs
  StoreFaults = TRUE
  ForeignCancel = TRUE
  Crashes = TRUE
INVARIANTS
  ExclusiveAttempt
  IndexExact
  ResumeTokenBacked
  OutcomeJustified
PROPERTIES
  TerminalIsFinal
  ImplementsLifecycle
