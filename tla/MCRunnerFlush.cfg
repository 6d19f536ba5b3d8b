SPECIFICATION RunnerSpec
CONSTANTS
  j1 = j1
  j2 = j2
  Jobs <- MCJobs
  WorkerCount = 1
  WithRefresh = FALSE
INVARIANT FinalStatusPostDrain
