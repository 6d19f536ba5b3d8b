SPECIFICATION PartSpec
CONSTANTS
  f1 = f1
  f2 = f2
  a = a
  b = b
  Files <- MCFiles
  Correlate <- MCCorrelate
  Content <- MCContent
  StoreFaults = TRUE
  FsFaults = TRUE
  j1 = j1
  j2 = j2
  Jobs <- MCJobs
  WorkerCount = 2
  WithRefresh = TRUE
INVARIANTS
  AcceptedNeverLost
  JobsAccounted
  NothingUsesClosedStore
  FinalStatusDraining
PROPERTIES
  SpoolDrains
  DrainEnds
