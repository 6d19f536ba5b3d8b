SPECIFICATION AppSpec
CONSTANTS
  k1 = k1
  k2 = k2
  k3 = k3
  k4 = k4
  v1 = v1
  v2 = v2
  Keys <- MCKeys
  Cap = 3
  Ttl = 2
  Values <- MCValues
  Capacity = 3
  Half <- MCHalf
  Bases <- MCBases
  MaxSpecBackoff = 86400
  DefaultBase = 30
  DelayCap = 300
  Attempts <- MCAttempts
  l1 = l1
  l2 = l2
  p1 = p1
  p2 = p2
  Starts = {l1, l2}
  Stops = {p1, p2}
  Schedule <- MCSchedule
  MaxClock = 2
  c1 = c1
  c2 = c2
  c3 = c3
  t1 = t1
  t2 = t2
  Calls = {c1, c2, c3}
  TaskIDs = {t1, t2}
  NoRun = NoRun
  a = a
  b = b
  g1 = g1
  g2 = g2
  s1 = s1
  Chunks = {a, b}
  Grounders = {g1, g2}
  Savers = {s1}
  Batches <- MCBatches
  SaveTargets = {b}
  MaxGroundingRecords = 2
  ApplyBatchRetries = 1
  h1 = h1
  h2 = h2
  h3 = h3
  h4 = h4
  Chunk = {h1, h2, h3, h4}
  StaleEdges <- MCStaleEdges
  MaxDepth = 2
  Revisions <- MCRevisions
  EventBuffer = 1
  MaxEvents = 3
  MaxFailures = 2
SYMMETRY MCAppSymmetry
CHECK_DEADLOCK FALSE
INVARIANTS
  SnapshotIsRecent
  DelayIsCurve
  SurvivorsNamed
  ReportPartitions
  NoLostWakeup
  NoLostMerge
  RetrySupersedes
  PropagationComplete
  WorkHasWakeup
PROPERTIES
  OrderExact
  IntervalKept
  StopJoins
  TombstoneHolds
