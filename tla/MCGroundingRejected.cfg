SPECIFICATION GroundingSpec
CONSTANTS
  a = a
  b = b
  g1 = g1
  g2 = g2
  s1 = s1
  Chunks = {a, b}
  Grounders = {g1, g2}
  Savers = {}
  Batches <- MCBatches
  SaveTargets = {b}
  MaxGroundingRecords = 2
  ApplyBatchRetries = 1
CHECK_DEADLOCK FALSE
INVARIANTS
  RejectedLeavesDisk
