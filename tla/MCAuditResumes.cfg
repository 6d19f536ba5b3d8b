SPECIFICATION AuditSpec
CONSTANTS
  r1 = r1
  r2 = r2
  r3 = r3
  q1 = q1
  Recs <- MCRecs
  Queries = {q1}
  QueueSize = 2
  MaxLines = 2
  Days = 2
  MaxRot = 1
  MaxBoots = 2
  MaxFaults = 1
SYMMETRY MCAuditSymmetry
CHECK_DEADLOCK FALSE
INVARIANTS
  ResumesAtTail
