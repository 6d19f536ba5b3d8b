SPECIFICATION FairSpec
CONSTANTS
  i1 = i1
  i2 = i2
  j1 = j1
  b1 = b1
  b2 = b2
  Items = {i1, i2}
  Jobs = {j1}
  Branches = {b1, b2}
  Adopted = 2
  MaxBlocking = 1
INVARIANTS
  ClosedInOrder
  CapturesAccounted
  MirrorFollows
PROPERTY CaptureSettles
CHECK_DEADLOCK FALSE
