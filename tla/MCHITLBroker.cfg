SPECIFICATION FairSpec
CONSTANTS
  b1 = b1
  b2 = b2
  a1 = a1
  Blocking = {b1, b2}
  Async = {a1}
  Skipping = {b2}
INVARIANTS
  OneResolution
  SinkToldEnding
  DecisionIsHuman
  NothingLeftBehind
PROPERTIES
  CallReturns
  SubmissionSettles
CHECK_DEADLOCK FALSE
