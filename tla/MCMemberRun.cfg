SPECIFICATION FairSpec
CONSTANTS
  w1 = w1
  w2 = w2
  Runs = {w1, w2}
  MaxRetries = 1
  FaultPoints = {"begin", "finish", "retry"}
INVARIANTS
  OneInvocation
  OneProcess
  RowsExact
  AbortSticks
PROPERTIES
  Settles
