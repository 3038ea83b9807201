SPECIFICATION FairSpec
CONSTANTS
  N = 4
  Concurrency = 2
  Dags <- Shapes
INVARIANTS
  CompleteWhenDone
PROPERTIES
  Terminates
  Refines
