SPECIFICATION FairSpec
CONSTANTS
  media = media
  sub = sub
  Media = media
  Sidecars = {sub}
  KindChoices <- MCKinds
  FaultChoices <- MCFaults
  MaxCrashes = 2
  MaxJournals = 3
CHECK_DEADLOCK FALSE
INVARIANTS
  OriginalKept
  WriteAhead
  SuccessMeansMoved
  UndoRestores
PROPERTIES
  CaseKept
  MediaArrives
