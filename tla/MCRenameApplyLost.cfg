SPECIFICATION Spec
CONSTANTS
  media = media
  sub = sub
  Media = media
  Sidecars = {sub}
  KindChoices <- MCKinds
  FaultChoices <- OnlyCrashes
  MaxCrashes = 1
  MaxJournals = 3
CHECK_DEADLOCK FALSE
INVARIANTS
  BytesKept
