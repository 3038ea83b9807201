SPECIFICATION FairSpec
CONSTANTS
  c1 = c1  c2 = c2  p1 = p1  p2 = p2
  InputKeys <- MCInputKeys
  Places <- MCPlaces
  PlaceOfChoices <- MCShared
  FaultChoices <- MCFaultChoices
  Limits = {0, 1}
  MaxAttempts = 2
  MaxRetries = 1
  MaxDisturbances = 2
INVARIANTS DoneHasPayload SelectorAgrees
PROPERTIES NeverRedone Drains
