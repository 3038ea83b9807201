SPECIFICATION FairSpec
CONSTANTS
  a = a  b = b
  InputKeys <- MCInputKeys
  LinkChoices <- MCLinkChoices
  FaultChoices <- MCFaultChoices
  Limits = {0, 1}
  maxAttempts = 3
  MaxRetries = 1
  maxCycles = 4
  MaxDisturbances = 2
INVARIANTS DoneHasOutput
PROPERTIES CyclingTracksProgress Drains
