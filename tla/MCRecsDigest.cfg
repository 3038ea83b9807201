SPECIFICATION FairSpec
CONSTANTS
  a = a  b = b  c = c  a1 = a1  b1 = b1  c1 = c1  none = none
  Titles = {a1, b1, c1}
  Ids = {a, b, c}
  NoId = none
  Match <- MCMatch
  Genre <- MCGenre
  recsTarget = 2
  recsGenreCap = 1
  recsTopUpRounds = 1
  MergeRetries = 1
  NotifyRetries = 1
  FaultChoices <- MCFaultChoices
INVARIANTS TwiceHasACause ListIsNovel
PROPERTIES Delivered
