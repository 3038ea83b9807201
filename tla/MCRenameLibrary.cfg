SPECIFICATION FairSpec
CONSTANTS
  k1 = k1  k2 = k2  k3 = k3  f1 = f1  f2 = f2  r1 = r1  r2 = r2
  e1 = e1  e2 = e2  film = film  show = show  none = none
  Keys <- MCKeys
  Files = {f1, f2}
  Bytes <- MCBytes
  Roots <- MCRoots
  Titles = {e1, e2, film}
  Unfit = none
  Episodes = {e1, e2}
  ShowOf <- MCShowOf
  Libraries <- MCLibraries
  full = {}
  maxPerDay = 2
  maxPerRun = 1
  Retries = 1
  Limits = {0, 1}
  FaultChoices <- MCFaultChoices
INVARIANTS MovedAgainHasACause
PROPERTIES MovesArePlanned Converges
