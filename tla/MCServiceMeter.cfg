SPECIFICATION MeterSpec
CONSTANTS
  p1 = p1
  p2 = p2
  p3 = p3
  Callers = {p1, p2, p3}
  Modes = {"interval", "rate", "plain"}
  MonthlyCap = 3
  DailyCap = 2
  RatePerWindow = 2
  MinInterval = 3
  MaxWait = 1
  Second = 2
  Window = 1
  Day = 1
  Month = 2
  MaxTime = 4
  MaxCalls = 2
CHECK_DEADLOCK FALSE
SYMMETRY Interchangeable
INVARIANTS
  OvershootBounded
  RateHeld
  SpacingAlmostHeld
