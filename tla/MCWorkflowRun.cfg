SPECIFICATION RunFairSpec
CONSTANTS
  sync = sync
  other = other
  Workflows = {sync, other}
  Runs = {1, 2, 3}
  Owner <- OwnerOf
  Broken = {other}
  Empty = {}
  Limitable = {sync}
  Repeating = {sync}
  MaxCycles = 2
  FaultPoints = {"invalid", "discovery", "body", "finish", "recovery"}
INVARIANTS
  OneActiveRun
  ClaimExact
  WedgedOnlyByThrow
  CancelHonoured
PROPERTIES
  BecomesIdle
