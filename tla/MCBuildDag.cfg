SPECIFICATION BuildSpec
CONSTANTS
  a = a
  b = b
  c = c
  d = d
  outsider = outsider
  Names = {a, b, c, d, outsider}
  Inputs <- AllInputs
INVARIANTS
  VerdictExact
  WavesExact
