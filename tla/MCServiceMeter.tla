--------------------------- MODULE MCServiceMeter ---------------------------
EXTENDS ServiceMeter, TLC

CONSTANTS p1, p2, p3

\* The processes are interchangeable.
Interchangeable == Permutations(Callers)
=============================================================================
