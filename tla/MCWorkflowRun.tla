--------------------------- MODULE MCWorkflowRun ---------------------------
EXTENDS WorkflowRun, TLC

CONSTANTS sync, other

\* sync repeats, can be limited and runs twice; other is no DAG (MCWorkflowRun) or
\* has no member (the other runs).
OwnerOf == (1 :> sync) @@ (2 :> sync) @@ (3 :> other)
=============================================================================
