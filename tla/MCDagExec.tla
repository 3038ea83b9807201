----------------------------- MODULE MCDagExec -----------------------------
EXTENDS DagExec

\* Shapes on four members: a diamond, a fan-out, a chain, a fan-in, two pairs.
Shapes ==
  { <<{}, {1}, {1}, {2, 3}>>,
    <<{}, {1}, {1}, {1}>>,
    <<{2}, {3}, {4}, {}>>,
    <<{}, {}, {}, {1, 2, 3}>>,
    <<{3}, {4}, {}, {}>>,
    <<{}, {}, {}, {}>> }
=============================================================================
