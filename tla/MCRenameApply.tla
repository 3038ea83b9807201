--------------------------- MODULE MCRenameApply ---------------------------
EXTENDS RenameApply

CONSTANTS media, sub

AllMoves(k) == [m \in Moves |-> k]

\* Across shares, within one, and case-only with either kind of sidecar.
MCKinds ==
  {AllMoves("copy"), AllMoves("rename"), AllMoves("case"),
   [m \in Moves |-> IF m = media THEN "case" ELSE "rename"]}

\* Each fault with crashes around it, and the undo alone.
MCFaults ==
  {{"crash"}, {"undo"}, {"crash", "recovery", "io", "bad", "limits"},
   {"crash", "recovery", "foreign"}, {"crash", "recovery", "mount"},
   {"crash", "recovery", "undo", "io", "foreign"}, {"crash", "recovery", "undo", "mount", "foreign"}}

\* One crash in the normal work.
OnlyCrashes == {{"crash"}}
=============================================================================
