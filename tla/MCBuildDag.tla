----------------------------- MODULE MCBuildDag -----------------------------
EXTENDS BuildDag, SequencesExt

CONSTANTS a, b, c, d, outsider

\* The subsets of the other members, as lists.
Others(n) == {SetToSeq(S) : S \in SUBSET ({a, b, c, d} \ {n})}

\* Every graph on four members.
GraphsOfFour ==
  { <<[job |-> a, dependsOn |-> p], [job |-> b, dependsOn |-> q],
      [job |-> c, dependsOn |-> r], [job |-> d, dependsOn |-> s]>> :
    p \in Others(a), q \in Others(b), r \in Others(c), s \in Others(d) }

\* Lists of up to two that may name a member twice, an outsider or the member itself.
Short == {<<>>} \cup {<<x>> : x \in Names \ {d}} \cup {<<x, y>> : x, y \in Names \ {d}}

\* Three members; the last may be a duplicate.
ListsOfThree ==
  { <<[job |-> a, dependsOn |-> p], [job |-> b, dependsOn |-> q],
      [job |-> last, dependsOn |-> r]>> : p, q, r \in Short, last \in {a, c} }

AllInputs == GraphsOfFour \cup ListsOfThree
=============================================================================
