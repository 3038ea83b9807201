------------------------------ MODULE BuildDag ------------------------------
(***************************************************************************)
(* buildDag (core/dag.ts): the references of a workflow become a DAG with  *)
(* its waves, or an error.  The function is sequential; a step here is one *)
(* of its loops, or one round of Kahn's algorithm.  Some names differ from *)
(* those of the code, to stay apart from executeDag's in DagExec.          *)
(***************************************************************************)
EXTENDS Integers, Sequences, FiniteSets

CONSTANTS
  Names,    \* names of jobs
  Inputs    \* lists of references: [job, dependsOn], dependsOn a list as well

ASSUME InputsAssumption == Inputs \subseteq Seq([job : Names, dependsOn : Seq(Names)])

VARIABLES
  refs,          \* the input
  dependencies,  \* dependencies of each node, as listed
  degree,        \* `indegree`: edges of each node from nodes that are in no wave yet
  frontier,      \* `ready`: the next wave
  wave,          \* the index of a node's wave, -1 for none yet
  depth,         \* waves.length
  left,          \* `remaining`: nodes in no wave yet, a count
  verdict        \* "refs", "waves" (loops still to run), or what buildDag returned:
                 \* "ok", "invalid", "cycle"

buildVars == <<refs, dependencies, degree, frontier, wave, depth, left, verdict>>

Nodes == {refs[i].job : i \in DOMAIN refs}

\* The edges of a node from a set of nodes; one that is listed twice counts twice,
\* in the indegree as among the dependents.
Edges(n, S) == {i \in DOMAIN dependencies[n] : dependencies[n][i] \in S}

BuildInit ==
  /\ refs \in Inputs
  /\ dependencies = [n \in Nodes |-> <<>>]
  /\ degree = [n \in Nodes |-> 0]
  /\ frontier = {}
  /\ wave = [n \in Nodes |-> -1]
  /\ depth = 0
  /\ left = 0
  /\ verdict = "refs"

Distinct == \A i, j \in DOMAIN refs : refs[i].job = refs[j].job => i = j

\* An edge to a member, and not to itself.
ProperEdges ==
  \A i \in DOMAIN refs : \A k \in DOMAIN refs[i].dependsOn :
    refs[i].dependsOn[k] \in Nodes \ {refs[i].job}

\* A duplicate member, an edge to itself, an edge to no member: a DagError.
RejectRefs ==
  /\ verdict = "refs"
  /\ ~(Distinct /\ ProperEdges)
  /\ verdict' = "invalid"
  /\ UNCHANGED <<refs, dependencies, degree, frontier, wave, depth, left>>

DependsOn(n) == refs[CHOOSE i \in DOMAIN refs : refs[i].job = n].dependsOn

Connect ==
  /\ verdict = "refs"
  /\ Distinct /\ ProperEdges
  /\ dependencies' = [n \in Nodes |-> DependsOn(n)]
  /\ degree' = [n \in Nodes |-> Len(DependsOn(n))]
  /\ frontier' = {n \in Nodes : DependsOn(n) = <<>>}
  /\ left' = Cardinality(Nodes)
  /\ verdict' = "waves"
  /\ UNCHANGED <<refs, wave, depth>>

\* Mutant of LeftAfter: a dependency listed twice is taken off once.
LeftOnce(n) == degree[n] - Cardinality({dependencies[n][i] : i \in Edges(n, frontier)})

\* What the round leaves of an indegree.
LeftAfter(n) == degree[n] - Cardinality(Edges(n, frontier))

\* A node whose last edge the round takes away belongs to the next wave.
NextReady == {n \in Nodes : Edges(n, frontier) # {} /\ LeftAfter(n) = 0}

\* Mutant of NextWave: the next wave goes into the array that is being walked.
NextWaveInPlace ==
  /\ verdict = "waves" /\ frontier # {}
  /\ wave' = [n \in Nodes |-> IF n \in frontier THEN depth ELSE wave[n]]
  /\ depth' = IF NextReady # {} THEN depth ELSE depth + 1
  /\ left' = left - Cardinality(frontier)
  /\ degree' = [n \in Nodes |-> LeftAfter(n)]
  /\ frontier' = NextReady
  /\ UNCHANGED <<refs, dependencies, verdict>>

\* One round: the ready nodes become a wave.
NextWave ==
  /\ verdict = "waves" /\ frontier # {}
  /\ wave' = [n \in Nodes |-> IF n \in frontier THEN depth ELSE wave[n]]
  /\ depth' = depth + 1
  /\ left' = left - Cardinality(frontier)
  /\ degree' = [n \in Nodes |-> LeftAfter(n)]
  /\ frontier' = NextReady
  /\ UNCHANGED <<refs, dependencies, verdict>>

\* Mutant of Accept: what remains is not looked at.
AcceptAnyway ==
  /\ verdict = "waves" /\ frontier = {}
  /\ verdict' = "ok"
  /\ UNCHANGED <<refs, dependencies, degree, frontier, wave, depth, left>>

Accept ==
  /\ verdict = "waves" /\ frontier = {}
  /\ left <= 0
  /\ verdict' = "ok"
  /\ UNCHANGED <<refs, dependencies, degree, frontier, wave, depth, left>>

RejectCycle ==
  /\ verdict = "waves" /\ frontier = {}
  /\ left > 0
  /\ verdict' = "cycle"
  /\ UNCHANGED <<refs, dependencies, degree, frontier, wave, depth, left>>

Returned == verdict \in {"ok", "invalid", "cycle"}

BuildNext ==
  \/ RejectRefs \/ Connect \/ NextWave \/ Accept \/ RejectCycle
  \/ Returned /\ UNCHANGED buildVars

BuildSpec == BuildInit /\ [][BuildNext]_buildVars

\* The members the error names.
Cyclic == {n \in Nodes : degree[n] > 0}
-----------------------------------------------------------------------------
\* Shape of the state.
BuildTypeOK ==
  /\ refs \in Seq([job : Names, dependsOn : Seq(Names)])
  /\ dependencies \in [Nodes -> Seq(Names)]
  /\ degree \in [Nodes -> Nat]
  /\ frontier \subseteq Nodes
  /\ wave \in [Nodes -> Nat \cup {-1}]
  /\ depth \in Nat
  /\ left \in Nat
  /\ verdict \in {"refs", "waves", "ok", "invalid", "cycle"}

\* What is accepted is a DAG of its members (core/dag.ts:18-20): dependencies are
\* members and no set of members waits for itself.  executeDag relies on it.
AcceptsOnlyDags ==
  verdict = "ok" =>
    /\ \A n \in Nodes : Edges(n, Nodes) = DOMAIN dependencies[n]
    /\ \A S \in (SUBSET Nodes) \ {{}} : \E n \in S : Edges(n, S) = {}

\* What is rejected as cyclic is: each member the error names waits for another one
\* it names (core/dag.ts:72-75), so no DAG is refused.
RejectsOnlyCycles ==
  verdict = "cycle" => Cyclic # {} /\ \A n \in Cyclic : Edges(n, Cyclic) # {}

\* The verdict is exact: the lists buildDag accepts are those whose members form a
\* DAG, and it calls cyclic only lists that have a cycle (core/dag.ts:18-20, 72-75).
VerdictExact == AcceptsOnlyDags /\ RejectsOnlyCycles

\* A job lands one wave after its latest dependency (core/dag.ts:20-21), and no wave
\* is empty: the last one, which a limited run takes for its terminal jobs, has
\* members.
WavesExact ==
  verdict = "ok" =>
    /\ \A n \in Nodes :
         /\ wave[n] \in 0 .. depth - 1
         /\ \A i \in DOMAIN dependencies[n] : wave[dependencies[n][i]] < wave[n]
         /\ wave[n] > 0 => \E i \in DOMAIN dependencies[n] : wave[dependencies[n][i]] = wave[n] - 1
    /\ \A k \in 0 .. depth - 1 : \E n \in Nodes : wave[n] = k
=============================================================================
