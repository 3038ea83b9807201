------------------------------ MODULE DagSpec ------------------------------
(***************************************************************************)
(* What executeDag (src/src/core/dag.ts) promises its caller, without its  *)
(* loop, its promises or its bookkeeping: a stage starts only when every   *)
(* dependency has succeeded and a slot is free, a stage with a settled     *)
(* dependency that did not succeed is skipped, and once the execution is   *)
(* stopped nothing new starts.                                             *)
(***************************************************************************)
EXTENDS Integers, FiniteSets

CONSTANTS
  Jobs,     \* the members of the workflow
  Dags,     \* the dependency functions the specification ranges over
  Cap       \* how many members may be running at once

Outcome == {"success", "failed", "timeout", "cancelled", "skipped"}

VARIABLES
  deps,     \* the DAG being executed
  st,       \* the state of each member
  stopped   \* the execution was cancelled or failed

vars == <<deps, st, stopped>>

Running == {j \in Jobs : st[j] = "running"}

Init ==
  /\ deps \in Dags
  /\ st = [j \in Jobs |-> "waiting"]
  /\ stopped \in BOOLEAN

Start(j) ==
  /\ ~stopped
  /\ st[j] = "waiting"
  /\ \A d \in deps[j] : st[d] = "success"
  /\ Cardinality(Running) < Cap
  /\ st' = [st EXCEPT ![j] = "running"]
  /\ UNCHANGED <<deps, stopped>>

Finish(j, s) ==
  /\ st[j] = "running"
  /\ st' = [st EXCEPT ![j] = s]
  /\ UNCHANGED <<deps, stopped>>

Cascade(j) ==
  /\ st[j] = "waiting"
  /\ \A d \in deps[j] : st[d] \in Outcome
  /\ \E d \in deps[j] : st[d] # "success"
  /\ st' = [st EXCEPT ![j] = "skipped"]
  /\ UNCHANGED <<deps, stopped>>

Stop ==
  /\ stopped' = TRUE
  /\ UNCHANGED <<deps, st>>

Next ==
  \/ \E j \in Jobs : Start(j) \/ Cascade(j)
  \/ \E j \in Jobs, s \in Outcome : Finish(j, s)
  \/ Stop

Spec == Init /\ [][Next]_vars
=============================================================================
