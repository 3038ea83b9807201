-------------------------- MODULE Executor_proofs --------------------------
(***************************************************************************)
(* Proofs about core/dag.ts (buildDag for every list of references, and    *)
(* executeDag for every number of members, every DAG and every             *)
(* concurrency) and core/workflow-executor.ts (the life of any number of   *)
(* runs).  IInv says how the bookkeeping of executeDag's loop (remaining,  *)
(* indegree, inflight, ready) follows from the status map; BuildIInv does  *)
(* the same for Kahn's algorithm, and AcceptedIsDag joins the two: what    *)
(* buildDag accepts is what executeDag assumes.  RunIInv says how the row, *)
(* the claim, the registry and the invocation of a run fit together.       *)
(***************************************************************************)
EXTENDS DagExec, BuildDag, WorkflowRun, FiniteSetTheorems, TLAPS

-----------------------------------------------------------------------------
(* executeDag. *)

Unsettled(S) == {d \in S : status[d] = "none"}

RemainingExact == remaining = Unsettled(Jobs)

IndegreeExact == \A j \in Jobs : indegree[j] = Cardinality(Unsettled(deps[j]))

\* A member in flight has a status exactly while its onSettle is awaited; a
\* launched member is in flight or has settled.
PhaseExact ==
  /\ \A j \in inflight : j \in settling <=> status[j] # "none"
  /\ \A j \in started : j \in inflight \/ status[j] # "none"

\* The snapshot only holds members that are still launchable or skippable.
ReadyExact ==
  /\ pc \in {"loop", "race", "done"} => ready = {}
  /\ aborted /\ pc # "rejected" => ready = {}
  /\ \A j \in ready :
       /\ status[j] = "none"
       /\ j \notin started
       /\ \A d \in deps[j] : status[d] # "none"

\* The inductive invariant.
IInv ==
  /\ TypeOK
  /\ RemainingExact
  /\ IndegreeExact
  /\ PhaseExact
  /\ ReadyExact
  /\ LaunchedAfterDeps
  /\ SkipJustified
  /\ CompleteWhenDone

-----------------------------------------------------------------------------
\* The sets of members are finite.
LEMMA JobsFinite ==
  ASSUME NEW S \in SUBSET Jobs
  PROVE  IsFiniteSet(S) /\ Cardinality(S) \in Nat
<1>1. IsFiniteSet(Jobs)
  BY FS_Interval, SizeAssumption DEF Jobs
<1> QED BY <1>1, FS_Subset, FS_CardinalityType

\* A DAG on the members is a function from members to sets of members.
LEMMA DepsType ==
  ASSUME deps \in Dags
  PROVE  deps \in [Jobs -> SUBSET Jobs]
BY DagsAssumption DEF IsDag

LEMMA InitIInv == Init => IInv
<1> SUFFICES ASSUME Init PROVE IInv
  OBVIOUS
<1> USE DEF Init
<1>1. deps \in [Jobs -> SUBSET Jobs]
  BY DepsType
<1>2. \A j \in Jobs : Unsettled(deps[j]) = deps[j] /\ Cardinality(deps[j]) \in Nat
  BY <1>1, JobsFinite DEF Unsettled
<1>3. TypeOK
  BY <1>2 DEF TypeOK
<1> QED
  BY <1>2, <1>3 DEF IInv, RemainingExact, IndegreeExact, PhaseExact, ReadyExact,
     LaunchedAfterDeps, SkipJustified, CompleteWhenDone, Unsettled

\* What settling a member that had no status does to the bookkeeping.
LEMMA SettleStep ==
  ASSUME IInv, NEW j \in Jobs, NEW s \in Outcome, status[j] = "none",
         Settle(j, s), deps' = deps
  PROVE  /\ status' \in [Jobs -> Outcome \cup {"none"}]
         /\ remaining' \subseteq Jobs
         /\ indegree' \in [Jobs -> Nat]
         /\ RemainingExact'
         /\ IndegreeExact'
<1> USE DEF IInv, TypeOK
<1>1. deps \in [Jobs -> SUBSET Jobs]
  BY DepsType
<1>2. s # "none" /\ status' = [status EXCEPT ![j] = s]
  BY DEF Settle, Outcome
<1>3. status' \in [Jobs -> Outcome \cup {"none"}] /\ remaining' \subseteq Jobs
  BY <1>2 DEF Settle
<1>4. RemainingExact'
  BY <1>2 DEF Settle, RemainingExact, Unsettled
<1>5. ASSUME NEW k \in Jobs
      PROVE  indegree'[k] = Cardinality(Unsettled(deps[k])') /\ indegree'[k] \in Nat
  <2> DEFINE U == Unsettled(deps[k])
             V == Unsettled(deps[k])'
  <2>1. IsFiniteSet(U) /\ Cardinality(U) \in Nat /\ V \in SUBSET Jobs
    BY <1>1, JobsFinite DEF Unsettled
  <2>2. V = U \ {j}
    BY <1>1, <1>2 DEF Unsettled
  <2>3. Cardinality(V) = IF j \in U THEN Cardinality(U) - 1 ELSE Cardinality(U)
    BY <2>1, <2>2, FS_RemoveElement
  <2>4. j \in U <=> j \in deps[k]
    BY DEF Unsettled
  <2>5. indegree[k] = Cardinality(U)
    BY DEF IndegreeExact
  <2>6. indegree'[k] = Cardinality(V)
    BY <2>1, <2>3, <2>4, <2>5 DEF Settle
  <2> QED BY <2>1, <2>6, JobsFinite
<1>6. indegree' \in [Jobs -> Nat] /\ IndegreeExact'
  BY <1>5 DEF Settle, IndegreeExact
<1> QED BY <1>3, <1>4, <1>6

\* A member whose indegree is 0 has no dependency left to settle.
LEMMA ReadyDepsSettled ==
  ASSUME IInv, NEW j \in Jobs, indegree[j] = 0
  PROVE  \A d \in deps[j] : status[d] # "none"
<1>1. Unsettled(deps[j]) \in SUBSET Jobs
  BY DepsType DEF IInv, TypeOK, Unsettled
<1>2. Unsettled(deps[j]) = {}
  BY <1>1, JobsFinite, FS_EmptySet DEF IInv, IndegreeExact
<1> QED BY <1>2 DEF Unsettled

\* While members remain, one of them has indegree 0.
LEMMA SomeReady ==
  ASSUME IInv, remaining # {}
  PROVE  \E j \in remaining : indegree[j] = 0
<1>1. remaining \in (SUBSET Jobs) \ {{}} /\ IsDag(deps)
  BY DagsAssumption DEF IInv, TypeOK
<1>2. PICK j \in remaining : deps[j] \cap remaining = {}
  BY <1>1 DEF IsDag
<1>3. Unsettled(deps[j]) = {}
  BY <1>1, <1>2, DepsType DEF IInv, TypeOK, RemainingExact, Unsettled
<1>4. indegree[j] = 0
  BY <1>1, <1>3, FS_EmptySet DEF IInv, IndegreeExact
<1> QED BY <1>4

-----------------------------------------------------------------------------
\* IInv is preserved, one lemma per action that changes the bookkeeping.

LEMMA BeginRoundIInv == IInv /\ BeginRound => IInv'
<1> SUFFICES ASSUME IInv, BeginRound PROVE IInv'
  OBVIOUS
<1> USE DEF BeginRound
<1>1. \A j \in ReadyJobs : /\ j \in Jobs /\ status[j] = "none" /\ j \notin started
                           /\ \A d \in deps[j] : status[d] # "none"
  BY ReadyDepsSettled DEF ReadyJobs, IInv, TypeOK, RemainingExact, Unsettled, PhaseExact
<1>2. TypeOK'
  BY <1>1 DEF IInv, TypeOK
<1>3. ReadyExact'
  BY <1>1 DEF IInv, ReadyExact
<1> QED
  BY <1>2, <1>3 DEF IInv, RemainingExact, IndegreeExact, PhaseExact, Unsettled,
     LaunchedAfterDeps, SkipJustified, CompleteWhenDone

LEMMA SkipStageIInv == ASSUME NEW j \in Jobs PROVE IInv /\ SkipStage(j) => IInv'
<1> SUFFICES ASSUME IInv, SkipStage(j) PROVE IInv'
  OBVIOUS
<1> USE DEF SkipStage, Visiting, Outcome
<1>1. status[j] = "none" /\ j \notin started /\ \A d \in deps[j] : status[d] # "none"
  BY DEF IInv, ReadyExact
<1>2. /\ status' \in [Jobs -> Outcome \cup {"none"}]
      /\ remaining' \subseteq Jobs
      /\ indegree' \in [Jobs -> Nat]
      /\ RemainingExact'
      /\ IndegreeExact'
  BY <1>1, SettleStep
<1>3. /\ status' = [status EXCEPT ![j] = "skipped"]
      /\ deps \in [Jobs -> SUBSET Jobs]
      /\ status \in [Jobs -> Outcome \cup {"none"}]
  BY DepsType DEF Settle, IInv, TypeOK
<1>4. TypeOK'
  BY <1>2 DEF IInv, TypeOK
<1>5. PhaseExact'
  BY <1>1, <1>3 DEF IInv, TypeOK, PhaseExact
<1>6. ReadyExact'
  BY <1>1, <1>3 DEF IInv, TypeOK, ReadyExact
<1>7. LaunchedAfterDeps'
  BY <1>1, <1>3 DEF IInv, TypeOK, LaunchedAfterDeps
<1>8. SkipJustified'
  <2>1. \E d \in deps[j] : status[d] \notin {"none", "success"}
    BY <1>1 DEF FailedDep
  <2> QED BY <1>1, <1>3, <2>1 DEF IInv, TypeOK, SkipJustified
<1> QED
  BY <1>2, <1>4, <1>5, <1>6, <1>7, <1>8 DEF IInv, CompleteWhenDone

LEMMA LaunchIInv == ASSUME NEW j \in Jobs PROVE IInv /\ Launch(j) => IInv'
<1> SUFFICES ASSUME IInv, Launch(j) PROVE IInv'
  OBVIOUS
<1> USE DEF Launch, Visiting
<1>1. status[j] = "none" /\ j \notin started
  BY DEF IInv, ReadyExact
<1>2. \A d \in deps[j] : status[d] = "success"
  BY DEF FailedDep
<1>3. TypeOK'
  BY DEF IInv, TypeOK
<1>4. PhaseExact' /\ ReadyExact' /\ LaunchedAfterDeps'
  BY <1>1, <1>2 DEF IInv, TypeOK, PhaseExact, ReadyExact, LaunchedAfterDeps
<1>5. SkipJustified'
  BY <1>1 DEF IInv, SkipJustified
<1> QED
  BY <1>3, <1>4, <1>5 DEF IInv, RemainingExact, IndegreeExact, Unsettled, CompleteWhenDone

LEMMA EndRoundIInv == IInv /\ EndRound => IInv'
<1> SUFFICES ASSUME IInv, EndRound PROVE IInv'
  OBVIOUS
<1> USE DEF EndRound
<1>1. TypeOK' /\ ReadyExact'
  BY DEF IInv, TypeOK, ReadyExact, AfterRound
<1>2. CompleteWhenDone'
  BY SomeReady DEF IInv, TypeOK, AfterRound, PhaseExact, CompleteWhenDone
<1> QED
  BY <1>1, <1>2 DEF IInv, RemainingExact, IndegreeExact, PhaseExact, Unsettled,
     LaunchedAfterDeps, SkipJustified

LEMMA LeaveLoopIInv == IInv /\ LeaveLoop => IInv'
<1> SUFFICES ASSUME IInv, LeaveLoop PROVE IInv'
  OBVIOUS
<1> USE DEF LeaveLoop
<1>1. TypeOK' /\ ReadyExact'
  BY DEF IInv, TypeOK, ReadyExact
<1>2. CompleteWhenDone'
  BY DEF IInv, TypeOK, PhaseExact, RemainingExact, Unsettled, CompleteWhenDone
<1> QED
  BY <1>1, <1>2 DEF IInv, RemainingExact, IndegreeExact, PhaseExact, Unsettled,
     LaunchedAfterDeps, SkipJustified

LEMMA RunOneSettlesIInv ==
  ASSUME NEW j \in Jobs, NEW s \in Outcome
  PROVE  IInv /\ RunOneSettles(j, s) => IInv'
<1> SUFFICES ASSUME IInv, RunOneSettles(j, s) PROVE IInv'
  OBVIOUS
<1> USE DEF RunOneSettles, Suspended
<1>1. status[j] = "none" /\ j \in started /\ s # "none"
  BY DEF IInv, TypeOK, PhaseExact, Outcome
<1>2. /\ status' \in [Jobs -> Outcome \cup {"none"}]
      /\ remaining' \subseteq Jobs
      /\ indegree' \in [Jobs -> Nat]
      /\ RemainingExact'
      /\ IndegreeExact'
  BY <1>1, SettleStep
<1>3. /\ status' = [status EXCEPT ![j] = s]
      /\ deps \in [Jobs -> SUBSET Jobs]
      /\ status \in [Jobs -> Outcome \cup {"none"}]
  BY DepsType DEF Settle, IInv, TypeOK
<1>4. TypeOK'
  BY <1>2 DEF IInv, TypeOK
<1>5. PhaseExact'
  BY <1>1, <1>3 DEF IInv, TypeOK, PhaseExact
<1>6. ReadyExact'
  BY <1>1, <1>3 DEF IInv, TypeOK, ReadyExact
<1>7. LaunchedAfterDeps'
  BY <1>1, <1>3 DEF IInv, TypeOK, LaunchedAfterDeps
<1>8. SkipJustified'
  BY <1>1, <1>3 DEF IInv, TypeOK, SkipJustified
<1>9. CompleteWhenDone'
  BY <1>1, <1>3 DEF IInv, TypeOK, CompleteWhenDone
<1> QED
  BY <1>2, <1>4, <1>5, <1>6, <1>7, <1>8, <1>9 DEF IInv

LEMMA PromiseCompletesIInv ==
  ASSUME NEW j \in Jobs, NEW after \in {"loop", "rejected"}
  PROVE  IInv /\ PromiseCompletes(j, after) => IInv'
<1> SUFFICES ASSUME IInv, PromiseCompletes(j, after) PROVE IInv'
  OBVIOUS
<1> USE DEF PromiseCompletes, Suspended
<1>1. TypeOK'
  BY DEF IInv, TypeOK
<1>2. PhaseExact' /\ ReadyExact' /\ CompleteWhenDone'
  BY DEF IInv, TypeOK, PhaseExact, ReadyExact, CompleteWhenDone
<1> QED
  BY <1>1, <1>2 DEF IInv, RemainingExact, IndegreeExact, Unsettled,
     LaunchedAfterDeps, SkipJustified

\* The remaining actions only move pc, drop a visited member from the snapshot
\* or set the signal.
LEMMA OtherIInv ==
  ASSUME IInv,
         \/ SkipReturns
         \/ \E j \in Jobs : Defer(j) \/ StartThrows(j)
         \/ Abort
         \/ UNCHANGED vars
  PROVE  IInv'
<1>1. CASE SkipReturns
  BY <1>1 DEF SkipReturns, IInv, TypeOK, RemainingExact, IndegreeExact, PhaseExact,
     ReadyExact, Unsettled, LaunchedAfterDeps, SkipJustified, CompleteWhenDone
<1>2. ASSUME NEW j \in Jobs, Defer(j)
      PROVE  IInv'
  BY <1>2 DEF Defer, Visiting, IInv, TypeOK, RemainingExact, IndegreeExact, PhaseExact,
     ReadyExact, Unsettled, LaunchedAfterDeps, SkipJustified, CompleteWhenDone
<1>3. ASSUME NEW j \in Jobs, StartThrows(j)
      PROVE  IInv'
  BY <1>3 DEF StartThrows, Visiting, IInv, TypeOK, RemainingExact, IndegreeExact,
     PhaseExact, ReadyExact, Unsettled, LaunchedAfterDeps, SkipJustified, CompleteWhenDone
<1>4. CASE Abort
  BY <1>4 DEF Abort, IInv, TypeOK, RemainingExact, IndegreeExact, PhaseExact,
     ReadyExact, Unsettled, LaunchedAfterDeps, SkipJustified, CompleteWhenDone
<1>5. CASE UNCHANGED vars
  BY <1>5 DEF vars, IInv, TypeOK, RemainingExact, IndegreeExact, PhaseExact,
     ReadyExact, Unsettled, LaunchedAfterDeps, SkipJustified, CompleteWhenDone
<1> QED BY <1>1, <1>2, <1>3, <1>4, <1>5

LEMMA NextIInv == IInv /\ [Next]_vars => IInv'
<1> SUFFICES ASSUME IInv, [Next]_vars PROVE IInv'
  OBVIOUS
<1>1. CASE Loop
  BY <1>1, BeginRoundIInv, SkipStageIInv, LaunchIInv, EndRoundIInv, LeaveLoopIInv,
     OtherIInv DEF Loop
<1>2. ASSUME NEW j \in Jobs, Member(j)
      PROVE  IInv'
  BY <1>2, RunOneSettlesIInv, PromiseCompletesIInv
     DEF Member, OnSettleReturns, OnSettleThrows
<1>3. CASE Abort \/ UNCHANGED vars
  BY <1>3, OtherIInv
<1> QED BY <1>1, <1>2, <1>3 DEF Next

\* The bookkeeping of the loop is exact in every reachable state.
THEOREM BookkeepingExact == Spec => []IInv
BY InitIInv, NextIInv, PTL DEF Spec

\* Shape of the state, for every DAG.
THEOREM TypeCorrect == Spec => []TypeOK
BY BookkeepingExact, PTL DEF IInv

\* Members are only ever launched after all their dependencies succeeded.
THEOREM LaunchOrder == Spec => []LaunchedAfterDeps
BY BookkeepingExact, PTL DEF IInv

\* No member is skipped before a dependency really failed.
THEOREM SkipsJustified == Spec => []SkipJustified
BY BookkeepingExact, PTL DEF IInv

\* executeDag never resolves early and never forgets a member.
THEOREM Completion == Spec => []CompleteWhenDone
BY BookkeepingExact, PTL DEF IInv
-----------------------------------------------------------------------------
\* Adding or dropping one member in flight.
LEMMA InflightStep ==
  ASSUME IInv, NEW j \in Jobs
  PROVE  /\ IsFiniteSet(inflight) /\ Cardinality(inflight) \in Nat
         /\ Cardinality(inflight \cup {j}) \in Nat
         /\ Cardinality(inflight \cup {j}) <= Cardinality(inflight) + 1
         /\ Cardinality(inflight \ {j}) <= Cardinality(inflight)
<1>1. inflight \in SUBSET Jobs
  BY DEF IInv, TypeOK
<1>2. IsFiniteSet(inflight) /\ Cardinality(inflight) \in Nat
  BY <1>1, JobsFinite
<1>3. Cardinality(inflight \cup {j}) \in {Cardinality(inflight), Cardinality(inflight) + 1}
  BY <1>2, FS_AddElement
<1>4. Cardinality(inflight \ {j}) \in {Cardinality(inflight), Cardinality(inflight) - 1}
  BY <1>2, FS_RemoveElement
<1> QED BY <1>2, <1>3, <1>4

LEMMA SlotsStep == IInv /\ SlotsBounded /\ [Next]_vars => SlotsBounded'
<1> SUFFICES ASSUME IInv, SlotsBounded, [Next]_vars PROVE SlotsBounded'
  OBVIOUS
<1> USE DEF SlotsBounded
<1>1. Cap \in Nat
  BY SizeAssumption DEF Cap
<1>2. ASSUME NEW j \in Jobs, Launch(j)
      PROVE  SlotsBounded'
  BY <1>1, <1>2, InflightStep DEF Launch, SlotFree
<1>3. ASSUME NEW j \in Jobs, NEW after, PromiseCompletes(j, after)
      PROVE  SlotsBounded'
  <2>1. inflight' = inflight \ {j}
    BY <1>3 DEF PromiseCompletes
  <2>2. Cardinality(inflight \ {j}) \in Nat
    BY JobsFinite DEF IInv, TypeOK
  <2> QED BY <1>1, <2>1, <2>2, InflightStep
<1>4. CASE UNCHANGED inflight
  BY <1>4
<1>5. ASSUME Loop
      PROVE  UNCHANGED inflight \/ \E j \in Jobs : Launch(j)
  BY <1>5 DEF Loop, BeginRound, SkipReturns, EndRound, LeaveLoop, SkipStage, Defer,
     StartThrows
<1>6. ASSUME NEW j \in Jobs, Member(j)
      PROVE  UNCHANGED inflight \/ \E after : PromiseCompletes(j, after)
  BY <1>6 DEF Member, RunOneSettles, OnSettleReturns, OnSettleThrows
<1>7. ASSUME Abort \/ UNCHANGED vars
      PROVE  UNCHANGED inflight
  BY <1>7 DEF Abort, vars
<1> QED BY <1>2, <1>3, <1>4, <1>5, <1>6, <1>7 DEF Next

\* Never more members in flight than the cap, whatever the DAG.
THEOREM SlotsCapped == Spec => []SlotsBounded
<1>1. Init => SlotsBounded
  BY FS_EmptySet, SizeAssumption DEF Init, SlotsBounded, Cap
<1> QED BY <1>1, SlotsStep, BookkeepingExact, PTL DEF Spec

\* No member starts once the signal is aborted: the snapshot is empty then.
THEOREM AbortStopsLaunches == Spec => NoLaunchAfterAbort
<1>1. IInv /\ [Next]_vars => [aborted => started' = started]_vars
  <2> SUFFICES ASSUME IInv, Next, aborted PROVE started' = started
    BY DEF vars
  <2>1. ASSUME NEW j \in Jobs, Launch(j)
        PROVE  FALSE
    BY <2>1 DEF Launch, Visiting, IInv, ReadyExact
  <2>2. CASE Loop
    BY <2>1, <2>2 DEF Loop, BeginRound, SkipReturns, EndRound, LeaveLoop, SkipStage,
       Defer, StartThrows
  <2>3. ASSUME NEW j \in Jobs, Member(j)
        PROVE  started' = started
    BY <2>3 DEF Member, RunOneSettles, OnSettleReturns, OnSettleThrows, PromiseCompletes
  <2>4. CASE Abort \/ UNCHANGED vars
    BY <2>4 DEF Abort, vars
  <2> QED BY <2>2, <2>3, <2>4 DEF Next
<1> QED BY <1>1, BookkeepingExact, PTL DEF Spec, NoLaunchAfterAbort

-----------------------------------------------------------------------------
\* Refinement: the state of a member as DagSpec sees it.
Seen == [j \in Jobs |-> IF status[j] # "none" THEN status[j]
                        ELSE IF j \in inflight THEN "running" ELSE "waiting"]

\* The instance has a name of its own for Cardinality.
LEMMA SameCardinality == \A S : Contract!Cardinality(S) = Cardinality(S)
BY DEF Contract!Cardinality, Cardinality

\* A step that changes neither the statuses nor what is in flight of a member
\* that has not settled is invisible.
LEMMA SeenUnchanged ==
  ASSUME status' = status,
         \A j \in Jobs : status[j] = "none" => (j \in inflight' <=> j \in inflight)
  PROVE  Seen' = Seen
BY DEF Seen

LEMMA LaunchRefines ==
  ASSUME IInv, SlotsBounded, NEW j \in Jobs, Launch(j)
  PROVE  Contract!Start(j)
<1> USE DEF Launch, Visiting
<1>1. status[j] = "none" /\ j \notin inflight /\ ~aborted /\ pc # "rejected"
  BY DEF IInv, TypeOK, ReadyExact
<1>2. deps[j] \subseteq Jobs
  BY DepsType DEF IInv, TypeOK
<1>3. \A d \in deps[j] : Seen[d] = "success"
  BY <1>2 DEF FailedDep, Seen
<1>4. Seen[j] = "waiting" /\ Seen' = [Seen EXCEPT ![j] = "running"]
  BY <1>1 DEF Seen
<1>5. Contract!Running \subseteq inflight
  BY DEF Contract!Running, IInv, TypeOK, Outcome
<1>6. IsFiniteSet(inflight) /\ Cardinality(inflight) \in Nat
      /\ Cardinality(Contract!Running) \in Nat
  BY <1>5, JobsFinite DEF IInv, TypeOK
<1>7. Cardinality(Contract!Running) <= Cardinality(inflight)
  BY <1>5, <1>6, FS_Subset
<1>8. Cardinality(Contract!Running) < Cap
  BY <1>6, <1>7, SizeAssumption DEF SlotFree, Cap
<1>9. Contract!Cardinality(Contract!Running) < Cap
  BY <1>8, SameCardinality
<1>10. UNCHANGED <<deps, aborted \/ pc = "rejected">>
  OBVIOUS
<1> QED BY <1>1, <1>3, <1>4, <1>9, <1>10 DEF Contract!Start, Seen

LEMMA SkipRefines ==
  ASSUME IInv, NEW j \in Jobs, SkipStage(j)
  PROVE  Contract!Cascade(j)
<1> USE DEF SkipStage, Visiting
<1>1. status[j] = "none" /\ j \notin inflight /\ \A d \in deps[j] : status[d] # "none"
  BY DEF IInv, TypeOK, ReadyExact
<1>2. deps[j] \subseteq Jobs /\ status \in [Jobs -> Outcome \cup {"none"}]
  BY DepsType DEF IInv, TypeOK
<1>3. \A d \in deps[j] : Seen[d] = status[d] /\ Seen[d] \in Outcome
  BY <1>1, <1>2 DEF Seen
<1>4. \E d \in deps[j] : Seen[d] # "success"
  BY <1>3 DEF FailedDep
<1>5. Seen[j] = "waiting" /\ Seen' = [Seen EXCEPT ![j] = "skipped"]
  BY <1>1, <1>2 DEF Seen, Settle
<1>6. UNCHANGED <<deps, aborted \/ pc = "rejected">>
  BY DEF SkipStage
<1> QED BY <1>3, <1>4, <1>5, <1>6 DEF Contract!Cascade, Contract!Outcome, Outcome, Seen

LEMMA SettleRefines ==
  ASSUME IInv, NEW j \in Jobs, NEW s \in Outcome, RunOneSettles(j, s)
  PROVE  Contract!Finish(j, s)
<1> USE DEF RunOneSettles
<1>1. status[j] = "none" /\ j \in inflight /\ s # "none"
  BY DEF IInv, TypeOK, PhaseExact, Outcome
<1>2. status \in [Jobs -> Outcome \cup {"none"}]
  BY DEF IInv, TypeOK
<1>3. Seen[j] = "running" /\ Seen' = [Seen EXCEPT ![j] = s]
  BY <1>1, <1>2 DEF Seen, Settle
<1> QED BY <1>3 DEF Contract!Finish, Seen

\* Steps that only record that the execution was stopped, or nothing at all.
LEMMA QuietRefines ==
  ASSUME IInv, UNCHANGED <<deps, status>>, Seen' = Seen,
         pc = "rejected" => pc' = "rejected", aborted => aborted'
  PROVE  [Contract!Next]_(Contract!vars)
<1>1. \/ UNCHANGED Contract!vars
      \/ Contract!Stop
  <2>1. (aborted \/ pc = "rejected")' \in BOOLEAN /\ aborted \in BOOLEAN
    BY DEF IInv, TypeOK
  <2> QED BY <2>1 DEF Contract!vars, Contract!Stop, Seen
<1> QED BY <1>1 DEF Contract!Next

LEMMA StepRefines == IInv /\ SlotsBounded /\ [Next]_vars => [Contract!Next]_(Contract!vars)
<1> SUFFICES ASSUME IInv, SlotsBounded, [Next]_vars PROVE [Contract!Next]_(Contract!vars)
  OBVIOUS
<1>1. ASSUME NEW j \in Jobs, Launch(j)
      PROVE  Contract!Next
  BY <1>1, LaunchRefines DEF Contract!Next
<1>2. ASSUME NEW j \in Jobs, SkipStage(j)
      PROVE  Contract!Next
  BY <1>2, SkipRefines DEF Contract!Next
<1>3. ASSUME NEW j \in Jobs, NEW s \in Outcome, RunOneSettles(j, s)
      PROVE  Contract!Next
  BY <1>3, SettleRefines DEF Contract!Next, Contract!Outcome, Outcome
<1>4. ASSUME NEW j \in Jobs, NEW after \in {"loop", "rejected"}, PromiseCompletes(j, after)
      PROVE  [Contract!Next]_(Contract!vars)
  <2>1. status[j] # "none"
    BY <1>4 DEF PromiseCompletes, IInv, TypeOK, PhaseExact
  <2>2. Seen' = Seen
    BY <1>4, <2>1, SeenUnchanged DEF PromiseCompletes
  <2> QED BY <1>4, <2>2, QuietRefines DEF PromiseCompletes
<1>5. ASSUME BeginRound \/ SkipReturns \/ EndRound \/ LeaveLoop \/ Abort \/ UNCHANGED vars
             \/ \E j \in Jobs : Defer(j) \/ StartThrows(j)
      PROVE  [Contract!Next]_(Contract!vars)
  <2>1. UNCHANGED <<deps, status, inflight>> /\ (aborted => aborted')
    BY <1>5 DEF BeginRound, SkipReturns, EndRound, LeaveLoop, Abort, Defer, StartThrows, vars
  <2>2. pc = "rejected" => pc' = "rejected"
    BY <1>5 DEF BeginRound, SkipReturns, EndRound, LeaveLoop, Abort, Defer, StartThrows,
       Visiting, vars
  <2> QED BY <2>1, <2>2, SeenUnchanged, QuietRefines
<1>6. CASE Loop
  BY <1>1, <1>2, <1>5, <1>6 DEF Loop
<1>7. ASSUME NEW j \in Jobs, Member(j)
      PROVE  [Contract!Next]_(Contract!vars)
  BY <1>3, <1>4, <1>7 DEF Member, OnSettleReturns, OnSettleThrows
<1> QED BY <1>5, <1>6, <1>7 DEF Next

\* executeDag implements DagSpec, for every DAG and every concurrency.
THEOREM Refinement == Spec => Refines
<1>1. Init => Contract!Init
  BY DEF Init, Contract!Init
<1> QED BY <1>1, StepRefines, BookkeepingExact, SlotsCapped, PTL DEF Spec, Refines, Contract!Spec

-----------------------------------------------------------------------------
(* buildDag. *)

\* Nodes that are in a wave.
Placed == {n \in Nodes : wave[n] # -1}

Connected == verdict \in {"waves", "ok", "cycle"}

Fresh == verdict = "refs" => depth = 0 /\ Placed = {}

EdgesInside ==
  Connected => \A n \in Nodes : \A i \in DOMAIN dependencies[n] : dependencies[n][i] \in Nodes

\* The counts of the algorithm are what their names say.
DegreeExact == Connected => \A n \in Nodes : degree[n] = Cardinality(Edges(n, Nodes \ Placed))

LeftExact == Connected => left = Cardinality(Nodes \ Placed)

\* The next wave: exactly the nodes out of which no edge is left.
FrontierExact == Connected => \A n \in Nodes : n \in frontier <=> n \notin Placed /\ degree[n] = 0

\* A node in a wave is one past its latest dependency, and so will a ready one be.
OnePastLatest(n, k) ==
  /\ \A i \in DOMAIN dependencies[n] : wave[dependencies[n][i]] \in 0 .. k - 1
  /\ k > 0 => \E i \in DOMAIN dependencies[n] : wave[dependencies[n][i]] = k - 1

WavesSoFar ==
  /\ \A n \in Placed : wave[n] \in 0 .. depth - 1 /\ OnePastLatest(n, wave[n])
  /\ \A k \in 0 .. depth - 1 : \E n \in Nodes : wave[n] = k

NextWaveDue == \A n \in frontier : OnePastLatest(n, depth)

\* No set of nodes in waves waits for itself.
PlacedAcyclic ==
  \A S \in (SUBSET Placed) \ {{}} :
    \E n \in S : \A i \in DOMAIN dependencies[n] : dependencies[n][i] \notin S

Counts ==
  /\ verdict = "ok" => frontier = {} /\ left = 0
  /\ verdict = "cycle" => frontier = {} /\ left > 0

BuildIInv ==
  /\ BuildTypeOK
  /\ Fresh
  /\ EdgesInside
  /\ DegreeExact
  /\ LeftExact
  /\ FrontierExact
  /\ WavesSoFar
  /\ NextWaveDue
  /\ PlacedAcyclic
  /\ Counts

-----------------------------------------------------------------------------
LEMMA NodesFinite ==
  ASSUME BuildTypeOK, NEW S \in SUBSET Nodes
  PROVE  IsFiniteSet(S) /\ Cardinality(S) \in Nat
<1> DEFINE name == [i \in 1 .. Len(refs) |-> refs[i].job]
<1>1. Len(refs) \in Nat /\ DOMAIN refs = 1 .. Len(refs)
  BY DEF BuildTypeOK
<1>2. name \in Surjection(1 .. Len(refs), Nodes)
  BY <1>1 DEF Surjection, Nodes
<1>3. IsFiniteSet(1 .. Len(refs))
  BY <1>1, FS_Interval
<1>4. IsFiniteSet(Nodes)
  BY <1>2, <1>3, FS_Surjection
<1> QED BY <1>4, FS_Subset, FS_CardinalityType

\* The edges of a node are finitely many.
LEMMA EdgesFinite ==
  ASSUME BuildTypeOK, NEW n \in Nodes, NEW S
  PROVE  /\ IsFiniteSet(Edges(n, S)) /\ Cardinality(Edges(n, S)) \in Nat
         /\ Cardinality(Edges(n, S)) = 0 <=> Edges(n, S) = {}
<1>1. DOMAIN dependencies[n] = 1 .. Len(dependencies[n]) /\ Len(dependencies[n]) \in Nat
  BY DEF BuildTypeOK
<1>2. IsFiniteSet(1 .. Len(dependencies[n]))
  BY <1>1, FS_Interval
<1>3. Edges(n, S) \in SUBSET (1 .. Len(dependencies[n]))
  BY <1>1 DEF Edges
<1> QED BY <1>2, <1>3, FS_Subset, FS_CardinalityType, FS_EmptySet

LEMMA InitBuild == BuildInit => BuildIInv
<1> SUFFICES ASSUME BuildInit PROVE BuildIInv
  OBVIOUS
<1> USE DEF BuildInit
<1>1. refs \in Seq([job : Names, dependsOn : Seq(Names)])
  BY InputsAssumption
<1>2. BuildTypeOK
  BY <1>1 DEF BuildTypeOK
<1>3. Placed = {}
  BY DEF Placed
<1> QED
  BY <1>2, <1>3 DEF BuildIInv, Fresh, EdgesInside, DegreeExact, LeftExact, FrontierExact,
     WavesSoFar, NextWaveDue, PlacedAcyclic, Counts, Connected

LEMMA ElementType ==
  ASSUME NEW T, NEW s \in Seq(T), NEW i \in DOMAIN s
  PROVE  s[i] \in T
OBVIOUS

\* The lists that are looked up are those of the members, and lead to members.
LEMMA DependsOnType ==
  ASSUME BuildTypeOK, ProperEdges, NEW n \in Nodes
  PROVE  /\ DependsOn(n) \in Seq(Names)
         /\ \A k \in DOMAIN DependsOn(n) : DependsOn(n)[k] \in Nodes
<1> DEFINE p == CHOOSE i \in DOMAIN refs : refs[i].job = n
<1>1. p \in DOMAIN refs
  BY DEF Nodes
<1>2. DependsOn(n) = refs[p].dependsOn
  BY DEF DependsOn
<1> HIDE DEF p
<1>3. refs[p] \in [job : Names, dependsOn : Seq(Names)]
  BY <1>1, ElementType DEF BuildTypeOK
<1>4. \A k \in DOMAIN refs[p].dependsOn : refs[p].dependsOn[k] \in Nodes
  BY <1>1 DEF ProperEdges
<1> QED BY <1>2, <1>3, <1>4

LEMMA ConnectIInv ==
  ASSUME BuildIInv, Connect
  PROVE  BuildIInv'
<1> USE DEF Connect
<1>1. /\ BuildTypeOK /\ ProperEdges /\ depth = 0 /\ Placed = {}
      /\ Nodes' = Nodes /\ Placed' = Placed /\ wave' = wave
  BY DEF BuildIInv, Fresh, Nodes, Placed
<1>2. \A n \in Nodes : /\ DependsOn(n) \in Seq(Names)
                       /\ \A k \in DOMAIN DependsOn(n) : DependsOn(n)[k] \in Nodes
  BY <1>1, DependsOnType
<1>3. /\ dependencies' \in [Nodes -> Seq(Names)]
      /\ \A n \in Nodes : dependencies'[n] = DependsOn(n)
  BY <1>2
<1>4. Cardinality(Nodes) \in Nat
  BY <1>1, NodesFinite
<1>5. BuildTypeOK'
  <2>1. degree' \in [Nodes -> Nat]
    BY <1>2
  <2> QED BY <1>1, <1>3, <1>4, <2>1 DEF BuildTypeOK
<1>6. \A n \in Nodes : Edges(n, Nodes)' = 1 .. Len(DependsOn(n))
  BY <1>1, <1>2, <1>3 DEF Edges
<1>7. DegreeExact'
  <2>1. ASSUME NEW n \in Nodes
        PROVE  Cardinality(1 .. Len(DependsOn(n))) = Len(DependsOn(n))
    <3> DEFINE m == Len(DependsOn(n))
    <3>1. m \in Nat
      BY <1>2
    <3> HIDE DEF m
    <3>2. Cardinality(1 .. m) = IF 1 > m THEN 0 ELSE m - 1 + 1
      BY <3>1, FS_Interval
    <3>3. Cardinality(1 .. m) = m
      BY <3>1, <3>2
    <3> QED BY <3>3 DEF m
  <2>2. \A n \in Nodes : Edges(n, Nodes \ Placed)' = 1 .. Len(DependsOn(n))
    <3>1. (Nodes \ Placed)' = Nodes
      BY <1>1
    <3> QED BY <1>2, <1>3, <3>1 DEF Edges
  <2> QED BY <1>1, <2>1, <2>2 DEF DegreeExact
<1>8. LeftExact' /\ EdgesInside'
  BY <1>1, <1>2, <1>3 DEF LeftExact, EdgesInside
<1>9. \A n \in Nodes : DependsOn(n) = <<>> <=> Len(DependsOn(n)) = 0
  BY <1>2
<1>10. FrontierExact'
  BY <1>1, <1>9 DEF FrontierExact
<1>11. WavesSoFar' /\ PlacedAcyclic'
  BY <1>1 DEF WavesSoFar, PlacedAcyclic, BuildIInv
<1>12. NextWaveDue'
  BY <1>1, <1>3 DEF NextWaveDue, OnePastLatest
<1> QED
  BY <1>1, <1>5, <1>7, <1>8, <1>10, <1>11, <1>12 DEF BuildIInv, Fresh, Counts

-----------------------------------------------------------------------------
\* One round.

\* What the round takes off an indegree, and what it leaves.
LEMMA RoundCounts ==
  ASSUME BuildIInv, NextWave, NEW n \in Nodes
  PROVE  /\ Placed' = Placed \cup frontier
         /\ LeftAfter(n) = Cardinality(Edges(n, Nodes \ (Placed \cup frontier)))
         /\ LeftAfter(n) \in Nat
         /\ Edges(n, frontier) = {} => LeftAfter(n) = degree[n]
<1>1. BuildTypeOK /\ frontier \subseteq Nodes /\ frontier \cap Placed = {} /\ depth \in Nat
      /\ degree[n] = Cardinality(Edges(n, Nodes \ Placed)) /\ degree[n] \in Nat
  BY DEF BuildIInv, BuildTypeOK, FrontierExact, DegreeExact, NextWave, Connected
<1>2. Placed' = Placed \cup frontier
  <2>1. /\ Nodes' = Nodes
        /\ wave' = [m \in Nodes |-> IF m \in frontier THEN depth ELSE wave[m]]
    BY DEF NextWave, Nodes
  <2>2. \A m \in Nodes : wave'[m] # -1 <=> wave[m] # -1 \/ m \in frontier
    BY <1>1, <2>1
  <2> QED BY <1>1, <2>1, <2>2 DEF Placed
<1> DEFINE E == Edges(n, Nodes \ Placed)
           R == Edges(n, frontier)
<1>3. IsFiniteSet(E) /\ IsFiniteSet(R) /\ Cardinality(E) \in Nat /\ Cardinality(R) \in Nat
  BY <1>1, EdgesFinite
<1>4. R \subseteq E /\ E \ R = Edges(n, Nodes \ (Placed \cup frontier))
  BY <1>1 DEF Edges
<1>5. E \cap R = R
  BY <1>4
<1>6. Cardinality(E \ R) = Cardinality(E) - Cardinality(R) /\ Cardinality(E \ R) \in Nat
  BY <1>3, <1>5, FS_Difference, FS_CardinalityType
<1>7. LeftAfter(n) = Cardinality(E \ R)
  BY <1>1, <1>6 DEF LeftAfter
<1>8. R = {} => LeftAfter(n) = degree[n]
  BY <1>1, FS_EmptySet DEF LeftAfter
<1> QED BY <1>2, <1>4, <1>6, <1>7, <1>8

LEMMA NextWaveIInv ==
  ASSUME BuildIInv, NextWave
  PROVE  BuildIInv'
<1> USE DEF NextWave, NextReady
<1>1. /\ BuildTypeOK /\ Connected /\ Connected' /\ verdict' = "waves" /\ depth \in Nat
      /\ Nodes' = Nodes /\ dependencies' = dependencies
      /\ \A n, S : Edges(n, S)' = {i \in DOMAIN dependencies[n] : dependencies[n][i] \in S'}
  BY DEF BuildIInv, BuildTypeOK, Connected, Nodes, Edges
<1>2. frontier \subseteq Nodes /\ frontier \cap Placed = {}
      /\ \A n \in Nodes : n \in frontier <=> n \notin Placed /\ degree[n] = 0
  BY <1>1 DEF BuildIInv, BuildTypeOK, FrontierExact
<1>3. Placed' = Placed \cup frontier
  BY <1>2, RoundCounts
<1>4. \A n \in Nodes : /\ LeftAfter(n) = Cardinality(Edges(n, Nodes \ (Placed \cup frontier)))
                       /\ LeftAfter(n) \in Nat
                       /\ Edges(n, frontier) = {} => LeftAfter(n) = degree[n]
  BY RoundCounts
<1>5. DegreeExact'
  <2>1. \A n \in Nodes : Edges(n, Nodes \ (Placed \cup frontier)) = Edges(n, Nodes \ Placed)'
    BY <1>1, <1>3 DEF Edges
  <2>2. \A n \in Nodes : degree'[n] = LeftAfter(n)
    OBVIOUS
  <2> QED BY <1>1, <1>4, <2>1, <2>2 DEF DegreeExact
<1>6. /\ IsFiniteSet(Nodes \ Placed) /\ frontier \subseteq Nodes \ Placed
      /\ left = Cardinality(Nodes \ Placed)
  BY <1>1, <1>2, NodesFinite DEF BuildIInv, LeftExact
<1>7. left' = Cardinality((Nodes \ Placed) \ frontier) /\ left' \in Nat
  <2>1. (Nodes \ Placed) \cap frontier = frontier
    BY <1>6
  <2>2. Cardinality((Nodes \ Placed) \ frontier) = left - Cardinality(frontier)
    BY <1>6, <2>1, FS_Difference
  <2>3. Cardinality((Nodes \ Placed) \ frontier) \in Nat
    BY <1>1, NodesFinite
  <2> QED BY <2>2, <2>3
<1>8. LeftExact'
  <2>1. (Nodes \ Placed) \ frontier = (Nodes \ Placed)'
    BY <1>1, <1>3
  <2> QED BY <1>7, <2>1 DEF LeftExact
<1>9. BuildTypeOK'
  <2>1. degree' \in [Nodes -> Nat]
    BY <1>4
  <2>2. wave' \in [Nodes -> Nat \cup {-1}]
    BY <1>1 DEF BuildTypeOK
  <2> QED BY <1>1, <1>7, <2>1, <2>2 DEF BuildTypeOK
<1>10. EdgesInside'
  BY <1>1 DEF BuildIInv, EdgesInside
\* Nodes in waves, the ones of this round included, have all their dependencies there.
<1>11. \A n \in Placed \cup frontier : \A i \in DOMAIN dependencies[n] :
         dependencies[n][i] \in Placed
  <2>1. ASSUME NEW n \in Placed, NEW i \in DOMAIN dependencies[n]
        PROVE  dependencies[n][i] \in Placed
    <3>1. n \in Nodes /\ dependencies[n][i] \in Nodes
      BY <1>1 DEF Placed, BuildIInv, EdgesInside
    <3>2. wave[n] \in 0 .. depth - 1 /\ wave[dependencies[n][i]] \in 0 .. wave[n] - 1
      BY DEF BuildIInv, WavesSoFar, OnePastLatest
    <3> QED BY <3>1, <3>2 DEF Placed
  <2>2. ASSUME NEW n \in frontier, NEW i \in DOMAIN dependencies[n]
        PROVE  dependencies[n][i] \in Placed
    <3>1. n \in Nodes /\ dependencies[n][i] \in Nodes
      BY <1>1, <1>2 DEF BuildIInv, EdgesInside
    <3>2. wave[dependencies[n][i]] \in 0 .. depth - 1
      BY DEF BuildIInv, NextWaveDue, OnePastLatest
    <3> QED BY <1>1, <3>1, <3>2 DEF Placed
  <2> QED BY <2>1, <2>2
<1>12. FrontierExact'
  <2>1. ASSUME NEW n \in Nodes, n \in frontier'
        PROVE  n \notin Placed' /\ degree'[n] = 0
    <3>1. Edges(n, frontier) # {} /\ LeftAfter(n) = 0
      BY <2>1
    <3>2. n \notin Placed \cup frontier
      BY <1>2, <1>11, <3>1 DEF Edges
    <3> QED BY <1>3, <3>1, <3>2
  <2>2. ASSUME NEW n \in Nodes, n \notin Placed', degree'[n] = 0
        PROVE  n \in frontier'
    <3>1. n \notin Placed /\ n \notin frontier /\ LeftAfter(n) = 0 /\ degree[n] # 0
      BY <1>2, <1>3, <2>2
    <3> QED BY <1>4, <3>1
  <2> QED BY <1>1, <2>1, <2>2 DEF FrontierExact
\* The wave of a node that was in one has not changed.
<1>13. /\ \A n \in Placed : wave'[n] = wave[n]
       /\ \A n \in frontier : wave'[n] = depth
  BY <1>2 DEF Placed
<1>14. ASSUME NEW n \in Placed \cup frontier, NEW k \in Nat, OnePastLatest(n, k)
       PROVE  OnePastLatest(n, k)'
  BY <1>1, <1>11, <1>13, <1>14 DEF OnePastLatest
<1>15. WavesSoFar'
  <2>1. ASSUME NEW n \in Placed'
        PROVE  wave'[n] \in 0 .. depth' - 1 /\ OnePastLatest(n, wave[n])'
    <3>1. CASE n \in Placed
      <4>1. wave[n] \in 0 .. depth - 1 /\ OnePastLatest(n, wave[n])
        BY <3>1 DEF BuildIInv, WavesSoFar
      <4>2. wave'[n] = wave[n] /\ wave[n] \in Nat
        BY <3>1, <4>1, <1>13
      <4>3. PICK k \in Nat : k = wave[n]
        BY <4>2
      <4>4. OnePastLatest(n, k)'
        BY <3>1, <4>1, <4>3, <1>14
      <4>5. wave'[n] \in 0 .. depth' - 1
        BY <1>1, <4>1, <4>2
      <4> QED BY <4>2, <4>3, <4>4, <4>5 DEF OnePastLatest
    <3>2. CASE n \in frontier
      <4>1. OnePastLatest(n, depth)
        BY <3>2 DEF BuildIInv, NextWaveDue
      <4>2. wave'[n] = depth
        BY <3>2, <1>13
      <4>3. PICK k \in Nat : k = depth
        BY <1>1
      <4>4. OnePastLatest(n, k)'
        BY <3>2, <4>1, <4>3, <1>14
      <4>5. wave'[n] \in 0 .. depth' - 1
        BY <1>1, <4>2
      <4> QED BY <4>2, <4>3, <4>4, <4>5 DEF OnePastLatest
    <3> QED BY <1>3, <2>1, <3>1, <3>2
  <2>2. ASSUME NEW k \in 0 .. depth' - 1
        PROVE  \E n \in Nodes : wave'[n] = k
    <3>1. CASE k = depth
      BY <1>2, <1>13, <3>1
    <3>2. CASE k # depth
      <4>1. PICK n \in Nodes : wave[n] = k
        BY <1>1, <3>2, <2>2 DEF BuildIInv, WavesSoFar
      <4>2. n \in Placed
        BY <1>1, <2>2, <4>1 DEF Placed
      <4> QED BY <4>1, <4>2, <1>13
    <3> QED BY <3>1, <3>2
  <2> QED BY <1>1, <2>1, <2>2 DEF WavesSoFar
<1>16. NextWaveDue'
  <2> SUFFICES ASSUME NEW n \in frontier'
               PROVE  OnePastLatest(n, depth)'
    BY DEF NextWaveDue
  <2>1. n \in Nodes /\ Edges(n, frontier) # {} /\ LeftAfter(n) = 0
    OBVIOUS
  <2>2. Edges(n, Nodes \ (Placed \cup frontier)) = {}
    BY <2>1, <1>1, <1>4, EdgesFinite
  <2>3. \A i \in DOMAIN dependencies[n] : dependencies[n][i] \in Placed \cup frontier
    BY <1>1, <2>1, <2>2 DEF Edges, BuildIInv, EdgesInside
  <2>4. \A m \in Placed : wave[m] \in 0 .. depth - 1
    BY DEF BuildIInv, WavesSoFar
  <2>5. \A m \in Placed \cup frontier : wave'[m] \in 0 .. depth' - 1
    BY <1>1, <1>13, <2>4
  <2>6. PICK i \in DOMAIN dependencies[n] : dependencies[n][i] \in frontier
    BY <2>1 DEF Edges
  <2>7. wave'[dependencies[n][i]] = depth' - 1
    BY <1>1, <1>13, <2>6
  <2> QED BY <1>1, <2>3, <2>5, <2>6, <2>7 DEF OnePastLatest
<1>17. PlacedAcyclic'
  <2> SUFFICES ASSUME NEW S \in (SUBSET (Placed \cup frontier)) \ {{}}
               PROVE  \E n \in S : \A i \in DOMAIN dependencies[n] : dependencies[n][i] \notin S
    BY <1>1, <1>3 DEF PlacedAcyclic
  <2>1. CASE S \cap Placed # {}
    <3>1. PICK n \in S \cap Placed :
            \A i \in DOMAIN dependencies[n] : dependencies[n][i] \notin S \cap Placed
      BY <2>1 DEF BuildIInv, PlacedAcyclic
    <3> QED BY <1>11, <3>1
  <2>2. CASE S \cap Placed = {}
    BY <1>11, <2>2
  <2> QED BY <2>1, <2>2
<1> QED
  BY <1>1, <1>5, <1>8, <1>9, <1>10, <1>12, <1>15, <1>16, <1>17 DEF BuildIInv, Fresh, Counts

-----------------------------------------------------------------------------
\* The steps that only return.
LEMMA ReturnIInv ==
  ASSUME BuildIInv, RejectRefs \/ Accept \/ RejectCycle \/ UNCHANGED buildVars
  PROVE  BuildIInv'
<1>1. /\ UNCHANGED <<refs, dependencies, degree, frontier, wave, depth, left>>
      /\ Connected' => Connected
      /\ verdict' = "refs" => verdict = "refs"
      /\ verdict' \in {"refs", "waves", "ok", "invalid", "cycle"}
  BY DEF RejectRefs, Accept, RejectCycle, Connected, buildVars, BuildIInv, BuildTypeOK
<1>2. Nodes' = Nodes /\ Placed' = Placed
  BY <1>1 DEF Nodes, Placed
<1>3. \A n, S : Edges(n, S)' = {i \in DOMAIN dependencies[n] : dependencies[n][i] \in S'}
  BY <1>1 DEF Edges
<1>4. BuildTypeOK' /\ Fresh' /\ EdgesInside' /\ LeftExact' /\ FrontierExact'
  BY <1>1, <1>2 DEF BuildIInv, BuildTypeOK, Fresh, EdgesInside, LeftExact, FrontierExact
<1>5. DegreeExact' /\ PlacedAcyclic'
  <2>1. \A n \in Nodes : Edges(n, Nodes \ Placed)' = Edges(n, Nodes \ Placed)
    BY <1>1, <1>2 DEF Edges
  <2> QED BY <1>1, <1>2, <2>1 DEF BuildIInv, DegreeExact, PlacedAcyclic
<1>6. WavesSoFar' /\ NextWaveDue'
  BY <1>1, <1>2 DEF BuildIInv, WavesSoFar, NextWaveDue, OnePastLatest
<1>7. Counts'
  BY DEF RejectRefs, Accept, RejectCycle, buildVars, BuildIInv, Counts, BuildTypeOK
<1> QED BY <1>4, <1>5, <1>6, <1>7 DEF BuildIInv

LEMMA BuildInvariance == BuildSpec => []BuildIInv
<1>1. BuildIInv /\ [BuildNext]_buildVars => BuildIInv'
  BY ConnectIInv, NextWaveIInv, ReturnIInv DEF BuildNext
<1> QED BY <1>1, InitBuild, PTL DEF BuildSpec

\* Shape of the state: in particular the count of what remains never goes below 0.
THEOREM BuildTypeCorrect == BuildSpec => []BuildTypeOK
BY BuildInvariance, PTL DEF BuildIInv

\* With nothing left over, every node is in a wave.
LEMMA AllPlaced ==
  ASSUME BuildIInv, verdict = "ok"
  PROVE  Placed = Nodes
<1>1. Cardinality(Nodes \ Placed) = 0 /\ IsFiniteSet(Nodes \ Placed)
  BY NodesFinite DEF BuildIInv, Counts, LeftExact, Connected
<1>2. Nodes \ Placed = {}
  BY <1>1, FS_EmptySet
<1> QED BY <1>2 DEF Placed

\* What buildDag accepts is a DAG of its members.
THEOREM Sound == BuildSpec => []AcceptsOnlyDags
<1>1. BuildIInv => AcceptsOnlyDags
  <2> SUFFICES ASSUME BuildIInv, verdict = "ok" PROVE AcceptsOnlyDags
    BY DEF AcceptsOnlyDags
  <2>1. \A n \in Nodes : Edges(n, Nodes) = DOMAIN dependencies[n]
    BY DEF BuildIInv, EdgesInside, Connected, Edges
  <2>2. ASSUME NEW S \in (SUBSET Nodes) \ {{}}
        PROVE  \E n \in S : Edges(n, S) = {}
    <3>1. PICK n \in S : \A i \in DOMAIN dependencies[n] : dependencies[n][i] \notin S
      BY AllPlaced DEF BuildIInv, PlacedAcyclic
    <3> QED BY <3>1 DEF Edges
  <2> QED BY <2>1, <2>2 DEF AcceptsOnlyDags
<1> QED BY <1>1, BuildInvariance, PTL

\* The members the error names are those in no wave, and each waits for another.
LEMMA CyclicWaits ==
  ASSUME BuildIInv, verdict = "cycle"
  PROVE  Cyclic # {} /\ \A n \in Cyclic : Edges(n, Cyclic) # {}
<1>1. /\ BuildTypeOK /\ frontier = {} /\ left > 0 /\ left = Cardinality(Nodes \ Placed)
      /\ \A n \in Nodes : degree[n] = Cardinality(Edges(n, Nodes \ Placed))
      /\ \A n \in Nodes : n \notin Placed => degree[n] # 0
  BY DEF BuildIInv, Counts, LeftExact, DegreeExact, FrontierExact, Connected
<1>2. Nodes \ Placed # {}
  BY <1>1, FS_EmptySet
<1>3. \A n \in Nodes : degree[n] \in Nat /\ (degree[n] > 0 <=> Edges(n, Nodes \ Placed) # {})
  <2> SUFFICES ASSUME NEW n \in Nodes
               PROVE  degree[n] \in Nat /\ (degree[n] > 0 <=> Edges(n, Nodes \ Placed) # {})
    OBVIOUS
  <2>1. degree[n] = Cardinality(Edges(n, Nodes \ Placed)) /\ degree[n] \in Nat
    BY <1>1 DEF BuildTypeOK
  <2>2. degree[n] = 0 <=> Edges(n, Nodes \ Placed) = {}
    BY <1>1, <2>1, EdgesFinite
  <2> QED BY <2>1, <2>2
\* A node in a wave has no edge left.
<1>4. \A n \in Placed : Edges(n, Nodes \ Placed) = {}
  <2> SUFFICES ASSUME NEW n \in Placed, NEW i \in DOMAIN dependencies[n]
               PROVE  dependencies[n][i] \notin Nodes \ Placed
    BY DEF Edges
  <2>1. wave[n] \in 0 .. depth - 1 /\ wave[dependencies[n][i]] \in 0 .. wave[n] - 1
    BY DEF BuildIInv, WavesSoFar, OnePastLatest
  <2> QED BY <1>1, <2>1 DEF Placed, BuildTypeOK
<1>5. Cyclic = Nodes \ Placed
  <2>1. ASSUME NEW n \in Nodes
        PROVE  degree[n] > 0 <=> n \notin Placed
    <3>1. CASE n \in Placed
      BY <1>3, <1>4, <3>1
    <3>2. CASE n \notin Placed
      BY <1>1, <1>3, <3>2
    <3> QED BY <3>1, <3>2
  <2> QED BY <2>1 DEF Cyclic
<1>6. \A n \in Cyclic : n \in Nodes /\ degree[n] > 0
  BY DEF Cyclic
<1> QED BY <1>2, <1>3, <1>5, <1>6

\* What buildDag refuses as cyclic has a cycle, among the members it names.
THEOREM Complete == BuildSpec => []RejectsOnlyCycles
<1>1. BuildIInv => RejectsOnlyCycles
  BY CyclicWaits DEF RejectsOnlyCycles
<1> QED BY <1>1, BuildInvariance, PTL

\* Both together: the verdict is exact for every list of references.
THEOREM Exact == BuildSpec => []VerdictExact
BY Sound, Complete, PTL DEF VerdictExact

\* Each job lands one wave after its latest dependency, and no wave is empty.
THEOREM Waves == BuildSpec => []WavesExact
<1>1. BuildIInv => WavesExact
  <2> SUFFICES ASSUME BuildIInv, verdict = "ok" PROVE WavesExact
    BY DEF WavesExact
  <2>1. \A n \in Nodes : wave[n] \in 0 .. depth - 1 /\ OnePastLatest(n, wave[n])
    BY AllPlaced DEF BuildIInv, WavesSoFar
  <2>2. \A k \in 0 .. depth - 1 : \E n \in Nodes : wave[n] = k
    BY DEF BuildIInv, WavesSoFar
  <2>3. depth \in Nat
    BY DEF BuildIInv, BuildTypeOK
  <2> QED BY <2>1, <2>2, <2>3 DEF WavesExact, OnePastLatest
<1> QED BY <1>1, BuildInvariance, PTL

-----------------------------------------------------------------------------
(* From one to the other. *)

\* The dependencies buildDag hands over, a member being its position in the list.
HandedOver ==
  [j \in 1 .. Len(refs) |->
     {k \in 1 .. Len(refs) : \E i \in DOMAIN dependencies[refs[j].job] :
                               dependencies[refs[j].job][i] = refs[k].job}]

\* What executeDag is assumed to be given (DagsAssumption) is what buildDag
\* returns: the dependencies are members, and no set of them waits for itself
\* (core/dag.ts:18-20).
THEOREM AcceptedIsDag == BuildSpec => [](verdict = "ok" /\ Len(refs) = N => IsDag(HandedOver))
<1>1. ASSUME BuildTypeOK, AcceptsOnlyDags, verdict = "ok", Len(refs) = N
      PROVE  IsDag(HandedOver)
  <2>1. DOMAIN refs = Jobs /\ HandedOver \in [Jobs -> SUBSET Jobs]
    BY <1>1 DEF BuildTypeOK, Jobs, HandedOver
  <2>2. ASSUME NEW S \in (SUBSET Jobs) \ {{}}
        PROVE  \E j \in S : HandedOver[j] \cap S = {}
    <3> DEFINE named == {refs[j].job : j \in S}
    <3>1. named \in (SUBSET Nodes) \ {{}}
      BY <2>1, <2>2 DEF Nodes
    <3>2. PICK n \in named : Edges(n, named) = {}
      BY <1>1, <3>1 DEF AcceptsOnlyDags
    <3>3. PICK j \in S : refs[j].job = n
      BY <3>2
    <3>4. ASSUME NEW k \in S, k \in HandedOver[j] PROVE FALSE
      <4>1. PICK i \in DOMAIN dependencies[n] : dependencies[n][i] = refs[k].job
        BY <1>1, <2>2, <3>3, <3>4 DEF HandedOver, Jobs
      <4>2. refs[k].job \in named
        BY <3>4
      <4> QED
        BY <3>2, <4>1, <4>2 DEF Edges
    <3> QED
      BY <3>3, <3>4
  <2> QED
    BY <2>1, <2>2 DEF IsDag
<1> QED
  BY <1>1, BuildTypeCorrect, Sound, PTL

-----------------------------------------------------------------------------
(* The life of workflow runs, through crashes, resets and store faults.    *)

\* An id has a phase exactly when it has a row.
PhaseOfRow == \A r \in Runs : phase[r] = "none" <=> row[r] = "none"

\* Nothing is executed while the daemon is down.
DownIsIdle == ~up => \A r \in Runs : ~Live(r)

\* The database half of the guard: one running row per workflow.
OneRunningRow ==
  \A q, r \in Runs :
    Owner[q] = Owner[r] /\ row[q] = "running" /\ row[r] = "running" => q = r

\* The in-process half: one invocation per workflow.
OneInvocation ==
  \A q, r \in Runs : Owner[q] = Owner[r] /\ Live(q) /\ Live(r) => q = r

\* A run being executed has not been given a final status before it notifies, and
\* has one while it does.
RowOfPhase ==
  \A r \in Runs :
    /\ phase[r] \in {"discovering", "executing", "sleeping"} => row[r] \in {"running", "deleted"}
    /\ phase[r] = "notifying" => row[r] \in Terminal \cup {"deleted"}

RunIInv ==
  /\ RunTypeOK
  /\ PhaseOfRow
  /\ DownIsIdle
  /\ ClaimExact
  /\ OneRunningRow
  /\ OneInvocation
  /\ RowOfPhase
  /\ Cancellable

\* The steps of one invocation.
RunStep(r) ==
  \/ \E limited \in BOOLEAN : StartRun(r, limited)
  \/ StartBroken(r) \/ AnnounceThrows(r) \/ Proceed(r) \/ Cancel(r)

-----------------------------------------------------------------------------
LEMMA InitRunIInv == RunInit => RunIInv
BY WorkflowRunAssumption DEF RunInit, RunIInv, RunTypeOK, PhaseOfRow, DownIsIdle, ClaimExact, OneRunningRow,
   OneInvocation, RowOfPhase, Cancellable, Live

LEMMA FinalStatusTerminal ==
  \A r, T, a : FinalStatus(r, T, a) \in Terminal
BY DEF FinalStatus, Terminal

LEMMA LiveClaimed ==
  ASSUME ClaimExact
  PROVE  \A q \in Runs : Live(q) => Owner[q] \in claim
BY DEF ClaimExact

\* A run starts only when its workflow has neither a claim nor a running row.
LEMMA StartIInv ==
  ASSUME RunIInv, NEW r \in Runs, NEW limited \in BOOLEAN, StartRun(r, limited)
  PROVE  RunIInv'
<1> USE WorkflowRunAssumption DEF StartRun, Live
<1>1. /\ phase[r] = "none"
      /\ \A q \in Runs : Owner[q] = Owner[r] => row[q] # "running" /\ ~Live(q)
  BY LiveClaimed DEF RunIInv, PhaseOfRow, InProgress, HasActiveRow, RunsOf
<1>2. RunTypeOK'
  <2>1. 1 \in 0 .. MaxCycles /\ Owner[r] \in Workflows
    OBVIOUS
  <2>2. cycle' \in [Runs -> 0 .. MaxCycles]
    BY <2>1 DEF RunIInv, RunTypeOK
  <2> QED BY <2>1, <2>2 DEF RunIInv, RunTypeOK
<1>3. PhaseOfRow' /\ DownIsIdle' /\ RowOfPhase' /\ Cancellable'
  BY <1>1 DEF RunIInv, RunTypeOK, PhaseOfRow, DownIsIdle, RowOfPhase, Cancellable
<1>4. OneRunningRow' /\ OneInvocation'
  BY <1>1 DEF RunIInv, RunTypeOK, OneRunningRow, OneInvocation
<1>5. ClaimExact'
  BY <1>1 DEF RunIInv, RunTypeOK, ClaimExact
<1> QED BY <1>2, <1>3, <1>4, <1>5 DEF RunIInv

\* The two ways a start leaves no invocation behind.
LEMMA StillbornIInv ==
  ASSUME RunIInv, NEW r \in Runs, StartBroken(r) \/ AnnounceThrows(r)
  PROVE  RunIInv'
<1> USE WorkflowRunAssumption DEF StartBroken, AnnounceThrows, Live
<1>1. /\ phase[r] = "none"
      /\ phase' \in {[phase EXCEPT ![r] = "over"], [phase EXCEPT ![r] = "stranded"]}
      /\ \A q \in Runs : Owner[q] = Owner[r] => row[q] # "running"
  BY DEF RunIInv, PhaseOfRow, InProgress, HasActiveRow, RunsOf
<1>2. RunTypeOK'
  BY DEF RunIInv, RunTypeOK, Terminal
<1>3. PhaseOfRow' /\ DownIsIdle' /\ RowOfPhase' /\ Cancellable'
  BY <1>1 DEF RunIInv, RunTypeOK, PhaseOfRow, DownIsIdle, RowOfPhase, Cancellable
<1>4. OneRunningRow' /\ OneInvocation'
  BY <1>1 DEF RunIInv, RunTypeOK, OneRunningRow, OneInvocation
<1>5. \A q \in Runs : Live(q)' <=> Live(q)
  BY <1>1 DEF RunIInv, RunTypeOK
<1>6. ClaimExact'
  BY <1>5 DEF RunIInv, ClaimExact
<1> QED BY <1>2, <1>3, <1>4, <1>6 DEF RunIInv

\* A step from one await to the next.
LEMMA MoveIInv ==
  ASSUME RunIInv, NEW r \in Runs,
         \/ DiscoveryReturns(r) \/ NextCycle(r) \/ WakeUp(r)
         \/ \E T, a : Finalise(r, T, a)
  PROVE  RunIInv'
<1> USE WorkflowRunAssumption, FinalStatusTerminal
    DEF DiscoveryReturns, NextCycle, WakeUp, Finalise, Live
<1>1. /\ Live(r) /\ Live(r)'
      /\ \A q \in Runs : q # r => phase'[q] = phase[q] /\ row'[q] = row[q]
      /\ phase'[r] = "notifying" => row'[r] \in Terminal
      /\ phase'[r] # "notifying" => row'[r] = row[r] /\ phase[r] \in {"discovering", "executing", "sleeping"}
      /\ UNCHANGED <<up, claim, registry, signalled, asked, resetting>>
      /\ row[r] # "deleted"
  BY DEF RunIInv, RunTypeOK
<1>2. RunTypeOK'
  BY DEF RunIInv, RunTypeOK
<1>3. \A q \in Runs : Live(q)' <=> Live(q)
  BY <1>1
<1>4. row[r] = "running"
  BY <1>1 DEF RunIInv, RowOfPhase, NextCycle
<1>5. PhaseOfRow'
  BY <1>1, <1>4 DEF RunIInv, PhaseOfRow, Terminal
<1>6. DownIsIdle' /\ ClaimExact' /\ OneInvocation'
  BY <1>1, <1>3 DEF RunIInv, DownIsIdle, ClaimExact, OneInvocation
<1>7. OneRunningRow' /\ Cancellable'
  BY <1>1, <1>3, <1>4 DEF RunIInv, OneRunningRow, Cancellable, Terminal
<1>8. RowOfPhase'
  BY <1>1 DEF RunIInv, RunTypeOK, RowOfPhase
<1> QED BY <1>2, <1>5, <1>6, <1>7, <1>8 DEF RunIInv

\* An invocation ends, by whichever path: its claim is released, and no other
\* invocation held it.
LEMMA EndIInv ==
  ASSUME RunIInv, NEW r \in Runs,
         \/ DiscoveryFails(r) \/ DiscoveryHandlerThrows(r) \/ FinishThrows(r)
         \/ NotifyReturns(r) \/ BodyThrows(r) \/ RecoveryThrows(r)
  PROVE  RunIInv'
<1> USE WorkflowRunAssumption
<1>1. /\ Live(r)
      /\ phase' \in {[phase EXCEPT ![r] = "over"], [phase EXCEPT ![r] = "stranded"]}
      /\ claim' = claim \ {Owner[r]}
      /\ registry \ {r} \subseteq registry' /\ registry' \subseteq registry
      /\ signalled' \subseteq signalled
      /\ UNCHANGED <<up, cycle, asked, resetting>>
      /\ row' = row \/ row' = [row EXCEPT ![r] = "failed"]
  BY DEF DiscoveryFails, DiscoveryHandlerThrows, FinishThrows, NotifyReturns, BodyThrows,
     RecoveryThrows, Release, ReleaseAs, FinishRow, Live
<1>2. RunTypeOK'
  BY <1>1 DEF RunIInv, RunTypeOK, Terminal
<1>3. \A q \in Runs : Live(q)' <=> Live(q) /\ q # r
  BY <1>1 DEF RunIInv, RunTypeOK, Live
<1>4. ClaimExact'
  BY <1>1, <1>3 DEF RunIInv, ClaimExact, OneInvocation
<1>5. PhaseOfRow'
  BY <1>1 DEF RunIInv, RunTypeOK, PhaseOfRow, Live
<1>6. DownIsIdle' /\ OneInvocation'
  BY <1>1, <1>3 DEF RunIInv, DownIsIdle, OneInvocation
<1>7. OneRunningRow' /\ Cancellable'
  BY <1>1, <1>3 DEF RunIInv, RunTypeOK, OneRunningRow, Cancellable
<1>8. RowOfPhase'
  BY <1>1 DEF RunIInv, RunTypeOK, RowOfPhase
<1> QED BY <1>2, <1>4, <1>5, <1>6, <1>7, <1>8 DEF RunIInv

LEMMA CancelIInv ==
  ASSUME RunIInv, NEW r \in Runs, Cancel(r)
  PROVE  RunIInv'
BY DEF Cancel, RunIInv, RunTypeOK, PhaseOfRow, DownIsIdle, ClaimExact, OneRunningRow,
   OneInvocation, RowOfPhase, Cancellable, Live

LEMMA RunStepIInv ==
  ASSUME RunIInv, NEW r \in Runs, RunStep(r)
  PROVE  RunIInv'
BY StartIInv, StillbornIInv, MoveIInv, EndIInv, CancelIInv DEF RunStep, Proceed

\* A reset turns rows to deleted and touches no invocation.
LEMMA ResetIInv ==
  ASSUME RunIInv, NEW w \in Workflows, ResetBegins(w) \/ ResetDeletes(w)
  PROVE  RunIInv'
<1>1. CASE ResetBegins(w)
  BY <1>1 DEF ResetBegins, RunIInv, RunTypeOK, PhaseOfRow, DownIsIdle, ClaimExact,
     OneRunningRow, OneInvocation, RowOfPhase, Cancellable, Live
<1>2. CASE ResetDeletes(w)
  <2>1. /\ row' \in [Runs -> Terminal \cup {"none", "running", "deleted"}]
        /\ \A r \in Runs : row'[r] = row[r] \/ (row'[r] = "deleted" /\ row[r] # "none")
        /\ UNCHANGED <<up, phase, cycle, claim, registry, signalled, asked>>
    BY <1>2 DEF ResetDeletes, RunIInv, RunTypeOK
  <2>2. RunTypeOK'
    BY <1>2, <2>1 DEF ResetDeletes, RunIInv, RunTypeOK
  <2>3. PhaseOfRow' /\ DownIsIdle' /\ ClaimExact' /\ OneInvocation'
    BY <2>1 DEF RunIInv, PhaseOfRow, DownIsIdle, ClaimExact, OneInvocation, Live
  <2>4. OneRunningRow' /\ RowOfPhase' /\ Cancellable'
    BY <2>1 DEF RunIInv, OneRunningRow, RowOfPhase, Cancellable, Live
  <2> QED BY <2>2, <2>3, <2>4 DEF RunIInv
<1> QED BY <1>1, <1>2

LEMMA CrashIInv == RunIInv /\ Crash => RunIInv'
<1> SUFFICES ASSUME RunIInv, Crash PROVE RunIInv'
  OBVIOUS
<1>1. RunTypeOK'
  BY DEF Crash, RunIInv, RunTypeOK
<1>2. \A r \in Runs : ~Live(r)'
  BY DEF Crash, Live
<1>3. PhaseOfRow'
  BY DEF Crash, RunIInv, PhaseOfRow
<1> QED
  BY <1>1, <1>2, <1>3 DEF Crash, RunIInv, DownIsIdle, ClaimExact, OneRunningRow,
     OneInvocation, RowOfPhase, Cancellable, Live

LEMMA RestartIInv == RunIInv /\ Restart => RunIInv'
<1> SUFFICES ASSUME RunIInv, Restart PROVE RunIInv'
  OBVIOUS
<1>1. \A r \in Runs : row'[r] # "running" /\ ~Live(r) /\ (row'[r] = "none" <=> row[r] = "none")
  BY DEF Restart, RunIInv, DownIsIdle
<1>2. RunTypeOK'
  BY DEF Restart, RunIInv, RunTypeOK, Terminal
<1> QED
  BY <1>1, <1>2 DEF Restart, RunIInv, PhaseOfRow, DownIsIdle, ClaimExact, OneRunningRow,
     OneInvocation, RowOfPhase, Cancellable, Live

LEMMA NextRunIInv == RunIInv /\ [RunNext]_runVars => RunIInv'
<1> SUFFICES ASSUME RunIInv, [RunNext]_runVars PROVE RunIInv'
  OBVIOUS
<1>1. ASSUME NEW r \in Runs, RunStep(r) PROVE RunIInv'
  BY <1>1, RunStepIInv
<1>2. ASSUME NEW w \in Workflows, ResetBegins(w) \/ ResetDeletes(w) PROVE RunIInv'
  BY <1>2, ResetIInv
<1>3. CASE UNCHANGED runVars
  BY <1>3 DEF runVars, RunIInv, RunTypeOK, PhaseOfRow, DownIsIdle, ClaimExact, OneRunningRow,
     OneInvocation, RowOfPhase, Cancellable, Live
<1> QED BY <1>1, <1>2, <1>3, CrashIInv, RestartIInv DEF RunNext, RunStep

LEMMA RunInvariance == RunSpec => []RunIInv
BY InitRunIInv, NextRunIInv, PTL DEF RunSpec

-----------------------------------------------------------------------------
\* Shape of the state.
THEOREM RunTypeCorrect == RunSpec => []RunTypeOK
BY RunInvariance, PTL DEF RunIInv

\* One active run per workflow, in the process and in the database, whatever
\* crashes, resets and store faults happen.
THEOREM OneActive == RunSpec => []OneActiveRun
<1>1. RunIInv => OneActiveRun
  BY DEF RunIInv, OneRunningRow, OneInvocation, OneActiveRun
<1> QED BY <1>1, RunInvariance, PTL

\* The claim is neither lost nor leaked, on any path out of an invocation.
THEOREM ClaimCorrect == RunSpec => []ClaimExact
BY RunInvariance, PTL DEF RunIInv

\* Every run that is executed and recorded as running can be cancelled.
THEOREM AlwaysCancellable == RunSpec => []Cancellable
BY RunInvariance, PTL DEF RunIInv

\* No row is left running with nobody to finish it, unless a store call threw outside
\* of what the catch-all covers.
THEOREM OnlyThrowsWedge == RunSpec => []WedgedOnlyByThrow
<1> DEFINE Owned == WedgedOnlyByThrow
           Kept(r) == Live(r) \/ phase[r] = "stranded"
<1>1. RunInit => Owned
  BY DEF RunInit, WedgedOnlyByThrow
<1>2. RunIInv /\ Owned /\ [RunNext]_runVars => Owned'
  <2> SUFFICES ASSUME RunIInv, Owned, [RunNext]_runVars, up', NEW q \in Runs, row'[q] = "running"
               PROVE  Kept(q)'
    BY DEF WedgedOnlyByThrow
  <2> USE DEF WedgedOnlyByThrow
  <2>1. ASSUME NEW r \in Runs, RunStep(r)
        PROVE  Kept(q)'
    <3>1. up
      BY <2>1 DEF RunStep, Proceed, StartRun, StartBroken, AnnounceThrows, Cancel,
         DiscoveryReturns, DiscoveryFails, DiscoveryHandlerThrows, NextCycle, WakeUp,
         Finalise, FinishThrows, NotifyReturns, BodyThrows, RecoveryThrows
    <3>2. CASE q # r
      BY <2>1, <3>1, <3>2 DEF RunStep, Proceed, StartRun, StartBroken, AnnounceThrows,
         Cancel, DiscoveryReturns, DiscoveryFails, DiscoveryHandlerThrows, NextCycle, WakeUp,
         Finalise, FinishThrows, NotifyReturns, BodyThrows, RecoveryThrows, Release, ReleaseAs,
         FinishRow, Live, RunIInv, RunTypeOK
    <3>3. CASE q = r
      <4>1. CASE (\E l \in BOOLEAN : StartRun(r, l)) \/ StartBroken(r) \/ AnnounceThrows(r)
        BY <3>3, <4>1 DEF StartRun, StartBroken, AnnounceThrows, Live, RunIInv, RunTypeOK
      <4>2. CASE Cancel(r)
        BY <3>1, <4>2 DEF Cancel, Live
      <4>3. CASE DiscoveryReturns(r) \/ NextCycle(r) \/ WakeUp(r) \/ \E T, a : Finalise(r, T, a)
        BY <3>3, <4>3 DEF DiscoveryReturns, NextCycle, WakeUp, Finalise, Live, RunIInv, RunTypeOK
      <4>4. CASE \/ DiscoveryFails(r) \/ DiscoveryHandlerThrows(r) \/ FinishThrows(r)
                 \/ NotifyReturns(r) \/ BodyThrows(r) \/ RecoveryThrows(r)
        BY <3>3, <4>4 DEF DiscoveryFails, DiscoveryHandlerThrows, FinishThrows, NotifyReturns,
           BodyThrows, RecoveryThrows, Throws, FinishRow, Release, ReleaseAs, RunIInv, RunTypeOK, RowOfPhase,
           Terminal
      <4> QED BY <2>1, <4>1, <4>2, <4>3, <4>4 DEF RunStep, Proceed
    <3> QED BY <3>2, <3>3
  <2>2. ASSUME NEW w \in Workflows, ResetBegins(w) \/ ResetDeletes(w)
        PROVE  Kept(q)'
    BY <2>2 DEF ResetBegins, ResetDeletes, Live
  <2>3. CASE Crash \/ Restart
    BY <2>3 DEF Crash, Restart
  <2>4. CASE UNCHANGED runVars
    BY <2>4 DEF runVars, Live
  <2> QED BY <2>1, <2>2, <2>3, <2>4 DEF RunNext, RunStep
<1> QED BY <1>1, <1>2, RunInvariance, PTL DEF RunSpec

\* The final status of a run is written once.
THEOREM FinalOnce == RunSpec => FinalStatusKept
<1>1. RunIInv /\ [RunNext]_runVars =>
        [\A r \in Runs : row[r] \in Terminal => row'[r] \in {row[r], "deleted"}]_runVars
  <2> SUFFICES ASSUME RunIInv, RunNext, NEW q \in Runs, row[q] \in Terminal
               PROVE  row'[q] \in {row[q], "deleted"}
    BY DEF runVars
  <2>1. ASSUME NEW r \in Runs, RunStep(r)
        PROVE  row'[q] \in {row[q], "deleted"}
    <3>1. CASE (\E l \in BOOLEAN : StartRun(r, l)) \/ StartBroken(r) \/ AnnounceThrows(r)
      BY <3>1 DEF StartRun, StartBroken, AnnounceThrows, Terminal, RunIInv, RunTypeOK
    <3>2. CASE Cancel(r) \/ DiscoveryReturns(r) \/ NextCycle(r) \/ WakeUp(r)
               \/ DiscoveryHandlerThrows(r) \/ FinishThrows(r) \/ NotifyReturns(r)
               \/ RecoveryThrows(r)
      BY <3>2 DEF Cancel, DiscoveryReturns, NextCycle, WakeUp, DiscoveryHandlerThrows,
         FinishThrows, NotifyReturns, RecoveryThrows
    <3>3. CASE DiscoveryFails(r) \/ BodyThrows(r) \/ \E T, a : Finalise(r, T, a)
      BY <3>3 DEF DiscoveryFails, BodyThrows, Finalise, FinishRow, Terminal, RunIInv, RunTypeOK,
         RowOfPhase
    <3> QED BY <2>1, <3>1, <3>2, <3>3 DEF RunStep, Proceed
  <2>2. ASSUME NEW w \in Workflows, ResetBegins(w) \/ ResetDeletes(w)
        PROVE  row'[q] \in {row[q], "deleted"}
    BY <2>2 DEF ResetBegins, ResetDeletes
  <2>3. CASE Crash \/ Restart
    BY <2>3 DEF Crash, Restart, Terminal
  <2> QED BY <2>1, <2>2, <2>3 DEF RunNext, RunStep
<1> QED BY <1>1, RunInvariance, PTL DEF RunSpec, FinalStatusKept

\* The signal of a run whose cancel was accepted stays signalled for as long as the
\* run has no final status, and the status was none of the three so far.
AskedHeard ==
  \A r \in asked :
    /\ row[r] \notin {"none", "success", "partial", "skipped"}
    /\ phase[r] \in {"discovering", "executing", "sleeping"} => r \in signalled

\* An accepted cancel is never turned into a success, a partial one or a no-op.
THEOREM CancelsHonoured == RunSpec => []CancelHonoured
<1>1. RunInit => AskedHeard
  BY DEF RunInit, AskedHeard
<1>2. RunIInv /\ AskedHeard /\ [RunNext]_runVars => AskedHeard'
  <2> SUFFICES ASSUME RunIInv, AskedHeard, [RunNext]_runVars, NEW q \in asked'
               PROVE  /\ row'[q] \notin {"none", "success", "partial", "skipped"}
                      /\ phase'[q] \in {"discovering", "executing", "sleeping"} => q \in signalled'
    BY DEF AskedHeard
  <2> USE DEF AskedHeard
  <2>1. ASSUME NEW r \in Runs, RunStep(r)
        PROVE  /\ row'[q] \notin {"none", "success", "partial", "skipped"}
               /\ phase'[q] \in {"discovering", "executing", "sleeping"} => q \in signalled'
    <3>1. CASE Cancel(r)
      BY <3>1 DEF Cancel
    <3>2. CASE (\E l \in BOOLEAN : StartRun(r, l)) \/ StartBroken(r) \/ AnnounceThrows(r)
      BY <3>2 DEF StartRun, StartBroken, AnnounceThrows, RunIInv, RunTypeOK
    <3>3. CASE DiscoveryReturns(r) \/ NextCycle(r) \/ WakeUp(r)
      BY <3>3 DEF DiscoveryReturns, NextCycle, WakeUp, RunIInv, RunTypeOK
    <3>4. CASE \E T, a : Finalise(r, T, a)
      <4>1. r \in signalled => \A T, a : FinalStatus(r, T, a) = "cancelled"
        BY DEF FinalStatus
      <4> QED BY <3>4, <4>1 DEF Finalise, RunIInv, RunTypeOK
    <3>5. CASE \/ DiscoveryFails(r) \/ DiscoveryHandlerThrows(r) \/ FinishThrows(r)
               \/ NotifyReturns(r) \/ BodyThrows(r) \/ RecoveryThrows(r)
      BY <3>5 DEF DiscoveryFails, DiscoveryHandlerThrows, FinishThrows, NotifyReturns,
         BodyThrows, RecoveryThrows, Release, ReleaseAs, FinishRow, RunIInv, RunTypeOK
    <3> QED BY <2>1, <3>1, <3>2, <3>3, <3>4, <3>5 DEF RunStep, Proceed
  <2>2. ASSUME NEW w \in Workflows, ResetBegins(w) \/ ResetDeletes(w)
        PROVE  /\ row'[q] \notin {"none", "success", "partial", "skipped"}
               /\ phase'[q] \in {"discovering", "executing", "sleeping"} => q \in signalled'
    BY <2>2 DEF ResetBegins, ResetDeletes, RunIInv, RunTypeOK
  <2>3. CASE Crash
    BY <2>3 DEF Crash, RunIInv, RunTypeOK
  <2>4. CASE Restart
    BY <2>4 DEF Restart, RunIInv, RunTypeOK, DownIsIdle, Live
  <2>5. CASE UNCHANGED runVars
    BY <2>5 DEF runVars
  <2> QED BY <2>1, <2>2, <2>3, <2>4, <2>5 DEF RunNext, RunStep
<1>3. AskedHeard => CancelHonoured
  BY DEF AskedHeard, CancelHonoured
<1> QED BY <1>1, <1>2, <1>3, RunInvariance, PTL DEF RunSpec
=============================================================================
