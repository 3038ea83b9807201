------------------------------ MODULE DagExec ------------------------------
(***************************************************************************)
(* executeDag (src/src/core/dag.ts): the loop that runs the members of a   *)
(* workflow.  It is one async function on the daemon's event loop, so the  *)
(* code between two awaits is atomic: the completion of a member and a     *)
(* cancellation are only seen while the function is suspended, at the      *)
(* await of a skip or at the race on the members in flight.                *)
(*                                                                         *)
(* A member is its position in dag.nodes, the order in which the loop      *)
(* visits the members that are ready.                                      *)
(***************************************************************************)
EXTENDS Integers, FiniteSets

CONSTANTS
  N,            \* number of members
  Dags,         \* the DAGs buildDag may hand over: member -> its dependencies
  Concurrency   \* hooks.concurrency; 0 behaves as 1

Jobs == 1 .. N

Outcome == {"success", "failed", "timeout", "cancelled", "skipped"}

Cap == IF Concurrency > 1 THEN Concurrency ELSE 1

\* What buildDag guarantees: dependencies are members, and no set of members
\* waits for itself (there is no cycle).
IsDag(g) ==
  /\ g \in [Jobs -> SUBSET Jobs]
  /\ \A S \in (SUBSET Jobs) \ {{}} : \E j \in S : g[j] \cap S = {}

ASSUME SizeAssumption == N \in Nat /\ Concurrency \in Nat
ASSUME DagsAssumption == \A g \in Dags : IsDag(g)

VARIABLES
  deps,       \* dag.dependencies
  status,     \* the status map; "none" for a member that is absent from it
  remaining,  \* members that have not settled
  indegree,   \* dependencies of each member that have not settled
  inflight,   \* members launched whose promise has not been dropped
  settling,   \* members in flight that settled and await onSettle
  ready,      \* what is left of this round's snapshot of ready members
  started,    \* members onStart was called for (history)
  aborted,    \* hooks.signal.aborted
  pc          \* where the function is: "loop" (top of the while), "ready" (in the
              \* for), "skip" (awaiting onSkip), "race", "done", "rejected"

vars == <<deps, status, remaining, indegree, inflight, settling, ready, started,
          aborted, pc>>

Init ==
  /\ deps \in Dags
  /\ status = [j \in Jobs |-> "none"]
  /\ remaining = Jobs
  /\ indegree = [j \in Jobs |-> Cardinality(deps[j])]
  /\ inflight = {}
  /\ settling = {}
  /\ ready = {}
  /\ started = {}
  /\ aborted \in BOOLEAN
  /\ pc = "loop"

-----------------------------------------------------------------------------
\* The loop.

\* Mutants of ReadyJobs: the indegree, or what is already in flight, not looked at.
ReadyBeforeDeps == {j \in remaining : j \notin inflight}
ReadyAgain == {j \in remaining : indegree[j] = 0}

ReadyJobs == {j \in remaining : indegree[j] = 0 /\ j \notin inflight}

\* `failedDep`: some dependency whose status is not success, absent included.
FailedDep(j) == \E d \in deps[j] : status[d] # "success"

SlotFree == Cardinality(inflight) < Cap

\* The member the for loop is at.
Visiting(j) == pc = "ready" /\ j \in ready /\ \A k \in ready : j <= k

\* The synchronous part of settle(job, s).
Settle(j, s) ==
  /\ status' = [status EXCEPT ![j] = s]
  /\ remaining' = remaining \ {j}
  /\ indegree' = [k \in Jobs |-> IF j \in deps[k] THEN indegree[k] - 1 ELSE indegree[k]]

\* Mutant of BeginRound: the signal is not looked at.
BeginRoundAnyway ==
  /\ pc = "loop"
  /\ remaining # {}
  /\ ready' = ReadyJobs
  /\ pc' = "ready"
  /\ UNCHANGED <<deps, status, remaining, indegree, inflight, settling, started, aborted>>

BeginRound ==
  /\ pc = "loop"
  /\ remaining # {}
  /\ ready' = IF aborted THEN {} ELSE ReadyJobs
  /\ pc' = "ready"
  /\ UNCHANGED <<deps, status, remaining, indegree, inflight, settling, started, aborted>>

SkipStage(j) ==
  /\ Visiting(j)
  /\ FailedDep(j)
  /\ Settle(j, "skipped")
  /\ ready' = ready \ {j}
  /\ pc' = "skip"
  /\ UNCHANGED <<deps, inflight, settling, started, aborted>>

\* onSkip resolves, or its store call throws and executeDag rejects.
SkipReturns ==
  /\ pc = "skip"
  /\ pc' \in {"ready", "rejected"}
  /\ UNCHANGED <<deps, status, remaining, indegree, inflight, settling, ready, started, aborted>>

Defer(j) ==
  /\ Visiting(j)
  /\ ~FailedDep(j)
  /\ ~SlotFree
  /\ ready' = ready \ {j}
  /\ UNCHANGED <<deps, status, remaining, indegree, inflight, settling, started, aborted, pc>>

Launch(j) ==
  /\ Visiting(j)
  /\ ~FailedDep(j)
  /\ SlotFree
  /\ inflight' = inflight \cup {j}
  /\ started' = started \cup {j}
  /\ ready' = ready \ {j}
  /\ UNCHANGED <<deps, status, remaining, indegree, settling, aborted, pc>>

\* onStart writes a log line first; when that throws executeDag rejects.
StartThrows(j) ==
  /\ Visiting(j)
  /\ ~FailedDep(j)
  /\ SlotFree
  /\ pc' = "rejected"
  /\ UNCHANGED <<deps, status, remaining, indegree, inflight, settling, ready, started, aborted>>

\* Mutants of AfterRound: a cancelled run is not drained; it is never left.
LeaveUndrained ==
  IF aborted THEN "done" ELSE IF inflight # {} THEN "race" ELSE "loop"
NeverLeave == IF inflight # {} THEN "race" ELSE "loop"

\* The end of a round: wait for a member, leave, or go round again.
AfterRound ==
  IF inflight # {} THEN "race"
  ELSE IF aborted THEN "done"
  ELSE IF remaining # {} /\ ~ \E j \in remaining : indegree[j] = 0 THEN "done"
  ELSE "loop"

EndRound ==
  /\ pc = "ready"
  /\ ready = {}
  /\ pc' = AfterRound
  /\ UNCHANGED <<deps, status, remaining, indegree, inflight, settling, ready, started, aborted>>

LeaveLoop ==
  /\ pc = "loop"
  /\ remaining = {}
  /\ pc' = "done"
  /\ UNCHANGED <<deps, status, remaining, indegree, inflight, settling, ready, started, aborted>>

-----------------------------------------------------------------------------
\* What happens while the function is suspended, or after it ended: members in
\* flight are not awaited any more then, but still settle.

Suspended == pc \in {"skip", "race", "done", "rejected"}

\* runOne resolves (or rejects, which counts as failed).  It answers cancelled
\* only when it saw the signal aborted.
RunOneSettles(j, s) ==
  /\ Suspended
  /\ j \in inflight \ settling
  /\ s = "cancelled" => aborted
  /\ Settle(j, s)
  /\ settling' = settling \cup {j}
  /\ UNCHANGED <<deps, inflight, ready, started, aborted, pc>>

\* The promise of a member completes and is dropped from inflight.  The first
\* one to complete decides the race; one that completes while no race is
\* pending is seen by nobody, whether onSettle threw or not.
PromiseCompletes(j, after) ==
  /\ Suspended
  /\ j \in settling
  /\ inflight' = inflight \ {j}
  /\ settling' = settling \ {j}
  /\ pc' = IF pc = "race" THEN after ELSE pc
  /\ UNCHANGED <<deps, status, remaining, indegree, ready, started, aborted>>

OnSettleReturns(j) == PromiseCompletes(j, "loop")

OnSettleThrows(j) == PromiseCompletes(j, "rejected")

\* The cancel endpoint is a request of its own, so it never runs inside the
\* continuations of a skip; the caller aborts when executeDag rejected.
Abort ==
  /\ pc \in {"race", "rejected"}
  /\ ~aborted
  /\ aborted' = TRUE
  /\ UNCHANGED <<deps, status, remaining, indegree, inflight, settling, ready, started, pc>>

Finished == pc \in {"done", "rejected"} /\ inflight = {}

Loop ==
  \/ BeginRound \/ SkipReturns \/ EndRound \/ LeaveLoop
  \/ \E j \in Jobs : SkipStage(j) \/ Defer(j) \/ Launch(j) \/ StartThrows(j)

Member(j) ==
  \/ \E s \in Outcome : RunOneSettles(j, s)
  \/ OnSettleReturns(j)
  \/ OnSettleThrows(j)

Next ==
  \/ Loop
  \/ \E j \in Jobs : Member(j)
  \/ Abort
  \/ Finished /\ UNCHANGED vars

Spec == Init /\ [][Next]_vars

\* The event loop runs the continuation it has queued, and every member ends:
\* its child exits by itself, at its timeout, or when it is killed.
Fairness == WF_vars(Loop) /\ \A j \in Jobs : WF_vars(Member(j))

FairSpec == Spec /\ Fairness
-----------------------------------------------------------------------------
\* Shape of the state.
TypeOK ==
  /\ deps \in Dags
  /\ status \in [Jobs -> Outcome \cup {"none"}]
  /\ remaining \subseteq Jobs
  /\ indegree \in [Jobs -> Nat]
  /\ settling \subseteq inflight
  /\ inflight \subseteq started
  /\ started \subseteq Jobs
  /\ ready \subseteq Jobs
  /\ aborted \in BOOLEAN
  /\ pc \in {"loop", "ready", "skip", "race", "done", "rejected"}

\* A member is launched only when every dependency has SUCCEEDED, and that
\* stays so while it runs and after (dag.ts:227).
LaunchedAfterDeps == \A j \in started : \A d \in deps[j] : status[d] = "success"

\* A member that settles without having been launched was skipped, and because
\* a dependency settled with something else than success: a skip never happens
\* early, on a dependency that is merely not finished (dag.ts:228).
SkipJustified ==
  \A j \in Jobs \ started :
    status[j] # "none" =>
      /\ status[j] = "skipped"
      /\ \E d \in deps[j] : status[d] \notin {"none", "success"}

\* Never more children than the cap (dag.ts:227), counting members whose
\* settlement is still being recorded.
SlotsBounded == Cardinality(inflight) <= Cap

\* executeDag resolves with every member settled unless it was cancelled, and
\* never with a member whose runOne is unresolved: the safety break of
\* dag.ts:285 is dead code for a valid DAG, and a member deferred for want of a
\* slot is not lost.  (It may resolve before the last onSettle is awaited.)
CompleteWhenDone ==
  pc = "done" =>
    /\ inflight \subseteq settling
    /\ \A j \in started : status[j] # "none"
    /\ ~aborted => remaining = {}

\* Once cancelled, not-yet-started members never spawn (dag.ts:217-219).
NoLaunchAfterAbort == [][aborted => started' = started]_vars

\* The loop always comes to an end: no busy round, no member forgotten.
Terminates == <>(pc \in {"done", "rejected"})

-----------------------------------------------------------------------------
\* executeDag implements its contract.
Contract == INSTANCE DagSpec WITH
  st <- [j \in Jobs |-> IF status[j] # "none" THEN status[j]
                        ELSE IF j \in inflight THEN "running" ELSE "waiting"],
  stopped <- aborted \/ pc = "rejected"

\* Every step of the loop is a step of DagSpec or changes nothing it sees: the
\* snapshot of ready members, the indegrees and the race are an implementation
\* of "start when all dependencies succeeded, skip when one did not".
Refines == Contract!Spec
=============================================================================
