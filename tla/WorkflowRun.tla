---------------------------- MODULE WorkflowRun ----------------------------
(***************************************************************************)
(* The life of workflow runs in the daemon: runWorkflow and                *)
(* runWorkflowInner (core/workflow-executor.ts), the API endpoints that    *)
(* start, cancel and reset (api/server.ts), and what a restart of the      *)
(* daemon does to the rows it finds (daemon.ts).                           *)
(*                                                                         *)
(* The daemon is one event loop: a request or a continuation runs without  *)
(* interruption up to its next await.  A run awaits in four phases:        *)
(* "discovering" (inputKeys of the root stage), "executing" (executeDag),  *)
(* "sleeping" (between cycles) and "notifying" (the push notification).    *)
(***************************************************************************)
EXTENDS Integers, FiniteSets

CONSTANTS
  Workflows,
  Runs,         \* ids of workflow runs
  Owner,        \* the workflow each id will be used for
  Broken,       \* workflows whose references are no DAG
  Empty,        \* workflows without a member
  Limitable,    \* workflows with a stage that declares inputKeys
  Repeating,    \* workflows with repeatUntilStable
  MaxCycles,    \* def.maxCycles of those
  FaultPoints   \* where a store call may throw, of Points below

\* Places in the code where a throwing store call (SQLITE_BUSY) has an effect of
\* its own: on the invalid-DAG path, around the discovery, in the body of the
\* run before its final status is written, at that write, and in the catch-all.
Points == {"invalid", "discovery", "body", "finish", "recovery"}

Terminal == {"success", "partial", "failed", "cancelled", "skipped"}

ASSUME WorkflowRunAssumption ==
  /\ Owner \in [Runs -> Workflows]
  /\ Broken \cup Empty \cup Limitable \cup Repeating \subseteq Workflows
  /\ MaxCycles \in Nat \ {0}
  /\ FaultPoints \subseteq Points

VARIABLES
  up,         \* the daemon runs
  row,        \* status of each workflow_runs row; "none" before, "deleted" after a reset
  phase,      \* where the invocation of runWorkflow for this run is
  cycle,      \* its repeatUntilStable cycle
  claim,      \* startingWorkflows
  registry,   \* the keys of activeWorkflowRuns
  signalled,  \* runs being executed whose AbortController was aborted
  asked,      \* runs whose cancel request was answered with 200 (history)
  resetting   \* workflows a reset request has found idle and awaits the lookup for

runVars == <<up, row, phase, cycle, claim, registry, signalled, asked, resetting>>

RunInit ==
  /\ up = TRUE
  /\ row = [r \in Runs |-> "none"]
  /\ phase = [r \in Runs |-> "none"]
  /\ cycle = [r \in Runs |-> 0]
  /\ claim = {}
  /\ registry = {}
  /\ signalled = {}
  /\ asked = {}
  /\ resetting = {}

Live(r) == phase[r] \in {"discovering", "executing", "sleeping", "notifying"}

RunsOf(w) == {r \in Runs : Owner[r] = w}

HasActiveRow(w) == \E r \in RunsOf(w) : row[r] = "running"

\* Mutant of InProgress: the claim is not looked at.
RowOnly(w) == HasActiveRow(w)

\* workflowRunInProgress
InProgress(w) == w \in claim \/ HasActiveRow(w)

\* The invocation returns ("stranded": after a store call threw where nothing that
\* finishes the row catches it): the registry entry (and with it the AbortController)
\* goes in its finally, the claim in the finally of runWorkflow.
ReleaseAs(r, end) ==
  /\ phase' = [phase EXCEPT ![r] = end]
  /\ registry' = registry \ {r}
  /\ signalled' = signalled \ {r}
  /\ claim' = claim \ {Owner[r]}

Release(r) == ReleaseAs(r, "over")

\* finishWorkflowRun: an UPDATE by id, which finds nothing when the row is gone.
FinishRow(r, s) == row' = IF row[r] = "deleted" THEN row ELSE [row EXCEPT ![r] = s]

\* A store call of this run throws at this point: because the database is busy,
\* or because the row its log line refers to is gone.
Throws(r, point) == point \in FaultPoints \/ row[r] = "deleted"

-----------------------------------------------------------------------------
\* Starting.  The scheduler and the API both end in runWorkflow, which checks
\* and claims the name and writes the row in one go.

StartRun(r, limited) ==
  LET w == Owner[r] IN
  /\ up
  /\ row[r] = "none"
  /\ w \notin Broken
  /\ limited => w \in Limitable
  /\ ~InProgress(w)
  /\ row' = [row EXCEPT ![r] = "running"]
  /\ phase' = [phase EXCEPT ![r] = IF limited THEN "discovering" ELSE "executing"]
  /\ cycle' = [cycle EXCEPT ![r] = 1]
  /\ claim' = claim \cup {w}
  /\ registry' = registry \cup {r}
  /\ UNCHANGED <<up, signalled, asked, resetting>>

\* A workflow that is no DAG gets a failed row at once; when the log line or the
\* finish throws in between, the row stays running.
StartBroken(r) ==
  /\ up
  /\ row[r] = "none"
  /\ Owner[r] \in Broken
  /\ ~InProgress(Owner[r])
  /\ \/ /\ row' = [row EXCEPT ![r] = "failed"]
        /\ phase' = [phase EXCEPT ![r] = "over"]
     \/ /\ "invalid" \in FaultPoints
        /\ row' = [row EXCEPT ![r] = "running"]
        /\ phase' = [phase EXCEPT ![r] = "stranded"]
  /\ UNCHANGED <<up, cycle, claim, registry, signalled, asked, resetting>>

\* The log line that announces the discovery is outside of every try.
AnnounceThrows(r) ==
  /\ up
  /\ row[r] = "none"
  /\ Owner[r] \in Limitable \ Broken
  /\ ~InProgress(Owner[r])
  /\ "discovery" \in FaultPoints
  /\ row' = [row EXCEPT ![r] = "running"]
  /\ phase' = [phase EXCEPT ![r] = "stranded"]
  /\ registry' = registry \cup {r}
  /\ UNCHANGED <<up, cycle, claim, signalled, asked, resetting>>

-----------------------------------------------------------------------------
\* Discovery of a limited run.

DiscoveryReturns(r) ==
  /\ phase[r] = "discovering"
  /\ row[r] # "deleted"
  /\ phase' = [phase EXCEPT ![r] = "executing"]
  /\ UNCHANGED <<up, row, cycle, claim, registry, signalled, asked, resetting>>

\* inputKeys rejects, or the selection of the roots throws.
DiscoveryFails(r) ==
  /\ phase[r] = "discovering"
  /\ row[r] # "deleted"
  /\ row' = [row EXCEPT ![r] = "failed"]
  /\ Release(r)
  /\ UNCHANGED <<up, cycle, asked, resetting>>

\* The handler of that failure throws too: nothing else catches it, and the
\* registry keeps the entry.
DiscoveryHandlerThrows(r) ==
  /\ phase[r] = "discovering"
  /\ Throws(r, "discovery")
  /\ phase' = [phase EXCEPT ![r] = "stranded"]
  /\ claim' = claim \ {Owner[r]}
  /\ UNCHANGED <<up, row, cycle, registry, signalled, asked, resetting>>

-----------------------------------------------------------------------------
\* The body.  executeDag resolves with the statuses of the members; what counts
\* is which of "success" and "other" occur.  No status at all: nothing was
\* launched before the abort, or there is no member.

Statuses(r) ==
  IF Owner[r] \in Empty THEN {{}}
  ELSE {T \in SUBSET {"success", "other"} : T = {} => r \in signalled}

\* Mutant of FinalStatus: the tally is looked at before the abort.
TallyFirst(r, statuses, advanced) ==
  IF statuses = {} THEN IF r \in signalled THEN "cancelled" ELSE "failed"
  ELSE IF statuses = {"success"} THEN IF advanced THEN "success" ELSE "skipped"
  ELSE IF "success" \in statuses THEN "partial"
  ELSE "failed"

FinalStatus(r, statuses, advanced) ==
  IF r \in signalled THEN "cancelled"
  ELSE IF statuses = {} THEN "failed"
  ELSE IF statuses = {"success"} THEN IF advanced THEN "success" ELSE "skipped"
  ELSE IF "success" \in statuses THEN "partial"
  ELSE "failed"

\* Mutant of NextCycle: the cycles are not counted.
CycleForever(r) ==
  /\ phase[r] = "executing"
  /\ row[r] # "deleted"
  /\ r \notin signalled
  /\ Owner[r] \in Repeating
  /\ cycle' = [cycle EXCEPT ![r] = cycle[r] + 1]
  /\ phase' = [phase EXCEPT ![r] = "sleeping"]
  /\ UNCHANGED <<up, row, claim, registry, signalled, asked, resetting>>

\* Another cycle: work is left that may be retried and the last cycle advanced.
NextCycle(r) ==
  /\ phase[r] = "executing"
  /\ row[r] # "deleted"
  /\ r \notin signalled
  /\ Owner[r] \in Repeating
  /\ cycle[r] < MaxCycles
  /\ cycle' = [cycle EXCEPT ![r] = cycle[r] + 1]
  /\ phase' = [phase EXCEPT ![r] = "sleeping"]
  /\ UNCHANGED <<up, row, claim, registry, signalled, asked, resetting>>

WakeUp(r) ==
  /\ phase[r] = "sleeping"
  /\ row[r] # "deleted"
  /\ phase' = [phase EXCEPT ![r] = "executing"]
  /\ UNCHANGED <<up, row, cycle, claim, registry, signalled, asked, resetting>>

\* The last cycle is over: write the final status, then notify.
Finalise(r, statuses, advanced) ==
  /\ phase[r] = "executing"
  /\ row[r] # "deleted"
  /\ row' = [row EXCEPT ![r] = FinalStatus(r, statuses, advanced)]
  /\ phase' = [phase EXCEPT ![r] = "notifying"]
  /\ UNCHANGED <<up, cycle, claim, registry, signalled, asked, resetting>>

\* finishWorkflowRun throws after `finished` was set: the catch-all does not
\* finish the run a second time.
FinishThrows(r) ==
  /\ phase[r] = "executing"
  /\ "finish" \in FaultPoints
  /\ ReleaseAs(r, "stranded")
  /\ UNCHANGED <<up, row, cycle, asked, resetting>>

\* The notification (which never rejects) is over, was not wanted, or a log line
\* around it threw into the catch-all, which leaves a finished row alone.
NotifyReturns(r) ==
  /\ phase[r] = "notifying"
  /\ Release(r)
  /\ UNCHANGED <<up, row, cycle, asked, resetting>>

\* Mutants of BodyThrows: the catch-all does not finish the row; the finally of
\* runWorkflow is missing.
CatchUnfinished(r) ==
  /\ phase[r] \in {"executing", "sleeping"}
  /\ Throws(r, "body")
  /\ Release(r)
  /\ UNCHANGED <<up, row, cycle, asked, resetting>>
CatchKeepsClaim(r) ==
  /\ phase[r] \in {"executing", "sleeping"}
  /\ Throws(r, "body")
  /\ FinishRow(r, "failed")
  /\ signalled' = signalled \ {r}
  /\ phase' = [phase EXCEPT ![r] = "over"]
  /\ registry' = registry \ {r}
  /\ UNCHANGED <<up, cycle, claim, asked, resetting>>

\* An exception leaves executeDag or the code around it: the catch-all aborts
\* the members and fails the run.
BodyThrows(r) ==
  /\ phase[r] \in {"executing", "sleeping"} \/ (phase[r] = "discovering" /\ row[r] = "deleted")
  /\ Throws(r, "body")
  /\ FinishRow(r, "failed")
  /\ Release(r)
  /\ UNCHANGED <<up, cycle, asked, resetting>>

\* The catch-all itself throws before the row is finished.
RecoveryThrows(r) ==
  /\ phase[r] \in {"executing", "sleeping"}
  /\ Throws(r, "body")
  /\ Throws(r, "recovery")
  /\ ReleaseAs(r, "stranded")
  /\ UNCHANGED <<up, row, cycle, asked, resetting>>

-----------------------------------------------------------------------------
\* Requests.

\* POST /api/workflow-runs/:id/cancel
Cancel(r) ==
  /\ up
  /\ row[r] = "running"
  /\ r \in registry
  /\ signalled' = signalled \cup {r}
  /\ asked' = asked \cup {r}
  /\ UNCHANGED <<up, row, phase, cycle, claim, registry, resetting>>

\* POST /api/workflows/:name/reset-output and reset-output-all: find the workflow
\* idle, await the directory lookup, then delete everything it ever produced (which
\* is found by its members).
ResetBegins(w) ==
  /\ up
  /\ w \notin resetting
  /\ ~InProgress(w)
  /\ resetting' = resetting \cup {w}
  /\ UNCHANGED <<up, row, phase, cycle, claim, registry, signalled, asked>>

ResetDeletes(w) ==
  /\ w \in resetting
  /\ resetting' = resetting \ {w}
  /\ row' = [r \in Runs |-> IF Owner[r] = w /\ w \notin Empty /\ row[r] # "none"
                            THEN "deleted" ELSE row[r]]
  /\ UNCHANGED <<up, phase, cycle, claim, registry, signalled, asked>>

-----------------------------------------------------------------------------
\* The process ends at any point (a signal, an uncaught exception, a crash) and
\* is started again by launchd; startup closes the rows still running before the
\* scheduler and the API exist.

Crash ==
  /\ up
  /\ up' = FALSE
  /\ phase' = [r \in Runs |-> IF phase[r] = "none" THEN "none" ELSE "over"]
  /\ claim' = {}
  /\ registry' = {}
  /\ signalled' = {}
  /\ resetting' = {}
  /\ UNCHANGED <<row, cycle, asked>>

Restart ==
  /\ ~up
  /\ up' = TRUE
  /\ row' = [r \in Runs |-> IF row[r] = "running" THEN "cancelled" ELSE row[r]]
  /\ UNCHANGED <<phase, cycle, claim, registry, signalled, asked, resetting>>

\* What moves a run on by itself, whatever the outcome.
Proceed(r) ==
  \/ DiscoveryReturns(r) \/ DiscoveryFails(r) \/ DiscoveryHandlerThrows(r)
  \/ NextCycle(r) \/ WakeUp(r)
  \/ \E T \in Statuses(r), a \in {TRUE, Owner[r] \notin Limitable} : Finalise(r, T, a)
  \/ FinishThrows(r) \/ NotifyReturns(r) \/ BodyThrows(r) \/ RecoveryThrows(r)

RunNext ==
  \/ \E r \in Runs :
       \/ \E limited \in BOOLEAN : StartRun(r, limited)
       \/ StartBroken(r)
       \/ AnnounceThrows(r)
       \/ Proceed(r)
       \/ Cancel(r)
  \/ \E w \in Workflows : ResetBegins(w) \/ ResetDeletes(w)
  \/ Crash
  \/ Restart

RunSpec == RunInit /\ [][RunNext]_runVars

\* inputKeys, executeDag (every member ends), the sleep and the notification all
\* come to an end, and launchd starts the daemon again.
RunFairness == WF_runVars(Restart) /\ \A r \in Runs : WF_runVars(Proceed(r))

RunFairSpec == RunSpec /\ RunFairness
-----------------------------------------------------------------------------
\* Shape of the state.
RunTypeOK ==
  /\ up \in BOOLEAN
  /\ row \in [Runs -> Terminal \cup {"none", "running", "deleted"}]
  /\ phase \in [Runs -> {"none", "discovering", "executing", "sleeping", "notifying", "over", "stranded"}]
  /\ cycle \in [Runs -> 0 .. MaxCycles]
  /\ claim \subseteq Workflows
  /\ registry \subseteq Runs
  /\ signalled \subseteq Runs
  /\ asked \subseteq Runs
  /\ resetting \subseteq Workflows

\* One active run per workflow (T105), in the process and in the database,
\* through every restart and reset: two runs of a workflow are never both being
\* executed, and never both recorded as running.
OneActiveRun ==
  \A q, r \in Runs :
    /\ Owner[q] = Owner[r]
    /\ (Live(q) /\ Live(r)) \/ (row[q] = "running" /\ row[r] = "running")
    => q = r

\* The claim is held exactly while a run of the workflow is being executed: it is
\* neither lost early (a second run could start) nor leaked (none could).
ClaimExact == claim = {Owner[r] : r \in {q \in Runs : Live(q)}}

\* No row is left running with nobody to finish it, which would refuse every
\* later run until a restart (workflow-executor.ts:518-525).
NoWedgedRow == up => \A r \in Runs : row[r] = "running" => Live(r)

\* Only a store call that throws outside of what the catch-all covers can do that:
\* every other way out of a run, and every restart, finishes its row.
WedgedOnlyByThrow ==
  up => \A r \in Runs : row[r] = "running" => Live(r) \/ phase[r] = "stranded"

\* A run recorded as running and executed here can be cancelled, in every phase.
Cancellable == \A r \in Runs : row[r] = "running" /\ Live(r) => r \in registry

\* A run whose cancel was accepted never ends as a success, a partial success or
\* a no-op (workflow-executor.ts:482-484).
CancelHonoured == \A r \in asked : row[r] \notin {"success", "partial", "skipped"}

\* The final status of a run is written once: neither the catch-all, nor a late
\* cancel, nor a restart overwrites it.
FinalStatusKept ==
  [][\A r \in Runs : row[r] \in Terminal => row'[r] \in {row[r], "deleted"}]_runVars

\* Every workflow becomes startable again, unless such a throw wedged it.
BecomesIdle ==
  \A w \in Workflows :
    InProgress(w) ~> \/ ~InProgress(w)
                     \/ \E r \in RunsOf(w) : row[r] = "running" /\ phase[r] = "stranded"

\* A reset never deletes the rows of a run that is being executed
\* (api/server.ts:1544).
ResetSparesRuns == \A r \in Runs : Live(r) => row[r] # "deleted"
=============================================================================
