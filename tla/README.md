# LocalJobs: models, checks and proofs

LocalJobs is a job runner for one machine: a daemon starts *workflows* (DAGs of *jobs*)
on a schedule or on request, runs each job in a process of its own, records everything
in one SQLite database, meters the external services the jobs share, and serves an HTTP
API to a dashboard. The specifications in this directory are translated from the code
under `src/src`; paths below are relative to that directory, and lines are those of the
commit the specifications were written against. `PROJECT.json` maps every definition to
its lines and lists the runs, mutants, hazards, findings and theorems.

    tlasany M.tla                                   parse
    tlc -workers 2 -config MCx.cfg MCx              model-check
    tlapm x_proofs.tla                              check the proofs

## 1. Inventory

| Part | State | Operations | Talks to | Correct when |
|---|---|---|---|---|
| DAG execution (`core/dag.ts`) | `status`, `remaining`, `indegree`, `inflight` of one execution | `executeDag` with its hooks; pure: `buildDag`, `deriveGates`, `classifyGates` | called by a workflow run; calls `runOne`, `onStart`, `onSettle`, `onSkip` | order, skips, slots, completion |
| Workflow runs (`core/workflow-executor.ts`) | `startingWorkflows`, `activeWorkflowRuns`, one invocation per run | `runWorkflow` with discovery, cycles, final status, catch-all; `cancelWorkflowRun` | scheduler, API, store, DAG execution, notifier | one active run per workflow; every run ends, with the right status, once |
| Member runs (`core/executor.ts`, `runJob.ts`) | flags, timers and listeners of an attempt; the child | `runJobForWorkflow`, `runAttempts`, `executeAttempt` | run store, child process over stdout, abort signal | no overlap, justified retries, a cancel that sticks |
| Run and workflow store (`db/store/runs.ts`, `workflows.ts`) | tables `runs`, `workflow_runs`, logs, overrides | create, finish, skip, reap; progress queries | every process | rows agree with what is executed |
| Service meter (`core/services.ts`, `db/store/services.ts`) | table `service_usage`, response cache | `callService`, reservations | every job process | caps, rate and spacing |
| Work-item ledger (`db/store/workItems.ts`) | tables `work_items`, `work_item_runs` | `markWorkItem`, `isRootPending`, `selectPendingRoots`, retryable counts | jobs (write), daemon (read) | a root is selectable or done; cycling stops and does not stop early |
| Daemon (`daemon.ts`) | the process | sync, reap, start, die | launchd | recovery of what died |
| Scheduler (`core/scheduler.ts`) | one cron task per workflow | start, reload, fire | workflow runs | a fire of a busy workflow is refused |
| HTTP API (`api/server.ts`) | none | run, run-all, cancel, reset, edits, reads | all of the above | its checks hold when it acts |
| Reset and retention (`db/store/admin.ts`) | none | `resetWorkflowOutput`, deletions, pruning | store, `data/out` | touches nothing that is in use |
| Notifier (`core/notifier.ts`) | back-off deadline | `notify` with retries | ntfy | never rejects; waits out a 429 |
| Contracts (`core/types.ts`, gates in the executor) | none | checks of artifacts at DAG edges | member runs | no consumer runs on a drifted artifact |
| Plex rename (`workflows/plex-rename`, `src/scripts/plex-rename-undo.ts`) | journal files, files on the shares, its ledger rows (three snapshots, two records) | discover, plan, verify, apply, confirm, reconciliation, undo | Plex, NAS, ledger | a file is never lost, whatever dies; only what is planned is moved, once; the library converges |
| Places (`workflows/places`) | one output file per stage, ledger rows | ingest, resolve, enrich, enrich-with-llm | browser, paid services, ledger | nothing paid for twice, nothing lost between ledger and files, the backlog drains |
| Perfumes (`workflows/perfumes`) | outputs per perfume and stage, ledger rows | find-url, fetch, parse, build, repeated in cycles | browser, Claude CLI, ledger | as Places; cycles stop when nothing moves, not before |
| Workouts sync (`workflows/workouts-sync`) | the history file, ledger rows, cached pages | hevy-sync | a paid service by way of the response cache, ledger | every workout of the account is in the history once |
| Recommender (`core/recommender`, `workflows/movies`) | the branches' files, the list, the ledger of what was told | branches, merge with top-ups, digest | searches, Claude CLI, ntfy, the owner's clicks | nothing is recommended twice, nothing on the list is kept back |
| Definitions, schema, helpers, other workflows, services, dashboard | - | - | - | data, pure functions, job bodies or presentation |

### How they interact

The daemon is **one event loop**: a request handler or a continuation runs without
interruption up to its next `await`. SQLite (better-sqlite3) is synchronous, so a stretch
between two awaits is atomic with respect to the daemon. Job children are other processes:
they run between any two statements of the daemon, write the database themselves
(work items, service usage, logs) and outlive the daemon if it dies. So three kinds of
atomicity occur, and each module uses the one of its code: await to await in the daemon,
statement or transaction in the job processes, and death at any moment.

The chain of a run is: cron fire or HTTP request -> `runWorkflow` (check, claim, row) ->
discovery (limited runs) -> `executeDag` -> for each member `runOne` -> `runJobForWorkflow`
-> child -> close -> `settle` -> final status -> notification -> release of the claim.
A cancel is an `AbortController` that reaches `executeDag` (no more launches), the sleep
between cycles and every child's listener (SIGTERM, then SIGKILL).

### What is hard

* Interleavings at the awaits: a member settles while the loop awaits a skip; a cancel
  falls between a round and its race; a start falls into a reset's directory lookup.
* Store calls that throw (`SQLITE_BUSY`: children write the same file). Log lines are
  store calls too, and sit between a flag and the effect it stands for.
* Two kinds of mutual exclusion that must agree: a claim in memory and a row on disk.
* Death of the daemon: rows survive it, claims do not, children do.
* Two records of one fact: a row in the ledger and an entry in a file, a journal record and
  a file that was moved. A death or an error between the two leaves them different, and
  something else - the selector, the gate, the reconciliation - has to make sense of it.
* Decisions made by a summary of the ledger: whether a root is pending, whether a cycle was
  of use.
* Processes that check a shared quota and act on it later.
* Times with and without their fraction.

`PROJECT.json` lists them one by one at their lines under `hazards`.

## 2. Modules

| Module | Models | Proofs | Runs |
|---|---|---|---|
| `BuildDag` | `buildDag` (dag.ts:26-77) | `Executor_proofs` | `build_dag` |
| `DagSpec` | what `executeDag` promises its caller | - | as `Refines` |
| `DagExec` | `executeDag` (dag.ts:226-290) | `Executor_proofs` | `dag` |
| `WorkflowRun` | workflow runs, API starts, cancels and resets, daemon restarts | `Executor_proofs` | `workflow_run` |
| `MemberRun` | invocations of one job, attempts, children | `Members_proofs` | `member` |
| `ServiceMeter` | `callService` over `service_usage` | `Members_proofs` | `meter` |
| `WorkItems` | the statements and queries of the ledger, the progress signature | `WorkItems_proofs` | - |
| `PlacesPipeline` | the places workflow, run after run; uses `WorkItems` | `PlacesPipeline_proofs` | `places` |
| `PerfumesPipeline` | the perfumes workflow and the executor's cycles; uses `WorkItems` | `PerfumesPipeline_proofs` | `perfumes` |
| `RenameApply` | a move of plex-rename step by step: verify, apply, reconciliation and undo of one item | `RenameApply_proofs` | `rename`, `rename_lost` |
| `RenameLibrary` | plex-rename over a library and run after run: discover to confirm; uses `WorkItems` | `RenameLibrary_proofs` | `library` |
| `WorkoutsSync` | hevy-sync, its cache, ledger and file; uses `WorkItems` | `Members_proofs` | `workouts` |
| `RecsDigest` | the recommender from suggestions to the digest; uses `WorkItems` | `RecsDigest_proofs` | `recs` |

Each `MC*` module gives the constants of one of them small values for its runs. A proof module may
cover several components that belong together; where it does, the specifications have names of
their own (`BuildSpec`, `RunSpec`, `MeterSpec`, `SyncSpec` beside the `Spec` of `DagExec` and of
`MemberRun`).

### BuildDag

The function is sequential, so a step is one of its loops or one round of Kahn's algorithm.
`refs` is the input, lists as they are: a dependency listed twice is two edges, in the
indegree and among the dependents alike (`Edges` stands for both maps). `wave[n]` is the
index in `waves` of the array that holds `n`. All four `DagError`s end in "invalid" or
"cycle"; which of the first three is thrown is a matter of wording.

### DagExec and DagSpec

State: the variables of the function under their own names. `status[j] = "none"` is a key
that is absent from the map. `ready` is what is left of the snapshot of the `for` loop,
`settling` the members whose `runOne` has resolved and whose `onSettle` is awaited,
`started` a history of `onStart`, and `pc` says where the function is suspended or how it
ended.

Actions: `BeginRound` takes the snapshot; `SkipStage`/`SkipReturns` are the two halves of
`await settle(job, 'skipped')`; `Defer`, `Launch`, `StartThrows` the rest of the loop body;
`EndRound` decides between the race, the exits and another round; `RunOneSettles` and
`PromiseCompletes` are the promise of a member, enabled only where the function is suspended
or has ended; `Abort` the cancel. Hooks may throw wherever they are called. Two details a
reader may miss are modelled as they are: a promise that completes while no race is pending
is seen by nobody, even if its `onSettle` threw; and `executeDag` may resolve before the
last `onSettle` has returned.

`deps` is a variable that Init draws from `Dags`, so one run checks all shapes. `buildDag`
enters as what it guarantees, `IsDag`; that it does is theorem `AcceptedIsDag` of
`Executor_proofs`, in which names are positions in the list. Here, too, a dependency
listed twice is counted and taken off twice, so a set of dependencies says the same.

`DagSpec` has three variables and none of the bookkeeping; `Refines` maps a member without
a status to "running" or "waiting" by `inflight`, and `stopped` to "aborted or rejected".

### WorkflowRun

State: `row` (the `workflow_runs` status), `phase` (which await an invocation is at),
`cycle`, `claim` (`startingWorkflows`), `registry` (`activeWorkflowRuns`), `signalled`
(the run's abort signal), `up`; `asked` is a history of accepted cancels, and `resetting` are reset requests between
their check and their deletion.

`StartRun` is the synchronous stretch from the guard of `runWorkflow` to the first await.
`StartBroken`, `AnnounceThrows` are the two ways out of it. `Discovery*` are the outcomes of
`inputKeys`. `NextCycle`/`WakeUp` are the repetition, `Finalise` the tally and the final
write, `NotifyReturns` the return through both `finally` blocks. `BodyThrows`,
`RecoveryThrows` and `FinishThrows` are the three ways the catch-all can be entered.
`FaultPoints` names where a store call may throw; points are kept apart because each has
another effect. A run whose row was deleted by a reset throws at its next log line (foreign
key), which is why `Throws` also looks at the row.

What `executeDag` returned enters `FinalStatus` only as which of "success" and "other"
occur, and whether items advanced.

### MemberRun

The invocations of **one** job, each on behalf of another workflow run, and the `runs` rows
and children of their attempts. From a child's `close` to the spawn of the next attempt
nothing is awaited, so `CloseRetries` is one action. `Verdict` is the precedence of the close
handler; `reported`, `timedOut`, `cancelled` are set in any order before. A child is alive
independently of the daemon; `Crash` loses invocations, not children, and `Restart` reaps
rows, not children.

`Reset` is `resetWorkflowOutput` of a workflow that shares the job, or of this one when it
started during the request's await: all rows of the job go, also that of an attempt under
way, and `erased` remembers of whom. From then on `finishRun` updates nothing, the line
logged for a retry breaks its foreign key (`RetryThrows`), and so does the one logged before
a kill, in a timer or a listener where nobody catches it: the daemon exits and leaves the
child alive (`LogKill`, `Dies`).

### ServiceMeter

`usage` is the table; a caller passes `CheckMonth`, `CheckDay` and `Reserve`, each one
statement or one IMMEDIATE transaction. `mode` says which limit the definition has.
`Stored` is what `datetime('now')` does to a time, in the row only. A polling wait is
`Reserve` being disabled; `GiveUp` is the deadline of the wait. `Kill` ends the process at
any point. Cached answers do not reach the meter and are left out.

### WorkItems

A ledger is a value, `job -> key -> row`; a row has the status, the attempts and the root of
an item (the input it descends from), and `NoRow` stands for one that does not exist. There is
no state machine here: each operator is one statement or one query, and the two pipelines make
a variable of the ledger and steps of the operators. `isRootPending` has the four cases of the
code in two disjuncts; `selectPendingRoots` is the first n pending candidates in the order
the workflow lists them.

### PlacesPipeline

State: the `ledger`, the output `file` of each stage, and the run: its `roots` (what the
limit selected), the member under way, its `attempt`, and in the stage's process `todo`,
`item`, `prior` (the attempts it read before the call) and `mem`, its copy of its own file.

An item is a CID up to resolve and a place_id from enrich on (`Key`, `FileKey`); two saved
places may resolve to the same place_id. Actions: `StartRun` selects, `RunIngest` rewrites the
entry rows of the selected roots, `Gate` is the contract check before a member, `Load` reads
the file of the stage before and the ledger, `Take` reads the attempts, `Succeeds`, `Fails` and
`Refused` (a quota or a 429) are what comes of the call with the mark and the save that every
tenth item may bring, `Finish` the last save. `CapReached`, `Throws`, `Killed`, `IngestRefuses`
and the dashboard's `Operator` are the disturbances. A mark and the save after it
are one step, because no await lies between them and a kill in between is one after a step
without a save; `Throws` and `Killed` then leave the ledger ahead of the file.

### PerfumesPipeline

The same, with three differences of the code: an item has one key in all stages; the output is
written per item before its row, so a kill can come between (`Wrote`, then `Succeeds`) or, since
a write truncates the file first, within (`KilledInWrite`); and the
executor repeats the members (`CycleEnds`) by `Stable`, which is `workflowProgressSignature`
and `noForwardProgress` as they are. A failed member does not end the run here, it ends the
cycle. `moved` is a history: some row was marked in this cycle.

The other stages write a file for each perfume, find-url one file with the URLs of all
(`Torn`), and every stage but parse reads that one: while it is torn they throw (`Load`), and
nothing mends it. Left out: a write that throws because the disk is full.

### RenameApply

One item: a media file and its sidecars. `disk` has the content of eight entries of each move:
source, target, partial, and the partial of an undo, and the same four below a mount point
whose share is away, where an empty directory may be left to write to (`Below`, `Place`). A `case` move changes only the case of a
name; on the case-insensitive shares this is used on its source and target are one entry,
which `Entry` says for every lookup. `journals` is the item as each journal file has it; one
file is opened per run that changes something, and only the latest is ever read, so an
item that is unresolved in an earlier one is forgotten.

Every durable write that something reads later is a step, and `Crash` may come between any
two: `Attempt` (op-attempt, flushed before the effect), `CopyBegins`/`CopyEnds`, `VerifyCopy`,
`Finalize`, `Delete`, or `Rename`, then `ItemDone` (item-done) and `MarkSuccess`, or
`ItemAborted` and `MarkFailed`. (The lines op-done, op-failed and run-start are read by nobody.)
`Start` is `runApply` up to the reconciliation; `Abandon`,
`Duplicate`/`AttemptUnlink`/`DeleteSource`, `AlreadyMoved` and `Ambiguous` are
the four cases of `reconcileItem`, `Sweep`, `Tidy` and `RollForward` are `finishRemaining`, whose
call of `executeOps` goes through the forward actions with `rolling` set. The undo goes through them
with `back` set and its directions reversed; it looks at its roots only whether they are
directories, so it runs with a share away as well. A file of another program may arrive under
a target at any time, also between the gate of a move and its rename, which replaces it. What else may happen is drawn at the start
(`faults`): operations that throw before or after their effect, corrupted copies, files of
other programs, shares that go away, limits that refuse the item.

Left out: `.plexmatch` files, directories and artwork, which are redone or left behind without
harm to the files.

### RenameLibrary

State: `disk` (where each file is) and `plex` (what Plex has under each live key: the file, the
path it believes in, the match); the rows of the three snapshot stages, `discover`, `plan` and
`verify`, as functions whose domain is the keys that have a row; the `ledger` of apply and
confirm, which is never pruned; of the journal and the process, the item that is `open` in the
latest file and the media file that is `moving`, moved but without its mark; and the run with its selected `roots`, whether it is `limited`, its
`phase` and what is left `todo`. A path is a root and a name; a release name is of one file and a
canonical name of one title. A root stands on a share of its own.

`Discover` and `Plan` are one step each: they read once and then only mark. `Recorded` is how a
stage leaves its rows: over the old ones, pruned (`pruneSnapshotRows`) in a run without a
limit only. `decideRename`, `Target`, `chooseShowHomeRoots` and `finalizePlan` (`Collides`) are the
decisions of `naming.ts` without the spelling of names. `Gate` is the contract of the plan.
`VerifyItem`, `SoftSkip` and `ConfirmItem` are one iteration of their loops, in the
order of the keys, because disk and Plex may change between two; `ApplySelects` takes the batch and
is also where the probe of Plex's health can stop it. `Reconcile` follows the selection, and marks
an item that a dead run left open after the disk. A move is four steps: the line of
the journal (`Intend`), the media (`Move`), the line that the item is done (`Complete`) and the mark
(`MarkApplied`), with a `Kill` between any two; `MoveFails` ends it before the media moved, or
after that, at a subtitle, and the row then says failed of a file that moved. `Reassociated` confirms a move through
another item at the path that has the id in the name.

Around it: Plex rescans (`Rescan`), or builds a new entry under a new key (`Rekey`), which the code
calls routine; the owner corrects a match (`Rematch`) or moves a file (`Edit`); a walk that leaves out
a show, a failing move, a saturated Plex, a fetch without an answer, a rescan that
exceeds its grace, and a kill. How often each may happen is drawn at the start.

Left out: shares that are away, `.plexmatch` and the still-downloading window (more
reasons for the skips that are there), where the sidecars are, a discover or plan that is killed
halfway through its marks, files that are added. `RenameApply` has the file operations of a move.

### WorkoutsSync

State: the `account` newest first, the `cache` of its pages, the `ledger`, the history `file` as a count
of copies of each workout, and up to two processes. `LookUp` and the call behind it are one
page; `Todo` the ledger's answer for what was found; the marks and the append follow one by one;
the file is rewritten by a truncating write, so that a kill can tear it. Two processes exist only
when one is the orphan of a daemon that died (`OneProcess` of `MemberRun` is why; the other way it
names, a reset during the run, is left out here: it deletes the ledger and the history as well). Pages shift when
the account is edited between two calls or under the cache.

### RecsDigest

The phases of a run in order: branches, merge (verify by search, top up, write the list), digest
(compose, push, mark one by one). What a process knows is `merge` or `newRecs`; what survives it is
`store`. A kill, a failing push, a push whose answer is lost and a click of the owner can come at
any step; both stages are retried. Titles are what is suggested, ids what a search
finds: two titles may be one film, or none.

## 3. What the runs check

Every property has a mutant: a plausible bug in a mapped definition, defined next to it,
under which TLC finds the property violated.

| Run | Bounds | States | Shows |
|---|---|---|---|
| `build_dag` | all 4096 graphs of 4 members; all lists of 3 members with up to 2 dependencies, duplicates, outsiders and self edges included | 53,005 | accepts DAGs and nothing else, calls cyclic only what is, one wave past the latest dependency |
| `dag` | 4 members, 6 shapes, 2 slots; all outcomes, cancel, throwing hooks | 40,917 | completeness, termination, refinement of `DagSpec` (which has the order, the skips, the slots and the abort) |
| `workflow_run` | 2 runs of a repeating, limitable workflow and one of an invalid one, 2 cycles; faults at every point | 68,561 | one active run, claim exact, an accepted cancel never turned into a success, only a throwing store wedges a row, every workflow becomes idle again |
| `member` | 2 invocations, 1 retry, all faults, crashes and resets | 247,953 | one invocation and one process at a time, but for orphans and for what a reset uncovers; exact rows; a cancel sticks; every attempt ends |
| `meter` | 3 processes x 2 calls, 3 seconds of 2 ticks, day = 1 s, month = 2 s, all modes | 618,461 | bounded overshoot, rate, spacing up to a second |
| `rename` | 1 media file and 1 sidecar; both copied, both renamed, both case-only, or case-only with a renamed sidecar; 7 sets of faults, foreign files at any time, an undo with a share away; 2 deaths; 3 journals | 490,398 | original bytes kept, effects announced, no corruption in a case-only rename, a mark of success means moved, the undo restores, a move arrives despite crashes |
| `places` | 2 places with own or common place_ids, limits none and 1, 2 attempts, 1 retry, 2 disturbances, 2 sets of faults | 410,135 | done has its payload, selector and stages agree, nothing redone, the backlog drains |
| `perfumes` | 2 perfumes, the second with or without a URL, limits none and 1, 3 attempts, 1 retry, 4 cycles, 2 disturbances, 6 sets of faults, kills within writes | 421,460 | done has its output, whole, cycles go on while something moves and no longer, the backlog drains |
| `workouts` | 3 workouts on pages of one, a child and an orphan, 2 disturbances, 5 sets of faults | 77,279 | what can lose a workout or repeat one, every workout is synced in the end |
| `recs` | 3 films in 2 genres, 3 titles, target 2, 1 per genre, 1 round of top-ups, 1 retry of each stage, 5 sets of faults | 170,443 | the list is novel, within its target and balanced; what can be recommended twice; what is listed is told |
| `library` | 2 files, 3 keys, 2 roots, 3 titles in 3 libraries (a split show, a film twice, an unmatched file), batches of 1, 2 a day, 1 retry, limits none and 1, 8 sets of faults, no full volume (see `MCRenameLibraryFull.cfg`) | 415,182 | a run moves only what its own plan says, again only after a new key or a move without its mark, and the library converges |
| `rename_lost` | as `rename`, one death and no other fault | - | the finding of section 4 |

**Why the bounds are enough.** Four members are the least with a diamond, a join of three and two
slots that are both contended and refilled. Two runs of a workflow are what mutual exclusion needs,
and a third of another workflow shows that nothing leaks across; the second cycle is the first
repetition and the last. Two invocations and one retry give every pair of attempts: before, between
and after. Three processes make the overshoot bound (processes - 1 = 2) differ from "one too many";
two calls each reach the cap in one day and the month in two; a clock of five ticks spans a second
boundary, a day boundary inside a month and a month boundary. A media file and one sidecar are all
that the order of moves and the two loops of the reconciliation tell apart; three journals are a
run, a run that reconciles, and one that meets what an interrupted reconciliation left, which is
what two deaths need. Two items are the least for which one can hold up, replace or starve the
other; a limit of one makes every selection a choice between them. Two attempts and one retry reach
the end of a budget within a run and across two; three attempts are needed where a cycle has two,
for a second cycle with something left. Two disturbances are a fault and another one in what repairs
it. In `library`, two files are what a collision, a split show and a full batch need; the third key
is the one Plex gives out anew; a batch of one makes an item that cannot be moved compete with one
that can; a correction together with a limited run, or with a new key, are the pairs that leave
stale rows; a kill or a failed move together with a correction or a file put back by hand are
those that leave a moved file without a success. The code retries apply once and confirm three times; the model retries both once, which
is a first and a last attempt. In `workouts`, pages of one workout put every boundary between two
calls. In `recs` two films of one genre under a cap of one make the balance drop something and ask
for a top-up.

All of these are bounds of the instances; the theorems below hold without them. `MaxTime`,
`MaxCalls`, `MaxCrashes`, `MaxJournals`, `MaxDisturbances` and the limits of the code
(`MaxRetries`, `MaxCycles`, `MaxAttempts`) are the only caps in guards. `MaxDisturbances` is also
what makes the liveness of the pipelines meaningful: it says that refusals, throws, kills and
clicks come to an end, not that failures of items do - those are bounded by the code's own
budget.

**Deadlock** is checked in every run but `meter`, whose bounded clock and calls come to a stop,
and the runs of `RenameApply`, where an item is done or the journals are used up. **Symmetry** is
used in `meter` only, over the processes, with no liveness.

**Fairness.** `DagExec`: the event loop runs a continuation it has queued (weak fairness of
the loop), and each member's promise completes - its child exits by itself, at its timeout,
or when it is killed. `WorkflowRun`: each await of a run comes to an end and launchd restarts
the daemon (`KeepAlive`); nothing is assumed about requests. `MemberRun`: the timer of a job
with a timeout fires, a killed child dies (SIGKILL follows SIGTERM), `close` is delivered, and
the retry of an attempt without a row throws (its foreign key);
nothing is assumed about a child that reports or exits by itself. `Settles` does not hold
for a job defined without a timeout, whose child may hang until it is cancelled.
`PlacesPipeline`, `PerfumesPipeline`: weak fairness of `Work` as a whole. Runs are started again
and again by cron, and every await of a stage has a timeout or ends in an error; which item is
taken, whether a call fails and what disturbs the run is left open. `RenameApply`: a process
that runs takes its next step until it ends or dies, and the workflow is scheduled daily
(weak fairness of `Start`); verification, undo and faults are left open. `RenameLibrary`: the
schedule starts a run every day, a run takes its steps, and Plex rescans a moved file (its
own scheduled scan does, whatever became of the refresh that apply asks for); moves that fail,
limited runs, corrections and kills are left open. `WorkoutsSync`: the monthly schedule, the steps of
each process, and the time to live of a cached page. `RecsDigest`: a run that was started takes its
steps; that one is started is not assumed.

## 4. Findings

A finding is a disagreement between the code and what a comment says of it, with a run that shows it.

* `rename_lost`: after a death in a case-only rename the reconciliation finds the source under
  both names, equal to itself, and deletes it as a duplicate: the only copy. The loop over the
  sidecars and the undo decide in the same way.

### Configurations that end in a counterexample

Each of these is a further claim of a comment that the code does not keep, or a promise the
code might be expected to make; the property is stated in the module, and the configuration
reproduces the counterexample (`tlc -config <cfg> <module>`). They are no runs of
`PROJECT.json`; the properties its passing runs check say what does hold instead.

| Configuration | Property | What happens |
|---|---|---|
| `MCWorkflowRunWedge.cfg` | `NoWedgedRow` | `finished` is set before the final UPDATE (`core/workflow-executor.ts:502`): if that throws, the catch-all believes the run finished, and the row stays `running` until a restart |
| `MCWorkflowRunReset.cfg` | `ResetSparesRuns` | `reset-output` checks that the workflow is idle (`api/server.ts:1552`), awaits a directory lookup, and deletes without looking again: the rows and the output of a run that started meanwhile; the comment at 1544 says it avoids racing the executor |
| `MCMemberRunReset.cfg` | `NeverTwice` | a reset deletes all rows of the jobs of a workflow (`db/store/admin.ts:185`), also of one that is running for another workflow, or for this one since the await; the overlap guard finds nothing and the job starts a second time beside itself (`core/executor.ts:62-69`) |
| `MCPlacesPipelineLivelock.cfg` | `SelectorAdvances` | a stage that dies between the row of an item and its file (`places/stages/resolve.ts:181`) leaves a root that is neither done nor stuck and that no stage works on; every limited run selects it again |
| `MCPerfumesPipelineTorn.cfg` | `UrlsKept` | a kill while find-url rewrites the file of all URLs (`find-url.ts:50`, `core/fsjson.ts:8-10`): those of perfumes already marked are gone, and what is torn makes every later run throw (`fsjson.ts:4-6`); `perfumes.workflow.ts:17` says a stage that succeeded is never redone |
| `MCWorkoutsSyncLost.cfg` | `SyncedIsRecorded` | a kill between the marks and the write (`hevy-sync.ts:162`, `184`): the ledger says synced, the history never gets the workout |
| `MCWorkoutsSyncTwice.cfg` | `RecordedOnce` | pages that shift between two calls (`hevy-sync.ts:128`) show a workout twice, and it is appended twice |
| `MCWorkoutsSyncShrinks.cfg` | `OnlyGrows` | the history is truncated before it is written (`hevy-sync.ts:93`); an empty file counts as an empty history, and the next run overwrites years |
| `MCRecsDigestDismissed.cfg` | `DismissalSticks` | what is dismissed during the push is marked as told over the dismissal (`notify.ts:102`) |
| `MCRecsDigestOwed.cfg` | `OwedIsListed` | a digest that failed is to be retried by the next run (`notify.ts:96-97`), whose merge writes a new list (`merge.ts:353`) that need not have its films |
| `MCRenameLibraryLimited.cfg` | `LimitedMovesArePlanned` | a limited run plans an item anew as `skip`, but verify neither rewrites nor prunes its old eligible row, and apply moves the file by it; `plex-rename.workflow.ts:28-29` says a decision always reflects the current state |
| `MCRenameApplyAway.cfg` | `UndoKeepsBytes` | the undo looks at its roots only whether they are directories (`src/scripts/plex-rename-undo.ts:70-77`); with the source share away it copies the file below the mount point and deletes the target; lines 4-5 say it can never lose bytes, 71-73 that a share that is not mounted must not look like a missing file |
| `MCRenameLibraryTwice.cfg` | `MovedOnce` | a kill between the end of an item in the journal and its mark (`stages/apply.ts:453`, `465`): the file has moved, nothing says so, and when the owner puts it back it is moved again under the same key; so is one that Plex has given a new key and whose match is corrected; `plex-rename.workflow.ts:30-31` says once, ever |
| `MCRenameLibraryFull.cfg` | `Converges` | an item whose target volume is full passes verify, takes a place in the batch (`stages/apply.ts:179`) and is skipped at the move (354), every run: with a batch it fills, the items after it wait for ever |

### What else the models bring out

These have no run of their own, because nothing in the repository denies them outright, or
because a checked property states what does hold.

* After a throwing `finishRun` the row of a run that is over makes later runs of the job skip it
  until a restart (`core/executor.ts:50`), although no other run covers the work
  (`RowsExact` has this as its only exception).
* Processes that read a quota before either recorded its call pass the cap together
  (`core/services.ts:151`): `OvershootBounded` is what holds of the cap the README of the repository
  describes.
* The spacing between calls is measured from a time stored without its fraction and can be
  short by less than a second (`db/store/services.ts:151`): `SpacingAlmostHeld`.
* `isWorkflowStarting` (`core/workflow-executor.ts:190`) is documented as the window before the row
  exists. The claim and the row are made in one synchronous stretch, so it is true only after the
  final write, while the notification is awaited. Only the dashboard reads it.
* `finishRemaining` says that a sidecar already at its target is skipped
  (`stages/apply.ts:690-692`); it skips it in its own loop and then calls `executeOps` for all of
  them, whose gate refuses a missing source, so that a roll-forward with a finished
  sidecar is recorded as failed. No file is harmed.
* Plex rename: the selection of the batch is older than the reconciliation, so an item that was
  just rolled forward and marked `success` is re-checked, refused and marked `skipped`.
  Marks of this stage pass no attempts, so a failing item never reaches its budget. With a share
  away, a reconciliation may find neither name and mark the item failed, or find only a foreign
  target and take the move for finished. A partial whose deletion throws stops every later
  attempt at the gate.
* Plex rename, limited runs: an item that is canonical already, or that the plan or verify refuses,
  never gets a row at confirm nor a blocker, so `isRootPending` keeps it selected; a limit
  smaller than the number of such items runs the same ones again and again. And the collisions of
  a limited plan are those among its own items and with files that exist, so of two films with one
  target the first one that is selected gets it (`naming.ts:782-784` says never "first wins").
* Places: when two CIDs resolve to one place_id they share rows from enrich on, so attempts
  can exceed the budget, a row that says success can become failed in the run that took both,
  and the second root never gets rows of its own (`Distinct` guards the properties). A row that
  is ignored from the dashboard during the call of its item is overwritten by the mark. Roots
  put off by a quota (`skipped`) count as blocked for limited runs until an unlimited run takes
  them.
* Perfumes: when a kill falls between an output and its row in a limited run and the redone
  item then uses up its attempts, the selector gives the perfume up though the next stage has
  its input. Parsed data without the expected fields holds up the gate of build for as long as it
  is the only data. Items outside a limited run's roots count as retryable, so such a run
  cycles once more than it needs, until `noForwardProgress`.

## 5. What is proved

For every value of the constants that satisfies the named assumptions, TLAPS checks:

* `Executor_proofs`, buildDag (`InputsAssumption`): type correctness and all properties of the
  `build_dag` run: `Exact` puts `Sound` (what is accepted is a DAG) and `Complete` (what is refused as
  cyclic has a cycle) together. The invariant says that indegrees count the edges from nodes in no
  wave, that `ready` is exactly the nodes without such an edge, and that no set of nodes in waves waits
  for itself, which a round keeps because all dependencies of the new wave are in earlier ones.
  `AcceptedIsDag` states what is accepted in the terms of the next item's assumption.
* `Executor_proofs`, executeDag (`SizeAssumption`, `DagsAssumption`): type correctness, all safety
  properties of the `dag` run, the launch order, the slots, and the refinement. The inductive
  invariant is the bookkeeping: `remaining` is the
  members without a status, `indegree[j]` the number of dependencies without one, a member
  in flight has a status exactly while it is settling, and the snapshot holds only members
  that are ready, unsettled and not in flight. Without the second, "indegree 0" would say
  nothing about dependencies; without the last, a member that settles during a skip's await
  could be launched twice. That the safety break never fires uses that every non-empty set of
  members has one with no dependency inside (`IsDag`).
* `Executor_proofs`, runs (`WorkflowRunAssumption`): type correctness, `OneActiveRun`, `ClaimExact`,
  `WedgedOnlyByThrow`, `CancelHonoured`, `FinalStatusKept`, and that a run executed here is in the
  registry, under all faults and for empty, invalid and any other workflows. The invariant splits
  mutual exclusion into its two halves (one running
  row, one live invocation), says the claim is exactly the live workflows, and ties each
  phase to the rows it can have: the halves are not inductive alone, because the row
  stops saying `running` before the claim goes, and a leaked row outlives the claim.
* `Members_proofs`, member runs (`MemberAssumption`): type correctness, `OneInvocation`, `OneProcess`,
  `RetriesJustified`, `AbortSticks`, `NoSpawnAfterAbort`, `RowsExact`, whatever is reset meanwhile:
  the first three excuse the invocations whose rows a reset deleted. The guard reads
  rows, so the invariant needs that an attempt under way has one that says running, or was erased and
  never has a row again; that an abort of a running
  attempt is in its flag gives the last three. `OneProcess` needs that a child of a live invocation
  belongs to its current attempt: every other live child has lost its daemon.
* `Members_proofs`, meter (`MeterAssumption`): type correctness, `OvershootBounded`, `RateHeld`,
  `SpacingAlmostHeld`. A process past a quota check is counted as a call already
  (`QuotaAccounted`), which also carries the bound over midnight; the other two follow from
  the transactions' own guards and arithmetic of seconds and windows.
* `Members_proofs`, sync (`WorkoutsAssumption`): type correctness, `LossHasACause`, `RepetitionHasACause`.
  `LossInv` says that a process that is alone has read what the file has, and that a synced workout is in
  the file or in what a process is about to write (`Kept`): without `HasRead` a rewrite could
  drop what is there. `OnceInv` says that, while no page shifts, a process finds a workout once, on a page it
  has read, and what is in the file or about to be written is synced. The proof showed that
  two processes at once do not repeat a workout, so the property makes no exception of them.
* `RenameApply_proofs` (`RenameAssumption`): type correctness, `OriginalKept`, `ForeignKept`,
  `WriteAhead`, `SuccessMeansMoved`, `CaseKept`, `UndoRestores`, for any number of sidecars, deaths and
  journals. `OriginalKept` excuses one thing, an undo while the source share is away, which
  leaves the bytes below the mount point (`Bare` says that nothing else writes there). It is not
  inductive: it needs what each phase knows of the move under way (`InFlight`: before the finalizing
  rename the source is there and the bytes are not at the target, before the deletion they are at
  both), that a source is never a torn copy nor a foreign file, and a target never a torn one
  (`CleanFiles`), that the
  reconciliation's deletion found the same bytes at the target (`UnlinkSafe`), and that the shares a
  run works on are mounted (`Reachable`) - a file that is merely out of reach must not
  look missing. `ForeignKept` says which step may replace a file of another program, the rename
  that ends a move whose gate found the target free, and that no move begins over one. `WriteAhead` needs that attempts already recorded are not forgotten when an item
  is planned anew (`Announced`). `SuccessMeansMoved` follows the mark back to its cause: a success is
  the last thing its journal says and nothing but an undo reopens it (`Marked`), a foreign file or an
  absent share is one of the faults of the instance (`Caused`), and once the media move is
  behind, the bytes are at the target (`Arrived`) - unless a share that went away and a foreign file
  come together, which is why the property excepts that pair. `CaseKept` says phase by phase under
  which of the three names the bytes are (`CaseFlight`). `UndoRestores` is about executions with no
  fault but the undo: a pass over the moves of the item, forward or back, leaves what is
  left at one end and what was done at the other (`CalmInv`).
* `PlacesPipeline_proofs` (`PlacesAssumption`): type correctness, `AttemptsBounded`,
  `DoneHasPayload`, `NeverRedone`, `SelectorAgrees`, and that an item reaches a stage by way of the one before
  (`Provenance`). The invariant is typing, and when place_ids are distinct `Budget` (a row that is not
  settled has an attempt left), `Ready` (so has everything the stage still works on, and its
  input is there) and `Sourced` (a success in a file is a success in the ledger), and when no
  stage is cut off `Saved` (the converse, by way of the stage's memory). `NeverRedone` is `Ready`
  read at a mark: what is worked on was not done when it was taken, and nothing else marks it
  in between. `SelectorAgrees` adds `Rooted`: a row belongs to the place it is about, and ingest has no row
  that failed, so what the selector finds by the roots of rows is what the stages find by key.
* `PerfumesPipeline_proofs` (`PerfumesAssumption`): type correctness, `DoneHasOutput` (but for the URLs
  once a kill has torn their file: what else a kill tears is never the output of a row that says
  success), `AttemptsBounded`, and `CyclingTracksProgress` whole: no further cycle after one that marked nothing, and
  no end of the run, while something can be retried, after one that marked something. The second
  needs that every mark moves the signature: without the operator the attempts before a call are
  still those of the row, so that the mark raises them (`Untried`), and the sum of all attempts is then
  greater than the one the last cycle was compared by, and stays so (`Signed`).
* `RecsDigest_proofs` (`RecsAssumption`): type correctness, `TwiceHasACause`, `ListIsNovel`. `Told` follows a
  film from the push to its mark: what was in a digest is done or about to be marked, so no
  later digest holds it. `Novel` carries what the merge has found through the awaits of its searches up to
  the list; that the list keeps to the target and to the share of each genre is `Balanced`, a
  lemma about `balanceByGenre` for every input, by way of ranks within a genre.
* `RenameLibrary_proofs` (`LibraryAssumption`): type correctness, `MovedAgainHasACause`,
  `MovesArePlanned`. The type invariant needs that what verify and apply still have to do is
  planned and eligible and that a batch fits into what is left of the day, but for one that the
  reconciliation completes (`Queued`). A second move is
  excluded by four steps: a snapshot has a file under the key Plex has it under (`Kept`), what is eligible
  was checked for the file of its key (`Vouched`), what is about to lose its success was not moved
  (`Replaceable`: the batch is older than the reconciliation, and a mark replaces the one before), and
  so a file that was moved has a key that was applied (`OneMove`), unless a kill or a failing subtitle
  came between the move and its mark, which is the second exception of the property. `AsPlanned` is what a run
  without a limit keeps from stage to stage: the plan is that of its snapshot, and what was
  verified is as planned; it fails in a limited run, whose snapshots are not pruned (section 4).
* `WorkItems_proofs`: lemmas about the ledger's queries that the last proofs share. `SumTakes` and
  `SumGrows` are the laws of the sums in the progress signature, a recursive function over a finite set:
  the prover cannot instantiate an induction theorem, so they are proved by the least counterexample, from
  well-foundedness. `MarkAdvances` is what the cycles need of a mark; `FirstOnesBounded` bounds a
  batch.

Two of these proofs corrected a property. `MovedAgainHasACause` was first stated for all files; the step
of `Vouched` would not go through, because apply knows a file again by its size only, and TLC
confirmed that with two files of one size, each put where the other was, a file is moved twice under
one key. It is now stated for libraries in which sizes tell files apart (`SizesTell`, as in the run).
`RepetitionHasACause` lost an exception that it did not need.

Some results are proved and not run: type correctness of all modules; the launch order, the skips,
the slots and the abort of `DagExec` (the run has them through `Refines`); `Cancellable`,
`FinalStatusKept`, `RetriesJustified`, `NoSpawnAfterAbort`, `ForeignKept`, `AttemptsBounded`, `Provenance`.

**Model-checked only.** The liveness properties: `Terminates`, `BecomesIdle`, `Settles`,
`MediaArrives`, the `Drains` of three modules, `Delivered`, `Converges`. They need fairness, which is out of
the prover's reach. Every safety invariant and every action property that a passing run checks is
proved for all values of the constants. What a violation run or a configuration of section 4 shows is
TLC's counterexample and nothing more.

## 6. What is not modelled

* Contents: log lines, progress lines, wording, JSON, file formats; the SQL of reads that no
  decision depends on; migrations.
* `deriveGates`, `classifyGates`, `shapesIdentical`: pure functions the API shows. The enforcement
  of gates inside `runOne` is `Gate` in the pipelines, and in `DagExec` one way for a member to fail.
* The composition of `WorkflowRun` and `MemberRun` with the pipelines: in `WorkflowRun` a cycle
  goes on or stops freely and a limited run selects freely, so it has every behaviour the
  pipelines' decisions allow; the pipelines have one run at a time, which is `OneActiveRun`.
* In `MemberRun`: other jobs, whose rows the guard does not look at; which workflow is reset.
* In `ServiceMeter`: the response cache (`WorkoutsSync` has it where a decision depends on it),
  edits of the limits during a wait, retries inside the wrapped function; jitter only delays a poll.
* In the ledger: the history in `work_item_runs`, the detail payloads and the listings.
* A second daemon on the same database, which would reap the first one's rows before it fails to
  bind its port.
* The notifier: one back-off deadline that every answer overwrites, and three tries. A lost
  notification changes no state.
* The scheduler, overrides and definitions: single synchronous stretches and single statements.
* Plex rename: the spelling of names, directories, `.plexmatch` files and artwork; what section 2 lists
  under `RenameLibrary`; the composition of both modules, of which `RenameApply` has the file operations
  of one item and the other the journal line, the move and the mark of many.
* Workouts sync: the monthly progress report. Recommender: the prompts, the parsing of answers, the
  report file, rows that are only shown. The tv workflow is another instance of the same code.
* Places and perfumes: the geographic match, the prompts, the parsing of pages.
* The other workflows: over twenty, with stages of the same kind (ledger, file, gate) or without
  state between runs. The dashboard and the external services.

## 7. Plan

Order of work, the most important behaviour first. Parts 1 to 12 are done.

1. `DagSpec`, `DagExec`, refinement and proofs.
2. `WorkflowRun` and proofs.
3. `MemberRun` and proofs.
4. `ServiceMeter` and proofs.
5. `BuildDag` and proofs.
6. `WorkItems` with `PlacesPipeline`: ledger against files, limited runs; proofs.
7. `PerfumesPipeline`: outputs before rows, cycles; proofs.
8. `RenameApply`: the journalled moves, their reconciliation and their undo; proofs.
9. `WorkoutsSync`: pages, cache, marks and file under orphans.
10. `RecsDigest`: marks after a push, the list, the owner.
11. `RenameLibrary`: snapshots against Plex and disk, run after run.
12. Proofs of the remaining safety properties: `SuccessMeansMoved`, `CaseKept`, `UndoRestores`,
    `SelectorAgrees`, `CyclingTracksProgress`, and those of parts 9 to 11.
13. `LibraryGuard` (plex-library-guard: snapshots of what was there, alarms for what vanished) and
    `VaultExport` (files written from the ledger), the other workflows with state between runs.
14. `Notifier` under several runs; scheduler reloads and overrides; edits of the limits while a
    call waits.
15. `Orchestrator`: `WorkflowRun` composed with `MemberRun`, several jobs shared by workflows,
    orphaned children, and a second daemon that reaps. Abstract specification: a job table with
    at most one holder per job and one run per workflow; refinement by both.
16. An abstract pipeline (an item goes through its stages once, or is given up) that
    `PlacesPipeline` and `PerfumesPipeline` refine as long as no stage is cut off.
