------------------------------ MODULE MemberRun ------------------------------
(***************************************************************************)
(* One job as a member of workflow runs: runJobForWorkflow, its attempts   *)
(* and the child process of each (core/executor.ts), over the runs table   *)
(* (db/store/runs.ts).  The invocations come from different workflow runs, *)
(* or from a run whose daemon died and a later one.                        *)
(*                                                                         *)
(* A reset of the output of a workflow that the job is a member of         *)
(* (db/store/admin.ts) deletes all the job's rows, also the row of an      *)
(* attempt under way: the request looks for an active run of that workflow *)
(* only, and it looks before an await.                                     *)
(*                                                                         *)
(* The daemon is one thread, so from the 'close' event of a child to the   *)
(* spawn of the next attempt nothing else happens.  A child is a process   *)
(* of its own: it outlives a crash of the daemon.                          *)
(***************************************************************************)
EXTENDS Integers, FiniteSets

CONSTANTS
  Runs,         \* invocations of the job, each by a workflow run of its own
  MaxRetries,
  FaultPoints   \* where a write to the database may throw: "begin", "finish", "retry"

ASSUME MemberAssumption ==
  /\ MaxRetries \in Nat
  /\ FaultPoints \subseteq {"begin", "finish", "retry"}

VARIABLES
  up,        \* the daemon runs
  phase,     \* of an invocation: "waiting", "running" (an attempt is under way),
             \* "settled", "lost" (the daemon died under it)
  outcome,   \* what it settled with; "threw" is settled as failed by executeDag
  attempt,   \* the attempt it is at, 0 before the first
  row,       \* status of the runs row of each attempt, "none" when there is no row
  child,     \* the process of each attempt: "none", "alive", "dead"
  reported,  \* the result event of the current attempt
  timedOut, cancelled,  \* the flags of the current attempt
  aborted,   \* the abort signal of the workflow run
  erased     \* history: the invocations whose rows a reset has deleted

vars == <<up, phase, outcome, attempt, row, child, reported, timedOut, cancelled, aborted, erased>>

Attempts == 1 .. MaxRetries + 1

Verdicts == {"success", "failed", "timeout", "cancelled"}

\* What a row of the runs table says; "none" when there is no row.
Statuses == Verdicts \cup {"none", "running", "skipped"}

Init ==
  /\ up = TRUE
  /\ phase = [r \in Runs |-> "waiting"]
  /\ outcome = [r \in Runs |-> "none"]
  /\ attempt = [r \in Runs |-> 0]
  /\ row = [r \in Runs |-> [a \in Attempts |-> "none"]]
  /\ child = [r \in Runs |-> [a \in Attempts |-> "none"]]
  /\ reported = [r \in Runs |-> "none"]
  /\ timedOut = [r \in Runs |-> FALSE]
  /\ cancelled = [r \in Runs |-> FALSE]
  /\ aborted = [r \in Runs |-> FALSE]
  /\ erased = {}

\* Mutant of HasActiveRun: the overlap guard is missing.
NeverActive == FALSE
\* Some row of the job says running.
HasActiveRun == \E r \in Runs, a \in Attempts : row[r][a] = "running"

\* The current attempt still has its row.
HasRow(r) == row[r][attempt[r]] # "none"

Settle(r, status) ==
  /\ phase' = [phase EXCEPT ![r] = "settled"]
  /\ outcome' = [outcome EXCEPT ![r] = status]

\* A fresh attempt: its row and its child, with the flags of executeAttempt.
Spawn(r, a) ==
  /\ attempt' = [attempt EXCEPT ![r] = a]
  /\ child' = [child EXCEPT ![r][a] = "alive"]
  /\ reported' = [reported EXCEPT ![r] = "none"]
  /\ timedOut' = [timedOut EXCEPT ![r] = FALSE]
  /\ cancelled' = [cancelled EXCEPT ![r] = FALSE]

NoSpawn == UNCHANGED <<attempt, child, reported, timedOut, cancelled>>

\* The daemon dies.  An invocation that was cancelled before its turn never gets one.
Dies ==
  /\ up' = FALSE
  /\ phase' = [r \in Runs |-> IF phase[r] = "running" \/ (phase[r] = "waiting" /\ aborted[r])
                              THEN "lost" ELSE phase[r]]

\* The log line written before a kill: without the row its foreign key refuses it,
\* nobody catches that, and the daemon exits with the process not killed.
LogKill(r) == IF HasRow(r) THEN UNCHANGED <<up, phase>> ELSE Dies

-----------------------------------------------------------------------------
\* runJobForWorkflow up to the first spawn.

BeginSkipped(r) ==
  /\ up /\ phase[r] = "waiting"
  /\ HasActiveRun
  /\ row' = [row EXCEPT ![r][1] = "skipped"]
  /\ Settle(r, "skipped")
  /\ NoSpawn
  /\ UNCHANGED <<up, aborted, erased>>

BeginCancelled(r) ==
  /\ up /\ phase[r] = "waiting"
  /\ ~HasActiveRun
  /\ aborted[r]
  /\ Settle(r, "cancelled")
  /\ NoSpawn
  /\ UNCHANGED <<up, row, aborted, erased>>

\* Mutant of Begin: the signal is not looked at.
BeginDeaf(r) ==
  /\ up /\ phase[r] = "waiting"
  /\ ~HasActiveRun
  /\ row' = [row EXCEPT ![r][1] = "running"]
  /\ phase' = [phase EXCEPT ![r] = "running"]
  /\ Spawn(r, 1)
  /\ UNCHANGED <<up, outcome, aborted, erased>>

Begin(r) ==
  /\ up /\ phase[r] = "waiting"
  /\ ~HasActiveRun
  /\ ~aborted[r]
  /\ row' = [row EXCEPT ![r][1] = "running"]
  /\ phase' = [phase EXCEPT ![r] = "running"]
  /\ Spawn(r, 1)
  /\ UNCHANGED <<up, outcome, aborted, erased>>

\* The overlap read, the skipped row or the row of the first attempt throws.
BeginThrows(r) ==
  /\ up /\ phase[r] = "waiting"
  /\ "begin" \in FaultPoints
  /\ Settle(r, "threw")
  /\ NoSpawn
  /\ UNCHANGED <<up, row, aborted, erased>>

-----------------------------------------------------------------------------
\* While an attempt is under way.

\* The result event; the job emits one at most.
Report(r, status) ==
  /\ up /\ phase[r] = "running"
  /\ child[r][attempt[r]] = "alive"
  /\ reported[r] = "none"
  /\ reported' = [reported EXCEPT ![r] = status]
  /\ UNCHANGED <<up, phase, outcome, attempt, row, child, timedOut, cancelled, aborted, erased>>

\* A child exits: done, crashed, killed, or an orphan of an earlier daemon.
Exit(r, a) ==
  /\ child[r][a] = "alive"
  /\ child' = [child EXCEPT ![r][a] = "dead"]
  /\ UNCHANGED <<up, phase, outcome, attempt, row, reported, timedOut, cancelled, aborted, erased>>

\* The timer fires before the 'close' event, and the child is sent SIGTERM, then SIGKILL.
Timeout(r) ==
  /\ up /\ phase[r] = "running"
  /\ ~timedOut[r]
  /\ timedOut' = [timedOut EXCEPT ![r] = TRUE]
  /\ LogKill(r)
  /\ UNCHANGED <<outcome, attempt, row, child, reported, cancelled, aborted, erased>>

\* The workflow run is cancelled, or its body threw, before the job's turn.
AbortWaiting(r) ==
  /\ up /\ phase[r] = "waiting"
  /\ ~aborted[r]
  /\ aborted' = [aborted EXCEPT ![r] = TRUE]
  /\ UNCHANGED <<up, phase, outcome, attempt, row, child, reported, timedOut, cancelled, erased>>

\* The same during an attempt: its listener sends the child SIGTERM, then SIGKILL.
Abort(r) ==
  /\ up /\ phase[r] = "running"
  /\ ~aborted[r]
  /\ aborted' = [aborted EXCEPT ![r] = TRUE]
  /\ cancelled' = [cancelled EXCEPT ![r] = TRUE]
  /\ LogKill(r)
  /\ UNCHANGED <<outcome, attempt, row, child, reported, timedOut, erased>>

\* resetWorkflowOutput of a workflow with this job: no row of it is left, whoever runs.
Reset ==
  /\ up
  /\ row' = [r \in Runs |-> [a \in Attempts |-> "none"]]
  /\ erased' = erased \cup {r \in Runs : \E a \in Attempts : row[r][a] # "none"}
  /\ UNCHANGED <<up, phase, outcome, attempt, child, reported, timedOut, cancelled, aborted>>

-----------------------------------------------------------------------------
\* The 'close' event and what follows it.

\* Mutant of Verdict: a reported success wins.
SuccessFirst(r) ==
  IF reported[r] = "success" THEN "success"
  ELSE IF cancelled[r] THEN "cancelled"
  ELSE IF timedOut[r] THEN "timeout" ELSE "failed"

\* Cancelled before timed out before what the job reported.
Verdict(r) ==
  CASE cancelled[r] -> "cancelled"
    [] timedOut[r] /\ ~cancelled[r] -> "timeout"
    [] reported[r] = "success" /\ ~timedOut[r] /\ ~cancelled[r] -> "success"
    [] OTHER -> "failed"

\* finishRun is an UPDATE: it finds the row, or nothing.
Finish(r) == IF HasRow(r) THEN Verdict(r) ELSE "none"

Closing(r) == up /\ phase[r] = "running" /\ child[r][attempt[r]] = "dead"

Retries(r) == Verdict(r) \in {"failed", "timeout"} /\ attempt[r] <= MaxRetries

\* Mutant of CloseEnds: the promise is never resolved for a child that died
\* without a result.
CloseUnresolved(r) ==
  /\ Closing(r) /\ ~Retries(r)
  /\ reported[r] # "none"
  /\ row' = [row EXCEPT ![r][attempt[r]] = Finish(r)]
  /\ Settle(r, Verdict(r))
  /\ NoSpawn
  /\ UNCHANGED <<up, aborted, erased>>

\* The last attempt: its verdict is that of the invocation.
CloseEnds(r) ==
  /\ Closing(r) /\ ~Retries(r)
  /\ row' = [row EXCEPT ![r][attempt[r]] = Finish(r)]
  /\ Settle(r, Verdict(r))
  /\ NoSpawn
  /\ UNCHANGED <<up, aborted, erased>>

\* Another attempt, in the same turn of the event loop.  (The loop's look at the
\* signal finds nothing: had it been aborted, the verdict were cancelled.)
CloseRetries(r) ==
  /\ Closing(r) /\ Retries(r) /\ HasRow(r)
  /\ row' = [row EXCEPT ![r][attempt[r]] = Verdict(r), ![r][attempt[r] + 1] = "running"]
  /\ Spawn(r, attempt[r] + 1)
  /\ UNCHANGED <<up, phase, outcome, aborted, erased>>

\* finishRun throws: the row says running, with no attempt under way.
FinishThrows(r) ==
  /\ Closing(r)
  /\ "finish" \in FaultPoints
  /\ Settle(r, "threw")
  /\ NoSpawn
  /\ UNCHANGED <<up, row, aborted, erased>>

\* The retry's log line or its new row throws, the log line always when the row of the
\* attempt is gone (its foreign key): no further attempt.
RetryThrows(r) ==
  /\ Closing(r) /\ Retries(r)
  /\ "retry" \in FaultPoints \/ ~HasRow(r)
  /\ row' = [row EXCEPT ![r][attempt[r]] = Finish(r)]
  /\ Settle(r, "threw")
  /\ NoSpawn
  /\ UNCHANGED <<up, aborted, erased>>

-----------------------------------------------------------------------------
\* A signal to the daemon, or an uncaught exception in it.
Crash ==
  /\ up
  /\ Dies
  /\ UNCHANGED <<outcome, attempt, row, child, reported, timedOut, cancelled, aborted, erased>>

\* Mutant of Restart: no reaping.
RestartUnreaped ==
  /\ ~up
  /\ up' = TRUE
  /\ UNCHANGED <<phase, outcome, attempt, row, child, reported, timedOut, cancelled, aborted, erased>>

\* reapOrphanRuns closes the rows; the processes it knows nothing of.
Restart ==
  /\ ~up
  /\ up' = TRUE
  /\ row' = [r \in Runs |-> [a \in Attempts |->
               IF row[r][a] = "running" THEN "cancelled" ELSE row[r][a]]]
  /\ UNCHANGED <<phase, outcome, attempt, child, reported, timedOut, cancelled, aborted, erased>>

Next ==
  \/ \E r \in Runs :
       \/ BeginSkipped(r) \/ BeginCancelled(r) \/ Begin(r) \/ BeginThrows(r)
       \/ \E status \in {"success", "failed"} : Report(r, status)
       \/ \E a \in Attempts : Exit(r, a)
       \/ Timeout(r) \/ AbortWaiting(r) \/ Abort(r)
       \/ CloseEnds(r) \/ CloseRetries(r) \/ FinishThrows(r) \/ RetryThrows(r)
  \/ Reset \/ Crash \/ Restart

Spec == Init /\ [][Next]_vars

\* Killed processes die (SIGKILL), the timer of a job with a timeout fires, and the
\* event loop delivers 'close'.
Die(r) ==
  /\ phase[r] = "running" /\ (timedOut[r] \/ cancelled[r])
  /\ \E a \in Attempts : a = attempt[r] /\ Exit(r, a)

Fairness ==
  \A r \in Runs :
    /\ WF_vars(Timeout(r)) /\ WF_vars(Die(r))
    /\ WF_vars(CloseEnds(r) \/ CloseRetries(r)) /\ WF_vars(Closing(r) /\ ~HasRow(r) /\ RetryThrows(r))

FairSpec == Spec /\ Fairness
-----------------------------------------------------------------------------
\* Shape of the state.
TypeOK ==
  /\ up \in BOOLEAN
  /\ phase \in [Runs -> {"waiting", "running", "settled", "lost"}]
  /\ outcome \in [Runs -> Verdicts \cup {"none", "skipped", "threw"}]
  /\ attempt \in [Runs -> 0 .. MaxRetries + 1]
  /\ row \in [Runs -> [Attempts -> Statuses]]
  /\ child \in [Runs -> [Attempts -> {"none", "alive", "dead"}]]
  /\ reported \in [Runs -> {"none", "success", "failed"}]
  /\ timedOut \in [Runs -> BOOLEAN]
  /\ cancelled \in [Runs -> BOOLEAN]
  /\ aborted \in [Runs -> BOOLEAN]
  /\ erased \subseteq Runs

\* What core/executor.ts:62-69 says: two workflow runs never run the job at once.
\* A reset under way breaks it.
NeverTwice ==
  \A r, s \in Runs : phase[r] = "running" /\ phase[s] = "running" => r = s

\* Two workflow runs run the job at the same time (core/executor.ts:62-69) only if a
\* reset deleted the rows of one of them, whatever throws, whenever the daemon restarts,
\* and whatever the reset deletes besides.
OneInvocation ==
  \A r, s \in Runs : phase[r] = "running" /\ phase[s] = "running" /\ r # s => {r, s} \cap erased # {}

\* What the overlap guard reads is exact, also after a crash and a restart: an
\* attempt under way has its row unless a reset deleted it, and then the invocation
\* never has a row again; a row that says running belongs to an attempt under way,
\* unless a write of that very invocation threw.
RowsExact ==
  up => \A r \in Runs, a \in Attempts :
          /\ phase[r] = "running" /\ attempt[r] = a =>
               row[r][a] = IF r \in erased THEN "none" ELSE "running"
          /\ row[r][a] = "running" => (phase[r] = "running" /\ attempt[r] = a) \/ outcome[r] = "threw"

\* Two processes of the job are alive at once only if one of them is the orphan of a
\* daemon that died (daemon.ts:31-40 exits without waiting for its children) or a reset
\* deleted the rows of one of them: a cancel, a timeout, a throw or a retry never leaves
\* a process behind for the next.
OneProcess ==
  \A r, s \in Runs, a, b \in Attempts :
    child[r][a] = "alive" /\ child[s][b] = "alive" /\ <<r, a>> # <<s, b>> =>
      "lost" \in {phase[r], phase[s]} \/ {r, s} \cap erased # {}

\* An attempt follows only one that failed or timed out and whose process is gone
\* (core/executor.ts:45-56): never one that succeeded or was cancelled, and a reset may
\* have deleted its row since.
RetriesJustified ==
  \A r \in Runs, a \in Attempts :
    a < attempt[r] => /\ row[r][a] \in {"failed", "timeout"} \/ (row[r][a] = "none" /\ r \in erased)
                      /\ child[r][a] = "dead"

\* Once the workflow run is aborted, no process of it starts (core/executor.ts:21-24).
NoSpawnAfterAbort ==
  [][\A r \in Runs : aborted[r] => attempt'[r] = attempt[r]]_vars

\* An attempt that was in flight when its workflow run was aborted ends cancelled,
\* whatever the job reported and whether or not it had timed out.
AbortSticks ==
  \A r \in Runs : phase[r] = "settled" /\ aborted[r] => outcome[r] \in {"cancelled", "skipped", "threw"}

\* An attempt under way comes to an end, for a job with a timeout.
Settles == \A r \in Runs : phase[r] = "running" ~> phase[r] # "running"
=============================================================================
