-------------------------- MODULE PerfumesPipeline --------------------------
(***************************************************************************)
(* The perfumes workflow (workflows/perfumes): find-url, fetch, parse and  *)
(* build, and the loop of the executor that repeats the members until no   *)
(* retryable work is left (core/workflow-executor.ts:380-480).             *)
(*                                                                         *)
(* Every stage knows a perfume by the same key, takes what it has to do    *)
(* from the files of the stage before and from the ledger, and writes the  *)
(* file of an item before its row, so that a kill can come between.  A     *)
(* write truncates the file first, so that a kill can also come within.    *)
(* The URLs of all perfumes are in one file, which every write of find-url *)
(* replaces.                                                               *)
(***************************************************************************)
EXTENDS WorkItems, Sequences

CONSTANTS
  InputKeys,      \* the ids in the order of the table
  LinkChoices,    \* perfumes whose row in the table has a Fragrantica URL
  Limits,         \* limits a run may be started with, 0 for none
  FaultChoices,   \* sets of what may go wrong in a run of the model
  maxAttempts, MaxRetries, maxCycles,
  MaxDisturbances \* bound on pauses, kills, throws and clicks

Perfumes == {InputKeys[i] : i \in DOMAIN InputKeys}

Find  == "perfumes-find-url"
Fetch == "perfumes-fetch"
Parse == "perfumes-parse"
Build == "perfumes-build"

Stages == {Find, Fetch, Parse, Build}

\* The name of a stage: its items may fail; "pause": the rate limit of the
\* Claude CLI; "throw": the browser is gone; "kill": the run is cancelled, or the
\* machine stops; "drift": a page is parsed into an object without the expected
\* fields; "operator": items are unstuck or ignored from the dashboard.
Faults == Stages \cup {"pause", "throw", "kill", "drift", "operator"}

ASSUME PerfumesAssumption ==
  /\ Perfumes # {} /\ IsFiniteSet(Perfumes) /\ NoKey \notin Perfumes
  /\ \A i, j \in DOMAIN InputKeys : InputKeys[i] = InputKeys[j] => i = j
  /\ LinkChoices \subseteq SUBSET Perfumes
  /\ FaultChoices \subseteq SUBSET Faults
  /\ Limits \subseteq Nat
  /\ maxAttempts \in Nat \ {0} /\ MaxRetries \in Nat
  /\ maxCycles \in Nat \ {0} /\ MaxDisturbances \in Nat

Before(s) == CASE s = Fetch -> Find [] s = Parse -> Fetch [] s = Build -> Parse
After(s) == CASE s = Find -> Fetch [] s = Fetch -> Parse [] s = Parse -> Build

VARIABLES
  linked, faults, limit, \* fixed in a behaviour
  disturbances,
  ledger,
  out,     \* the output of each stage for each perfume
  roots,   \* the perfumes the run may touch
  cycle,   \* of the run, 0 when none is active
  before,  \* the signature of the ledger after the cycle before
  moved,   \* some row was marked in this cycle
  stage,   \* the member under way
  attempt, \* of that member
  phase,   \* "idle", "gate", "load", "loop", "call", "write", "mark", "cycle"
  todo,    \* perfumes the stage has still to take
  item, prior, \* the perfume in the call, and the attempts its row had before
  failed   \* an item failed in this attempt

world == <<linked, faults, limit>>
local == <<todo, item, prior, failed>>
cycling == <<cycle, before, moved>>
vars == <<world, disturbances, ledger, out, roots, cycling, stage, attempt, phase, local>>

\* "shapeless": parsed data without a name or notes; "torn", "empty": what a kill
\* within a write leaves.
Outputs == {"none", "good", "shapeless", "torn", "empty"}

Init ==
  /\ linked \in LinkChoices /\ faults \in FaultChoices /\ limit \in Limits
  /\ disturbances = 0
  /\ ledger = [s \in Stages |-> [p \in Perfumes |-> NoRow]]
  /\ out = [s \in Stages |-> [p \in Perfumes |-> "none"]]
  /\ roots = {} /\ cycle = 0 /\ before = NoSignature /\ moved = FALSE
  /\ stage = Find /\ attempt = 1 /\ phase = "idle"
  /\ todo = {} /\ item = NoKey /\ prior = 0 /\ failed = FALSE

Disturbed(f) ==
  /\ f \in faults
  /\ disturbances < MaxDisturbances
  /\ disturbances' = disturbances + 1

-----------------------------------------------------------------------------
(* What a stage works on. *)

\* The file of the URLs is not JSON.
UrlsTorn == \E p \in Perfumes : out[Find][p] = "torn"

Outstanding(s) ==
  {p \in Perfumes : /\ s # Find => out[Before(s)][p] # "none"
                    /\ ~isWorkItemDone(ledger, s, p, maxAttempts)}

\* The contract between the stage and the one before it.
GateHolds(s) ==
  \E p \in Perfumes : out[Before(s)][p] \in IF s = Parse THEN {"good", "torn"} ELSE {"good"}

Forget == todo' = {} /\ item' = NoKey /\ prior' = 0 /\ failed' = FALSE

\* The later members are skipped.
MemberFailed == phase' = "cycle" /\ UNCHANGED stage

JobFails ==
  /\ IF attempt <= MaxRetries
     THEN attempt' = attempt + 1 /\ phase' = "load" /\ UNCHANGED stage
     ELSE attempt' = 1 /\ MemberFailed
  /\ Forget

JobSucceeds ==
  /\ IF stage = Build THEN phase' = "cycle" /\ UNCHANGED stage
     ELSE phase' = "gate" /\ stage' = After(stage)
  /\ attempt' = 1
  /\ Forget

-----------------------------------------------------------------------------
(* A run and its cycles. *)

StartRun ==
  /\ phase = "idle"
  /\ roots' = IF limit = 0 THEN Perfumes
              ELSE selectPendingRoots(ledger, Stages, {Build}, InputKeys, Perfumes, limit,
                                      maxAttempts)
  /\ cycle' = 1 /\ before' = NoSignature /\ moved' = FALSE
  /\ stage' = Find /\ phase' = "load"
  /\ UNCHANGED <<world, disturbances, ledger, out, attempt, local>>

RunOver ==
  /\ phase' = "idle" /\ stage' = Find /\ attempt' = 1 /\ roots' = {}
  /\ cycle' = 0 /\ before' = NoSignature /\ moved' = FALSE
  /\ Forget

Stable(now) ==
  \/ now.retryable = 0
  \/ noForwardProgress(before, now)
  \/ cycle = maxCycles

CycleEnds ==
  /\ phase = "cycle"
  /\ LET now == workflowProgressSignature(ledger, Stages, maxAttempts)
     IN IF Stable(now) THEN RunOver
        ELSE /\ cycle' = cycle + 1 /\ before' = now /\ moved' = FALSE
             /\ stage' = Find /\ phase' = "load" /\ UNCHANGED <<attempt, roots, local>>
  /\ UNCHANGED <<world, disturbances, ledger, out>>

Gate ==
  /\ phase = "gate"
  /\ IF GateHolds(stage) THEN phase' = "load" /\ UNCHANGED stage ELSE MemberFailed
  /\ UNCHANGED <<world, disturbances, ledger, out, roots, cycling, attempt, local>>

\* All stages but parse read the file of the URLs, and throw when it is torn.
Load ==
  /\ phase = "load"
  /\ IF UrlsTorn /\ stage # Parse THEN JobFails
     ELSE IF Outstanding(stage) \cap roots = {} THEN JobSucceeds
     ELSE /\ todo' = Outstanding(stage) \cap roots
          /\ phase' = "loop"
          /\ UNCHANGED <<stage, attempt, item, prior, failed>>
  /\ UNCHANGED <<world, disturbances, ledger, out, roots, cycling>>

Take(p) ==
  /\ phase = "loop" /\ p \in todo
  /\ item' = p /\ prior' = ledger[stage][p].attempts
  /\ todo' = todo \ {p}
  /\ phase' = IF stage = Find /\ p \in linked THEN "write" ELSE "call"
  /\ UNCHANGED <<world, disturbances, ledger, out, roots, cycling, stage, attempt, failed>>

Marked(status, attempts) ==
  /\ ledger' = markWorkItem(ledger, stage, item, Row(status, attempts, item))
  /\ moved' = TRUE
  /\ phase' = "loop" /\ item' = NoKey /\ prior' = 0
  /\ UNCHANGED <<world, disturbances, roots, cycle, before, stage, attempt, todo>>

\* Mutant of Wrote: the row comes first, and the file is left for later.
MarkedFirst ==
  /\ phase \in {"call", "write"}
  /\ out' = out /\ phase' = "mark"
  /\ UNCHANGED <<world, disturbances, ledger, roots, cycling, stage, attempt, local>>

\* The answer is good, or the URL came with the perfume, and the file is written.
Wrote ==
  /\ phase \in {"call", "write"}
  /\ \E o \in {"good"} \cup (IF stage = Parse /\ "drift" \in faults THEN {"shapeless"} ELSE {}) :
       out' = [out EXCEPT ![stage][item] = o]
  /\ phase' = "mark"
  /\ UNCHANGED <<world, disturbances, ledger, roots, cycling, stage, attempt, local>>

\* A URL that came with the perfume counts as one attempt.
Succeeds ==
  /\ phase = "mark"
  /\ Marked("success", IF stage = Find /\ item \in linked THEN 1 ELSE prior + 1)
  /\ UNCHANGED <<out, failed>>

Fails ==
  /\ phase = "call" /\ stage \in faults
  /\ Marked("failed", prior + 1)
  /\ failed' = TRUE
  /\ UNCHANGED out

\* The pause leaves the item, and those behind it, as they are.
Pauses ==
  /\ phase = "call" /\ stage # Fetch
  /\ Disturbed("pause")
  /\ todo' = {} /\ item' = NoKey /\ prior' = 0 /\ phase' = "loop"
  /\ UNCHANGED <<world, ledger, out, roots, cycling, stage, attempt, failed>>

Finish ==
  /\ phase = "loop" /\ todo = {}
  /\ IF failed THEN JobFails ELSE JobSucceeds
  /\ UNCHANGED <<world, disturbances, ledger, out, roots, cycling>>

Throws ==
  /\ phase = "call" /\ stage = Fetch
  /\ Disturbed("throw")
  /\ JobFails
  /\ UNCHANGED <<world, ledger, out, roots, cycling>>

Killed ==
  /\ phase # "idle"
  /\ Disturbed("kill")
  /\ RunOver
  /\ UNCHANGED <<world, ledger, out>>

\* What is left of the file of an item: the gate of parse looks at its size.  The URLs of
\* the other perfumes go with that of the item.
Torn(s, p) ==
  IF s = Find THEN {[out EXCEPT ![Find] = [q \in Perfumes |-> "torn"]]}
  ELSE {[out EXCEPT ![s][p] = o] : o \in IF s = Fetch THEN {"torn", "empty"} ELSE {"torn"}}

\* A kill within the write of the file.
KilledInWrite ==
  /\ phase \in {"call", "write"}
  /\ Disturbed("kill")
  /\ out' \in Torn(stage, item)
  /\ RunOver
  /\ UNCHANGED <<world, ledger>>

Operator ==
  /\ Disturbed("operator")
  /\ \/ \E s \in Stages, p \in Perfumes :
          ledger' \in {unstickWorkItem(ledger, s, p), ignoreWorkItem(ledger, s, p)}
     \/ \E jobs \in {Stages} \cup {{s} : s \in Stages} :
          ledger' \in {bulkUnstickItems(ledger, jobs, maxAttempts),
                       bulkIgnoreItems(ledger, jobs, maxAttempts)}
  /\ ledger' # ledger
  /\ UNCHANGED <<world, out, roots, cycling, stage, attempt, phase, local>>

-----------------------------------------------------------------------------

Work ==
  \/ StartRun \/ CycleEnds \/ Gate \/ Load
  \/ \E p \in Perfumes : Take(p)
  \/ Wrote \/ Succeeds \/ Fails \/ Finish

Next == Work \/ Pauses \/ Throws \/ Killed \/ KilledInWrite \/ Operator

Spec == Init /\ [][Next]_vars

\* Runs are started again and again by the cron schedule, and what a stage
\* calls returns: the CLI and the browser have timeouts.
FairSpec == Spec /\ WF_vars(Work)

-----------------------------------------------------------------------------

TypeOK ==
  /\ linked \in LinkChoices /\ faults \in FaultChoices /\ limit \in Limits
  /\ disturbances \in 0 .. MaxDisturbances
  /\ ledger \in LedgerOf(Stages, Perfumes)
  /\ out \in [Stages -> [Perfumes -> Outputs]]
  /\ roots \subseteq Perfumes
  /\ cycle \in 0 .. maxCycles
  /\ moved \in BOOLEAN
  /\ stage \in Stages /\ attempt \in 1 .. MaxRetries + 1
  /\ phase \in {"idle", "gate", "load", "loop", "call", "write", "mark", "cycle"}
  /\ todo \subseteq Perfumes /\ item \in Perfumes \cup {NoKey}
  /\ prior \in Nat /\ failed \in BOOLEAN

\* A row that says success has its output, whole, wherever a kill strikes: the file is
\* written before the row (find-url.ts:50-51, fetch.ts:55-62, parse.ts:43-51,
\* build.ts:66-69), and what a kill tears is never the file of a row that says so.  Only
\* the URLs, which share a file, a kill within its write takes with it.  An item was
\* never tried before its input was there.
DoneHasOutput ==
  \A s \in Stages, p \in Perfumes :
    /\ ledger[s][p].status = "success" =>
         out[s][p] \in {"good", "shapeless"} \/ (s = Find /\ UrlsTorn)
    /\ (s # Find /\ ledger[s][p] # NoRow) => out[Before(s)][p] # "none"

\* What perfumes.workflow.ts:17 says: once a stage succeeds for a perfume it is never
\* redone.  Its URL may be gone by then.
UrlsKept == \A p \in Perfumes : ledger[Find][p].status = "success" => out[Find][p] = "good"

\* No perfume is tried more often than its budget between two clicks on
\* unstick, over the retries of a member, the cycles of a run and the runs.
AttemptsBounded ==
  \A s \in Stages, p \in Perfumes : ledger[s][p].attempts <= maxAttempts

\* But for what the operator does meanwhile, a run goes into another cycle
\* after the second only when the last one marked something, and it stops short
\* of maxCycles with retryable work left only when the last one marked nothing
\* (workflow-executor.ts:459-475, workflows.ts:368-377).
CyclingTracksProgress ==
  [][(phase = "cycle" /\ "operator" \notin faults /\ disturbances' = disturbances) =>
       /\ (cycle' > cycle /\ cycle > 1) => moved
       /\ (/\ cycle' = 0 /\ cycle < maxCycles
           /\ workflowRetryableCount(ledger, Stages, maxAttempts) > 0) => ~moved]_vars

\* Kills, pauses and clicks come to an end, and then runs work off the backlog:
\* in the end no stage would take any perfume.  Three cases stay out: a file that a kill
\* within its write has torn and that no run writes again (always that of the URLs, and
\* that of an item that then uses up its attempts); data without the expected fields,
\* which the gate of build holds up; and limited runs after a kill between an output and
\* its row - when the redone item then uses up its attempts, the selector gives up the
\* perfume, though a later stage has its input.
Drains ==
  ("drift" \notin faults /\ ("kill" \in faults => limit = 0)) =>
    <>[](\/ \E s \in Stages, p \in Perfumes : out[s][p] \in {"torn", "empty"}
         \/ \A s \in Stages : Outstanding(s) = {})

=============================================================================
