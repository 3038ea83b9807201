--------------------------- MODULE PlacesPipeline ---------------------------
(***************************************************************************)
(* The places workflow (workflows/places): ingest, resolve, enrich and     *)
(* enrich-with-llm, one after the other.  A stage hands its results on in  *)
(* a file it writes now and then and at its end, and records every item in *)
(* the work-item ledger at once.  An item is a saved place, known by its   *)
(* CID; from enrich on the ledger knows it by its place_id.                *)
(*                                                                         *)
(* Several runs follow one another, each of all places or of the first n   *)
(* pending ones.  The order in which a stage takes its items, and the one  *)
(* in ten after which it saves its file, are left open.                    *)
(***************************************************************************)
EXTENDS WorkItems

CONSTANTS
  InputKeys,      \* the CIDs in the order of the export
  Places,         \* place_ids
  PlaceOfChoices, \* what the CIDs may resolve to in a run of the model
  Limits,         \* limits a run may be started with, 0 for none
  FaultChoices,   \* sets of what may go wrong in a run of the model
  MaxAttempts, MaxRetries,
  MaxDisturbances \* bound on refusals, kills, throws and clicks

Cids == {InputKeys[i] : i \in DOMAIN InputKeys}
Keys == Cids \cup Places

\* "call": a lookup fails; "quota": a cap is reached, or the service says 429;
\* "throw": a stage dies of an error (a refused key, a browser that is gone);
\* "kill": the run is cancelled, or the machine stops; "input": the export is
\* bad; "operator": items are unstuck or ignored from the dashboard.
Faults == {"call", "quota", "throw", "kill", "input", "operator"}

ASSUME PlacesAssumption ==
  /\ Cids \cap Places = {} /\ NoKey \notin Keys
  /\ \A i, j \in DOMAIN InputKeys : InputKeys[i] = InputKeys[j] => i = j
  /\ PlaceOfChoices \subseteq [Cids -> Places]
  /\ FaultChoices \subseteq SUBSET Faults
  /\ Limits \subseteq Nat
  /\ MaxAttempts \in Nat \ {0} /\ MaxRetries \in Nat /\ MaxDisturbances \in Nat

Ingest  == "places-ingest"
Resolve == "cid-to-place-id-resolver"
Enrich  == "places-enrich"
Llm     == "enrich-with-llm"

ItemStages == {Resolve, Enrich, Llm}
Jobs == ItemStages \cup {Ingest}

After(s) == CASE s = Ingest -> Resolve [] s = Resolve -> Enrich [] s = Enrich -> Llm

VARIABLES
  placeOf, faults, limit, \* fixed in a behaviour
  disturbances,
  ledger,
  file,    \* what the output file of each stage says of each key
  roots,   \* the CIDs the run may touch
  stage,   \* the member under way, "none" when no run is active
  attempt, \* of that member
  phase,   \* "idle", "gate", "load", "loop", "call"
  todo,    \* CIDs the stage has still to take
  item, prior, \* the CID in the call, and the attempts its row had before
  mem,     \* the stage's copy of its file
  failed   \* an item failed in this attempt

world == <<placeOf, faults, limit>>
local == <<todo, item, prior, mem, failed>>
vars == <<world, disturbances, ledger, file, roots, stage, attempt, phase, local>>

\* What a file says: "located" is a mismatch, which has a place_id all the same.
Entries == {"none", "failed", "located", "success"}
Blank == [k \in Keys |-> "none"]

Init ==
  /\ placeOf \in PlaceOfChoices /\ faults \in FaultChoices /\ limit \in Limits
  /\ disturbances = 0
  /\ ledger = [j \in Jobs |-> [k \in Keys |-> NoRow]]
  /\ file = [s \in ItemStages |-> Blank]
  /\ roots = {} /\ stage = "none" /\ attempt = 1 /\ phase = "idle"
  /\ todo = {} /\ item = NoKey /\ prior = 0 /\ mem = Blank /\ failed = FALSE

Disturbed(f) ==
  /\ f \in faults
  /\ disturbances < MaxDisturbances
  /\ disturbances' = disturbances + 1

-----------------------------------------------------------------------------
(* What a stage works on. *)

Key(s, c) == IF s = Resolve THEN c ELSE placeOf[c]

FileKey(s, c) == IF s = Llm THEN placeOf[c] ELSE c

Candidates(s) ==
  CASE s = Resolve -> Cids
    [] s = Enrich -> {c \in Cids : file[Resolve][c] = "success"}
    [] s = Llm -> {c \in Cids : file[Enrich][c] = "success"}

\* Mutant of Outstanding: the ledger is not asked.
OutstandingBlind(s) == Candidates(s)

Outstanding(s) ==
  {c \in Candidates(s) : ~isWorkItemDone(ledger, s, Key(s, c), MaxAttempts)}

\* The contract between the stage and the one before it.
GateHolds(s) ==
  CASE s = Resolve -> Cids # {}
    [] s = Enrich -> \E c \in Cids : file[Resolve][c] \in {"located", "success"}
    [] s = Llm -> \E c \in Cids : file[Enrich][c] # "none"

Forget ==
  /\ todo' = {} /\ item' = NoKey /\ prior' = 0 /\ mem' = Blank /\ failed' = FALSE

RunOver == stage' = "none" /\ phase' = "idle" /\ attempt' = 1 /\ roots' = {} /\ Forget

\* A failed attempt is retried; after the last one the later members are skipped.
JobFails ==
  IF attempt <= MaxRetries
  THEN /\ attempt' = attempt + 1 /\ phase' = "load" /\ Forget
       /\ UNCHANGED <<stage, roots>>
  ELSE RunOver

JobSucceeds ==
  IF stage = Llm THEN RunOver
  ELSE /\ stage' = After(stage) /\ phase' = "gate" /\ attempt' = 1 /\ Forget
       /\ UNCHANGED roots

-----------------------------------------------------------------------------
(* A run. *)

StartRun ==
  /\ stage = "none"
  /\ roots' = IF limit = 0 THEN Cids
              ELSE selectPendingRoots(ledger, Jobs, {Llm}, InputKeys, Cids, limit, MaxAttempts)
  /\ stage' = Ingest /\ phase' = "load" /\ attempt' = 1
  /\ UNCHANGED <<world, disturbances, ledger, file, local>>

\* recordIngestLedger: the ledger gets the allowed roots, whatever it had.
RunIngest ==
  /\ stage = Ingest
  /\ ledger' = [ledger EXCEPT ![Ingest] =
                  [k \in Keys |-> IF k \in roots THEN Row("success", 1, k)
                                  ELSE ledger[Ingest][k]]]
  /\ JobSucceeds
  /\ UNCHANGED <<world, disturbances, file>>

IngestRefuses ==
  /\ stage = Ingest
  /\ Disturbed("input")
  /\ JobFails
  /\ UNCHANGED <<world, ledger, file>>

Gate ==
  /\ phase = "gate"
  /\ IF GateHolds(stage)
     THEN phase' = "load" /\ UNCHANGED <<stage, attempt, roots, local>>
     ELSE RunOver
  /\ UNCHANGED <<world, disturbances, ledger, file>>

Load ==
  /\ phase = "load" /\ stage \in ItemStages
  /\ Outstanding(stage) \cap roots # {}
  /\ todo' = Outstanding(stage) \cap roots
  /\ mem' = file[stage]
  /\ phase' = "loop"
  /\ UNCHANGED <<world, disturbances, ledger, file, roots, stage, attempt, item, prior, failed>>

NothingToDo ==
  /\ phase = "load" /\ stage \in ItemStages
  /\ Outstanding(stage) \cap roots = {}
  /\ JobSucceeds
  /\ UNCHANGED <<world, disturbances, ledger, file>>

\* The cap is found reached before the first item, and for resolve before any:
\* the stage ends as it is, and the items it did not take get no row.
CapReached ==
  /\ Disturbed("quota")
  /\ \/ /\ phase = "load" /\ stage \in {Resolve, Enrich}
        /\ Outstanding(stage) \cap roots # {}
        /\ JobSucceeds
     \/ /\ phase = "loop" /\ stage = Resolve /\ todo # {}
        /\ todo' = {}
        /\ UNCHANGED <<stage, attempt, phase, roots, item, prior, mem, failed>>
  /\ UNCHANGED <<world, ledger, file>>

Take(c) ==
  /\ phase = "loop" /\ c \in todo
  /\ item' = c /\ prior' = ledger[stage][Key(stage, c)].attempts
  /\ todo' = todo \ {c}
  /\ phase' = "call"
  /\ UNCHANGED <<world, disturbances, ledger, file, roots, stage, attempt, mem, failed>>

-----------------------------------------------------------------------------
(* What comes of the call. *)

\* Mutant of Marked: the row forgets the root.
MarkedRootless(status, attempts) ==
  ledger' = markWorkItem(ledger, stage, Key(stage, item),
                         Row(status, attempts, Key(stage, item)))

Marked(status, attempts) ==
  ledger' = markWorkItem(ledger, stage, Key(stage, item), Row(status, attempts, item))

Noted(entry) == mem' = [mem EXCEPT ![FileKey(stage, item)] = entry]

\* After one item in ten the stage saves what it has.
MayCheckpoint == file' \in {file, [file EXCEPT ![stage] = mem']}

GoOn ==
  /\ phase' = "loop" /\ item' = NoKey /\ prior' = 0
  /\ UNCHANGED <<world, roots, stage, attempt>>

Succeeds ==
  /\ phase = "call"
  /\ Noted("success")
  /\ Marked("success", prior + 1)
  /\ MayCheckpoint
  /\ GoOn
  /\ UNCHANGED <<disturbances, todo, failed>>

\* A failed item leaves an entry, but not in the store of the last stage.
Fails ==
  /\ phase = "call" /\ "call" \in faults
  /\ \/ stage = Resolve /\ \E e \in {"failed", "located"} : Noted(e)
     \/ stage = Enrich /\ Noted("failed")
     \/ stage = Llm /\ UNCHANGED mem
  /\ Marked("failed", prior + 1)
  /\ MayCheckpoint
  /\ failed' = TRUE
  /\ \/ UNCHANGED todo
     \/ stage = Enrich /\ todo' = {}   \* the fifth failure in a row
  /\ GoOn
  /\ UNCHANGED disturbances

\* The soft stop: the item is put off without an attempt, the others untouched.
Refused ==
  /\ phase = "call" /\ stage \in {Enrich, Llm}
  /\ Disturbed("quota")
  /\ Marked("skipped", prior)
  /\ todo' = {}
  /\ GoOn
  /\ UNCHANGED <<file, mem, failed>>

\* Mutant of Finish: the stage ends without its last save.
FinishUnsaved ==
  /\ phase = "loop" /\ todo = {}
  /\ IF failed THEN JobFails ELSE JobSucceeds
  /\ UNCHANGED <<world, disturbances, ledger, file>>

Finish ==
  /\ phase = "loop" /\ todo = {}
  /\ file' = [file EXCEPT ![stage] = mem]
  /\ IF failed THEN JobFails ELSE JobSucceeds
  /\ UNCHANGED <<world, disturbances, ledger>>

\* An error leaves the stage without the last save.
Throws ==
  /\ phase = "call" /\ stage \in {Resolve, Enrich}
  /\ Disturbed("throw")
  /\ JobFails
  /\ UNCHANGED <<world, ledger, file>>

Killed ==
  /\ stage # "none"
  /\ Disturbed("kill")
  /\ RunOver
  /\ UNCHANGED <<world, ledger, file>>

Operator ==
  /\ Disturbed("operator")
  /\ \/ \E j \in Jobs, k \in Keys :
          ledger' \in {unstickWorkItem(ledger, j, k), ignoreWorkItem(ledger, j, k)}
     \/ \E jobs \in {Jobs} \cup {{j} : j \in Jobs} :
          ledger' \in {bulkUnstickItems(ledger, jobs, MaxAttempts),
                       bulkIgnoreItems(ledger, jobs, MaxAttempts)}
  /\ ledger' # ledger
  /\ UNCHANGED <<world, file, roots, stage, attempt, phase, local>>

-----------------------------------------------------------------------------

Work ==
  \/ StartRun \/ RunIngest \/ Gate \/ Load \/ NothingToDo
  \/ \E c \in Cids : Take(c)
  \/ Succeeds \/ Fails \/ Finish

Next ==
  \/ Work
  \/ IngestRefuses \/ CapReached \/ Refused \/ Throws \/ Killed \/ Operator

Spec == Init /\ [][Next]_vars

\* Runs are started again and again, by the cron schedule or by hand, and what
\* a run calls returns: every await of a stage has a timeout or ends in an error.
FairSpec == Spec /\ WF_vars(Work)

-----------------------------------------------------------------------------

TypeOK ==
  /\ placeOf \in PlaceOfChoices /\ faults \in FaultChoices /\ limit \in Limits
  /\ disturbances \in 0 .. MaxDisturbances
  /\ ledger \in LedgerOf(Jobs, Keys)
  /\ file \in [ItemStages -> [Keys -> Entries]]
  /\ roots \subseteq Cids
  /\ stage \in Jobs \cup {"none"} /\ attempt \in 1 .. MaxRetries + 1
  /\ phase \in {"idle", "gate", "load", "loop", "call"}
  /\ todo \subseteq Cids /\ item \in Cids \cup {NoKey} /\ prior \in Nat
  /\ mem \in [Keys -> Entries] /\ failed \in BOOLEAN

Distinct == \A c, d \in Cids : placeOf[c] = placeOf[d] => c = d

Orderly == faults \cap {"throw", "kill"} = {}

\* An item is tried at most MaxAttempts times between two clicks on unstick,
\* over the retries of a member and over any number of runs; a call that was
\* put off does not count (enrich.ts:126-127).
AttemptsBounded ==
  Distinct => \A s \in ItemStages, k \in Keys : ledger[s][k].attempts <= MaxAttempts

\* As long as no stage is cut off, an item the ledger calls done is in the file
\* the next stage reads, or in the memory it will be saved from (resolve.ts:142,
\* enrich.ts:190, llm-enrich.ts:160).
DoneHasPayload ==
  Orderly => \A s \in ItemStages, c \in Cids :
    ledger[s][Key(s, c)].status = "success" =>
      \E d \in Cids :
        /\ Key(s, d) = Key(s, c)
        /\ \/ file[s][FileKey(s, d)] = "success"
           \/ stage = s /\ phase \in {"loop", "call"} /\ mem[FileKey(s, d)] = "success"

\* An item reaches a stage by way of the one before, also over runs that were
\* cut short, and an item that has a profile was resolved and enriched.
Provenance ==
  Distinct => \A c \in Cids :
    /\ ledger[Enrich][placeOf[c]].status # "none" => ledger[Resolve][c].status = "success"
    /\ ledger[Llm][placeOf[c]].status # "none" => ledger[Enrich][placeOf[c]].status = "success"

\* The selector of limited runs reads only the ledger, the stages filter by
\* their files: between runs a place is pending exactly when some stage would
\* take it, but for the items put off by a quota (workItems.ts:202-216).
SelectorAgrees ==
  (Orderly /\ Distinct /\ stage = "none") => \A c \in Cids :
    isRootPending(ledger, Jobs, {Llm}, c, MaxAttempts) <=>
      \E s \in ItemStages :
        c \in Outstanding(s) /\ ledger[s][Key(s, c)].status # "skipped"

\* A place done at a stage is never worked on again there, so that a paid call
\* is not repeated (enrich.ts:26, places.workflow.ts:24).
NeverRedone ==
  [][\A s \in ItemStages, k \in Keys :
       (Distinct /\ ledger[s][k].status = "success") => ledger'[s][k] = ledger[s][k]]_vars

\* When calls fail, caps are reached and items are unstuck or ignored only so
\* often, runs drain the backlog, limited ones too: in the end no stage would
\* take any place, but for those put off, which limited runs leave alone.
Drains ==
  (Orderly /\ Distinct) => \A c \in Cids : <>[](\A s \in ItemStages :
    c \in Outstanding(s) => limit # 0 /\ ledger[s][Key(s, c)].status = "skipped")

\* workItems.ts:209-211 says that the selector cannot livelock on a root that
\* makes no progress: repeated runs get every root out of its way.
SelectorAdvances ==
  \A c \in Cids : <>~isRootPending(ledger, Jobs, {Llm}, c, MaxAttempts)

=============================================================================
