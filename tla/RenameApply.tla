---------------------------- MODULE RenameApply ----------------------------
(***************************************************************************)
(* The stage of the plex-rename workflow that moves files: one item (a     *)
(* media file and its sidecars) through runApply (stages/apply.ts), the    *)
(* move procedures (move.ts), the write-ahead journal (journal.ts), the    *)
(* reconciliation after a crash, and the manual undo                       *)
(* (scripts/plex-rename-undo.ts).                                          *)
(*                                                                         *)
(* A move goes between two shares ("copy": copy, verify, delete), within   *)
(* one ("rename": one atomic rename), or changes only the case of a name   *)
(* ("case"): on the case-insensitive shares this is used on, its source    *)
(* and its target are then one directory entry.                            *)
(*                                                                         *)
(* Every durable write that is read later - a record of the journal, a     *)
(* file operation, a mark - is a step, and the process may die between any *)
(* two.                                                                    *)
(***************************************************************************)
EXTENDS Naturals, Sequences, FiniteSets

CONSTANTS
  Media, Sidecars,   \* the moves of the item
  KindChoices,       \* the kinds a run of the model may give to the moves
  FaultChoices,      \* sets of what may go wrong in a run of the model
  MaxCrashes,
  MaxJournals        \* bound on journal files: one per run that mutates

Moves == {Media} \cup Sidecars

Kinds == {"copy", "rename", "case"}

\* "crash" and "recovery": the process dies in its normal work, or while it
\* reconciles; "io": a file operation throws; "bad": a copy is corrupted;
\* "foreign": another program writes the target name; "mount": a share goes
\* away; "limits": the quota or the volume checks
\* refuse the item; "undo": the operator runs the undo.
Faults == {"crash", "recovery", "io", "bad", "foreign", "mount", "limits", "undo"}

ASSUME RenameAssumption ==
  /\ Media \notin Sidecars
  /\ KindChoices \subseteq [Moves -> Kinds]
  /\ \A k \in KindChoices, m \in Moves : k[m] = "copy" <=> k[Media] = "copy"
  /\ FaultChoices \subseteq SUBSET Faults
  /\ MaxCrashes \in Nat /\ MaxJournals \in Nat

VARIABLES
  kind,      \* of each move
  faults,    \* what may go wrong
  disk,      \* content of the entries of each move
  mounted,   \* the shares that can be reached
  journals,  \* the item as each journal file has it; only the last is read
  ledger,    \* the item's row of plex-rename-apply in work_items
  row,       \* the verify row the apply stage reads
  phase,     \* where the process is; "idle" when none runs
  move,      \* the move under way
  left,      \* moves of the loop under way that are still to do
  ops,       \* the moves of the item's plan
  batch,     \* the item was selected when the run began
  mine,      \* this run has opened its journal
  rolling,   \* executeOps was called by the reconciliation
  back,      \* the undo runs
  crashes, undone

vars == <<kind, faults, disk, mounted, journals, ledger, row, phase, move, left,
          ops, batch, mine, rolling, back, crashes, undone>>
env == <<kind, faults, crashes, undone>>
memory == <<move, left, ops, batch, mine, rolling, back>>

\* The partial of a move, and the partial of its undo.
Names == {"from", "to", "part", "back"}

Shares == {"source", "target"}

ShareOf(n) == IF n \in {"from", "back"} THEN "source" ELSE "target"

\* A share that is away may leave an empty directory at its mount point, and what is
\* written to a name then is in an entry below that (lib.ts:357-362).
Below == [from |-> "from below", to |-> "to below", part |-> "part below", back |-> "back below"]

Entries == Names \cup {Below[n] : n \in Names}

\* "orig": the bytes to be moved; "torn": an incomplete or corrupted copy of
\* them; "other": a file of another program.
Contents == {"none", "orig", "torn", "other"}

Untouched == [n \in Entries |-> IF n = "from" THEN "orig" ELSE "none"]

Init ==
  /\ kind \in KindChoices
  /\ faults \in FaultChoices
  /\ disk = [m \in Moves |-> Untouched]
  /\ mounted = Shares
  /\ journals = <<>>
  /\ ledger = "none"
  /\ row = [eligible |-> TRUE, cars |-> Sidecars]
  /\ phase = "idle" /\ move = Media /\ left = {} /\ ops = {}
  /\ batch = FALSE /\ mine = FALSE /\ rolling = FALSE /\ back = FALSE
  /\ crashes = 0 /\ undone = FALSE

-----------------------------------------------------------------------------
(* The file system (lib.ts, realWriteFs). *)

\* Where a file of the name n is put.
Place(n) == IF ShareOf(n) \in mounted THEN n ELSE Below[n]

\* Where a lookup of n finds its file.
Entry(m, n) ==
  IF kind[m] # "case" \/ ShareOf(n) \notin mounted THEN Place(n)
  ELSE IF n \in {"from", "to"} THEN IF disk[m]["from"] # "none" THEN "from" ELSE "to"
  ELSE "part"

\* What stat, or hashFile, finds under a name.
Look(m, n) == disk[m][Entry(m, n)]

Exists(m, n) == Look(m, n) # "none"

Unlinked(files, m, n) == [files EXCEPT ![Entry(m, n)] = "none"]

\* rename(a, b): b has what a had, and replaces what was there.
Renamed(m, a, b) ==
  [n \in Entries |-> IF n = Place(b) THEN disk[m][Entry(m, a)]
                     ELSE IF n \in {Entry(m, a), Entry(m, b)} THEN "none"
                     ELSE disk[m][n]]

OnDisk(m, files) == disk' = [disk EXCEPT ![m] = files]

\* Source, target and partial of the move under way: the undo moves back.
Src == IF back THEN "to" ELSE "from"
Dst == IF back THEN "from" ELSE "to"
Part == IF back THEN "back" ELSE "part"

-----------------------------------------------------------------------------
(* The journal. *)

\* The item in a journal: "absent" when the file has no record of it, "open"
\* without a terminal record; tried are the moves with an op-attempt.
Record(s, o, t) == [state |-> s, ops |-> o, tried |-> t]

Latest == journals[Len(journals)]

Unresolved == journals # <<>> /\ Latest.state = "open"

Rewrite(rec) == journals' = [journals EXCEPT ![Len(journals)] = rec]

Terminal(s) == Rewrite([Latest EXCEPT !.state = s])

\* The process is gone, and what it had in memory with it.
Gone ==
  /\ phase' = "idle"
  /\ move' = Media /\ left' = {} /\ ops' = {}
  /\ batch' = FALSE /\ mine' = FALSE /\ rolling' = FALSE /\ back' = FALSE

-----------------------------------------------------------------------------
(* Selection. *)

\* The verify stage recomputes the row; the sidecars are what the directory lists.
Verify ==
  /\ phase = "idle"
  /\ row' = [eligible |->
               /\ mounted = Shares
               /\ Look(Media, "from") = "orig"
               /\ kind[Media] = "case" \/ ~Exists(Media, "to")
               /\ \A s \in Sidecars :
                    disk[s]["from"] # "none" /\ kind[s] # "case" => ~Exists(s, "to"),
             cars |-> {s \in Sidecars : disk[s]["from"] # "none"}]
  /\ row' # row
  /\ UNCHANGED <<env, disk, mounted, journals, ledger, phase, memory>>

\* isWorkItemDone: no mark of this stage gives attempts, so a failed row has 1 of 3.
Candidate == row.eligible /\ ledger # "success"

\* Mutant of Opens: the journals of earlier runs are not looked at.
NeverReconcile(b) == "item"
\* An unresolved item of the latest journal comes first.
Opens(b) == IF Unresolved THEN "opened" ELSE "item"

\* runApply up to the reconciliation: the mounts of the candidates are checked,
\* the batch is chosen, and reconcileItem is called with a new journal.
Start(b) ==
  /\ phase = "idle"
  /\ Candidate => mounted = Shares
  /\ IF b THEN Candidate
          ELSE Unresolved /\ (Candidate => "limits" \in faults)
  /\ Len(journals) < MaxJournals
  /\ batch' = b /\ mine' = Unresolved /\ rolling' = FALSE /\ back' = FALSE
  /\ phase' = Opens(b)
  /\ IF Unresolved
       THEN /\ journals' = Append(journals, Record("absent", {}, {}))
            /\ ops' = Latest.ops
       ELSE UNCHANGED <<journals, ops>>
  /\ UNCHANGED <<env, disk, mounted, ledger, row, move, left>>

-----------------------------------------------------------------------------
(* reconcileItem and finishRemaining. *)

Reconcile == phase = "opened"

\* Nothing irreversible happened: the partial goes, the item is left to the batch.
Abandon ==
  /\ Reconcile
  /\ Exists(Media, "from") /\ ~Exists(Media, "to")
  /\ IF Exists(Media, "part")
       THEN OnDisk(Media, Unlinked(disk[Media], Media, "part"))
       ELSE UNCHANGED disk
  /\ phase' = "item"
  /\ UNCHANGED <<env, mounted, journals, ledger, row, memory>>

\* Mutant of SameFile: presence is taken for equality.
BothThere(m) == Exists(m, "from") /\ Exists(m, "to")
\* The two hashes agree.
SameFile(m) == Exists(m, "from") /\ Look(m, "from") = Look(m, "to")

\* item-planned, again in the journal of this run.
Replan == Rewrite(Record("open", ops, {}))

\* Mutant of Attempt: the intent is journalled when the move is through.
AttemptLate(m) == UNCHANGED journals
\* op-attempt is flushed before the effect.
Attempt(m) == Rewrite([Latest EXCEPT !.tried = @ \cup {m}])

\* Both exist and agree: the source is to be deleted.
Duplicate ==
  /\ Reconcile
  /\ BothThere(Media) /\ SameFile(Media)
  /\ Replan
  /\ phase' = "duplicate"
  /\ UNCHANGED <<env, disk, mounted, ledger, row, memory>>

AttemptUnlink ==
  /\ phase = "duplicate"
  /\ Attempt(Media)
  /\ phase' = "unlink"
  /\ UNCHANGED <<env, disk, mounted, ledger, row, memory>>

DeleteSource ==
  /\ phase = "unlink"
  /\ OnDisk(Media, Unlinked(disk[Media], Media, "from"))
  /\ phase' = "tidy" /\ left' = ops \ {Media}
  /\ UNCHANGED <<env, mounted, journals, ledger, row, move, ops, batch, mine, rolling, back>>

\* The media file is at its target alone.
AlreadyMoved ==
  /\ Reconcile
  /\ ~Exists(Media, "from") /\ Exists(Media, "to")
  /\ Replan
  /\ phase' = "tidy" /\ left' = ops \ {Media}
  /\ UNCHANGED <<env, disk, mounted, ledger, row, move, ops, batch, mine, rolling, back>>

\* Two different files, or none at all: failed, for a manual review.
Ambiguous ==
  /\ Reconcile
  /\ \/ BothThere(Media) /\ ~SameFile(Media)
     \/ ~Exists(Media, "from") /\ ~Exists(Media, "to")
  /\ ledger' = "failed"
  /\ phase' = "item"
  /\ UNCHANGED <<env, disk, mounted, journals, row, memory>>

\* One round of the loop of finishRemaining over the sidecars, after Sweep.
Tidy(s) ==
  /\ phase = "tidy" /\ s \in left /\ ~Exists(s, "part")
  /\ IF BothThere(s) /\ SameFile(s) THEN OnDisk(s, Unlinked(disk[s], s, "from")) ELSE UNCHANGED disk
  /\ IF BothThere(s) /\ ~SameFile(s)
       THEN ledger' = "failed" /\ phase' = "item" /\ left' = {}
       ELSE left' = left \ {s} /\ UNCHANGED <<ledger, phase>>
  /\ UNCHANGED <<env, mounted, journals, row, move, ops, batch, mine, rolling, back>>

\* ... and the call of executeOps for everything after the media move.
RollForward ==
  /\ phase = "tidy" /\ left = {}
  /\ left' = ops \ {Media} /\ rolling' = TRUE /\ phase' = "next"
  /\ UNCHANGED <<env, disk, mounted, journals, ledger, row, move, ops, batch, mine, back>>

-----------------------------------------------------------------------------
(* The batch: re-check, plan, execute. *)

\* The item is not in the batch.
NotInBatch ==
  /\ phase = "item" /\ ~batch
  /\ Gone
  /\ UNCHANGED <<env, disk, mounted, journals, ledger, row>>

\* softSkip finds nothing: the disk is as the verify row says.
Fits ==
  /\ Look(Media, "from") = "orig"
  /\ kind[Media] = "case" \/ ~Exists(Media, "to")
  /\ \A s \in row.cars : kind[s] = "case" \/ ~Exists(s, "to")

SoftSkip ==
  /\ phase = "item" /\ batch
  /\ ~Fits \/ ("limits" \in faults /\ kind[Media] # "rename")
  /\ ledger' = "skipped"
  /\ Gone
  /\ UNCHANGED <<env, disk, mounted, journals, row>>

\* item-planned with the whole intent, in the journal of this run.
Plan ==
  /\ phase = "item" /\ batch /\ Fits
  /\ LET o == {Media} \cup row.cars
         rec == Record("open", o, {})
     IN  /\ ops' = o /\ left' = o
         /\ IF mine THEN Rewrite(rec) ELSE journals' = Append(journals, rec)
  /\ mine' = TRUE /\ rolling' = FALSE
  /\ phase' = "next"
  /\ UNCHANGED <<env, disk, mounted, ledger, row, move, batch, back>>

-----------------------------------------------------------------------------
(* executeOps, performAtomicRenameMove and performVerifiedMove.  The undo    *)
(* calls the two procedures as well, without the journal hooks.              *)

\* A forward item ends: on with the batch after a roll-forward.
ItemEnds == IF rolling THEN phase' = "item" /\ UNCHANGED memory ELSE Gone

\* The media file is moved first; the sidecars in the order of the listing.
Chosen(m) == m \in left /\ (Media \in left => m = Media)

\* The hard gate before a move; only the media move has its size recorded.
Preflight(m) ==
  /\ Exists(m, Src)
  /\ m = Media => Look(m, Src) = "orig"
  /\ kind[m] = "case" \/ ~Exists(m, Dst)
  /\ kind[m] = "rename" \/ ~Exists(m, Part)

\* The first effect of each procedure.
FirstStep(m) == IF kind[m] = "rename" THEN "renaming" ELSE "copying"

Begin(m) ==
  /\ phase = "next" /\ ~back
  /\ Chosen(m) /\ Preflight(m)
  /\ Attempt(m)
  /\ move' = m /\ left' = left \ {m} /\ phase' = FirstStep(m)
  /\ UNCHANGED <<env, disk, mounted, ledger, row, ops, batch, mine, rolling, back>>

Rename ==
  /\ phase = "renaming"
  /\ OnDisk(move, Renamed(move, Src, Dst))
  /\ phase' = "next"
  /\ UNCHANGED <<env, mounted, journals, ledger, row, memory>>

\* The partial appears ...
CopyBegins ==
  /\ phase = "copying"
  /\ OnDisk(move, [disk[move] EXCEPT ![Entry(move, Part)] = "torn"])
  /\ phase' = "streaming"
  /\ UNCHANGED <<env, mounted, journals, ledger, row, memory>>

\* ... and is complete, and synced.
CopyEnds ==
  /\ phase = "streaming"
  /\ \/ OnDisk(move, [disk[move] EXCEPT ![Entry(move, Part)] = Look(move, Src)])
     \/ "bad" \in faults /\ UNCHANGED disk
  /\ phase' = "copied"
  /\ UNCHANGED <<env, mounted, journals, ledger, row, memory>>

\* The last two steps: a case-only rename deletes before it finalizes.
DeletesFirst(m) == kind[m] = "case"

\* Mutant of Verified: the written copy is not read again.
VerifiedBlindly == TRUE
\* The hash of what was written is the hash of what was read.
Verified == Look(move, Part) = Look(move, Src)

VerifyCopy ==
  /\ phase = "copied" /\ Verified
  /\ phase' = IF DeletesFirst(move) THEN "delete" ELSE "finalize"
  /\ UNCHANGED <<env, disk, mounted, journals, ledger, row, memory>>

Finalize ==
  /\ phase = "finalize"
  /\ OnDisk(move, Renamed(move, Part, Dst))
  /\ phase' = IF DeletesFirst(move) THEN "next" ELSE "delete"
  /\ UNCHANGED <<env, mounted, journals, ledger, row, memory>>

Delete ==
  /\ phase = "delete"
  /\ OnDisk(move, Unlinked(disk[move], move, Src))
  /\ phase' = IF DeletesFirst(move) THEN "finalize" ELSE "next"
  /\ UNCHANGED <<env, mounted, journals, ledger, row, memory>>

\* An op fails; op-failed, which nothing reads, is not a step.  In the undo, a result.
Fails ==
  /\ phase' = IF back THEN "next" ELSE "failed"
  /\ UNCHANGED <<journals, ledger, memory>>

\* item-aborted ...
ItemAborted ==
  /\ phase = "failed"
  /\ Terminal("aborted")
  /\ phase' = "aborted"
  /\ UNCHANGED <<env, disk, mounted, ledger, row, memory>>

\* ... and the mark.
MarkFailed ==
  /\ phase = "aborted"
  /\ ledger' = "failed"
  /\ ItemEnds
  /\ UNCHANGED <<env, disk, mounted, journals, row>>

PreflightFails(m) ==
  /\ phase = "next" /\ ~back
  /\ Chosen(m) /\ ~Preflight(m)
  /\ Fails
  /\ UNCHANGED <<env, disk, mounted, row>>

\* The mismatch: the copy is deleted, or stays when that throws too.
VerifyFails ==
  /\ phase = "copied" /\ ~Verified
  /\ \/ OnDisk(move, Unlinked(disk[move], move, Part))
     \/ "io" \in faults /\ UNCHANGED disk
  /\ Fails
  /\ UNCHANGED <<env, mounted, row>>

\* A file operation throws, before its effect or (the stat after a rename)
\* after it; at "next" it is one of the directory operations.
OpThrows ==
  /\ "io" \in faults
  /\ \/ phase \in {"next", "copying", "streaming", "copied", "delete"} /\ UNCHANGED disk
     \/ phase = "renaming" /\ (UNCHANGED disk \/ OnDisk(move, Renamed(move, Src, Dst)))
     \/ phase = "finalize" /\ (UNCHANGED disk \/ OnDisk(move, Renamed(move, Part, Dst)))
  /\ ~(back /\ phase = "next")
  /\ Fails
  /\ UNCHANGED <<env, mounted, row>>

\* Mutant of ItemDone: the mark does not wait for the journal.
ItemDoneUnflushed ==
  /\ phase = "next" /\ ~back /\ left = {}
  /\ ledger' = "success" /\ phase' = "finish"
  /\ UNCHANGED <<env, disk, mounted, journals, row, memory>>
ItemDone ==
  /\ phase = "next" /\ ~back /\ left = {}
  /\ Terminal("complete")
  /\ phase' = "finish"
  /\ UNCHANGED <<env, disk, mounted, ledger, row, memory>>

MarkSuccess ==
  /\ phase = "finish"
  /\ ledger' = "success"
  /\ ItemEnds
  /\ UNCHANGED <<env, disk, mounted, journals, row>>

-----------------------------------------------------------------------------
(* The undo of the latest journal. *)

\* It refuses when a mount point is not a directory: an empty one is.
UndoBegins ==
  /\ "undo" \in faults /\ ~undone
  /\ phase = "idle" /\ journals # <<>>
  /\ left' = Latest.tried
  /\ back' = TRUE /\ phase' = "next" /\ undone' = TRUE
  /\ UNCHANGED <<kind, faults, crashes, disk, mounted, journals, ledger, row, move, ops, batch, mine, rolling>>

\* The moves in reverse.
ChosenBack(m) == m \in left /\ (m = Media => left = {Media})

\* A stranded partial goes, in the loop over the sidecars and in the undo.
Sweep(m) ==
  /\ \/ phase = "tidy" /\ m \in left
     \/ phase = "next" /\ back /\ ChosenBack(m)
  /\ Exists(m, "part")
  /\ OnDisk(m, Unlinked(disk[m], m, "part"))
  /\ UNCHANGED <<env, mounted, journals, ledger, row, phase, memory>>

\* Nothing to move back; of two equal files the copy goes.
UndoDebris(m) ==
  /\ phase = "next" /\ back /\ ~Exists(m, "part")
  /\ ChosenBack(m) /\ ~(Exists(m, "to") /\ ~Exists(m, "from"))
  /\ IF BothThere(m) /\ SameFile(m) THEN OnDisk(m, Unlinked(disk[m], m, "to")) ELSE UNCHANGED disk
  /\ left' = left \ {m}
  /\ UNCHANGED <<env, mounted, journals, ledger, row, phase, move, ops, batch, mine, rolling, back>>

\* The file is at its target alone: back with the procedure it came with.
UndoMove(m) ==
  /\ phase = "next" /\ back /\ ~Exists(m, "part")
  /\ ChosenBack(m) /\ Exists(m, "to") /\ ~Exists(m, "from")
  /\ phase' = IF Preflight(m) THEN FirstStep(m) ELSE "next"
  /\ move' = m /\ left' = left \ {m}
  /\ UNCHANGED <<env, disk, mounted, journals, ledger, row, ops, batch, mine, rolling, back>>

UndoEnds ==
  /\ phase = "next" /\ back /\ left = {}
  /\ Gone
  /\ UNCHANGED <<env, disk, mounted, journals, ledger, row>>

-----------------------------------------------------------------------------
(* What the process cannot help. *)

Recovering == phase \in {"opened", "duplicate", "unlink", "tidy"} \/ rolling \/ back

\* The child is killed, by a timeout, a cancel or a failure of the machine, or
\* ended by an error outside executeOps.
Crash ==
  /\ phase # "idle" /\ crashes < MaxCrashes
  /\ (IF Recovering THEN "recovery" ELSE "crash") \in faults
  /\ Gone
  /\ crashes' = crashes + 1
  /\ UNCHANGED <<kind, faults, undone, disk, mounted, journals, ledger, row>>

\* Another program writes a target name, at any time.
Arrive(m) ==
  /\ "foreign" \in faults
  /\ kind[m] # "case" /\ disk[m]["to"] = "none"
  /\ OnDisk(m, [disk[m] EXCEPT !["to"] = "other"])
  /\ UNCHANGED <<env, mounted, journals, ledger, row, phase, memory>>

\* Shares come and go between runs; only a copy involves two.
MountsChange ==
  /\ "mount" \in faults /\ phase = "idle"
  /\ mounted' \in (SUBSET Shares) \ {mounted}
  /\ kind[Media] = "copy" \/ mounted' \in {{}, Shares}
  /\ UNCHANGED <<env, disk, journals, ledger, row, phase, memory>>

-----------------------------------------------------------------------------

Recovery ==
  \/ Abandon \/ Duplicate \/ AttemptUnlink \/ DeleteSource \/ AlreadyMoved \/ Ambiguous
  \/ (\E s \in Sidecars : Tidy(s)) \/ RollForward

MoveStep ==
  \/ (\E m \in Moves : Begin(m) \/ PreflightFails(m))
  \/ Rename \/ CopyBegins \/ CopyEnds \/ VerifyCopy \/ VerifyFails \/ Finalize \/ Delete

ItemStep ==
  NotInBatch \/ SoftSkip \/ Plan \/ ItemDone \/ MarkSuccess \/ ItemAborted \/ MarkFailed

UndoStep == (\E m \in Moves : UndoDebris(m) \/ UndoMove(m)) \/ UndoEnds

\* A process that runs takes its next step.
Process == (\E m \in Moves : Sweep(m)) \/ Recovery \/ ItemStep \/ MoveStep \/ UndoStep

Next ==
  \/ Process \/ OpThrows \/ Crash
  \/ Verify \/ (\E b \in BOOLEAN : Start(b)) \/ UndoBegins
  \/ (\E m \in Moves : Arrive(m)) \/ MountsChange

Spec == Init /\ [][Next]_vars

\* A process that runs goes on until it ends or dies; the workflow is scheduled
\* daily, so an unresolved journal and a pending item are found by a later run.
FairSpec == Spec /\ WF_vars(Process) /\ WF_vars(\E b \in BOOLEAN : Start(b))

-----------------------------------------------------------------------------

TypeOK ==
  /\ kind \in [Moves -> Kinds] /\ faults \subseteq Faults
  /\ disk \in [Moves -> [Entries -> Contents]]
  /\ mounted \subseteq Shares
  /\ journals \in Seq([state : {"absent", "open", "complete", "aborted"},
                       ops : SUBSET Moves, tried : SUBSET Moves])
  /\ \A i \in 1 .. Len(journals) : journals[i].tried \subseteq journals[i].ops
  /\ ledger \in {"none", "success", "failed", "skipped"}
  /\ row \in [eligible : BOOLEAN, cars : SUBSET Sidecars]
  /\ phase \in {"idle", "opened", "duplicate", "unlink", "tidy", "item", "next", "renaming", "copying",
                "streaming", "copied", "finalize", "delete", "finish", "failed", "aborted"}
  /\ move \in Moves /\ left \subseteq Moves /\ ops \subseteq Moves
  /\ batch \in BOOLEAN /\ mine \in BOOLEAN /\ rolling \in BOOLEAN /\ back \in BOOLEAN
  /\ crashes \in Nat /\ undone \in BOOLEAN

InLibrary(m) == "orig" \in {disk[m]["from"], disk[m]["to"]}

\* The bytes of a file are where a library finds them, at the source or at the
\* target, at every moment of a move, a crash, a reconciliation and an undo - but for
\* an undo while the source share is away, which puts them below the mount point,
\* and for moves that change only the case of the name (see CaseKept and BytesKept).
OriginalKept ==
  \A m \in Moves : kind[m] # "case" => InLibrary(m) \/ (undone /\ disk[m][Below["from"]] = "orig")

\* Even the undo can never lose bytes (plex-rename-undo.ts:4-5), nor take a share that
\* is not mounted for one without the file (71-73).  The code breaks it.
UndoKeepsBytes == \A m \in Moves : kind[m] # "case" => InLibrary(m)

\* What move.ts says of every move: a complete copy exists under the source, the
\* target or, for a case-only rename, the partial name.
Held(m) == "orig" \in {disk[m]["from"], disk[m]["to"]} \/ (kind[m] = "case" /\ disk[m]["part"] = "orig")

\* Neither the normal work of a run nor its death loses the bytes of a
\* case-only rename; what the reconciliation and the undo do to one is not in this.
CaseKept ==
  [][\A m \in Moves :
       kind[m] = "case" /\ Held(m) /\ phase \notin {"opened", "duplicate", "unlink", "tidy"} /\ ~back =>
         Held(m)']_vars

\* A crash at any point leaves a dead extra file at worst (move.ts:1-7), and the
\* undo cannot lose bytes either.  The code breaks it for case-only renames.
BytesKept == \A m \in Moves : Held(m)

\* A file of another program at a target name is replaced or deleted by nothing but the
\* rename that ends a move to there, which did not begin with that file in place: it has
\* arrived after the gate, and the code does not look again (move.ts:76-78, 104, 151-157).
\* An undo while a share is away is not in this.
ForeignKept ==
  [][mounted = Shares \/ ~back =>
       /\ \A m \in Moves : disk[m]["to"] = "other" /\ disk'[m]["to"] # "other" =>
            m = move /\ ~back /\ phase \in {"renaming", "finalize"}
       /\ phase = "next" /\ phase' \in {"renaming", "copying"} /\ ~back =>
            kind[move'] = "case" \/ disk[move']["to"] = "none"]_vars

\* A move has no effect on the disk that some journal does not announce.
WriteAhead ==
  \A m \in Moves :
    disk[m]["to"] = "orig" \/ disk[m]["part"] # "none" =>
      \E i \in 1 .. Len(journals) : m \in journals[i].tried

\* The mark follows the journal's terminal record, and the media file is then at
\* its target until the operator undoes it.  (A source share that is away and a
\* foreign target are together taken for a finished move: excepted.)
SuccessMeansMoved ==
  ledger = "success" /\ ~({"mount", "foreign"} \subseteq faults) =>
    /\ \E i \in 1 .. Len(journals) : journals[i].state = "complete"
    /\ kind[Media] = "case" \/ disk[Media]["to"] = "orig" \/ undone

\* When nothing else goes wrong the undo of a finished item puts every file back.
UndoRestores ==
  undone /\ ~back /\ faults = {"undo"} =>
    \A m \in Moves : kind[m] = "case" \/ disk[m] = Untouched

\* Crashes in the middle of the work delay a move, they do not prevent it.
MediaArrives ==
  faults \subseteq {"crash"} /\ kind[Media] # "case" =>
    <>[](disk[Media]["to"] = "orig" /\ disk[Media]["from"] = "none")
=============================================================================
