------------------------- MODULE RenameApply_proofs -------------------------
(***************************************************************************)
(* Proofs about the journalled moves of plex-rename, for any number of     *)
(* sidecars, crashes and journals, and every combination of the faults.    *)
(***************************************************************************)
EXTENDS RenameApply, SequenceTheorems, TLAPS

\* A procedure of move.ts is under way.
Working == phase \in {"renaming", "copying", "streaming", "copied", "finalize", "delete"}

\* Where the undo and an item that is not selected can be.
Phases ==
  /\ back => undone /\ (phase = "next" \/ Working)
  /\ phase = "idle" => ~batch /\ ~back

\* The target share is there while the work of a run or of the undo goes on, both
\* are there for a batch, and away together unless the item is copied between them.
Reachable ==
  /\ \A m \in Moves : kind[m] = "copy" <=> kind[Media] = "copy"
  /\ kind[Media] = "copy" \/ mounted \in {{}, Shares}
  /\ ~back /\ phase \in {"duplicate", "unlink", "tidy", "next", "finish"} => "target" \in mounted
  /\ Working => "target" \in mounted
  /\ batch => mounted = Shares

\* Nothing is written below a mount point but by an undo while the source is away.
Bare ==
  \A m \in Moves :
    /\ disk[m]["to below"] = "none" /\ disk[m]["part below"] = "none"
    /\ disk[m]["from below"] # "none" \/ disk[m]["back below"] # "none" =>
         kind[m] = "copy" /\ undone /\ ~(back /\ mounted = Shares)

\* The plan in memory is the plan in the journal of this run.
Planned ==
  /\ \A i \in 1 .. Len(journals) : journals[i].state = "open" => Media \in journals[i].ops
  /\ mine => journals # <<>>
  /\ phase = "opened" => Media \in ops /\ mine
  /\ ~back /\ (phase \in {"duplicate", "unlink", "tidy", "next", "finish", "failed", "aborted"} \/ Working) =>
       /\ mine /\ Media \in ops /\ Latest.ops = ops
       /\ phase \notin {"duplicate", "unlink"} => left \subseteq ops

DiskType == disk \in [Moves -> [Entries -> Contents]]

Records == [state : {"absent", "open", "complete", "aborted"}, ops : SUBSET Moves, tried : SUBSET Moves]

JournalType ==
  journals \in Seq(Records) /\ \A i \in 1 .. Len(journals) : journals[i].tried \subseteq journals[i].ops

-----------------------------------------------------------------------------
(* Names and files. *)

LEMMA Places ==
  /\ Place("from") = IF "source" \in mounted THEN "from" ELSE "from below"
  /\ Place("back") = IF "source" \in mounted THEN "back" ELSE "back below"
  /\ Place("to") = IF "target" \in mounted THEN "to" ELSE "to below"
  /\ Place("part") = IF "target" \in mounted THEN "part" ELSE "part below"
  /\ Names = {"from", "to", "part", "back"}
  /\ Entries = {"from", "to", "part", "back", "from below", "to below", "part below", "back below"}
<1>1. Names = {"from", "to", "part", "back"}
  BY DEF Names
<1>2. /\ Below["from"] = "from below" /\ Below["to"] = "to below"
      /\ Below["part"] = "part below" /\ Below["back"] = "back below"
  BY DEF Below
<1>3. Entries = {"from", "to", "part", "back", "from below", "to below", "part below", "back below"}
  BY <1>1, <1>2 DEF Entries
<1> QED BY <1>1, <1>2, <1>3 DEF Place, ShareOf

LEMMA EntryName ==
  ASSUME NEW m \in Moves, NEW n \in Names
  PROVE  /\ Entry(m, n) \in Entries
         /\ kind[m] # "case" => Entry(m, n) = Place(n)
         /\ n \in {"from", "to"} => Entry(m, n) \in {"from", "to", "from below", "to below"}
         /\ n \in {"part", "back"} => Entry(m, n) \in {"part", "back", "part below", "back below"}
         /\ n \in {"to", "part"} /\ "target" \in mounted => Entry(m, n) \in Names
         /\ mounted = Shares => Entry(m, n) \in Names
BY Places DEF Entry, ShareOf, Shares

LEMMA WriteOne ==
  ASSUME DiskType, NEW m \in Moves, NEW files, OnDisk(m, files)
  PROVE  /\ disk'[m] = files /\ \A q \in Moves \ {m} : disk'[q] = disk[q]
         /\ files \in [Entries -> Contents] => DiskType'
BY DEF DiskType, OnDisk

\* unlink removes one entry.
LEMMA UnlinkOne ==
  ASSUME NEW files \in [Entries -> Contents], NEW m \in Moves, NEW n \in Names
  PROVE  /\ Unlinked(files, m, n) \in [Entries -> Contents]
         /\ \A k \in Entries : Unlinked(files, m, n)[k] = IF k = Entry(m, n) THEN "none" ELSE files[k]
BY EntryName DEF Unlinked, Contents

\* rename moves one entry.
LEMMA RenameOne ==
  ASSUME DiskType, NEW m \in Moves, NEW a \in Names, NEW b \in Names
  PROVE  /\ Renamed(m, a, b) \in [Entries -> Contents]
         /\ \A k \in Entries : Renamed(m, a, b)[k] =
              IF k = Place(b) THEN Look(m, a)
              ELSE IF k \in {Entry(m, a), Entry(m, b)} THEN "none" ELSE disk[m][k]
<1>1. disk[m] \in [Entries -> Contents] /\ Entry(m, a) \in Entries /\ "none" \in Contents
  BY EntryName DEF DiskType, Contents
<1> QED BY <1>1 DEF Renamed, Look

LEMMA LookTyped ==
  ASSUME DiskType, NEW m \in Moves, NEW n \in Names
  PROVE  Look(m, n) \in Contents
BY EntryName DEF Look, DiskType, Contents

\* Src, Dst and Part are names.
LEMMA OwnNames ==
  /\ {Src, Dst, Part} \subseteq Names /\ Src # Dst /\ Part # Dst /\ Part # Src
  /\ Src \in {"from", "to"} /\ Dst \in {"from", "to"} /\ Part \in {"part", "back"}
BY DEF Src, Dst, Part, Names

-----------------------------------------------------------------------------
(* What a step may do to the files, and to what it cannot change.              *)

Drops(m, n) == OnDisk(m, Unlinked(disk[m], m, n))

Puts(a, b) == OnDisk(move, Renamed(move, a, b))

Fills(c) == OnDisk(move, [disk[move] EXCEPT ![Entry(move, Part)] = c])

\* A procedure of move.ts works on the files of its move.
Works ==
  \/ phase \in {"copying", "streaming"} /\ (Fills("torn") \/ Fills(Look(move, Src)))
  \/ phase = "copied" /\ Drops(move, Part)
  \/ phase = "renaming" /\ Puts(Src, Dst)
  \/ phase = "finalize" /\ Puts(Part, Dst)
  \/ phase = "delete" /\ Drops(move, Src)

\* The reconciliation and the undo clear up.
Clears ==
  \/ \E m \in Moves : (phase \in {"opened", "tidy"} \/ back) /\ Drops(m, "part")
  \/ \E m \in Moves : phase = "tidy" /\ BothThere(m) /\ SameFile(m) /\ Drops(m, "from")
  \/ \E m \in Moves : phase = "next" /\ back /\ BothThere(m) /\ SameFile(m) /\ Drops(m, "to")
  \/ phase = "unlink" /\ Drops(Media, "from")

LEMMA FileSteps ==
  ASSUME Media \in Moves, [Next]_vars
  PROVE  UNCHANGED disk \/ Works \/ (Clears /\ ~Working) \/ \E m \in Moves : Arrive(m)
<1> DEFINE Goal == UNCHANGED disk \/ Works \/ (Clears /\ ~Working) \/ \E m \in Moves : Arrive(m)
<1>1. CASE Abandon
  BY <1>1 DEF Abandon, Reconcile, Clears, Drops, Working
<1>2. CASE DeleteSource
  BY <1>2 DEF DeleteSource, Clears, Drops, Working
<1>3. ASSUME NEW m \in Moves, Tidy(m)
      PROVE  Goal
  BY <1>3 DEF Tidy, Clears, Drops, Working
<1>4. ASSUME NEW m \in Moves, Sweep(m)
      PROVE  Goal
  BY <1>4 DEF Sweep, Clears, Drops, Working
<1>5. ASSUME NEW m \in Moves, UndoDebris(m)
      PROVE  Goal
  BY <1>5 DEF UndoDebris, Clears, Drops, Working
<1>6. CASE Rename \/ CopyBegins \/ CopyEnds \/ VerifyFails \/ Finalize \/ Delete
  BY <1>6 DEF Rename, CopyBegins, CopyEnds, VerifyFails, Finalize, Delete, Works, Fills, Puts, Drops
<1>7. CASE OpThrows
  BY <1>7 DEF OpThrows, Works, Puts
<1>8. CASE \/ Verify \/ (\E b \in BOOLEAN : Start(b)) \/ UndoBegins \/ Crash \/ MountsChange
           \/ Duplicate \/ AttemptUnlink \/ AlreadyMoved \/ Ambiguous \/ RollForward \/ ItemStep \/ UndoEnds
           \/ VerifyCopy \/ (\E m \in Moves : Begin(m) \/ PreflightFails(m) \/ UndoMove(m)) \/ UNCHANGED vars
  BY <1>8 DEF Verify, Start, UndoBegins, Crash, MountsChange, Duplicate, AttemptUnlink, AlreadyMoved, Ambiguous,
     RollForward, ItemStep, NotInBatch, SoftSkip, Plan, ItemDone, MarkSuccess, ItemAborted, MarkFailed,
     UndoEnds, VerifyCopy, Begin, PreflightFails, UndoMove, vars
<1> QED BY <1>1, <1>2, <1>3, <1>4, <1>5, <1>6, <1>7, <1>8
  DEF Next, Process, Recovery, MoveStep, UndoStep, Moves

\* The kinds and the faults are what they are; the mounts change between runs, and
\* the undo, which runs once, begins there.
LEMMA EnvSteps ==
  ASSUME [Next]_vars
  PROVE  /\ UNCHANGED <<kind, faults>>
         /\ UNCHANGED mounted \/ (MountsChange /\ phase = "idle" /\ UNCHANGED <<disk, phase, batch, back>>)
         /\ undone => undone'
         /\ back' => back \/ (phase = "idle" /\ ~undone /\ undone')
<1>1. CASE MountsChange
  BY <1>1 DEF MountsChange, env, memory
<1>2. CASE ~MountsChange
  <2>1. UNCHANGED <<kind, faults>>
    BY <1>2 DEF Next, Process, Recovery, Abandon, Duplicate, AttemptUnlink, DeleteSource, AlreadyMoved, Ambiguous,
       Tidy, RollForward, ItemStep, NotInBatch, SoftSkip, Plan, ItemDone, MarkSuccess, ItemAborted, MarkFailed,
       MoveStep, Begin, PreflightFails, Rename, CopyBegins, CopyEnds, VerifyCopy,
       VerifyFails, Finalize, Delete, UndoStep, UndoDebris, UndoMove, UndoEnds, OpThrows, Crash, Verify, Start,
       UndoBegins, Arrive, Sweep, env, vars
  <2>2. UNCHANGED mounted
    BY <1>2 DEF Next, Process, Recovery, Abandon, Duplicate, AttemptUnlink, DeleteSource, AlreadyMoved, Ambiguous,
       Tidy, RollForward, ItemStep, NotInBatch, SoftSkip, Plan, ItemDone, MarkSuccess, ItemAborted, MarkFailed,
       MoveStep, Begin, PreflightFails, Rename, CopyBegins, CopyEnds, VerifyCopy,
       VerifyFails, Finalize, Delete, UndoStep, UndoDebris, UndoMove, UndoEnds, OpThrows, Crash, Verify, Start,
       UndoBegins, Arrive, Sweep, env, vars
  <2>3. undone => undone'
    BY <1>2 DEF Next, Process, Recovery, Abandon, Duplicate, AttemptUnlink, DeleteSource, AlreadyMoved, Ambiguous,
       Tidy, RollForward, ItemStep, NotInBatch, SoftSkip, Plan, ItemDone, MarkSuccess, ItemAborted, MarkFailed,
       MoveStep, Begin, PreflightFails, Rename, CopyBegins, CopyEnds, VerifyCopy,
       VerifyFails, Finalize, Delete, UndoStep, UndoDebris, UndoMove, UndoEnds, OpThrows, Crash, Verify, Start,
       UndoBegins, Arrive, Sweep, env, vars
  <2>4. back' => back \/ (phase = "idle" /\ ~undone /\ undone')
    BY <1>2 DEF Next, Process, Recovery, Abandon, Duplicate, AttemptUnlink, DeleteSource, AlreadyMoved, Ambiguous,
       Tidy, RollForward, ItemStep, NotInBatch, SoftSkip, Plan, ItemDone, MarkSuccess, ItemAborted, MarkFailed,
       ItemEnds, Gone, MoveStep, Begin, PreflightFails, Fails, Rename, CopyBegins, CopyEnds, VerifyCopy,
       VerifyFails, Finalize, Delete, UndoStep, UndoDebris, UndoMove, UndoEnds, OpThrows, Crash, Verify, Start,
       UndoBegins, Arrive, Sweep, env, memory, vars
  <2> QED BY <2>1, <2>2, <2>3, <2>4
<1> QED BY <1>1, <1>2

-----------------------------------------------------------------------------
(* The journals. *)

LEMMA LatestTyped ==
  ASSUME JournalType, journals # <<>>
  PROVE  Len(journals) \in 1 .. Len(journals) /\ Latest \in Records /\ Latest.tried \subseteq Latest.ops
<1>1. Len(journals) \in Nat \ {0}
  BY EmptySeq DEF JournalType
<1>2. Len(journals) \in 1 .. Len(journals)
  BY <1>1
<1> QED BY <1>2, ElementOfSeq DEF JournalType, Latest

LEMMA RewriteOne ==
  ASSUME JournalType, journals # <<>>, NEW rec \in Records, rec.tried \subseteq rec.ops, Rewrite(rec)
  PROVE  /\ JournalType' /\ journals' # <<>> /\ Latest' = rec
         /\ Len(journals') = Len(journals)
         /\ \A i \in 1 .. Len(journals) : i # Len(journals) => journals'[i] = journals[i]
<1>1. Len(journals) \in 1 .. Len(journals)
  BY LatestTyped
<1>2. /\ journals' \in Seq(Records) /\ Len(journals') = Len(journals)
      /\ \A i \in 1 .. Len(journals) : journals'[i] = IF i = Len(journals) THEN rec ELSE journals[i]
  BY <1>1, ExceptSeq DEF JournalType, Rewrite
<1>3. journals' # <<>>
  BY <1>1, <1>2, EmptySeq
<1> QED BY <1>1, <1>2, <1>3 DEF JournalType, Latest

LEMMA AppendOne ==
  ASSUME JournalType, NEW rec \in Records, rec.tried \subseteq rec.ops, journals' = Append(journals, rec)
  PROVE  /\ JournalType' /\ journals' # <<>> /\ Latest' = rec
         /\ Len(journals') = Len(journals) + 1
         /\ \A i \in 1 .. Len(journals) : journals'[i] = journals[i]
<1>1. Len(journals) \in Nat
  BY LenProperties DEF JournalType
<1>2. /\ journals' \in Seq(Records) /\ Len(journals') = Len(journals) + 1
      /\ \A i \in 1 .. Len(journals) : journals'[i] = journals[i]
      /\ journals'[Len(journals) + 1] = rec
  BY AppendProperties DEF JournalType
<1>3. journals' # <<>>
  BY <1>1, <1>2, EmptySeq
<1>4. \A i \in 1 .. Len(journals') : i \in 1 .. Len(journals) \/ i = Len(journals) + 1
  BY <1>1, <1>2
<1> QED BY <1>1, <1>2, <1>3, <1>4 DEF JournalType, Latest

-----------------------------------------------------------------------------
(* Every step keeps the shape of the state and the links between the phase,    *)
(* the mounts, the plan in memory and the plan in the journal.                 *)

Shape == TypeOK /\ Phases /\ Reachable /\ Planned /\ Bare

LEMMA ShapeParts ==
  Shape => /\ DiskType /\ JournalType
           /\ Media \in Moves /\ move \in Moves /\ mounted \subseteq {"source", "target"} /\ kind \in [Moves -> Kinds]
BY DEF Shape, TypeOK, DiskType, JournalType, Records, Shares, Moves

LEMMA InitShape == Init => Shape
<1> SUFFICES ASSUME Init PROVE Shape
  OBVIOUS
<1>1. JournalType /\ Len(journals) = 0
  BY EmptySeq DEF Init, JournalType
<1>2. DiskType
  BY DEF Init, DiskType, Untouched, Contents
<1>3. TypeOK
  BY <1>1, <1>2, RenameAssumption
  DEF Init, TypeOK, JournalType, Records, DiskType, Moves, Shares
<1>4. Bare
  BY Places DEF Init, Bare, Untouched
<1>5. Reachable
  BY RenameAssumption DEF Init, Reachable, Working
<1> QED BY <1>1, <1>3, <1>4, <1>5 DEF Init, Shape, Phases, Planned, Working

LEMMA FileStepTyped ==
  ASSUME Shape, [Next]_vars
  PROVE  DiskType'
<1> USE ShapeParts
<1>0. /\ \A m \in Moves : disk[m] \in [Entries -> Contents]
      /\ "part" \in Names /\ "from" \in Names /\ "to" \in Names /\ {Src, Dst, Part} \subseteq Names
      /\ "other" \in Contents /\ "torn" \in Contents
  BY OwnNames DEF DiskType, Names, Contents
<1>1. CASE UNCHANGED disk
  BY <1>1 DEF DiskType
<1>2. ASSUME NEW m \in Moves, NEW n \in Names, Drops(m, n)
      PROVE  DiskType'
  BY <1>0, <1>2, UnlinkOne, WriteOne DEF Drops
<1>3. ASSUME NEW c \in Contents, Fills(c)
      PROVE  DiskType'
  <2>1. [disk[move] EXCEPT ![Entry(move, Part)] = c] \in [Entries -> Contents]
    BY <1>0, EntryName
  <2> QED BY <1>3, <2>1, WriteOne DEF Fills
<1>4. ASSUME NEW a \in Names, NEW b \in Names, Puts(a, b)
      PROVE  DiskType'
  BY <1>4, RenameOne, WriteOne DEF Puts
<1>5. ASSUME NEW m \in Moves, Arrive(m)
      PROVE  DiskType'
  <2>1. [disk[m] EXCEPT !["to"] = "other"] \in [Entries -> Contents]
    BY <1>0
  <2> QED BY <1>5, <2>1, WriteOne DEF Arrive
<1>6. CASE Works
  BY <1>0, <1>2, <1>3, <1>4, <1>6, LookTyped DEF Works
<1>7. CASE Clears
  BY <1>0, <1>2, <1>7 DEF Clears
<1> QED BY <1>1, <1>5, <1>6, <1>7, FileSteps

LEMMA BareStep ==
  ASSUME Shape, [Next]_vars
  PROVE  Bare'
<1> USE ShapeParts
<1>0. /\ \A m \in Moves : disk[m] \in [Entries -> Contents]
      /\ "part" \in Names /\ "from" \in Names /\ "to" \in Names
      /\ UNCHANGED kind /\ undone => undone'
  BY EnvSteps DEF DiskType, Names
<1> DEFINE Mounts == {"to below", "part below", "from below", "back below"}
           Empty(m) == \A k \in Mounts : disk'[m][k] \in {disk[m][k], "none"}
<1>1. Mounts \subseteq Entries /\ Bare /\ Phases /\ Reachable
  BY Places DEF Shape
<1>2. ASSUME NEW m \in Moves, Empty(m)
      PROVE  /\ disk'[m]["to below"] = "none" /\ disk'[m]["part below"] = "none"
             /\ disk'[m]["from below"] # "none" \/ disk'[m]["back below"] # "none" =>
                  kind'[m] = "copy" /\ undone' /\ ~(back' /\ mounted' = Shares)
  <2>1. disk'[m]["to below"] = "none" /\ disk'[m]["part below"] = "none"
    BY <1>1, <1>2 DEF Bare
  <2>2. ASSUME disk'[m]["from below"] # "none" \/ disk'[m]["back below"] # "none"
        PROVE  kind'[m] = "copy" /\ undone' /\ ~(back' /\ mounted' = Shares)
    <3>1. disk[m]["from below"] # "none" \/ disk[m]["back below"] # "none"
      BY <1>2, <2>2
    <3>2. kind[m] = "copy" /\ undone /\ ~(back /\ mounted = Shares)
      BY <1>1, <3>1 DEF Bare
    <3> QED BY <1>0, <1>1, <3>2, EnvSteps DEF Phases
  <2> QED BY <2>1, <2>2
<1> HIDE DEF Empty
<1>3. SUFFICES ASSUME NEW m \in Moves
               PROVE  Empty(m) \/ (/\ disk'[m]["to below"] = "none" /\ disk'[m]["part below"] = "none"
                                   /\ kind[m] = "copy" /\ undone' /\ ~(back' /\ mounted' = Shares))
  BY <1>2, EnvSteps DEF Bare
<1> USE DEF Empty
<1>4. CASE disk'[m] = disk[m]
  BY <1>4
<1>5. ASSUME NEW q \in Moves, NEW n \in Names, Drops(q, n)
      PROVE  Empty(m)
  <2>1. disk'[q] = Unlinked(disk[q], q, n) /\ \A r \in Moves \ {q} : disk'[r] = disk[r]
    BY <1>5, WriteOne DEF Drops
  <2>2. \A k \in Entries : Unlinked(disk[q], q, n)[k] \in {disk[q][k], "none"}
    BY <1>0, UnlinkOne
  <2> QED BY <1>1, <2>1, <2>2
<1>6. ASSUME NEW q \in Moves, Arrive(q)
      PROVE  Empty(m)
  <2>1. [disk[q] EXCEPT !["to"] = "other"] \in [Entries -> Contents]
        /\ \A k \in Mounts : [disk[q] EXCEPT !["to"] = "other"][k] = disk[q][k]
    BY <1>0, Places DEF Contents
  <2>2. disk'[q] = [disk[q] EXCEPT !["to"] = "other"] /\ \A r \in Moves \ {q} : disk'[r] = disk[r]
    BY <1>6, WriteOne DEF Arrive
  <2> QED BY <2>1, <2>2
<1>7. CASE Clears
  BY <1>0, <1>5, <1>7 DEF Clears
<1>8. ASSUME Works, move = m
      PROVE  Empty(m) \/ (/\ disk'[m]["to below"] = "none" /\ disk'[m]["part below"] = "none"
                          /\ kind[m] = "copy" /\ undone' /\ ~(back' /\ mounted' = Shares))
  <2>1. Working /\ "target" \in mounted /\ phase # "idle"
    BY <1>1, <1>8 DEF Works, Working, Reachable
  <2>2. mounted' = mounted /\ (back => undone)
    BY <1>1, <2>1, EnvSteps DEF Phases
  <2>3. {Src, Dst, Part} \subseteq Names /\ Dst \in Names
    BY OwnNames
  <2>4. kind[m] # "copy" => mounted = Shares
    BY <1>1, <2>1 DEF Reachable
  <2>5. CASE \E n \in {Part, Src} : Drops(move, n)
    BY <1>5, <2>3, <2>5
  <2>6. ASSUME NEW c, Fills(c)
        PROVE  \/ Empty(m)
               \/ back /\ mounted # Shares /\ disk'[m]["to below"] = "none" /\ disk'[m]["part below"] = "none"
    <3>1. disk'[m] = [disk[m] EXCEPT ![Entry(m, Part)] = c]
      BY <1>8, <2>6, WriteOne DEF Fills
    <3>2. CASE mounted = Shares \/ ~back
      <4>1. Entry(m, Part) \in {"part", "back"}
        BY <2>1, <3>2, Places DEF Entry, Part, Shares, ShareOf
      <4> QED BY <1>0, <1>1, <3>1, <4>1
    <3>3. CASE mounted # Shares /\ back
      <4>1. Entry(m, Part) = "back below" \/ Entry(m, Part) = "back" \/ Entry(m, Part) = "part"
        BY <2>1, <3>3, Places DEF Entry, Part, Shares, ShareOf
      <4>2. disk'[m]["to below"] = disk[m]["to below"] /\ disk'[m]["part below"] = disk[m]["part below"]
        BY <1>0, <1>1, <3>1, <4>1
      <4> QED BY <1>1, <3>3, <4>2 DEF Bare
    <3> QED BY <3>2, <3>3
  <2>7. ASSUME NEW a \in Names, Puts(a, Dst)
        PROVE  \/ Empty(m)
               \/ back /\ mounted # Shares /\ disk'[m]["to below"] = "none" /\ disk'[m]["part below"] = "none"
    <3>1. \A k \in Entries : disk'[m][k] \in {disk[m][k], "none"} \/ k = Place(Dst)
      BY <1>8, <2>3, <2>7, RenameOne, WriteOne DEF Puts
    <3>2. Place(Dst) \in {"to", "from"} \/ (Place(Dst) = "from below" /\ back /\ mounted # Shares)
      BY <2>1, Places DEF Dst, Shares
    <3> QED BY <1>1, <3>1, <3>2 DEF Bare
  <2>8. ASSUME back, mounted # Shares
        PROVE  kind[m] = "copy" /\ undone' /\ ~(back' /\ mounted' = Shares)
    <3>1. kind[m] = "copy" /\ mounted' # Shares
      BY <2>2, <2>4, <2>8
    <3>2. undone'
      BY <2>2, <2>8, EnvSteps
    <3> QED BY <3>1, <3>2
  <2> HIDE DEF Empty
  <2> QED BY <1>8, <2>3, <2>5, <2>6, <2>7, <2>8 DEF Works
<1>9. ASSUME Works, move # m
      PROVE  disk'[m] = disk[m]
  BY <1>9, WriteOne DEF Works, Drops, Fills, Puts
<1> HIDE DEF Empty
<1> QED BY <1>4, <1>6, <1>7, <1>8, <1>9, FileSteps

\* The entry below the mount point of the target is never there.
LEMMA TargetThere ==
  ASSUME Shape, NEW m \in Moves, Exists(m, "to")
  PROVE  "target" \in mounted
<1>1. CASE kind[m] = "case" \/ kind[m] # "case"
  BY Places DEF Exists, Look, Entry, ShareOf, Shape, Bare
<1> QED BY <1>1

LEMMA JournalStepTyped ==
  ASSUME Shape, [Next]_vars
  PROVE  JournalType'
<1> USE ShapeParts
<1>0. Media \in Moves /\ move \in Moves /\ ops \subseteq Moves /\ left \subseteq Moves
      /\ row.cars \subseteq Moves
  BY DEF Shape, TypeOK, Moves
<1>1. CASE UNCHANGED journals
  BY <1>1 DEF JournalType
<1>2. ASSUME NEW rec \in Records, rec.tried \subseteq rec.ops, journals' = Append(journals, rec)
      PROVE  JournalType'
  BY <1>2, AppendOne
<1>3. ASSUME NEW rec \in Records, rec.tried \subseteq rec.ops, journals # <<>>, Rewrite(rec)
      PROVE  JournalType'
  BY <1>3, RewriteOne
<1>4. ASSUME NEW b \in BOOLEAN, Start(b)
      PROVE  JournalType'
  <2>1. Record("absent", {}, {}) \in Records /\ Record("absent", {}, {}).tried \subseteq Record("absent", {}, {}).ops
    BY DEF Record, Records
  <2> QED BY <1>1, <1>2, <1>4, <2>1 DEF Start
<1>5. CASE Plan
  <2> DEFINE rec == Record("open", {Media} \cup row.cars, {})
  <2>1. rec \in Records /\ rec.tried \subseteq rec.ops
    BY <1>0 DEF Record, Records
  <2> QED BY <1>2, <1>3, <1>5, <2>1 DEF Plan, Shape, Planned
<1>6. CASE Duplicate \/ AlreadyMoved
  <2>1. Record("open", ops, {}) \in Records /\ Record("open", ops, {}).tried \subseteq Record("open", ops, {}).ops
    BY <1>0 DEF Record, Records
  <2>2. journals # <<>>
    BY <1>6 DEF Duplicate, AlreadyMoved, Reconcile, Shape, Planned
  <2> QED BY <1>3, <1>6, <2>1, <2>2 DEF Duplicate, AlreadyMoved, Replan
<1>7. ASSUME NEW m \in Moves, Begin(m) \/ (AttemptUnlink /\ m = Media)
      PROVE  JournalType'
  <2>1. journals # <<>> /\ m \in Latest.ops
    BY <1>7 DEF Begin, AttemptUnlink, Chosen, Shape, Phases, Planned, Working
  <2>2. [Latest EXCEPT !.tried = @ \cup {m}] \in Records
        /\ [Latest EXCEPT !.tried = @ \cup {m}].tried \subseteq [Latest EXCEPT !.tried = @ \cup {m}].ops
    BY <2>1, LatestTyped DEF Records
  <2> QED BY <1>3, <1>7, <2>1, <2>2 DEF Begin, AttemptUnlink, Attempt
<1>8. ASSUME NEW t \in {"complete", "aborted"}, Terminal(t), journals # <<>>
      PROVE  JournalType'
  <2>1. [Latest EXCEPT !.state = t] \in Records
        /\ [Latest EXCEPT !.state = t].tried \subseteq [Latest EXCEPT !.state = t].ops
    BY <1>8, LatestTyped DEF Records
  <2> QED BY <1>3, <1>8, <2>1 DEF Terminal
<1>9. CASE ItemDone \/ ItemAborted
  <2>1. journals # <<>>
    BY <1>9 DEF ItemDone, ItemAborted, Shape, Phases, Planned, Working
  <2> QED BY <1>8, <1>9, <2>1 DEF ItemDone, ItemAborted
<1>10. CASE \/ Abandon \/ DeleteSource \/ Ambiguous \/ (\E s \in Sidecars : Tidy(s)) \/ RollForward
            \/ NotInBatch \/ SoftSkip \/ MarkSuccess \/ MarkFailed
            \/ Rename \/ CopyBegins \/ CopyEnds \/ VerifyCopy \/ VerifyFails \/ Finalize \/ Delete
            \/ UndoStep \/ OpThrows \/ Crash \/ Verify \/ UndoBegins \/ MountsChange
            \/ \E m \in Moves : Arrive(m) \/ Sweep(m) \/ PreflightFails(m)
  BY <1>1, <1>10 DEF Abandon, DeleteSource, Ambiguous, Tidy, RollForward, NotInBatch, SoftSkip,
     MarkSuccess, MarkFailed, Rename, CopyBegins, CopyEnds, VerifyCopy, VerifyFails, Finalize, Delete, UndoStep,
     UndoDebris, UndoMove, UndoEnds, OpThrows, PreflightFails, Fails, Crash, Verify, UndoBegins, MountsChange,
     Arrive, Sweep
<1>11. UNCHANGED vars => UNCHANGED journals
  BY DEF vars
<1> QED BY <1>1, <1>4, <1>5, <1>6, <1>7, <1>9, <1>10, <1>11
  DEF Next, Process, Recovery, ItemStep, MoveStep

\* What is left of TypeOK.
ControlType ==
  /\ kind \in [Moves -> Kinds] /\ faults \subseteq Faults
  /\ mounted \subseteq Shares
  /\ ledger \in {"none", "success", "failed", "skipped"}
  /\ row \in [eligible : BOOLEAN, cars : SUBSET Sidecars]
  /\ phase \in {"idle", "opened", "duplicate", "unlink", "tidy", "item", "next", "renaming", "copying",
                "streaming", "copied", "finalize", "delete", "finish", "failed", "aborted"}
  /\ move \in Moves /\ left \subseteq Moves /\ ops \subseteq Moves
  /\ batch \in BOOLEAN /\ mine \in BOOLEAN /\ rolling \in BOOLEAN /\ back \in BOOLEAN
  /\ crashes \in Nat /\ undone \in BOOLEAN

LEMMA SplitType == TypeOK <=> ControlType /\ DiskType /\ JournalType
BY DEF TypeOK, ControlType, DiskType, JournalType, Records

LEMMA ControlStep ==
  ASSUME Shape, [Next]_vars
  PROVE  ControlType' /\ Phases' /\ Reachable'
<1> USE RenameAssumption DEF ControlType, Phases, Reachable
<1>0. /\ ControlType /\ Phases /\ Reachable /\ UNCHANGED kind
      /\ Media \in Moves /\ Sidecars \subseteq Moves /\ row.cars \subseteq Moves
      /\ Shares = {"source", "target"}
  BY SplitType, EnvSteps DEF Shape, Moves, Shares
<1>1. journals # <<>> => Latest.ops \subseteq Moves /\ Latest.tried \subseteq Moves
  BY ShapeParts, LatestTyped DEF Records
<1>23. ASSUME UNCHANGED <<mounted, batch>>, phase' = "item" \/ "target" \in mounted
       PROVE  Reachable'
  BY <1>0, <1>23 DEF Working
<1>2. CASE Abandon \/ Ambiguous
  <2>1. ControlType'
    BY <1>0, <1>2 DEF Abandon, Ambiguous, Reconcile, env, memory
  <2>2. Phases'
    BY <1>0, <1>2 DEF Abandon, Ambiguous, Reconcile, env, memory, Working
  <2>3. Reachable'
    BY <1>2, <1>23 DEF Abandon, Ambiguous, memory
  <2> QED BY <2>1, <2>2, <2>3
<1>3. CASE Duplicate \/ AlreadyMoved
  <2>0. "target" \in mounted
    BY <1>0, <1>3, TargetThere DEF Duplicate, AlreadyMoved, BothThere
  <2>1. ControlType'
    BY <1>0, <1>3, <2>0 DEF Duplicate, AlreadyMoved, Reconcile, env, memory
  <2>2. Phases'
    BY <1>0, <1>3, <2>0 DEF Duplicate, AlreadyMoved, Reconcile, env, memory, Working
  <2>3. Reachable'
    BY <1>0, <1>3, <2>0 DEF Duplicate, AlreadyMoved, Reconcile, env, memory, Working
  <2> QED BY <2>1, <2>2, <2>3
<1>4. CASE DeleteSource \/ RollForward \/ AttemptUnlink
  <2>1. ControlType'
    BY <1>0, <1>4 DEF DeleteSource, RollForward, AttemptUnlink, env, memory
  <2>2. Phases'
    BY <1>0, <1>4 DEF DeleteSource, RollForward, AttemptUnlink, env, memory, Working
  <2>3. Reachable'
    BY <1>0, <1>4 DEF DeleteSource, RollForward, AttemptUnlink, env, memory, Working
  <2> QED BY <2>1, <2>2, <2>3
<1>18. ASSUME NEW s \in Sidecars, Tidy(s)
      PROVE  ControlType' /\ Phases' /\ Reachable'
  <2>1. ControlType'
    BY <1>0, <1>18 DEF Tidy, env
  <2>2. Phases'
    BY <1>0, <1>18 DEF Tidy, env, Working
  <2>3. Reachable'
    BY <1>0, <1>18 DEF Tidy, env, Working
  <2> QED BY <2>1, <2>2, <2>3
<1>5. CASE NotInBatch \/ SoftSkip
  BY <1>0, <1>5 DEF NotInBatch, SoftSkip, Gone, env, Working
<1>6. CASE Plan
  BY <1>0, <1>6 DEF Plan, env, Working
<1>7. CASE ItemDone \/ MarkSuccess
  BY <1>0, <1>7 DEF ItemDone, MarkSuccess, ItemEnds, Gone, env, memory, Working
<1>21. CASE ItemAborted \/ MarkFailed
  BY <1>0, <1>21 DEF ItemAborted, MarkFailed, ItemEnds, Gone, env, memory, Working
<1>8. ASSUME NEW m \in Moves, Begin(m)
      PROVE  ControlType' /\ Phases' /\ Reachable'
  BY <1>0, <1>8 DEF Begin, FirstStep, env, Working
<1>9. CASE Rename \/ CopyBegins \/ CopyEnds \/ VerifyCopy \/ Finalize \/ Delete
  <2>1. ControlType'
    BY <1>0, <1>9 DEF Rename, CopyBegins, CopyEnds, VerifyCopy, Finalize, Delete, DeletesFirst, env, memory
  <2>2. Phases'
    BY <1>0, <1>9 DEF Rename, CopyBegins, CopyEnds, VerifyCopy, Finalize, Delete, DeletesFirst, env, memory, Working
  <2>3. "target" \in mounted /\ UNCHANGED <<mounted, batch>>
    BY <1>0, <1>9 DEF Rename, CopyBegins, CopyEnds, VerifyCopy, Finalize, Delete, memory, Working
  <2> QED BY <1>23, <2>1, <2>2, <2>3
<1>10. CASE VerifyFails \/ OpThrows \/ \E m \in Moves : PreflightFails(m)
  <2>1. /\ Fails
        /\ UNCHANGED <<kind, faults, crashes, undone, mounted, row>>
        /\ phase = "next" \/ Working
    BY <1>10 DEF VerifyFails, OpThrows, PreflightFails, env, Working
  <2>2. ControlType'
    BY <1>0, <2>1 DEF Fails, memory
  <2>3. Phases'
    BY <1>0, <2>1 DEF Fails, memory, Working
  <2>4. Reachable'
    BY <1>0, <2>1 DEF Fails, memory, Working
  <2> QED BY <2>2, <2>3, <2>4
<1>11. ASSUME NEW m \in Moves, UndoDebris(m) \/ UndoMove(m)
      PROVE  ControlType' /\ Phases' /\ Reachable'
  <2>1. Exists(m, "to") => "target" \in mounted
    BY TargetThere
  <2>2. ControlType'
    BY <1>0, <1>11 DEF UndoDebris, UndoMove, FirstStep, env
  <2>3. Phases'
    BY <1>0, <1>11 DEF UndoDebris, UndoMove, FirstStep, env, Working
  <2>4. Reachable'
    <3>1. CASE UndoDebris(m)
      BY <1>0, <3>1 DEF UndoDebris, Working
    <3>2. CASE UndoMove(m)
      BY <1>23, <2>1, <3>2 DEF UndoMove
    <3> QED BY <1>11, <3>1, <3>2
  <2> QED BY <2>2, <2>3, <2>4
<1>22. ASSUME NEW m \in Moves, Sweep(m)
      PROVE  ControlType' /\ Phases' /\ Reachable'
  <2>1. ControlType'
    BY <1>0, <1>22 DEF Sweep, env, memory
  <2>2. Phases'
    BY <1>0, <1>22 DEF Sweep, env, memory, Working
  <2>3. Reachable'
    BY <1>0, <1>22 DEF Sweep, env, memory, Working
  <2> QED BY <2>1, <2>2, <2>3
<1>12. CASE UndoEnds
  <2>1. ControlType'
    BY <1>0, <1>12 DEF UndoEnds, Gone, env
  <2>2. Phases'
    BY <1>0, <1>12 DEF UndoEnds, Gone, env, Working
  <2>3. Reachable'
    BY <1>0, <1>12 DEF UndoEnds, Gone, env, Working
  <2> QED BY <2>1, <2>2, <2>3
<1>19. CASE Crash
  <2>1. ControlType'
    <3>1. Gone /\ crashes' = crashes + 1 /\ UNCHANGED <<kind, faults, undone, mounted, ledger, row>>
      BY <1>19 DEF Crash
    <3>2. crashes' \in Nat
      BY <1>0, <3>1
    <3> QED BY <1>0, <3>1, <3>2 DEF Gone
  <2>2. Phases'
    BY <1>0, <1>19 DEF Crash, Gone, Working
  <2>3. Reachable'
    BY <1>0, <1>19 DEF Crash, Gone, Working
  <2> QED BY <2>1, <2>2, <2>3
<1>13. CASE UndoBegins
  <2>1. ControlType'
    BY <1>0, <1>1, <1>13 DEF UndoBegins
  <2>2. Phases'
    BY <1>0, <1>13 DEF UndoBegins, Working
  <2>3. Reachable'
    BY <1>0, <1>13 DEF UndoBegins, Working
  <2> QED BY <2>1, <2>2, <2>3
<1>14. CASE Verify
  <2>1. row' \in [eligible : BOOLEAN, cars : SUBSET Sidecars]
    BY <1>14 DEF Verify
  <2> QED BY <1>0, <1>14, <2>1 DEF Verify, env, memory, Working
<1>15. CASE MountsChange
  <2>1. ControlType'
    BY <1>0, <1>15 DEF MountsChange, env, memory
  <2>2. Phases'
    BY <1>0, <1>15 DEF MountsChange, env, memory, Working
  <2>3. Reachable'
    BY <1>0, <1>15 DEF MountsChange, env, memory, Working
  <2> QED BY <2>1, <2>2, <2>3
<1>20. ASSUME NEW m \in Moves, Arrive(m)
      PROVE  ControlType' /\ Phases' /\ Reachable'
  <2>1. ControlType'
    BY <1>0, <1>20 DEF Arrive, env, memory
  <2>2. Phases'
    BY <1>0, <1>20 DEF Arrive, env, memory, Working
  <2>3. Reachable'
    BY <1>0, <1>20 DEF Arrive, env, memory, Working
  <2> QED BY <2>1, <2>2, <2>3
<1>16. ASSUME NEW b \in BOOLEAN, Start(b)
      PROVE  ControlType' /\ Phases' /\ Reachable'
  <2>1. ops' \subseteq Moves
    BY <1>0, <1>1, <1>16 DEF Start, Unresolved
  <2>2. phase' \in {"opened", "item"} /\ mine' \in BOOLEAN /\ (b => mounted = Shares)
    BY <1>16 DEF Start, Opens, Unresolved
  <2> QED BY <1>0, <1>16, <2>1, <2>2 DEF Start, env, Working
<1>17. CASE UNCHANGED vars
  BY <1>0, <1>17 DEF vars, Working
<1> QED BY <1>2, <1>3, <1>4, <1>5, <1>6, <1>7, <1>8, <1>9, <1>10, <1>11, <1>12, <1>13, <1>14,
           <1>15, <1>16, <1>17, <1>18, <1>19, <1>20, <1>21, <1>22
  DEF Next, Process, Recovery, ItemStep, MoveStep, UndoStep

\* The journals and the memory agree after a record, given they did before.
LEMMA RecordPlanned ==
  ASSUME Shape, NEW rec \in Records, rec.tried \subseteq rec.ops,
         \/ journals # <<>> /\ Rewrite(rec)
         \/ journals' = Append(journals, rec),
         rec.state = "open" => Media \in rec.ops
  PROVE  /\ journals' # <<>> /\ Latest' = rec
         /\ \A i \in 1 .. Len(journals') : journals'[i].state = "open" => Media \in journals'[i].ops
<1> USE ShapeParts
<1>1. \A i \in 1 .. Len(journals) : journals[i].state = "open" => Media \in journals[i].ops
  BY DEF Shape, Planned
<1>2. CASE journals # <<>> /\ Rewrite(rec)
  <2>1. /\ journals' # <<>> /\ Latest' = rec /\ Len(journals') = Len(journals)
        /\ \A i \in 1 .. Len(journals) : i # Len(journals) => journals'[i] = journals[i]
    BY <1>2, RewriteOne
  <2> QED BY <1>1, <2>1 DEF Latest
<1>3. CASE journals' = Append(journals, rec)
  <2>1. /\ journals' # <<>> /\ Latest' = rec /\ Len(journals') = Len(journals) + 1
        /\ \A i \in 1 .. Len(journals) : journals'[i] = journals[i]
    BY <1>3, AppendOne
  <2>2. Len(journals) \in Nat
    BY LenProperties DEF JournalType
  <2>3. \A i \in 1 .. Len(journals') : i \in 1 .. Len(journals) \/ i = Len(journals')
    BY <2>1, <2>2
  <2> QED BY <1>1, <2>1, <2>3 DEF Latest
<1> QED BY <1>2, <1>3

LEMMA PlannedStep ==
  ASSUME Shape, [Next]_vars
  PROVE  Planned'
<1>0. /\ Planned /\ Phases /\ JournalType /\ Media \in Moves /\ move \in Moves
      /\ ops \subseteq Moves /\ left \subseteq Moves /\ row.cars \subseteq Moves
      /\ journals # <<>> => Latest \in Records /\ Latest.tried \subseteq Latest.ops
  BY ShapeParts, LatestTyped DEF Shape, TypeOK, Moves
<1>1. ASSUME NEW b \in BOOLEAN, Start(b)
      PROVE  Planned'
  <2>1. CASE Unresolved
    <3>1. Record("absent", {}, {}) \in Records /\ Record("absent", {}, {}).state = "absent"
          /\ Record("absent", {}, {}).tried \subseteq Record("absent", {}, {}).ops
      BY DEF Record, Records
    <3>2. Media \in Latest.ops
      BY <1>0, <2>1, ShapeParts, LatestTyped DEF Unresolved, Planned, Latest
    <3>3. /\ journals' # <<>>
          /\ \A i \in 1 .. Len(journals') : journals'[i].state = "open" => Media \in journals'[i].ops
      BY <1>1, <2>1, <3>1, RecordPlanned DEF Start
    <3> QED BY <1>1, <2>1, <3>2, <3>3 DEF Start, Opens, Planned, Working
  <2>2. CASE ~Unresolved
    BY <1>0, <1>1, <2>2 DEF Start, Opens, Planned, Working
  <2> QED BY <2>1, <2>2
<1>2. CASE Plan
  <2> DEFINE rec == Record("open", {Media} \cup row.cars, {})
  <2>1. rec \in Records /\ rec.tried \subseteq rec.ops /\ Media \in rec.ops
        /\ rec.ops = {Media} \cup row.cars
    BY <1>0 DEF Record, Records
  <2>2. (journals # <<>> /\ Rewrite(rec)) \/ journals' = Append(journals, rec)
    BY <1>0, <1>2 DEF Plan, Planned
  <2>3. /\ journals' # <<>> /\ Latest' = rec
        /\ \A i \in 1 .. Len(journals') : journals'[i].state = "open" => Media \in journals'[i].ops
    BY <2>1, <2>2, RecordPlanned
  <2> QED BY <1>2, <2>1, <2>3 DEF Plan, Planned, Working
<1>3. CASE Duplicate \/ AlreadyMoved
  <2>1. Rewrite(Record("open", ops, {})) /\ Media \in ops /\ mine /\ journals # <<>>
    BY <1>0, <1>3 DEF Duplicate, AlreadyMoved, Reconcile, Replan, Planned
  <2>2. /\ Record("open", ops, {}) \in Records /\ Record("open", ops, {}).ops = ops
        /\ Record("open", ops, {}).tried \subseteq Record("open", ops, {}).ops
    BY <1>0 DEF Record, Records
  <2>3. /\ journals' # <<>> /\ Latest'.ops = ops
        /\ \A i \in 1 .. Len(journals') : journals'[i].state = "open" => Media \in journals'[i].ops
    BY <2>1, <2>2, RecordPlanned
  <2>4. left' \subseteq ops \/ phase' = "duplicate"
    BY <1>3 DEF Duplicate, AlreadyMoved
  <2> QED BY <1>3, <2>1, <2>3, <2>4 DEF Duplicate, AlreadyMoved, Planned, Working, memory
<1>4. ASSUME NEW m \in Moves, Begin(m) \/ (AttemptUnlink /\ m = Media)
      PROVE  Planned'
  <2> DEFINE rec == [Latest EXCEPT !.tried = @ \cup {m}]
  <2>1. mine /\ Media \in ops /\ Latest.ops = ops /\ journals # <<>> /\ m \in ops
    BY <1>0, <1>4 DEF Begin, AttemptUnlink, Chosen, Planned, Phases, Working
  <2>2. /\ rec \in Records /\ rec.tried \subseteq rec.ops
        /\ rec.ops = ops
    BY <1>0, <2>1 DEF Records
  <2>3. Rewrite(rec)
    BY <1>4 DEF Begin, AttemptUnlink, Attempt
  <2>4. /\ journals' # <<>> /\ Latest'.ops = ops
        /\ \A i \in 1 .. Len(journals') : journals'[i].state = "open" => Media \in journals'[i].ops
    BY <2>1, <2>2, <2>3, RecordPlanned
  <2>5. CASE Begin(m)
    <3>1. left \subseteq ops
      BY <1>0, <2>5 DEF Begin, Planned
    <3> QED BY <2>1, <2>4, <2>5, <3>1 DEF Begin, FirstStep, Planned, Working
  <2>6. CASE AttemptUnlink
    BY <2>1, <2>4, <2>6 DEF AttemptUnlink, Planned, Working, memory
  <2> QED BY <1>4, <2>5, <2>6
<1>5. ASSUME NEW t \in {"complete", "aborted"}, Terminal(t), mine
      PROVE  /\ journals' # <<>> /\ Latest'.ops = Latest.ops
             /\ \A i \in 1 .. Len(journals') : journals'[i].state = "open" => Media \in journals'[i].ops
  <2> DEFINE rec == [Latest EXCEPT !.state = t]
  <2>1. journals # <<>> /\ rec \in Records /\ rec.tried \subseteq rec.ops /\ rec.ops = Latest.ops /\ rec.state = t
    BY <1>0, <1>5 DEF Records, Planned
  <2> QED BY <1>5, <2>1, RecordPlanned DEF Terminal
<1>6. CASE ItemDone \/ ItemAborted
  <2>1. mine /\ Media \in ops /\ Latest.ops = ops /\ left \subseteq ops
    BY <1>0, <1>6 DEF ItemDone, ItemAborted, Planned, Phases, Working
  <2> QED BY <1>5, <1>6, <2>1 DEF ItemDone, ItemAborted, Planned, Working, memory
<1>7. CASE VerifyFails \/ OpThrows \/ \E m \in Moves : PreflightFails(m)
  <2>1. Fails /\ (phase = "next" \/ Working)
    BY <1>7 DEF VerifyFails, OpThrows, PreflightFails, Working
  <2> QED BY <1>0, <2>1 DEF Fails, memory, Planned, Working, Latest
<1>8. CASE NotInBatch \/ SoftSkip \/ UndoEnds \/ Crash
  <2>1. Gone /\ UNCHANGED journals
    BY <1>8 DEF NotInBatch, SoftSkip, UndoEnds, Crash
  <2> QED BY <1>0, <2>1 DEF Gone, Planned, Working
<1>9. CASE MarkSuccess \/ MarkFailed
  BY <1>0, <1>9 DEF MarkSuccess, MarkFailed, ItemEnds, Gone, memory, Planned, Working, Latest
<1>10. CASE UndoBegins
  BY <1>0, <1>10 DEF UndoBegins, Planned
<1>11. CASE \/ Abandon \/ Ambiguous \/ DeleteSource \/ RollForward
            \/ Rename \/ CopyBegins \/ CopyEnds \/ VerifyCopy \/ Finalize \/ Delete
            \/ Verify \/ MountsChange \/ UNCHANGED vars
  <2>1. /\ UNCHANGED <<journals, ops, mine, back>>
        /\ left' = left \/ left' \subseteq ops
        /\ phase' \in {"item", phase} \/ (phase \in {"unlink", "tidy"} \/ Working)
        /\ phase' # "opened" \/ phase = "opened"
        /\ phase' \notin {"duplicate", "unlink"} \/ phase' = phase
        /\ phase = "unlink" => left' \subseteq ops \/ phase' = "unlink"
    BY <1>11 DEF Abandon, Ambiguous, DeleteSource, RollForward, Rename, CopyBegins, CopyEnds, VerifyCopy,
       Finalize, Delete, Verify, MountsChange, vars, memory, Working, Reconcile
  <2> QED BY <1>0, <2>1 DEF Planned, Working, Latest
<1>12. ASSUME NEW m \in Moves, Tidy(m) \/ UndoDebris(m) \/ UndoMove(m) \/ Arrive(m) \/ Sweep(m)
       PROVE  Planned'
  <2>1. /\ UNCHANGED <<journals, ops, mine, back>>
        /\ left' \subseteq left
        /\ phase' \in {"item", phase} \/ back
        /\ phase' \in {"opened", "duplicate", "unlink"} => phase' = phase
        /\ phase \in {"duplicate", "unlink"} => phase' = phase \/ back
    BY <1>12 DEF Tidy, UndoDebris, UndoMove, FirstStep, Arrive, Sweep, memory
  <2> QED BY <1>0, <2>1 DEF Planned, Working, Latest
<1> QED BY <1>1, <1>2, <1>3, <1>4, <1>6, <1>7, <1>8, <1>9, <1>10, <1>11, <1>12
  DEF Next, Process, Recovery, ItemStep, MoveStep, UndoStep, Moves

LEMMA ShapeStep == Shape /\ [Next]_vars => Shape'
<1> SUFFICES ASSUME Shape, [Next]_vars PROVE Shape'
  OBVIOUS
<1>1. TypeOK'
  BY FileStepTyped, JournalStepTyped, ControlStep
  DEF TypeOK, ControlType, DiskType, JournalType, Records
<1> QED BY <1>1, ControlStep, PlannedStep, BareStep DEF Shape

-----------------------------------------------------------------------------
(* Where the bytes are.                                                        *)

\* What may be found under a name of a move. A case-only rename never meets the
\* file of another program; for another move only the operator's undo puts a file
\* under the source, and an incomplete copy is found under a partial alone.
CleanFiles(m, f) ==
  /\ kind[m] = "case" => \A n \in Entries : f[n] # "other"
  /\ kind[m] # "case" => f["from"] \in {"orig", "none"} /\ f["to"] # "torn" /\ f["from below"] # "torn"

\* The bytes are at the source, at the target, or where the undo put them while the
\* source share was away.
Keeps(m, f) == kind[m] # "case" => "orig" \in {f["from"], f["to"], f["from below"]}

Kept == \A m \in Moves : CleanFiles(m, disk[m]) /\ Keeps(m, disk[m])

\* Where they are in each phase of the move under way. A foreign file may have
\* come under the target since the gate, the bytes have not.
InFlight ==
  kind[move] # "case" =>
    /\ Working => Look(move, Src) # "none" /\ (back /\ mounted = Shares => Look(move, Src) = "orig")
    /\ Working /\ phase # "delete" => Look(move, Dst) \in {"none", "other"}
    /\ phase = "finalize" => Look(move, Part) = Look(move, Src)
    /\ phase = "delete" => Look(move, Dst) = Look(move, Src)

\* The reconciliation deletes a source only with the same bytes at the target.
UnlinkSafe ==
  phase \in {"duplicate", "unlink"} /\ kind[Media] # "case" =>
    Look(Media, "from") # "none" /\ Look(Media, "to") = Look(Media, "from")

Bytes == Kept /\ InFlight /\ UnlinkSafe

LEMMA InitBytes == Init => Bytes
<1> SUFFICES ASSUME Init PROVE Bytes
  OBVIOUS
<1>1. \A m \in Moves : disk[m] = Untouched
  BY DEF Init
<1>2. Untouched["from"] = "orig" /\ \A n \in Entries : Untouched[n] \in {"orig", "none"}
  BY Places DEF Untouched
<1>3. {"from", "to", "from below"} \subseteq Entries
  BY Places
<1>4. Kept
  BY <1>1, <1>2, <1>3 DEF Kept, CleanFiles, Keeps
<1> QED BY <1>4 DEF Init, Bytes, InFlight, UnlinkSafe, Working

\* What a lookup finds of a move that is not case-only.
LEMMA LookSees ==
  ASSUME NEW m \in Moves, NEW n \in Names, kind[m] # "case"
  PROVE  /\ Look(m, n) = disk[m][Place(n)]
         /\ mounted = Shares => Look(m, n) = disk[m][n]
<1>1. mounted = Shares => Place(n) = n
  BY Places DEF Shares
<1> QED BY <1>1, EntryName DEF Look

\* What a lookup finds changes with the files of the move only.
LEMMA LookStable ==
  ASSUME NEW m \in Moves, NEW n, UNCHANGED <<kind, mounted>>, disk'[m] = disk[m]
  PROVE  Look(m, n)' = Look(m, n)
BY DEF Look, Entry, Place

\* Removing a partial keeps the bytes.
LEMMA DropPartial ==
  ASSUME DiskType, NEW m \in Moves, NEW n \in {"part", "back"}, CleanFiles(m, disk[m]), Keeps(m, disk[m])
  PROVE  CleanFiles(m, Unlinked(disk[m], m, n)) /\ Keeps(m, Unlinked(disk[m], m, n))
<1>1. n \in Names /\ Entry(m, n) \in {"part", "back", "part below", "back below"}
  BY EntryName, Places
<1>2. \A k \in Entries : Unlinked(disk[m], m, n)[k] = IF k = Entry(m, n) THEN "none" ELSE disk[m][k]
  BY <1>1, UnlinkOne DEF DiskType
<1> QED BY <1>1, <1>2, Places DEF CleanFiles, Keeps

\* Removing one of two files that are equal keeps them, when neither is below the
\* mount point of the target.
LEMMA DropEqual ==
  ASSUME Shape, NEW m \in Moves, NEW a \in {"from", "to"}, NEW b \in {"from", "to"}, a # b,
         CleanFiles(m, disk[m]), Keeps(m, disk[m]),
         kind[m] # "case" => Look(m, a) = Look(m, b) /\ "target" \in mounted
  PROVE  CleanFiles(m, Unlinked(disk[m], m, a)) /\ Keeps(m, Unlinked(disk[m], m, a))
<1>1. a \in Names /\ b \in Names
  BY Places
<1>2. \A k \in Entries : Unlinked(disk[m], m, a)[k] = IF k = Entry(m, a) THEN "none" ELSE disk[m][k]
  BY <1>1, ShapeParts, UnlinkOne DEF DiskType
<1>3. CASE kind[m] = "case"
  BY <1>2, <1>3, Places DEF CleanFiles, Keeps
<1>4. CASE kind[m] # "case"
  <2>1. Entry(m, a) = Place(a)
    BY <1>1, <1>4, EntryName
  <2>2. Look(m, a) = disk[m][Place(a)] /\ Look(m, b) = disk[m][Place(b)]
    BY <1>1, <1>4, LookSees
  <2>3. disk[m][Place(a)] = disk[m][Place(b)] /\ "target" \in mounted
    BY <1>4, <2>2
  <2> DEFINE f == Unlinked(disk[m], m, a)
  <2>4. \A k \in {"from", "to", "from below"} : f[k] = IF k = Place(a) THEN "none" ELSE disk[m][k]
    BY <1>2, <2>1, Places
  <2>5. {Place(a), Place(b)} \in {{"from", "to"}, {"from below", "to"}}
    BY <2>3, Places
  <2> HIDE DEF f
  <2>6. CleanFiles(m, f)
    BY <1>4, <2>4 DEF CleanFiles
  <2>7. Keeps(m, f)
    BY <2>3, <2>4, <2>5 DEF Keeps
  <2> QED BY <2>6, <2>7 DEF f
<1> QED BY <1>3, <1>4

\* A rename of the source, or of a copy of it, to where it goes keeps the bytes when
\* they are not there already.
LEMMA PutKeeps ==
  ASSUME Shape, Bytes, Working, NEW a \in {Src, Part},
         kind[move] # "case" => Look(move, a) = Look(move, Src) /\ Look(move, Dst) \in {"none", "other"}
  PROVE  CleanFiles(move, Renamed(move, a, Dst)) /\ Keeps(move, Renamed(move, a, Dst))
<1> USE ShapeParts
<1> DEFINE g == Renamed(move, a, Dst)
<1>1. a \in Names /\ Dst \in Names /\ Src \in Names /\ a # Dst
  BY OwnNames
<1>2. \A k \in Entries : g[k] = IF k = Place(Dst) THEN Look(move, a)
                                ELSE IF k \in {Entry(move, a), Entry(move, Dst)} THEN "none" ELSE disk[move][k]
  BY <1>1, RenameOne
<1>3. CleanFiles(move, disk[move]) /\ Keeps(move, disk[move])
  BY DEF Bytes, Kept
<1> HIDE DEF g
<1>4. CASE kind[move] = "case"
  <2>1. Look(move, a) # "other"
    BY <1>1, <1>3, <1>4, EntryName DEF Look, CleanFiles
  <2> QED BY <1>2, <1>3, <1>4, <2>1 DEF CleanFiles, Keeps, g
<1>5. CASE kind[move] # "case"
  <2>1. /\ Entry(move, a) = Place(a) /\ Entry(move, Dst) = Place(Dst)
        /\ Look(move, a) = disk[move][Place(a)] /\ Look(move, Src) = disk[move][Place(Src)]
        /\ Look(move, Dst) = disk[move][Place(Dst)]
    BY <1>1, <1>5, EntryName, LookSees
  <2>2. "target" \in mounted /\ (back /\ mounted = Shares => Look(move, Src) = "orig")
    BY <1>5 DEF Shape, Reachable, Bytes, InFlight
  <2>3. a \in {Src, Part} /\ (back => Src = "to" /\ Dst = "from" /\ Part = "back")
        /\ (~back => Src = "from" /\ Dst = "to" /\ Part = "part")
    BY DEF Src, Dst, Part
  <2>4. {"from", "to", "from below"} \subseteq Entries
    BY Places
  <2>5. CASE ~back
    <3>1. Place(Dst) = "to" /\ Place(a) \in {"from", "from below", "part"}
          /\ Look(move, a) = Look(move, Src) /\ Place(Src) \in {"from", "from below"}
      BY <1>5, <2>2, <2>3, <2>5, Places
    <3> QED BY <1>2, <1>3, <1>5, <2>1, <2>4, <3>1 DEF CleanFiles, Keeps, g
  <2>6. CASE back /\ mounted = Shares
    <3>1. Place(Dst) = "from" /\ Place(a) \in {"to", "back"} /\ Look(move, a) = "orig"
      BY <1>5, <2>2, <2>3, <2>6, Places DEF Shares
    <3> QED BY <1>2, <1>3, <1>5, <2>1, <2>4, <3>1 DEF CleanFiles, Keeps, g
  <2>7. CASE back /\ mounted # Shares
    <3>1. Place(Dst) = "from below" /\ Place(a) \in {"to", "back below"} /\ Place(Src) = "to"
          /\ Look(move, a) = Look(move, Src)
      BY <1>5, <2>2, <2>3, <2>7, Places DEF Shares
    <3> QED BY <1>2, <1>3, <1>5, <2>1, <2>4, <3>1 DEF CleanFiles, Keeps, g
  <2> QED BY <2>5, <2>6, <2>7
<1> QED BY <1>4, <1>5 DEF g

\* A step writes the files of one move at most, and keeps the bytes.
LEMMA BytesStep ==
  ASSUME Shape, Bytes, [Next]_vars
  PROVE  Kept'
<1> USE ShapeParts
<1>0. /\ \A m \in Moves : CleanFiles(m, disk[m]) /\ Keeps(m, disk[m]) /\ disk[m] \in [Entries -> Contents]
      /\ Names = {"from", "to", "part", "back"} /\ UNCHANGED kind
  BY Places, EnvSteps DEF Bytes, Kept, DiskType
<1> DEFINE OK(m, f) == CleanFiles(m, f) /\ Keeps(m, f)
<1>1. SUFFICES \A m \in Moves : OK(m, disk'[m])
  BY <1>0 DEF Kept, CleanFiles, Keeps
<1>2. ASSUME NEW q \in Moves, NEW f, OnDisk(q, f), OK(q, f)
      PROVE  \A m \in Moves : OK(m, disk'[m])
  BY <1>0, <1>2, WriteOne
<1>3. CASE UNCHANGED disk
  BY <1>0, <1>3
<1>4. ASSUME NEW m \in Moves, NEW n \in {"part", "back"}, Drops(m, n)
      PROVE  \A q \in Moves : OK(q, disk'[q])
  BY <1>0, <1>2, <1>4, DropPartial DEF Drops
<1>5. ASSUME NEW m \in Moves, NEW a \in {"from", "to"}, NEW b \in {"from", "to"}, a # b, Drops(m, a),
             kind[m] # "case" => Look(m, a) = Look(m, b) /\ "target" \in mounted
      PROVE  \A q \in Moves : OK(q, disk'[q])
  BY <1>0, <1>2, <1>5, DropEqual DEF Drops
<1>6. CASE Clears
  <2>1. \A m \in Moves : BothThere(m) /\ SameFile(m) => Look(m, "from") = Look(m, "to") /\ "target" \in mounted
    BY TargetThere DEF BothThere, SameFile
  <2>2. CASE \E m \in Moves : Drops(m, "part")
    BY <1>4, <2>2
  <2>3. CASE \E m \in Moves : BothThere(m) /\ SameFile(m) /\ (Drops(m, "from") \/ Drops(m, "to"))
    BY <1>5, <2>1, <2>3
  <2>4. CASE phase = "unlink" /\ Drops(Media, "from")
    <3>1. kind[Media] # "case" => Look(Media, "from") = Look(Media, "to") /\ "target" \in mounted
      BY <2>4, TargetThere DEF Bytes, UnlinkSafe, Exists
    <3> QED BY <1>5, <2>4, <3>1
  <2> QED BY <1>6, <2>2, <2>3, <2>4 DEF Clears
<1>7. CASE Works
  <2>0. Working
    BY <1>7 DEF Works, Working
  <2>1. ASSUME NEW c, c = "torn" \/ c = Look(move, Src), Fills(c)
        PROVE  \A q \in Moves : OK(q, disk'[q])
    <3> DEFINE f == [disk[move] EXCEPT ![Entry(move, Part)] = c]
    <3>1. Part \in Names /\ Entry(move, Part) \in {"part", "back", "part below", "back below"}
      BY EntryName, OwnNames
    <3>2. kind[move] = "case" => c # "other"
      BY <1>0, <2>1, OwnNames, EntryName DEF Look, CleanFiles
    <3>3. \A k \in Entries : f[k] = IF k = Entry(move, Part) THEN c ELSE disk[move][k]
      BY <1>0
    <3>6. CleanFiles(move, disk[move]) /\ Keeps(move, disk[move])
      BY <1>0
    <3>7. /\ f["from"] = disk[move]["from"] /\ f["to"] = disk[move]["to"]
          /\ f["from below"] = disk[move]["from below"]
      BY <3>1, <3>3, Places
    <3>8. kind[move] = "case" => \A n \in Entries : f[n] # "other"
      BY <3>2, <3>3, <3>6 DEF CleanFiles
    <3>4. OK(move, f)
      <4> HIDE DEF f
      <4> QED BY <3>6, <3>7, <3>8 DEF CleanFiles, Keeps
    <3>5. OnDisk(move, f)
      BY <2>1 DEF Fills
    <3> HIDE DEF f, OK
    <3> QED BY <1>2, <3>4, <3>5
  <2>2. CASE Drops(move, Part)
    BY <1>4, <2>2, OwnNames
  <2>3. CASE phase = "renaming" /\ Puts(Src, Dst)
    <3>1. OK(move, Renamed(move, Src, Dst))
      BY <2>0, <2>3, PutKeeps DEF Bytes, InFlight
    <3> HIDE DEF OK
    <3> QED BY <1>2, <2>3, <3>1 DEF Puts
  <2>4. CASE phase = "finalize" /\ Puts(Part, Dst)
    <3>1. OK(move, Renamed(move, Part, Dst))
      BY <2>0, <2>4, PutKeeps DEF Bytes, InFlight
    <3> HIDE DEF OK
    <3> QED BY <1>2, <2>4, <3>1 DEF Puts
  <2>5. CASE phase = "delete" /\ Drops(move, Src)
    <3>1. kind[move] # "case" => Look(move, Src) = Look(move, Dst) /\ "target" \in mounted
      BY <2>0, <2>5 DEF Bytes, InFlight, Shape, Reachable
    <3> QED BY <1>5, <2>5, <3>1, OwnNames
  <2> QED BY <1>7, <2>1, <2>2, <2>3, <2>4, <2>5 DEF Works
<1>8. ASSUME NEW m \in Moves, Arrive(m)
      PROVE  \A q \in Moves : OK(q, disk'[q])
  <2> DEFINE f == [disk[m] EXCEPT !["to"] = "other"]
  <2>1. OK(m, f)
    BY <1>0, <1>8, Places DEF Arrive, CleanFiles, Keeps
  <2>2. OnDisk(m, f)
    BY <1>8 DEF Arrive
  <2> HIDE DEF f, OK
  <2> QED BY <1>2, <2>1, <2>2
<1> HIDE DEF OK
<1> QED BY <1>3, <1>6, <1>7, <1>8, FileSteps

\* A step that leaves no procedure under way.
LEMMA NoMove ==
  ASSUME ~Working', phase' \notin {"duplicate", "unlink"}
  PROVE  InFlight' /\ UnlinkSafe'
BY DEF InFlight, UnlinkSafe, Working

LEMMA FlightStep ==
  ASSUME Shape, Bytes, [Next]_vars
  PROVE  InFlight' /\ UnlinkSafe'
<1> USE ShapeParts
<1>0. /\ \A m \in Moves : disk[m] \in [Entries -> Contents] /\ CleanFiles(m, disk[m]) /\ Keeps(m, disk[m])
      /\ "from" \in Names /\ "to" \in Names /\ "part" \in Names /\ "back" \in Names
      /\ UNCHANGED kind /\ DiskType'
  BY EnvSteps, Places, FileStepTyped DEF Bytes, Kept, DiskType
<1>1. CASE Duplicate \/ AttemptUnlink
  <2>1. UNCHANGED <<mounted, disk>> /\ ~Working' /\ (phase = "duplicate" \/ (BothThere(Media) /\ SameFile(Media)))
    BY <1>1 DEF Duplicate, AttemptUnlink, Working
  <2>2. kind[Media] # "case" => Look(Media, "from") # "none" /\ Look(Media, "to") = Look(Media, "from")
    BY <2>1 DEF SameFile, Exists, Bytes, UnlinkSafe
  <2>3. Look(Media, "from")' = Look(Media, "from") /\ Look(Media, "to")' = Look(Media, "to")
    BY <1>0, <2>1, LookStable
  <2>4. UnlinkSafe'
    BY <1>0, <2>2, <2>3 DEF UnlinkSafe
  <2>5. ~Working' /\ phase' \notin {"finalize", "delete"}
    BY <2>1 DEF Working
  <2> QED BY <2>4, <2>5 DEF InFlight
<1>2. ASSUME NEW m \in Moves, Begin(m)
      PROVE  InFlight' /\ UnlinkSafe'
  <2>1. /\ move' = m /\ phase' \in {"renaming", "copying"} /\ ~back /\ ~back' /\ UNCHANGED <<kind, disk, mounted>>
        /\ Exists(m, "from") /\ (kind[m] # "case" => ~Exists(m, "to"))
    BY <1>2 DEF Begin, Preflight, FirstStep, Src, Dst, env
  <2>2. Look(m, "from")' # "none" /\ (kind[m] # "case" => Look(m, "to")' = "none")
    BY <2>1, LookStable DEF Exists
  <2>3. Src' = "from" /\ Dst' = "to" /\ UnlinkSafe'
    BY <2>1 DEF Src, Dst, UnlinkSafe
  <2>4. phase' # "delete" /\ phase' # "finalize"
    BY <2>1
  <2> QED BY <2>1, <2>2, <2>3, <2>4 DEF InFlight
<1>3. ASSUME NEW m \in Moves, UndoMove(m)
      PROVE  InFlight' /\ UnlinkSafe'
  <2>1. /\ move' = m /\ phase' \in {"renaming", "copying", "next"} /\ back /\ back' /\ UNCHANGED <<kind, disk, mounted>>
        /\ Exists(m, "to") /\ ~Exists(m, "from")
    BY <1>3 DEF UndoMove, FirstStep, env
  <2>2. /\ Look(m, "to")' = Look(m, "to") /\ Look(m, "to") # "none"
        /\ Look(m, "from")' = "none" /\ Look(m, "from") = "none"
    BY <2>1, LookStable DEF Exists
  <2>3. kind[m] # "case" /\ mounted = Shares => Look(m, "to") = "orig"
    <3>1. SUFFICES ASSUME kind[m] # "case", mounted = Shares
                   PROVE  Look(m, "to") = "orig"
      OBVIOUS
    <3>2. Look(m, "to") = disk[m]["to"] /\ disk[m]["from"] = "none"
      BY <1>0, <2>2, <3>1, LookSees
    <3>3. disk[m]["from below"] = "none"
      BY <2>1, <3>1 DEF Shape, Bare
    <3> QED BY <1>0, <3>1, <3>2, <3>3 DEF Keeps
  <2> QED BY <1>0, <2>1, <2>2, <2>3 DEF InFlight, UnlinkSafe, Src, Dst
<1>4. ASSUME NEW n \in Names, NEW k \in Names, kind[move] # "case", n # k, UNCHANGED <<mounted, move>>,
             \/ \E c : Fills(c) /\ k = Part
             \/ Drops(move, k)
             \/ \E b \in Names : Puts(k, b) /\ n # b
             \/ \E a \in Names : Puts(a, k) /\ n # a
      PROVE  Look(move, n)' = Look(move, n)
  <2>0. move \in Moves
    OBVIOUS
  <2>1. Entry(move, n) = Place(n) /\ Entry(move, k) = Place(k) /\ Place(n) # Place(k) /\ Place(n) \in Entries
    <3>1. Entry(move, n) = Place(n) /\ Entry(move, k) = Place(k)
      BY <1>4, <2>0, EntryName
    <3>2. Place(n) # Place(k) /\ Place(n) \in Entries
      BY <1>4, Places
    <3> QED BY <3>1, <3>2
  <2>2. Look(move, n)' = disk'[move][Place(n)] /\ Look(move, n) = disk[move][Place(n)]
    BY <1>0, <1>4, <2>1 DEF Look, Entry, Place
  <2>3. CASE \E c : Fills(c) /\ k = Part
    BY <1>0, <2>1, <2>2, <2>3, WriteOne DEF Fills
  <2>4. CASE Drops(move, k)
    BY <1>0, <1>4, <2>1, <2>2, <2>4, WriteOne, UnlinkOne DEF Drops
  <2>5. ASSUME NEW a \in Names, NEW b \in Names, Puts(a, b), n # a, n # b
        PROVE  disk'[move][Place(n)] = disk[move][Place(n)]
    <3>1. Entry(move, a) = Place(a) /\ Entry(move, b) = Place(b)
      BY <1>4, <2>5, EntryName
    <3>2. Place(n) # Place(a) /\ Place(n) # Place(b)
      BY <2>5, Places
    <3> QED BY <2>1, <2>5, <3>1, <3>2, WriteOne, RenameOne DEF Puts
  <2> QED BY <1>4, <2>2, <2>3, <2>4, <2>5
<1>5. CASE CopyBegins \/ CopyEnds
  <2>1. /\ UNCHANGED <<move, back, mounted>> /\ phase' \in {"streaming", "copied"} /\ phase \in {"copying", "streaming"}
        /\ UNCHANGED disk \/ \E c : Fills(c)
    BY <1>5 DEF CopyBegins, CopyEnds, Fills, memory, env
  <2>3. Src' = Src /\ Dst' = Dst
    BY <2>1 DEF Src, Dst
  <2>4. ASSUME NEW n \in {Src, Dst}, kind[move] # "case"
        PROVE  Look(move, n)' = Look(move, n)
    <3>0. n \in Names /\ Part \in Names /\ n # Part
      BY OwnNames
    <3>1. CASE UNCHANGED disk
      <4>1. UNCHANGED <<kind, mounted, disk, move>>
        BY <1>0, <2>1, <3>1
      <4> QED BY <4>1 DEF Look, Entry, Place
    <3>2. CASE \E c : Fills(c)
      BY <1>4, <2>1, <2>4, <3>0, <3>2
    <3> QED BY <2>1, <3>1, <3>2
  <2>2. kind[move] # "case" => Look(move, Src)' = Look(move, Src) /\ Look(move, Dst)' = Look(move, Dst)
    <3> DEFINE s == Src
               d == Dst
    <3>1. kind[move] # "case" => Look(move, s)' = Look(move, s) /\ Look(move, d)' = Look(move, d)
      BY <2>3, <2>4
    <3> QED BY <3>1
  <2> QED BY <1>0, <2>1, <2>2, <2>3 DEF Bytes, InFlight, UnlinkSafe, Working
<1>6. CASE VerifyCopy
  <2>1. UNCHANGED <<move, back, mounted, disk>> /\ phase = "copied" /\ phase' \in {"finalize", "delete"}
        /\ (kind[move] # "case" => phase' = "finalize") /\ Look(move, Part) = Look(move, Src)
    BY <1>6 DEF VerifyCopy, Verified, DeletesFirst, memory, env
  <2>2. \A n : Look(move, n)' = Look(move, n)
    BY <1>0, <2>1, LookStable
  <2>3. Src' = Src /\ Dst' = Dst /\ Part' = Part
    BY <2>1 DEF Src, Dst, Part
  <2> QED BY <1>0, <2>1, <2>2, <2>3 DEF Bytes, InFlight, UnlinkSafe, Working
<1>7. CASE Finalize
  <2>1. UNCHANGED <<move, back, mounted>> /\ phase = "finalize" /\ phase' \in {"next", "delete"} /\ Puts(Part, Dst)
    BY <1>7 DEF Finalize, Puts, memory, env
  <2>2. kind[move] # "case" => Look(move, Src)' = Look(move, Src) /\ Look(move, Dst)' = Look(move, Part)
    <3>1. SUFFICES ASSUME kind[move] # "case"
                   PROVE  Look(move, Src)' = Look(move, Src) /\ Look(move, Dst)' = Look(move, Part)
      OBVIOUS
    <3>2. Look(move, Src)' = Look(move, Src)
      <4>1. Src' = Src
        BY <2>1 DEF Src
      <4> QED BY <1>4, <2>1, <3>1, <4>1, OwnNames
    <3>3. Look(move, Dst)' = disk'[move][Place(Dst)] /\ Place(Dst) \in Entries
      <4>1. Dst' = Dst
        BY <2>1 DEF Dst
      <4> QED BY <1>0, <2>1, <3>1, <4>1, OwnNames, Places DEF Look, Entry, Place
    <3>4. disk'[move][Place(Dst)] = Look(move, Part)
      BY <2>1, <3>3, OwnNames, WriteOne, RenameOne DEF Puts
    <3> QED BY <3>2, <3>3, <3>4
  <2>3. Src' = Src /\ Dst' = Dst
    BY <2>1 DEF Src, Dst
  <2> QED BY <1>0, <2>1, <2>2, <2>3 DEF Bytes, InFlight, UnlinkSafe, Working
<1>8. CASE Delete
  <2>1. UNCHANGED <<kind, move>> /\ phase' = IF kind[move] = "case" THEN "finalize" ELSE "next"
    BY <1>0, <1>8 DEF Delete, DeletesFirst, memory, env
  <2> QED BY <2>1 DEF InFlight, UnlinkSafe, Working
<1>9. CASE \/ Abandon \/ DeleteSource \/ AlreadyMoved \/ Ambiguous \/ RollForward \/ ItemStep \/ Rename
           \/ UndoEnds \/ Crash \/ (\E b \in BOOLEAN : Start(b)) \/ UndoBegins \/ Verify \/ MountsChange
           \/ VerifyFails \/ OpThrows \/ \E m \in Moves : UndoDebris(m) \/ Tidy(m) \/ Sweep(m) \/ PreflightFails(m)
  <2>1. ~Working' /\ phase' \notin {"duplicate", "unlink"}
    <3>1. CASE ItemStep
      BY <3>1 DEF ItemStep, NotInBatch, SoftSkip, Plan, ItemDone, MarkSuccess, ItemAborted, MarkFailed, ItemEnds,
         Gone, Working
    <3>2. CASE VerifyFails \/ OpThrows \/ \E m \in Moves : PreflightFails(m)
      BY <3>2 DEF VerifyFails, OpThrows, PreflightFails, Fails, Working
    <3>3. CASE \E m \in Moves : UndoDebris(m) \/ Tidy(m) \/ Sweep(m)
      BY <3>3 DEF UndoDebris, Tidy, Sweep, Working
    <3>4. CASE \/ Abandon \/ DeleteSource \/ AlreadyMoved \/ Ambiguous \/ RollForward \/ Rename
               \/ UndoEnds \/ Crash \/ (\E b \in BOOLEAN : Start(b)) \/ UndoBegins \/ Verify \/ MountsChange
      BY <3>4 DEF Abandon, DeleteSource, AlreadyMoved, Ambiguous, RollForward, Rename, UndoEnds, Crash, Start,
         Opens, UndoBegins, Verify, MountsChange, Gone, Working
    <3> QED BY <1>9, <3>1, <3>2, <3>3, <3>4
  <2> QED BY <2>1, NoMove
<1>10. ASSUME NEW m \in Moves, Arrive(m)
       PROVE  InFlight' /\ UnlinkSafe'
  <2>1. /\ UNCHANGED <<phase, move, back, mounted>> /\ kind[m] # "case" /\ disk[m]["to"] = "none"
        /\ disk'[m] = [disk[m] EXCEPT !["to"] = "other"] /\ \A q \in Moves \ {m} : disk'[q] = disk[q]
    BY <1>10, WriteOne DEF Arrive, memory
  <2>2. \A q \in Moves : \A n : q # m => Look(q, n)' = Look(q, n)
    BY <1>0, <2>1, LookStable
  <2>3. Src' = Src /\ Dst' = Dst /\ Part' = Part
    BY <2>1 DEF Src, Dst, Part
  <2>4. \A n \in Names : Look(m, n) = disk[m][Place(n)] /\ Look(m, n)' = disk'[m][Place(n)] /\ Place(n) \in Entries
    BY <1>0, <2>1, LookSees, Places DEF Look, Entry, Place
  <2>5. ASSUME NEW n \in Names
        PROVE  Look(m, n)' = Look(m, n) \/ (n = "to" /\ Look(m, n) = "none" /\ Look(m, n)' = "other")
    <3>1. Look(m, n) = disk[m][Place(n)] /\ Look(m, n)' = disk'[m][Place(n)] /\ Place(n) \in Entries
      BY <2>4
    <3>2. disk'[m][Place(n)] = IF Place(n) = "to" THEN "other" ELSE disk[m][Place(n)]
      BY <1>0, <2>1, <3>1
    <3>3. Place(n) = "to" => n = "to"
      BY Places
    <3> QED BY <2>1, <3>1, <3>2, <3>3
  <2>6. UnlinkSafe'
    BY <1>0, <2>1, <2>2, <2>5 DEF Bytes, UnlinkSafe
  <2>7. kind[move] # "case" /\ Working =>
          /\ Look(move, Src)' = Look(move, Src)
          /\ Look(move, Dst)' \in {Look(move, Dst), "other"}
          /\ Look(move, Part)' = Look(move, Part)
          /\ phase = "delete" => Look(move, Dst)' = Look(move, Dst)
    <3> SUFFICES ASSUME kind[move] # "case", Working
                 PROVE  /\ Look(move, Src)' = Look(move, Src)
                        /\ Look(move, Dst)' \in {Look(move, Dst), "other"}
                        /\ Look(move, Part)' = Look(move, Part)
                        /\ phase = "delete" => Look(move, Dst)' = Look(move, Dst)
      OBVIOUS
    <3>0. move' = move /\ Src \in Names /\ Dst \in Names /\ Part \in Names /\ Src \in {"from", "to"}
          /\ Part # "to" /\ move \in Moves
      BY <2>1, OwnNames
    <3>1. CASE move # m
      BY <2>2, <2>3, <3>0, <3>1
    <3>2. CASE move = m
      <4>1. Look(m, Src)' = Look(m, Src) \/ (Look(m, Src) = "none")
        BY <2>3, <2>5, <3>0
      <4>2. Look(m, Dst)' = Look(m, Dst) \/ (Look(m, Dst) = "none" /\ Look(m, Dst)' = "other")
        BY <2>3, <2>5, <3>0
      <4>3. Look(m, Part)' = Look(m, Part)
        BY <2>3, <2>5, <3>0
      <4>4. Look(m, Src) # "none" /\ (phase = "delete" => Look(m, Dst) = Look(m, Src))
        BY <3>2 DEF Bytes, InFlight
      <4> QED BY <3>0, <3>2, <4>1, <4>2, <4>3, <4>4
    <3> QED BY <3>1, <3>2
  <2>8. InFlight'
    BY <1>0, <2>1, <2>3, <2>7 DEF Bytes, InFlight, Working
  <2> QED BY <2>6, <2>8
<1>11. CASE UNCHANGED vars
  <2>1. UNCHANGED <<phase, move, back, mounted, disk>>
    BY <1>11 DEF vars
  <2>2. \A m \in Moves : \A n : Look(m, n)' = Look(m, n)
    BY <1>0, <2>1, LookStable
  <2>3. Src' = Src /\ Dst' = Dst /\ Part' = Part
    BY <2>1 DEF Src, Dst, Part
  <2> QED BY <1>0, <2>1, <2>2, <2>3 DEF Bytes, InFlight, UnlinkSafe, Working
<1> QED BY <1>1, <1>2, <1>3, <1>5, <1>6, <1>7, <1>8, <1>9, <1>10, <1>11
  DEF Next, Process, Recovery, MoveStep, UndoStep, Moves

LEMMA Inductive == Spec => [](Shape /\ Bytes)
<1>1. Init => Shape /\ Bytes
  BY InitShape, InitBytes
<1>2. Shape /\ Bytes /\ [Next]_vars => Shape' /\ Bytes'
  BY ShapeStep, BytesStep, FlightStep DEF Bytes
<1> QED BY <1>1, <1>2, PTL DEF Spec

-----------------------------------------------------------------------------
\* Shape of the state.
THEOREM TypeCorrect == Spec => []TypeOK
BY Inductive, PTL DEF Shape

\* No crash, fault, reconciliation or undo loses the bytes of a move that is not
\* case-only: they are at the source or at the target, or where an undo put them
\* while the source share was away.
THEOREM OriginalsKept == Spec => []OriginalKept
<1>1. Shape /\ Bytes => OriginalKept
  BY DEF Shape, Bare, Bytes, Kept, Keeps, OriginalKept, InLibrary, Below
<1> QED BY <1>1, Inductive, PTL

-----------------------------------------------------------------------------
(* The files of other programs.                                                *)

\* Only a procedure of move.ts puts a file where none was, or another program.
LEMMA Appears ==
  ASSUME Shape, [Next]_vars, NEW m \in Moves, NEW k \in Entries, disk'[m][k] \notin {disk[m][k], "none"}
  PROVE  (Works /\ m = move) \/ (Arrive(m) /\ k = "to" /\ disk'[m][k] = "other")
<1> USE ShapeParts
<1>0. (\A q \in Moves : disk[q] \in [Entries -> Contents]) /\ {"from", "to", "part"} \subseteq Names
  BY Places DEF DiskType
<1>1. CASE Clears
  <2>1. PICK q \in Moves, n \in {"from", "to", "part"} : Drops(q, n)
    BY <1>1 DEF Clears
  <2>2. disk'[q] = Unlinked(disk[q], q, n) /\ \A r \in Moves \ {q} : disk'[r] = disk[r]
    BY <2>1, WriteOne DEF Drops
  <2>3. Unlinked(disk[q], q, n)[k] \in {disk[q][k], "none"}
    <3>1. n \in Names /\ disk[q] \in [Entries -> Contents]
      BY <1>0
    <3>2. Unlinked(disk[q], q, n)[k] = IF k = Entry(q, n) THEN "none" ELSE disk[q][k]
      BY <3>1, UnlinkOne
    <3> QED BY <3>2
  <2> QED BY <2>2, <2>3
<1>2. ASSUME Works, m # move
      PROVE  FALSE
  BY <1>2, WriteOne DEF Works, Fills, Puts, Drops
<1>3. ASSUME NEW q \in Moves, Arrive(q)
      PROVE  Arrive(m) /\ k = "to" /\ disk'[m][k] = "other"
  <2>1. disk'[q] = [disk[q] EXCEPT !["to"] = "other"] /\ \A r \in Moves \ {q} : disk'[r] = disk[r]
    BY <1>3, WriteOne DEF Arrive
  <2>2. m = q
    BY <2>1
  <2> QED BY <1>0, <1>3, <2>1, <2>2
<1> QED BY <1>1, <1>2, <1>3, FileSteps

\* A foreign file under a target goes only in the rename that ends a move to there.
LEMMA TargetStep ==
  ASSUME Shape, Bytes, [Next]_vars, mounted = Shares \/ ~back,
         NEW m \in Moves, disk[m]["to"] = "other", disk'[m]["to"] # "other"
  PROVE  m = move /\ ~back /\ phase \in {"renaming", "finalize"}
<1> USE ShapeParts
<1>0. /\ \A q \in Moves : disk[q] \in [Entries -> Contents]
      /\ {"from", "to", "part"} \subseteq Names /\ {Src, Dst, Part} \subseteq Names
      /\ "to" \in Entries /\ kind[m] # "case" /\ CleanFiles(m, disk[m])
  BY Places, OwnNames DEF DiskType, Bytes, Kept, CleanFiles
<1>1. ASSUME NEW q \in Moves, NEW n \in Names, Drops(q, n)
      PROVE  q = m /\ n = "to" /\ Look(m, "to") = "other"
  <2>1. disk'[q] = Unlinked(disk[q], q, n) /\ \A r \in Moves \ {q} : disk'[r] = disk[r]
    BY <1>1, WriteOne DEF Drops
  <2>2. q = m
    BY <2>1
  <2>3. Entry(m, n) = "to"
    BY <1>0, <2>1, <2>2, UnlinkOne
  <2>4. Entry(m, n) = Place(n) /\ Look(m, n) = disk[m][Place(n)]
    BY <1>0, EntryName, LookSees
  <2> QED BY <2>2, <2>3, <2>4, Places
<1>2. CASE Works
  <2>1. Working /\ "target" \in mounted /\ m = move
    <3>1. Working
      BY <1>2 DEF Works, Working
    <3>2. m = move
      BY <1>2, WriteOne DEF Works, Fills, Puts, Drops
    <3> QED BY <3>1, <3>2 DEF Shape, Reachable
  <2>2. back => Look(move, Src) = "orig" /\ Src = "to" /\ Dst = "from" /\ Part = "back" /\ mounted = Shares
    BY <1>0, <2>1 DEF Bytes, InFlight, Src, Dst, Part
  <2>3. ~back => Src = "from" /\ Dst = "to" /\ Part = "part"
    BY DEF Src, Dst, Part
  <2>4. ASSUME NEW c, Fills(c)
        PROVE  FALSE
    <3>1. Entry(move, Part) # "to"
      BY <1>0, <2>1, EntryName, OwnNames
    <3> QED BY <1>0, <2>1, <2>4, <3>1, WriteOne DEF Fills
  <2>5. CASE Drops(move, Part)
    BY <1>0, <1>1, <2>5, OwnNames
  <2>6. CASE phase = "delete" /\ Drops(move, Src)
    <3>1. Src = "to" /\ Look(m, "to") = "other"
      BY <1>0, <1>1, <2>6
    <3> QED BY <2>1, <2>2, <2>3, <3>1
  <2>7. CASE phase = "renaming" /\ Puts(Src, Dst)
    <3>1. SUFFICES ~back
      BY <2>1, <2>7
    <3>2. back => Look(m, "to") = "other"
      BY <1>0, <2>2, LookSees
    <3> QED BY <2>1, <2>2, <3>2
  <2>8. CASE phase = "finalize" /\ Puts(Part, Dst)
    <3>1. SUFFICES ASSUME back
                   PROVE  FALSE
      BY <2>1, <2>8
    <3>2. Place(Dst) = "from" /\ Entry(m, Dst) = "from" /\ Entry(m, Part) = "back"
      BY <1>0, <2>2, <3>1, EntryName, Places DEF Shares
    <3>3. disk'[m]["to"] = Renamed(move, Part, Dst)["to"]
      BY <2>1, <2>8, WriteOne DEF Puts
    <3>4. Renamed(move, Part, Dst)["to"] = disk[m]["to"]
      BY <1>0, <2>1, <3>2, RenameOne
    <3> QED BY <3>3, <3>4
  <2> QED BY <1>2, <2>4, <2>5, <2>6, <2>7, <2>8 DEF Works
<1>3. CASE Clears
  <2>1. ASSUME NEW q \in Moves, back, BothThere(q), SameFile(q), Drops(q, "to")
        PROVE  FALSE
    <3>1. q = m /\ Look(m, "from") = "other" /\ Look(m, "from") = disk[m]["from"]
      BY <1>0, <1>1, <2>1, LookSees DEF SameFile
    <3> QED BY <1>0, <3>1 DEF CleanFiles
  <2> QED BY <1>0, <1>1, <1>3, <2>1 DEF Clears
<1>4. ASSUME NEW q \in Moves, Arrive(q)
      PROVE  FALSE
  <2>1. disk'[q] = [disk[q] EXCEPT !["to"] = "other"] /\ \A r \in Moves \ {q} : disk'[r] = disk[r]
    BY <1>4, WriteOne DEF Arrive
  <2> QED BY <1>0, <2>1
<1> QED BY <1>2, <1>3, <1>4, FileSteps

\* A move begins with its target free.
LEMMA BeginsFree ==
  ASSUME Shape, [Next]_vars, phase = "next", phase' \in {"renaming", "copying"}, ~back
  PROVE  kind[move'] = "case" \/ disk[move']["to"] = "none"
<1> USE ShapeParts
<1>1. PICK m \in Moves : Begin(m)
  <2>1. CASE Recovery
    BY <2>1 DEF Recovery, Abandon, Duplicate, AttemptUnlink, DeleteSource, AlreadyMoved, Ambiguous, Tidy, RollForward,
       Reconcile
  <2>2. CASE ItemStep
    BY <2>2 DEF ItemStep, NotInBatch, SoftSkip, Plan, ItemDone, MarkSuccess, ItemAborted, MarkFailed
  <2>3. CASE UndoStep \/ \E m \in Moves : Sweep(m)
    BY <2>3 DEF UndoStep, UndoDebris, UndoMove, UndoEnds, Sweep
  <2>4. CASE VerifyFails \/ OpThrows \/ \E m \in Moves : PreflightFails(m)
    BY <2>4 DEF VerifyFails, OpThrows, PreflightFails, Fails
  <2>5. CASE \/ Rename \/ CopyBegins \/ CopyEnds \/ VerifyCopy \/ Finalize \/ Delete \/ Crash \/ Verify \/ UndoBegins
             \/ (\E b \in BOOLEAN : Start(b)) \/ (\E m \in Moves : Arrive(m)) \/ MountsChange \/ UNCHANGED vars
    BY <2>5 DEF Rename, CopyBegins, CopyEnds, VerifyCopy, Finalize, Delete, Crash, Gone, Verify, UndoBegins, Start,
       Arrive, MountsChange, vars
  <2> QED BY <2>1, <2>2, <2>3, <2>4, <2>5 DEF Next, Process, MoveStep
<1>2. move' = m /\ (kind[m] = "case" \/ ~Exists(m, "to")) /\ "target" \in mounted
  BY <1>1 DEF Begin, Preflight, Dst, Shape, Reachable
<1>3. kind[m] # "case" => Look(m, "to") = disk[m]["to"]
  BY <1>2, LookSees, Places
<1> QED BY <1>2, <1>3 DEF Exists

\* Whatever arrives under a target, at any time, is replaced by nothing but the rename
\* that ends a move to there, and no move begins with a foreign file at its target.
THEOREM ForeignFilesKept == Spec => ForeignKept
<1>1. Shape /\ Bytes /\ [Next]_vars =>
        [mounted = Shares \/ ~back =>
           /\ \A m \in Moves : disk[m]["to"] = "other" /\ disk'[m]["to"] # "other" =>
                m = move /\ ~back /\ phase \in {"renaming", "finalize"}
           /\ phase = "next" /\ phase' \in {"renaming", "copying"} /\ ~back =>
                kind[move'] = "case" \/ disk[move']["to"] = "none"]_vars
  BY TargetStep, BeginsFree
<1> QED BY <1>1, Inductive, PTL DEF Spec, ForeignKept

-----------------------------------------------------------------------------
(* Write-ahead: the journals announce every effect.                            *)

TriedIn(m) == \E i \in 1 .. Len(journals) : m \in journals[i].tried

\* What is under way, and what the undo has still to do, is announced in the last
\* journal.  Its attempts are overwritten by a new plan only when there are none:
\* after a roll-forward of this run the media file is no longer under its source,
\* and the re-check of the batch refuses the item.
Announced ==
  /\ phase = "opened" => Latest.tried = {}
  /\ Working => move \in Latest.tried /\ journals # <<>>
  /\ back => left \subseteq Latest.tried /\ journals # <<>>
  /\ phase = "item" /\ batch /\ mine => Latest.tried = {} \/ Look(Media, "from") # "orig"
  /\ (phase = "tidy" \/ rolling) /\ batch => Look(Media, "from") # "orig"
  /\ phase = "tidy" => Media \notin left
  /\ rolling => /\ ~back /\ Media \notin left
                /\ phase \in {"next", "item", "finish", "failed", "aborted"} \/ (Working /\ move # Media)

\* The two names of a case-only rename are one entry.
OneEntry == \A m \in Moves : kind[m] = "case" => "none" \in {disk[m]["from"], disk[m]["to"]}

LEMMA LatestTried ==
  ASSUME JournalType, journals # <<>>
  PROVE  \A m \in Latest.tried : TriedIn(m)
BY LatestTyped DEF TriedIn, Latest

LEMMA RewriteKeepsTried ==
  ASSUME JournalType, journals # <<>>, NEW rec \in Records, rec.tried \subseteq rec.ops, Rewrite(rec),
         Latest.tried \subseteq rec.tried
  PROVE  \A m : TriedIn(m) => TriedIn(m)'
<1>1. /\ Latest' = rec /\ Len(journals') = Len(journals) /\ Len(journals) \in 1 .. Len(journals)
      /\ \A i \in 1 .. Len(journals) : i # Len(journals) => journals'[i] = journals[i]
  BY RewriteOne, LatestTyped
<1> QED BY <1>1 DEF TriedIn, Latest

LEMMA AppendKeepsTried ==
  ASSUME JournalType, NEW rec \in Records, rec.tried \subseteq rec.ops, journals' = Append(journals, rec)
  PROVE  \A m : TriedIn(m) => TriedIn(m)'
<1>1. /\ Len(journals') = Len(journals) + 1 /\ Len(journals) \in Nat
      /\ \A i \in 1 .. Len(journals) : journals'[i] = journals[i]
  BY AppendOne, LenProperties DEF JournalType
<1> QED BY <1>1 DEF TriedIn

LEMMA TriedGrows ==
  ASSUME Shape, Announced, [Next]_vars
  PROVE  \A m : TriedIn(m) => TriedIn(m)'
<1> USE ShapeParts
<1>0. /\ Media \in Moves /\ move \in Moves /\ ops \subseteq Moves /\ left \subseteq Moves
      /\ row.cars \subseteq Moves
      /\ journals # <<>> => Latest \in Records /\ Latest.tried \subseteq Latest.ops
  BY LatestTyped DEF Shape, TypeOK, Moves
<1> DEFINE Goal == \A m : TriedIn(m) => TriedIn(m)'
<1> SUFFICES Goal
  OBVIOUS
<1>1. CASE UNCHANGED journals
  BY <1>1 DEF TriedIn
<1>2. ASSUME NEW rec \in Records, rec.tried \subseteq rec.ops,
             \/ journals' = Append(journals, rec)
             \/ journals # <<>> /\ Rewrite(rec) /\ Latest.tried \subseteq rec.tried
      PROVE  Goal
  BY <1>2, AppendKeepsTried, RewriteKeepsTried
<1> HIDE DEF Goal
<1>3. ASSUME NEW b \in BOOLEAN, Start(b)
      PROVE  Goal
  <2>1. Record("absent", {}, {}) \in Records /\ Record("absent", {}, {}).tried \subseteq Record("absent", {}, {}).ops
    BY DEF Record, Records
  <2> QED BY <1>1, <1>2, <1>3, <2>1 DEF Start
<1>4. CASE Plan
  <2> DEFINE rec == Record("open", {Media} \cup row.cars, {})
  <2>1. rec \in Records /\ rec.tried \subseteq rec.ops
    BY <1>0 DEF Record, Records
  <2>2. mine => journals # <<>> /\ Latest.tried = {}
    BY <1>4 DEF Plan, Fits, Announced, Shape, Planned
  <2>3. journals' = Append(journals, rec) \/ (mine /\ Rewrite(rec))
    BY <1>4 DEF Plan
  <2> HIDE DEF rec
  <2> QED BY <1>2, <2>1, <2>2, <2>3
<1>5. CASE Duplicate \/ AlreadyMoved
  <2>1. Rewrite(Record("open", ops, {}))
    BY <1>5 DEF Duplicate, AlreadyMoved, Replan
  <2>2. journals # <<>> /\ Latest.tried = {}
    BY <1>5 DEF Duplicate, AlreadyMoved, Reconcile, Shape, Planned, Announced
  <2>3. Record("open", ops, {}) \in Records /\ Record("open", ops, {}).tried \subseteq Record("open", ops, {}).ops
    BY <1>0 DEF Record, Records
  <2> QED BY <1>2, <2>1, <2>2, <2>3
<1>6. ASSUME NEW m \in Moves, Begin(m) \/ (AttemptUnlink /\ m = Media)
      PROVE  Goal
  <2>1. journals # <<>> /\ m \in Latest.ops
    BY <1>6 DEF Begin, AttemptUnlink, Chosen, Shape, Phases, Planned, Working
  <2>2. /\ [Latest EXCEPT !.tried = @ \cup {m}] \in Records
        /\ [Latest EXCEPT !.tried = @ \cup {m}].tried \subseteq [Latest EXCEPT !.tried = @ \cup {m}].ops
        /\ Latest.tried \subseteq [Latest EXCEPT !.tried = @ \cup {m}].tried
    BY <1>0, <2>1 DEF Records
  <2> QED BY <1>2, <1>6, <2>1, <2>2 DEF Begin, AttemptUnlink, Attempt
<1>7. ASSUME NEW t \in {"complete", "aborted"}, Terminal(t), journals # <<>>
      PROVE  Goal
  <2>1. /\ [Latest EXCEPT !.state = t] \in Records
        /\ [Latest EXCEPT !.state = t].tried \subseteq [Latest EXCEPT !.state = t].ops
        /\ Latest.tried \subseteq [Latest EXCEPT !.state = t].tried
    BY <1>0, <1>7 DEF Records
  <2> QED BY <1>2, <1>7, <2>1 DEF Terminal
<1>8. CASE ItemDone \/ ItemAborted
  <2>1. journals # <<>>
    BY <1>8 DEF ItemDone, ItemAborted, Shape, Phases, Planned, Working
  <2> QED BY <1>7, <1>8, <2>1 DEF ItemDone, ItemAborted
<1>9. CASE \/ Abandon \/ DeleteSource \/ Ambiguous \/ (\E s \in Sidecars : Tidy(s)) \/ RollForward
           \/ NotInBatch \/ SoftSkip \/ MarkSuccess \/ MarkFailed
           \/ Rename \/ CopyBegins \/ CopyEnds \/ VerifyCopy \/ VerifyFails \/ Finalize \/ Delete
           \/ UndoStep \/ OpThrows \/ Crash \/ Verify \/ UndoBegins \/ MountsChange
           \/ (\E m \in Moves : Arrive(m) \/ Sweep(m) \/ PreflightFails(m)) \/ UNCHANGED vars
  BY <1>1, <1>9 DEF Abandon, DeleteSource, Ambiguous, Tidy, RollForward, NotInBatch, SoftSkip,
     MarkSuccess, MarkFailed, Rename, CopyBegins, CopyEnds, VerifyCopy, VerifyFails, Finalize, Delete, UndoStep,
     UndoDebris, UndoMove, UndoEnds, OpThrows, PreflightFails, Fails, Crash, Verify, UndoBegins, MountsChange,
     Arrive, Sweep, vars
<1> QED BY <1>3, <1>4, <1>5, <1>6, <1>8, <1>9
  DEF Next, Process, Recovery, ItemStep, MoveStep

LEMMA OneEntryStep ==
  ASSUME Shape, OneEntry, [Next]_vars
  PROVE  OneEntry'
<1> USE ShapeParts
<1>0. /\ \A q \in Moves : disk[q] \in [Entries -> Contents]
      /\ {"from", "to", "part"} \subseteq Names /\ "from" \in Entries /\ "to" \in Entries
      /\ UNCHANGED kind
  BY Places, EnvSteps DEF DiskType
<1>1. SUFFICES ASSUME NEW m \in Moves, kind[m] = "case"
               PROVE  "none" \in {disk'[m]["from"], disk'[m]["to"]}
  BY <1>0 DEF OneEntry
<1>2. "none" \in {disk[m]["from"], disk[m]["to"]}
  BY <1>1 DEF OneEntry
<1>3. CASE /\ disk'[m]["from"] \in {disk[m]["from"], "none"}
           /\ disk'[m]["to"] \in {disk[m]["to"], "none"}
  BY <1>2, <1>3
<1>4. CASE Works /\ m = move
  <2>1. Working /\ mounted = Shares
    <3>1. Working
      BY <1>4 DEF Works, Working
    <3> QED BY <1>1, <3>1 DEF Shape, Reachable
  <2>2. {Src, Dst, Part} \subseteq Names /\ Dst \in {"from", "to"} /\ Part \in {"part", "back"}
    BY OwnNames
  <2>3. ASSUME NEW n \in Names, Drops(move, n)
        PROVE  "none" \in {disk'[m]["from"], disk'[m]["to"]}
    <3>1. disk'[m] = Unlinked(disk[m], m, n)
      BY <1>4, <2>3, WriteOne DEF Drops
    <3> QED BY <1>0, <1>3, <3>1, UnlinkOne
  <2>4. ASSUME NEW c, Fills(c)
        PROVE  "none" \in {disk'[m]["from"], disk'[m]["to"]}
    <3>1. disk'[m] = [disk[m] EXCEPT ![Entry(m, Part)] = c]
      BY <1>4, <2>4, WriteOne DEF Fills
    <3>2. Entry(m, Part) \notin {"from", "to"}
      BY <1>4, <2>2, EntryName
    <3> QED BY <1>0, <1>3, <3>1, <3>2
  <2>5. ASSUME NEW a \in Names, Puts(a, Dst)
        PROVE  "none" \in {disk'[m]["from"], disk'[m]["to"]}
    <3>1. disk'[m] = Renamed(m, a, Dst)
      BY <1>4, <2>5, WriteOne DEF Puts
    <3>2. \A k \in Entries : Renamed(m, a, Dst)[k] =
            IF k = Place(Dst) THEN Look(m, a)
            ELSE IF k \in {Entry(m, a), Entry(m, Dst)} THEN "none" ELSE disk[m][k]
      BY <1>4, <2>2, <2>5, RenameOne
    <3>3. Place(Dst) = Dst
      BY <2>1, <2>2, Places DEF Shares
    <3>4. Entry(m, Dst) = IF disk[m]["from"] # "none" THEN "from" ELSE "to"
      BY <1>1, <2>1, <2>2 DEF Entry, ShareOf, Shares
    <3>5. PICK other \in {"from", "to"} : other # Dst
      BY <2>2
    <3>6. other = Entry(m, Dst) \/ disk[m][other] = "none"
      BY <1>2, <2>2, <3>4, <3>5
    <3>7. disk'[m][other] = "none"
      BY <1>0, <3>1, <3>2, <3>3, <3>5, <3>6
    <3> QED BY <3>5, <3>7
  <2> QED BY <1>4, <2>2, <2>3, <2>4, <2>5 DEF Works
<1>5. CASE Arrive(m)
  BY <1>1, <1>5 DEF Arrive
<1> QED BY <1>0, <1>3, <1>4, <1>5, Appears

\* A media file that is gone from its source comes back there in a move only.
LEMMA SourceStays ==
  ASSUME Shape, OneEntry, [Next]_vars, phase # "idle", batch, ~(Works /\ move = Media), Look(Media, "from") # "orig"
  PROVE  Look(Media, "from")' # "orig"
<1> USE ShapeParts
<1>0. /\ mounted = Shares /\ UNCHANGED <<kind, mounted>> /\ "from" \in Names /\ "from" \in Entries /\ "to" \in Entries
      /\ disk[Media] \in [Entries -> Contents]
  BY EnvSteps, Places DEF Shape, Reachable, DiskType
<1>1. disk'[Media]["from"] \in {disk[Media]["from"], "none"}
  BY <1>0, Appears
<1>2. CASE kind[Media] # "case"
  <2>1. Look(Media, "from") = disk[Media]["from"] /\ Look(Media, "from")' = disk'[Media]["from"]
    BY <1>0, <1>2, Places DEF Look, Entry, Place, Shares, ShareOf
  <2> QED BY <1>1, <2>1
<1>3. CASE kind[Media] = "case"
  <2>1. disk'[Media]["to"] \in {disk[Media]["to"], "none"}
    BY <1>0, <1>3, Appears DEF Arrive
  <2>2. /\ Look(Media, "from") = IF disk[Media]["from"] # "none" THEN disk[Media]["from"] ELSE disk[Media]["to"]
        /\ Look(Media, "from")' = IF disk'[Media]["from"] # "none" THEN disk'[Media]["from"] ELSE disk'[Media]["to"]
    BY <1>0, <1>3 DEF Look, Entry, Shares, ShareOf
  <2> QED BY <1>1, <1>3, <2>1, <2>2 DEF OneEntry
<1> QED BY <1>2, <1>3

LEMMA AnnouncedStep ==
  ASSUME Shape, OneEntry, Announced, [Next]_vars
  PROVE  Announced'
<1> USE ShapeParts
<1>0. /\ Media \in Moves /\ move \in Moves /\ Media \notin Sidecars
      /\ disk[Media] \in [Entries -> Contents]
      /\ Phases /\ Reachable /\ Planned /\ UNCHANGED kind
  BY RenameAssumption, EnvSteps DEF Shape, DiskType
<1> DEFINE Left == Look(Media, "from") # "orig"
<1>s. phase # "idle" /\ batch /\ ~(Works /\ move = Media) /\ Left => Left'
  BY SourceStays
<1>w. ~Working => ~Works
  BY DEF Works, Working
<1> HIDE DEF Left
<1>a. /\ phase = "item" /\ batch /\ mine => Latest.tried = {} \/ Left
      /\ (phase = "tidy" \/ rolling) /\ batch => Left
  BY DEF Announced, Left
<1>b. ASSUME phase' = "opened" => Latest'.tried = {},
             Working' => move' \in Latest'.tried /\ journals' # <<>>,
             back' => left' \subseteq Latest'.tried /\ journals' # <<>>,
             phase' = "item" /\ batch' /\ mine' => Latest'.tried = {} \/ Left',
             (phase' = "tidy" \/ rolling') /\ batch' => Left',
             phase' = "tidy" => Media \notin left',
             rolling' => /\ ~back' /\ Media \notin left'
                         /\ phase' \in {"next", "item", "finish", "failed", "aborted"} \/ (Working' /\ move' # Media)
      PROVE  Announced'
  BY <1>b DEF Announced, Left
<1>1. CASE Gone
  BY <1>1 DEF Gone, Announced, Working
<1>2. CASE UNCHANGED vars
  <2>1. UNCHANGED <<kind, mounted, disk, journals, phase, move, left, batch, mine, rolling, back>>
    BY <1>2 DEF vars
  <2>2. Left' = Left
    BY <2>1 DEF Left, Look, Entry, Place
  <2> QED BY <2>1, <2>2, <1>a DEF Announced, Left, Working, Latest
<1>4. ASSUME NEW b \in BOOLEAN, Start(b)
      PROVE  Announced'
  <2>1. CASE Unresolved
    <3>1. Record("absent", {}, {}) \in Records /\ Record("absent", {}, {}).tried = {}
          /\ Record("absent", {}, {}).tried \subseteq Record("absent", {}, {}).ops
      BY DEF Record, Records
    <3>2. Latest'.tried = {}
      BY <1>4, <2>1, <3>1, AppendOne DEF Start
    <3> QED BY <1>4, <2>1, <3>2 DEF Start, Opens, Announced, Working
  <2>2. CASE ~Unresolved
    BY <1>4, <2>2 DEF Start, Opens, Announced, Working
  <2> QED BY <2>1, <2>2
<1>5. CASE Abandon \/ Ambiguous
  <2>1. phase = "opened" /\ phase' = "item" /\ UNCHANGED <<journals, move, left, batch, mine, rolling, back>>
    BY <1>5 DEF Abandon, Ambiguous, Reconcile, memory
  <2> QED BY <1>0, <2>1 DEF Announced, Phases, Working, Latest
<1>6. CASE Duplicate
  <2>1. phase = "opened" /\ phase' = "duplicate" /\ UNCHANGED <<move, left, batch, mine, rolling, back>>
    BY <1>6 DEF Duplicate, Reconcile, memory
  <2> QED BY <1>0, <2>1 DEF Announced, Phases, Working
<1>3. CASE AttemptUnlink
  <2>1. phase = "duplicate" /\ phase' = "unlink" /\ UNCHANGED <<move, left, batch, mine, rolling, back>>
    BY <1>3 DEF AttemptUnlink, memory
  <2> QED BY <1>0, <2>1 DEF Announced, Phases, Working
<1>7. CASE AlreadyMoved
  <2>1. phase = "opened" /\ phase' = "tidy" /\ left' = ops \ {Media} /\ UNCHANGED <<move, batch, mine, rolling, back>>
        /\ Left
    BY <1>7 DEF AlreadyMoved, Reconcile, Exists, Left
  <2>2. batch => Left'
    BY <2>1, <1>s, <1>w DEF Working
  <2>3. ~rolling /\ ~back
    BY <1>0, <2>1 DEF Announced, Phases, Working
  <2> QED BY <1>b, <2>1, <2>2, <2>3 DEF Working
<1>8. CASE DeleteSource
  <2>1. phase = "unlink" /\ phase' = "tidy" /\ left' = ops \ {Media} /\ UNCHANGED <<move, batch, mine, rolling, back, mounted>>
    BY <1>8 DEF DeleteSource
  <2>3. ASSUME batch
        PROVE  Left'
    <3>1. mounted = Shares /\ "from" \in Names /\ "from" \in Entries /\ "to" \in Entries
      BY <1>0, <2>3, Places DEF Reachable
    <3>2. disk'[Media] = Unlinked(disk[Media], Media, "from")
      BY <1>8, WriteOne DEF DeleteSource
    <3>3. CASE kind[Media] # "case"
      <4>1. Entry(Media, "from") = "from" /\ Look(Media, "from")' = disk'[Media]["from"]
        BY <1>0, <2>1, <3>1, <3>3, Places DEF Look, Entry, Place, ShareOf, Shares
      <4>2. disk'[Media]["from"] = "none"
        BY <1>0, <3>1, <3>2, <4>1, UnlinkOne
      <4> QED BY <4>1, <4>2 DEF Left
    <3>4. CASE kind[Media] = "case"
      <4>1. Entry(Media, "from") = IF disk[Media]["from"] # "none" THEN "from" ELSE "to"
        BY <3>1, <3>4 DEF Entry, ShareOf, Shares
      <4>2. disk'[Media]["from"] = "none" /\ disk'[Media]["to"] = "none"
        BY <1>0, <3>1, <3>2, <3>4, <4>1, UnlinkOne DEF OneEntry
      <4>3. Look(Media, "from")' = "none"
        BY <1>0, <2>1, <3>1, <3>4, <4>2 DEF Look, Entry, ShareOf, Shares
      <4> QED BY <4>3 DEF Left
    <3> QED BY <3>3, <3>4
  <2>4. ~rolling /\ ~back
    BY <1>0, <2>1 DEF Announced, Phases, Working
  <2> QED BY <1>b, <2>1, <2>3, <2>4 DEF Working
<1>9. ASSUME NEW m \in Moves, Tidy(m) \/ Sweep(m)
      PROVE  Announced'
  <2>1. /\ phase' \in {phase, "item"} /\ left' \subseteq left /\ phase \in {"tidy", "next"}
        /\ UNCHANGED <<journals, move, batch, mine, rolling, back>>
        /\ phase' = "item" => phase = "tidy"
    BY <1>9 DEF Tidy, Sweep, memory
  <2>2. (phase = "tidy" \/ rolling) /\ batch => Left'
    BY <1>a, <1>s, <1>w, <2>1 DEF Working
  <2> QED BY <1>0, <2>1, <2>2 DEF Announced, Working, Latest, Left
<1>10. CASE RollForward
  <2>2. phase = "tidy" /\ phase' = "next" /\ Media \notin left' /\ UNCHANGED <<move, batch, mine, back>>
    BY <1>10 DEF RollForward
  <2>3. batch => Left'
    BY <1>a, <1>s, <1>w, <2>2 DEF Working
  <2> QED BY <1>0, <2>2, <2>3, <1>b DEF Phases, Working
<1>11. CASE NotInBatch \/ SoftSkip \/ UndoEnds \/ Crash
  BY <1>1, <1>11 DEF NotInBatch, SoftSkip, UndoEnds, Crash
<1>12. CASE Plan
  <2>1. phase = "item" /\ phase' = "next" /\ rolling' = FALSE /\ UNCHANGED back
    BY <1>12 DEF Plan
  <2> QED BY <1>0, <2>1 DEF Announced, Phases, Working
<1>13. CASE ItemDone \/ ItemAborted
  <2>1. /\ phase \in {"next", "failed"} /\ phase' \in {"finish", "aborted"} /\ ~back
        /\ UNCHANGED <<move, left, batch, mine, rolling, back>>
    BY <1>0, <1>13 DEF ItemDone, ItemAborted, memory, Phases, Working
  <2>2. rolling /\ batch => Left'
    BY <1>a, <1>s, <1>w, <2>1 DEF Working
  <2>3. rolling => Media \notin left
    BY DEF Announced
  <2> QED BY <1>b, <2>1, <2>2, <2>3 DEF Working
<1>15. CASE MarkSuccess \/ MarkFailed
  <2>1. ItemEnds /\ phase \in {"finish", "aborted"} /\ ~back
    BY <1>0, <1>15 DEF MarkSuccess, MarkFailed, Phases, Working
  <2>2. CASE phase' = "item" /\ UNCHANGED memory /\ rolling
    <3>1. batch => Left'
      BY <1>a, <1>s, <1>w, <2>1, <2>2 DEF Working
    <3>2. UNCHANGED <<move, left, batch, mine, rolling, back>> /\ Media \notin left
      BY <2>2 DEF memory, Announced
    <3> QED BY <1>b, <2>1, <2>2, <3>1, <3>2 DEF Working
  <2> QED BY <1>1, <2>1, <2>2 DEF ItemEnds
<1>16. ASSUME NEW m \in Moves, Begin(m)
       PROVE  Announced'
  <2> DEFINE rec == [Latest EXCEPT !.tried = @ \cup {m}]
  <2>1. journals # <<>> /\ m \in Latest.ops /\ ~back
    BY <1>0, <1>16 DEF Begin, Chosen, Planned
  <2>2. rec \in Records /\ rec.tried \subseteq rec.ops /\ m \in rec.tried
    BY <2>1, LatestTyped DEF Records
  <2>3. Rewrite(rec)
    BY <1>16 DEF Begin, Attempt
  <2>4. Latest' = rec /\ journals' # <<>>
    BY <2>1, <2>2, <2>3, RewriteOne
  <2>6. /\ phase = "next" /\ phase' \in {"renaming", "copying"} /\ move' = m /\ m \in left
        /\ left' = left \ {m} /\ UNCHANGED <<batch, mine, rolling, back>>
    BY <1>16 DEF Begin, Chosen, FirstStep
  <2>5. rolling /\ batch => Left'
    BY <1>a, <1>s, <1>w, <2>6 DEF Working
  <2>7. rolling => Media \notin left
    BY DEF Announced
  <2> HIDE DEF rec
  <2>8. m \in Latest'.tried
    BY <2>2, <2>4
  <2>9. Working' /\ phase' \notin {"opened", "item", "tidy"}
    BY <2>6 DEF Working
  <2> QED BY <1>b, <2>1, <2>4, <2>5, <2>6, <2>7, <2>8, <2>9
<1>17. CASE Rename \/ CopyBegins \/ CopyEnds \/ VerifyCopy \/ Finalize \/ Delete
  <2>1. /\ Working /\ (phase' = "next" \/ Working')
        /\ phase' \notin {"opened", "item", "tidy"}
        /\ UNCHANGED <<journals, move, left, batch, mine, rolling, back>>
    BY <1>17 DEF Rename, CopyBegins, CopyEnds, VerifyCopy, Finalize, Delete, DeletesFirst, Working, memory
  <2>2. rolling => ~back /\ Media \notin left /\ move # Media
    BY <2>1 DEF Announced, Working
  <2>3. rolling /\ batch => Left'
    BY <1>a, <1>s, <2>1, <2>2 DEF Working
  <2>5. move \in Latest.tried /\ journals # <<>> /\ (back => left \subseteq Latest.tried)
    BY <2>1 DEF Announced
  <2> QED BY <1>b, <2>1, <2>2, <2>3, <2>5 DEF Latest
<1>18. CASE VerifyFails \/ OpThrows \/ \E m \in Moves : PreflightFails(m)
  <2>1. /\ phase' = IF back THEN "next" ELSE "failed"
        /\ UNCHANGED <<journals, move, left, batch, mine, rolling, back>>
        /\ phase = "next" \/ Working
    BY <1>18 DEF VerifyFails, OpThrows, PreflightFails, Fails, memory, Working
  <2>2. rolling => ~back /\ Media \notin left /\ (Working => move # Media)
    BY <2>1 DEF Announced, Working
  <2>3. rolling /\ batch => Left'
    BY <1>a, <1>s, <1>w, <2>1, <2>2 DEF Working
  <2>4. back => left \subseteq Latest.tried /\ journals # <<>>
    BY DEF Announced
  <2> QED BY <1>b, <2>1, <2>2, <2>3, <2>4 DEF Latest, Working
<1>19. ASSUME NEW m \in Moves, UndoDebris(m) \/ UndoMove(m)
       PROVE  Announced'
  <2>1. /\ back /\ phase = "next" /\ phase' \in {"next", "renaming", "copying"}
        /\ m \in left /\ left' = left \ {m} /\ (phase' # "next" => move' = m)
        /\ UNCHANGED <<journals, batch, mine, rolling, back>>
    BY <1>19 DEF UndoDebris, UndoMove, FirstStep, ChosenBack
  <2> QED BY <2>1 DEF Announced, Working, Latest
<1>20. CASE UndoBegins
  <2>1. /\ phase = "idle" /\ phase' = "next" /\ left' = Latest.tried /\ journals # <<>>
        /\ UNCHANGED <<journals, batch, mine, rolling>>
    BY <1>20 DEF UndoBegins
  <2> QED BY <1>0, <2>1 DEF Announced, Phases, Working, Latest
<1>21. CASE Verify \/ MountsChange
  <2>1. phase = "idle" /\ phase' = "idle" /\ UNCHANGED <<journals, left, batch, rolling, back>>
    BY <1>21 DEF Verify, MountsChange, memory
  <2> QED BY <1>0, <2>1 DEF Announced, Phases, Working, Latest
<1>22. ASSUME NEW m \in Moves, Arrive(m)
       PROVE  Announced'
  <2>1. /\ UNCHANGED <<phase, mounted, journals, move, left, batch, mine, rolling, back>>
        /\ kind[m] # "case" /\ \A q \in Moves \ {m} : disk'[q] = disk[q]
        /\ disk'[m] = [disk[m] EXCEPT !["to"] = "other"]
    BY <1>22, WriteOne DEF Arrive, memory
  <2>2. Look(Media, "from")' = Look(Media, "from")
    <3>1. CASE m # Media
      BY <1>0, <2>1, <3>1 DEF Look, Entry, Place
    <3>2. CASE m = Media
      <4>1. Look(Media, "from") = disk[Media][Place("from")] /\ Look(Media, "from")' = disk'[Media][Place("from")]
        BY <1>0, <2>1, <3>2 DEF Look, Entry, Place
      <4>2. Place("from") # "to" /\ Place("from") \in Entries
        BY Places
      <4> QED BY <1>0, <2>1, <3>2, <4>1, <4>2
    <3> QED BY <3>1, <3>2
  <2>3. Left' = Left
    BY <2>2 DEF Left
  <2> QED BY <1>a, <1>b, <2>1, <2>3 DEF Announced, Left, Working, Latest
<1> QED BY <1>2, <1>3, <1>4, <1>5, <1>6, <1>7, <1>8, <1>9, <1>10, <1>11, <1>12, <1>13, <1>15, <1>16, <1>17,
           <1>18, <1>19, <1>20, <1>21, <1>22
  DEF Next, Process, Recovery, ItemStep, MoveStep, UndoStep, Moves

LEMMA Announcing == Spec => [](Announced /\ OneEntry)
<1>1. Init => Announced /\ OneEntry
  <2>1. Init => Announced
    BY DEF Init, Announced, Working
  <2>2. "from" \in Entries /\ "to" \in Entries
    BY Places
  <2>3. Untouched["to"] = "none"
    BY <2>2 DEF Untouched
  <2> QED BY <2>1, <2>3 DEF Init, OneEntry
<1>2. Shape /\ Announced /\ OneEntry /\ [Next]_vars => Announced' /\ OneEntry'
  BY AnnouncedStep, OneEntryStep
<1> QED BY <1>1, <1>2, Inductive, PTL DEF Spec

\* Every effect of a move is announced by a journal before it happens, through
\* crashes, reconciliations that write the plan anew, and undos.
THEOREM EffectsAnnounced == Spec => []WriteAhead
<1>1. Init => WriteAhead
  <2>1. "part" \in Entries /\ "to" \in Entries
    BY Places
  <2>2. Untouched["to"] = "none" /\ Untouched["part"] = "none"
    BY <2>1 DEF Untouched
  <2> QED BY <2>2 DEF Init, WriteAhead
<1>2. Shape /\ Announced /\ WriteAhead /\ [Next]_vars => WriteAhead'
  <2> SUFFICES ASSUME Shape, Announced, WriteAhead, [Next]_vars
               PROVE  WriteAhead'
    OBVIOUS
  <2>1. \A m : TriedIn(m) => TriedIn(m)'
    BY TriedGrows
  <2>2. Works => TriedIn(move)
    BY ShapeParts, LatestTried DEF Announced, Works, Working
  <2>3. ASSUME NEW m \in Moves, disk'[m]["to"] = "orig" \/ disk'[m]["part"] # "none"
        PROVE  TriedIn(m)'
    <3>1. CASE disk[m]["to"] = "orig" \/ disk[m]["part"] # "none"
      BY <2>1, <3>1 DEF WriteAhead, TriedIn
    <3>2. CASE ~(disk[m]["to"] = "orig" \/ disk[m]["part"] # "none")
      <4>1. PICK k \in {"to", "part"} : disk'[m][k] \notin {disk[m][k], "none", "other"} \/ (k = "part" /\ disk'[m][k] \notin {disk[m][k], "none"})
        BY <2>3, <3>2
      <4>2. Works /\ m = move
        BY <4>1, Appears, Places
      <4> QED BY <2>1, <2>2, <4>2
    <3> QED BY <3>1, <3>2
  <2> QED BY <2>3 DEF WriteAhead, TriedIn
<1> QED BY <1>1, <1>2, Inductive, Announcing, PTL DEF Spec

-----------------------------------------------------------------------------
(* A finished item: the mark, the journal's terminal record and the file.      *)

\* Nothing in the run can take a share that is away and a foreign target together
\* for a finished move; the undo did not run; the names differ in more than case.
Plain == ~({"mount", "foreign"} \subseteq faults) /\ ~undone /\ kind[Media] # "case"

\* The media move of the item under way is behind it.
MediaBehind ==
  \/ phase \in {"tidy", "finish"}
  \/ phase = "next" /\ Media \notin left
  \/ Working /\ move # Media

\* A success is the last thing its journal says, and no later step of a run
\* reopens it: after a roll-forward the re-check of the batch refuses the item.
Marked ==
  /\ ledger = "success" =>
       /\ journals # <<>> /\ Latest.state = "complete"
       /\ phase = "idle" \/ back \/ (phase = "item" /\ rolling)
  /\ phase = "finish" => Latest.state = "complete"

\* What the faults of a run can be seen by: a share that is away, a foreign file.
Caused ==
  /\ mounted # Shares => "mount" \in faults
  /\ \A m \in Moves, n \in Entries : disk[m][n] = "other" => "foreign" \in faults

Arrived == Plain /\ (MediaBehind \/ ledger = "success") => disk[Media]["to"] = "orig"

LEMMA InitSettled == Init => Marked /\ Caused /\ Arrived
<1> SUFFICES ASSUME Init PROVE Marked /\ Caused /\ Arrived
  OBVIOUS
<1>1. \A n \in Entries : Untouched[n] # "other"
  BY DEF Untouched
<1>2. Caused
  BY <1>1 DEF Init, Caused
<1> QED BY <1>2 DEF Init, Marked, Arrived, Plain, MediaBehind, Working

\* A file of another program is there when one came, and where it was moved or copied.
LEMMA CausedStep ==
  ASSUME Shape, Caused, [Next]_vars
  PROVE  Caused'
<1> USE ShapeParts
<1>0. (\A m \in Moves : disk[m] \in [Entries -> Contents]) /\ UNCHANGED faults
  BY EnvSteps DEF DiskType
<1>1. mounted' # Shares => "mount" \in faults
  BY EnvSteps DEF MountsChange, Caused
<1>2. ASSUME NEW m \in Moves, NEW n \in Entries, disk'[m][n] = "other"
      PROVE  "foreign" \in faults
  <2>1. ASSUME NEW a \in Names, Look(move, a) = "other"
        PROVE  "foreign" \in faults
    BY <2>1, EntryName DEF Look, Caused
  <2>2. {Src, Dst, Part} \subseteq Names
    BY OwnNames
  <2>3. CASE Arrive(m)
    BY <2>3 DEF Arrive
  <2>4. CASE disk[m][n] = "other"
    BY <2>4 DEF Caused
  <2>5. ASSUME Works, m = move, disk[m][n] # "other"
        PROVE  "foreign" \in faults
    <3>1. ASSUME NEW k \in Names, Drops(move, k)
          PROVE  FALSE
      <4>1. disk'[m] = Unlinked(disk[m], m, k)
        BY <2>5, <3>1, WriteOne DEF Drops
      <4> QED BY <1>0, <1>2, <2>5, <4>1, UnlinkOne
    <3>2. ASSUME NEW c, Fills(c), c = "torn" \/ c = Look(move, Src)
          PROVE  "foreign" \in faults
      <4>1. disk'[m] = [disk[m] EXCEPT ![Entry(m, Part)] = c]
        BY <2>5, <3>2, WriteOne DEF Fills
      <4>2. c = "other"
        BY <1>0, <1>2, <2>5, <4>1
      <4> QED BY <2>1, <2>2, <3>2, <4>2
    <3>3. ASSUME NEW a \in Names, Puts(a, Dst)
          PROVE  "foreign" \in faults
      <4>1. disk'[m] = Renamed(m, a, Dst)
        BY <2>5, <3>3, WriteOne DEF Puts
      <4>2. Renamed(m, a, Dst)[n] \in {Look(m, a), "none", disk[m][n]}
        BY <1>2, <2>2, <3>3, RenameOne
      <4> QED BY <1>2, <2>1, <2>5, <3>3, <4>1, <4>2
    <3> QED BY <2>2, <2>5, <3>1, <3>2, <3>3 DEF Works
  <2>6. disk'[m][n] \in {disk[m][n], "none"} \/ (Works /\ m = move) \/ Arrive(m)
    BY Appears
  <2> QED BY <1>2, <2>3, <2>4, <2>5, <2>6
<1> QED BY <1>0, <1>1, <1>2 DEF Caused

LEMMA MarkedStep ==
  ASSUME Shape, Announced, Marked, [Next]_vars
  PROVE  Marked'
<1> USE ShapeParts
<1>0. Phases /\ Planned
  BY DEF Shape
<1>1. ASSUME ledger' # "success", phase' # "finish"
      PROVE  Marked'
  BY <1>1 DEF Marked
<1>2. ASSUME UNCHANGED <<journals, ledger>>, phase' # "finish",
             phase' = "idle" \/ (back /\ back') \/ (phase' = "item" /\ UNCHANGED <<phase, rolling>>)
                             \/ ledger # "success"
      PROVE  Marked'
  BY <1>0, <1>2 DEF Marked, Latest, Phases, Working
<1>3. CASE Recovery
  <2>1. phase \in {"opened", "duplicate", "unlink", "tidy"} /\ ledger' \in {ledger, "failed"} /\ phase' # "finish"
    BY <1>3 DEF Recovery, Abandon, Duplicate, AttemptUnlink, DeleteSource, AlreadyMoved, Ambiguous, Tidy,
       RollForward, Reconcile
  <2> QED BY <1>0, <1>1, <2>1 DEF Marked, Phases, Working
<1>4. ASSUME NEW b \in BOOLEAN, Start(b)
      PROVE  Marked'
  <2>1. ledger # "success"
    BY <1>4 DEF Start, Candidate, Unresolved, Marked
  <2> QED BY <1>1, <1>4, <2>1 DEF Start, Opens
<1>5. CASE NotInBatch \/ SoftSkip \/ UndoEnds \/ Crash
  BY <1>1, <1>2, <1>5 DEF NotInBatch, SoftSkip, UndoEnds, Crash, Gone
<1>6. CASE Plan
  <2>1. ledger # "success"
    BY <1>0, <1>6 DEF Plan, Fits, Marked, Announced, Phases, Working
  <2> QED BY <1>1, <1>6, <2>1 DEF Plan
<1>7. CASE ItemDone
  <2>1. journals # <<>> /\ ledger # "success"
    BY <1>0, <1>7 DEF ItemDone, Planned, Marked
  <2> DEFINE rec == [Latest EXCEPT !.state = "complete"]
  <2>2. rec \in Records /\ rec.tried \subseteq rec.ops /\ rec.state = "complete"
    BY <2>1, LatestTyped DEF Records
  <2>3. Latest' = rec
    BY <1>7, <2>1, <2>2, RewriteOne DEF ItemDone, Terminal
  <2> QED BY <1>7, <2>1, <2>2, <2>3 DEF ItemDone, Marked
<1>8. CASE MarkSuccess
  <2>1. journals # <<>> /\ Latest.state = "complete" /\ UNCHANGED journals
    BY <1>0, <1>8 DEF MarkSuccess, Planned, Marked, Phases, Working
  <2>2. phase' = "idle" \/ (phase' = "item" /\ rolling')
    BY <1>8 DEF MarkSuccess, ItemEnds, Gone, memory
  <2> QED BY <2>1, <2>2 DEF Marked, Latest
<1>15. CASE ItemAborted \/ MarkFailed
  <2>1. phase \in {"failed", "aborted"} /\ ~back /\ ledger' \in {ledger, "failed"} /\ phase' # "finish"
    BY <1>0, <1>15 DEF ItemAborted, MarkFailed, ItemEnds, Gone, Phases, Working
  <2> QED BY <1>1, <2>1 DEF Marked
<1>9. CASE VerifyFails \/ OpThrows \/ \E m \in Moves : PreflightFails(m)
  <2>1. Fails /\ (phase = "next" \/ Working)
    BY <1>9 DEF VerifyFails, OpThrows, PreflightFails, Working
  <2>2. phase' \in {"next", "failed"} /\ UNCHANGED <<journals, ledger, back>>
    BY <2>1 DEF Fails, memory
  <2> QED BY <1>2, <2>1, <2>2 DEF Marked, Working
<1>10. ASSUME NEW m \in Moves, Begin(m)
       PROVE  Marked'
  <2>1. ledger # "success" /\ UNCHANGED ledger /\ phase' # "finish"
    BY <1>10 DEF Begin, FirstStep, Marked
  <2> QED BY <1>1, <2>1
<1>11. CASE Rename \/ CopyBegins \/ CopyEnds \/ VerifyCopy \/ Finalize \/ Delete
  <2>1. Working /\ phase' # "finish" /\ UNCHANGED <<journals, ledger, back>>
    BY <1>11 DEF Rename, CopyBegins, CopyEnds, VerifyCopy, Finalize, Delete, Working, memory
  <2> QED BY <1>2, <2>1 DEF Marked, Working
<1>12. ASSUME NEW m \in Moves, UndoDebris(m) \/ UndoMove(m)
       PROVE  Marked'
  <2>1. back /\ back' /\ phase' # "finish" /\ UNCHANGED <<journals, ledger>>
    BY <1>12 DEF UndoDebris, UndoMove, FirstStep
  <2> QED BY <1>2, <2>1
<1>13. CASE UndoBegins
  <2>1. back' /\ phase' # "finish" /\ UNCHANGED <<journals, ledger>>
    BY <1>13 DEF UndoBegins
  <2> QED BY <2>1 DEF Marked, Latest
<1>14. CASE Verify \/ MountsChange \/ (\E m \in Moves : Arrive(m) \/ Sweep(m)) \/ UNCHANGED vars
  <2>1. UNCHANGED <<journals, ledger, phase, back, rolling>>
    BY <1>14 DEF Verify, MountsChange, Arrive, Sweep, memory, vars
  <2> QED BY <2>1 DEF Marked, Latest
<1> QED BY <1>3, <1>4, <1>5, <1>6, <1>7, <1>8, <1>9, <1>10, <1>11, <1>12, <1>13, <1>14, <1>15
  DEF Next, Process, ItemStep, MoveStep, UndoStep

\* The bytes stay at a target they have reached until the undo.
LEMMA OrigStays ==
  ASSUME Shape, Bytes, [Next]_vars, ~back, NEW m \in Moves, kind[m] # "case", disk[m]["to"] = "orig"
  PROVE  disk'[m]["to"] = "orig"
<1> USE ShapeParts
<1>0. /\ \A q \in Moves : disk[q] \in [Entries -> Contents]
      /\ Src = "from" /\ Dst = "to" /\ Part = "part"
      /\ {"from", "to", "part"} \subseteq Names /\ "to" \in Entries
  BY Places DEF DiskType, Src, Dst, Part
<1>1. SUFFICES ASSUME disk'[m]["to"] # "orig"
               PROVE  FALSE
  OBVIOUS
<1>2. ASSUME NEW q \in Moves, NEW n \in {"from", "part"}, Drops(q, n)
      PROVE  FALSE
  <2>1. disk'[q] = Unlinked(disk[q], q, n) /\ \A r \in Moves \ {q} : disk'[r] = disk[r]
    BY <1>2, WriteOne DEF Drops
  <2>2. q = m
    BY <1>1, <2>1
  <2>3. n \in Names /\ Entry(m, n) = "to"
    BY <1>0, <1>1, <2>1, <2>2, UnlinkOne
  <2>4. Entry(m, n) = Place(n)
    BY <2>3, EntryName
  <2> QED BY <2>3, <2>4, Places
<1>3. CASE Works
  <2>1. m = move /\ Working /\ "target" \in mounted
    <3>1. m = move
      BY <1>1, <1>3, WriteOne DEF Works, Fills, Puts, Drops
    <3> QED BY <1>3, <3>1 DEF Shape, Reachable, Works, Working
  <2>2. Look(m, "to") = "orig"
    BY <1>0, <2>1, LookSees, Places
  <2>3. phase = "delete"
    BY <1>0, <2>1, <2>2 DEF Bytes, InFlight
  <2> QED BY <1>0, <1>2, <1>3, <2>3 DEF Works
<1>4. CASE Clears
  BY <1>2, <1>4 DEF Clears
<1>5. ASSUME NEW q \in Moves, Arrive(q)
      PROVE  FALSE
  <2>1. /\ disk[q]["to"] = "none"
        /\ disk'[q] = [disk[q] EXCEPT !["to"] = "other"]
        /\ \A r \in Moves \ {q} : disk'[r] = disk[r]
    BY <1>5, WriteOne DEF Arrive
  <2>2. q # m
    BY <2>1
  <2> QED BY <1>1, <2>1, <2>2
<1> QED BY <1>1, <1>3, <1>4, <1>5, FileSteps

\* Until the undo a lookup of a source finds the bytes or nothing.
LEMMA SourceLook ==
  ASSUME Shape, Bytes, ~undone, NEW m \in Moves, kind[m] # "case", Look(m, "from") # "none"
  PROVE  Look(m, "from") = "orig" /\ disk[m]["from"] = "orig"
<1>1. Look(m, "from") = disk[m][Place("from")]
  BY LookSees, Places
<1>2. disk[m]["from below"] = "none" /\ disk[m]["from"] \in {"orig", "none"}
  BY DEF Shape, Bare, Bytes, Kept, CleanFiles
<1> QED BY <1>1, <1>2, Places

LEMMA Arrives ==
  ASSUME DiskType, NEW m \in Moves, NEW a \in Names, NEW b \in Names, Place(b) = "to"
  PROVE  Renamed(m, a, b)["to"] = Look(m, a)
<1>1. "to" \in Entries
  BY Places
<1> QED BY <1>1, RenameOne

\* When the media move is behind the item, or the mark is set, the bytes are at the
\* target already or come there in this step.
LEMMA ArrivesInTime ==
  ASSUME Shape, Bytes, Announced, Caused, Arrived, [Next]_vars,
         Plain, MediaBehind' \/ ledger' = "success", ~undone'
  PROVE  disk[Media]["to"] = "orig" \/ disk'[Media]["to"] = "orig"
<1> USE ShapeParts
<1>0. /\ Media \in Moves /\ kind[Media] # "case" /\ ~back /\ ~undone
      /\ disk[Media] \in [Entries -> Contents] /\ CleanFiles(Media, disk[Media]) /\ Keeps(Media, disk[Media])
      /\ "to" \in Entries /\ "from" \in Names /\ "to" \in Names /\ Src = "from" /\ Dst = "to"
      /\ disk[Media]["from below"] = "none" /\ disk[Media]["to below"] = "none"
  BY Places DEF Plain, DiskType, Bytes, Kept, Shape, Phases, Bare, Src, Dst
<1>1. CASE MediaBehind \/ ledger = "success"
  BY <1>1 DEF Arrived
<1>2. CASE AlreadyMoved
  <2>1. ~Exists(Media, "from") /\ Exists(Media, "to")
    BY <1>2 DEF AlreadyMoved
  <2>2. Look(Media, "to") = disk[Media]["to"] /\ disk[Media]["to"] \notin {"none", "torn"}
    BY <1>0, <2>1, LookSees, TargetThere, Places DEF Exists, CleanFiles
  <2>3. CASE mounted = Shares
    <3>1. disk[Media]["from"] = "none"
      BY <1>0, <2>1, <2>3, LookSees DEF Exists
    <3> QED BY <1>0, <3>1 DEF Keeps
  <2>4. CASE mounted # Shares
    <3>1. disk[Media]["to"] # "other"
      BY <1>0, <2>4 DEF Caused, Plain
    <3> QED BY <1>0, <2>2, <3>1 DEF Contents
  <2> QED BY <2>3, <2>4
<1>3. CASE DeleteSource
  <2>1. Look(Media, "to") = "orig"
    BY <1>0, <1>3, SourceLook DEF DeleteSource, Bytes, UnlinkSafe
  <2>2. Look(Media, "to") = disk[Media]["to"] \/ Look(Media, "to") = "none"
    BY <1>0, LookSees, Places
  <2> QED BY <2>1, <2>2
<1>4. CASE Abandon \/ Duplicate \/ AttemptUnlink \/ Ambiguous \/ (\E s \in Sidecars : Tidy(s)) \/ RollForward
  <2>1. MediaBehind \/ (~MediaBehind' /\ ledger' \in {ledger, "failed"})
    BY <1>4 DEF Abandon, Duplicate, AttemptUnlink, Ambiguous, Tidy, RollForward, MediaBehind, Working
  <2> QED BY <1>1, <2>1
<1>5. CASE NotInBatch \/ SoftSkip \/ Plan \/ Crash \/ ItemAborted \/ MarkFailed \/ \E b \in BOOLEAN : Start(b)
  <2>1. ~MediaBehind' /\ ledger' \in {ledger, "skipped", "failed"}
    BY <1>5 DEF NotInBatch, SoftSkip, Plan, Crash, ItemAborted, MarkFailed, ItemEnds, Start, Opens, Gone,
       MediaBehind, Working
  <2> QED BY <1>1, <2>1
<1>6. CASE ItemDone \/ MarkSuccess
  <2>1. MediaBehind
    BY <1>6 DEF ItemDone, MarkSuccess, MediaBehind
  <2> QED BY <1>1, <2>1
<1>7. CASE VerifyFails \/ OpThrows \/ \E m \in Moves : PreflightFails(m)
  <2>1. Fails
    BY <1>7 DEF VerifyFails, OpThrows, PreflightFails
  <2>2. phase' = "failed" /\ UNCHANGED ledger
    BY <1>0, <2>1 DEF Fails
  <2> QED BY <1>1, <2>2 DEF MediaBehind, Working
<1>8. ASSUME NEW m \in Moves, Begin(m)
      PROVE  disk[Media]["to"] = "orig" \/ disk'[Media]["to"] = "orig"
  <2>1. CASE m = Media
    <3>1. ~MediaBehind' /\ UNCHANGED ledger
      BY <1>8, <2>1 DEF Begin, FirstStep, MediaBehind, Working
    <3> QED BY <1>1, <3>1
  <2>2. CASE m # Media
    <3>1. MediaBehind
      BY <1>8, <2>2 DEF Begin, Chosen, MediaBehind
    <3> QED BY <1>1, <3>1
  <2> QED BY <2>1, <2>2
<1>9. CASE (Rename \/ CopyBegins \/ CopyEnds \/ VerifyCopy \/ Finalize \/ Delete) /\ move # Media
  <2>1. MediaBehind
    BY <1>9 DEF Rename, CopyBegins, CopyEnds, VerifyCopy, Finalize, Delete, MediaBehind, Working
  <2> QED BY <1>1, <2>1
<1>10. CASE Rename /\ move = Media
  <2>1. Working /\ "target" \in mounted
    BY <1>10 DEF Rename, Working, Shape, Reachable
  <2>2. Look(Media, "from") = "orig" /\ Place("to") = "to"
    BY <1>0, <1>10, <2>1, SourceLook, Places DEF Bytes, InFlight
  <2>3. disk'[Media] = Renamed(Media, "from", "to")
    BY <1>0, <1>10, WriteOne DEF Rename
  <2>4. Renamed(Media, "from", "to")["to"] = Look(Media, "from")
    BY <1>0, <2>2, Arrives
  <2> QED BY <2>2, <2>3, <2>4
<1>11. CASE Delete /\ move = Media
  <2>1. Working /\ "target" \in mounted /\ phase = "delete"
    BY <1>11 DEF Delete, Working, Shape, Reachable
  <2>2. Look(Media, "from") = "orig" /\ Look(Media, "to") = "orig"
    BY <1>0, <1>11, <2>1, SourceLook DEF Bytes, InFlight
  <2> QED BY <1>0, <2>1, <2>2, LookSees, Places
<1>12. CASE (CopyBegins \/ CopyEnds \/ VerifyCopy \/ Finalize) /\ move = Media
  <2>1. ~MediaBehind' /\ UNCHANGED ledger
    BY <1>0, <1>12 DEF CopyBegins, CopyEnds, VerifyCopy, Finalize, DeletesFirst, MediaBehind, Working, memory
  <2> QED BY <1>1, <2>1
<1>13. CASE UndoBegins \/ UndoStep
  BY <1>0, <1>13 DEF UndoBegins, UndoStep, UndoDebris, UndoMove, UndoEnds
<1>14. CASE Verify \/ MountsChange \/ (\E m \in Moves : Arrive(m) \/ Sweep(m)) \/ UNCHANGED vars
  <2>1. UNCHANGED <<phase, left, move, ledger>>
    BY <1>14 DEF Verify, MountsChange, Arrive, Sweep, memory, vars
  <2> QED BY <1>1, <2>1 DEF MediaBehind, Working
<1> QED BY <1>2, <1>3, <1>4, <1>5, <1>6, <1>7, <1>8, <1>9, <1>10, <1>11, <1>12, <1>13, <1>14
  DEF Next, Process, Recovery, ItemStep, MoveStep

LEMMA ArrivedStep ==
  ASSUME Shape, Bytes, Announced, Caused, Arrived, [Next]_vars
  PROVE  Arrived'
<1> SUFFICES ASSUME Plain', MediaBehind' \/ ledger' = "success"
             PROVE  disk'[Media]["to"] = "orig"
  BY DEF Arrived
<1>1. Plain /\ ~back /\ ~undone' /\ Media \in Moves
  BY EnvSteps, ShapeParts DEF Plain, Shape, Phases
<1>2. disk[Media]["to"] = "orig" => disk'[Media]["to"] = "orig"
  BY <1>1, OrigStays DEF Plain
<1> QED BY <1>1, <1>2, ArrivesInTime

LEMMA Settling == Spec => [](Marked /\ Caused /\ Arrived)
<1>1. Shape /\ Bytes /\ Announced /\ OneEntry /\ Marked /\ Caused /\ Arrived /\ [Next]_vars =>
        Marked' /\ Caused' /\ Arrived'
  BY MarkedStep, CausedStep, ArrivedStep
<1> QED BY <1>1, InitSettled, Inductive, Announcing, PTL DEF Spec

\* An item is marked done after its journal says so, and its media file is at the
\* target from then on until the undo - through crashes between the last move, the
\* record and the mark, and through reconciliations that finish a dead run's work.
THEOREM SuccessMoved == Spec => []SuccessMeansMoved
<1>1. Shape /\ Marked /\ Arrived => SuccessMeansMoved
  BY ShapeParts, LatestTyped DEF Marked, Arrived, Plain, SuccessMeansMoved, Latest
<1> QED BY <1>1, Inductive, Settling, PTL

-----------------------------------------------------------------------------
(* A case-only rename: its bytes are under the one entry of its two names, or  *)
(* in the partial, whichever step it is at.                                    *)

CaseFlight ==
  kind[move] = "case" /\ ~back =>
    /\ phase # "renaming"
    /\ phase = "copying" => disk[move]["part"] = "none"
    /\ phase = "streaming" => disk[move]["part"] = "torn"
    /\ phase = "copied" => disk[move]["part"] \in {"torn", Look(move, "from")}
    /\ phase = "delete" => disk[move]["part"] = Look(move, "from")
    /\ phase = "finalize" => disk[move]["from"] = "none" /\ disk[move]["to"] = "none"

\* With both shares there, a lookup of either name of a case-only rename finds the
\* one entry, and the partial is found under its own name.
LEMMA CaseLook ==
  ASSUME DiskType, OneEntry, NEW m \in Moves, kind[m] = "case", mounted = Shares
  PROVE  /\ Entry(m, "from") \in {"from", "to"} /\ Entry(m, "part") = "part"
         /\ Look(m, "from") = disk[m][Entry(m, "from")] /\ Look(m, "part") = disk[m]["part"]
         /\ "orig" \in {disk[m]["from"], disk[m]["to"]} => Look(m, "from") = "orig"
         /\ \A n \in {"from", "to"} : n # Entry(m, "from") => disk[m][n] = "none"
         /\ Place("to") = "to" /\ {"from", "to", "part"} \subseteq Entries
<1>1. "none" \in {disk[m]["from"], disk[m]["to"]}
  BY DEF OneEntry
<1>2. Entry(m, "from") = IF disk[m]["from"] # "none" THEN "from" ELSE "to"
  BY DEF Entry, ShareOf, Shares
<1>3. Entry(m, "part") = "part"
  BY DEF Entry, ShareOf, Shares
<1> QED BY <1>1, <1>2, <1>3, Places DEF Look, Shares

LEMMA CaseFlightStep ==
  ASSUME Shape, OneEntry, CaseFlight, [Next]_vars
  PROVE  CaseFlight'
<1> USE ShapeParts
<1>0. /\ disk[move] \in [Entries -> Contents] /\ UNCHANGED kind
      /\ kind[move] = "case" /\ Working => mounted = Shares
  BY EnvSteps DEF DiskType, Shape, Reachable
<1>1. ASSUME ~Working' \/ back'
      PROVE  CaseFlight'
  BY <1>1 DEF CaseFlight, Working
<1>2. ASSUME NEW m \in Moves, Begin(m)
      PROVE  CaseFlight'
  <2>1. kind[m] = "case" => disk[m]["part"] = "none"
    BY <1>2 DEF Begin, Preflight, Part, Exists, Look, Entry, ShareOf, Shape, Reachable
  <2>2. move' = m /\ UNCHANGED disk /\ phase' = FirstStep(m)
    BY <1>2 DEF Begin
  <2> QED BY <1>0, <2>1, <2>2 DEF CaseFlight, FirstStep
<1>3. CASE (CopyBegins \/ CopyEnds \/ VerifyCopy \/ Delete \/ Finalize \/ Rename) /\ kind[move] = "case" /\ ~back
  <2>0. Working /\ UNCHANGED <<move, back, mounted>> /\ mounted = Shares
    BY <1>0, <1>3 DEF CopyBegins, CopyEnds, VerifyCopy, Delete, Finalize, Rename, Working, memory
  <2>1. /\ Entry(move, "from") \in {"from", "to"} /\ Entry(move, "part") = "part"
        /\ Look(move, "part") = disk[move]["part"]
        /\ \A n \in {"from", "to"} : n # Entry(move, "from") => disk[move][n] = "none"
        /\ {"from", "to", "part"} \subseteq Entries
    BY <1>3, <2>0, CaseLook
  <2>2. ASSUME NEW c, OnDisk(move, [disk[move] EXCEPT !["part"] = c])
        PROVE  disk'[move]["part"] = c /\ Look(move, "from")' = Look(move, "from")
    <3>1. disk'[move] = [disk[move] EXCEPT !["part"] = c]
      BY <2>2, WriteOne
    <3>2. /\ disk'[move]["part"] = c
          /\ disk'[move]["from"] = disk[move]["from"] /\ disk'[move]["to"] = disk[move]["to"]
      BY <1>0, <2>1, <3>1
    <3> QED BY <1>0, <1>3, <2>0, <3>2 DEF Look, Entry, ShareOf, Shares
  <2>3. CASE CopyBegins
    <3>1. OnDisk(move, [disk[move] EXCEPT !["part"] = "torn"]) /\ phase' = "streaming"
      BY <1>3, <2>1, <2>3 DEF CopyBegins, Part
    <3>2. disk'[move]["part"] = "torn"
      BY <2>2, <3>1
    <3> QED BY <2>0, <3>1, <3>2 DEF CaseFlight
  <2>4. CASE CopyEnds
    <3>1. /\ phase = "streaming" /\ phase' = "copied"
          /\ OnDisk(move, [disk[move] EXCEPT !["part"] = Look(move, "from")]) \/ UNCHANGED disk
      BY <1>3, <2>1, <2>4 DEF CopyEnds, Part, Src
    <3>2. disk'[move]["part"] \in {"torn", Look(move, "from")'}
      BY <1>3, <2>2, <3>1 DEF CaseFlight
    <3> QED BY <2>0, <3>1, <3>2 DEF CaseFlight
  <2>5. CASE VerifyCopy
    <3>1. phase' = "delete" /\ UNCHANGED disk /\ disk[move]["part"] = Look(move, "from")
      BY <1>3, <2>1, <2>5 DEF VerifyCopy, Verified, DeletesFirst, Part, Src
    <3>2. Look(move, "from")' = Look(move, "from")
      BY <1>0, <2>0, <3>1 DEF Look, Entry, Place
    <3> QED BY <2>0, <3>1, <3>2 DEF CaseFlight
  <2>6. CASE Delete
    <3>1. phase' = "finalize" /\ OnDisk(move, [disk[move] EXCEPT ![Entry(move, "from")] = "none"])
      BY <1>3, <2>6 DEF Delete, DeletesFirst, Src, Unlinked
    <3>2. disk'[move] = [disk[move] EXCEPT ![Entry(move, "from")] = "none"]
      BY <3>1, WriteOne
    <3>3. disk'[move]["from"] = "none" /\ disk'[move]["to"] = "none"
      BY <1>0, <2>1, <3>2
    <3> QED BY <2>0, <3>1, <3>3 DEF CaseFlight
  <2>7. CASE Finalize \/ Rename
    BY <1>1, <1>3, <2>7 DEF Finalize, Rename, DeletesFirst, Working
  <2> QED BY <1>3, <2>3, <2>4, <2>5, <2>6, <2>7
<1>4. CASE (CopyBegins \/ CopyEnds \/ VerifyCopy \/ Delete \/ Finalize \/ Rename) /\ ~(kind[move] = "case" /\ ~back)
  <2>1. UNCHANGED <<move, back>>
    BY <1>4 DEF CopyBegins, CopyEnds, VerifyCopy, Delete, Finalize, Rename, memory
  <2> QED BY <1>0, <1>4, <2>1 DEF CaseFlight
<1>5. CASE VerifyFails \/ OpThrows \/ \E m \in Moves : PreflightFails(m)
  <2>1. Fails
    BY <1>5 DEF VerifyFails, OpThrows, PreflightFails
  <2> QED BY <1>1, <2>1 DEF Fails, Working
<1>6. CASE UndoStep
  BY <1>1, <1>6 DEF UndoStep, UndoDebris, UndoMove, UndoEnds, Gone, Working
<1>7. CASE Recovery \/ ItemStep \/ \E m \in Moves : Sweep(m)
  <2>1. CASE Recovery
    BY <1>1, <2>1 DEF Recovery, Abandon, Duplicate, AttemptUnlink, DeleteSource, AlreadyMoved, Ambiguous, Tidy,
       RollForward, Working
  <2>2. CASE ItemStep
    BY <1>1, <2>2 DEF ItemStep, NotInBatch, SoftSkip, Plan, ItemDone, MarkSuccess, ItemAborted, MarkFailed,
       ItemEnds, Gone, Working
  <2>3. CASE \E m \in Moves : Sweep(m)
    BY <1>1, <2>3 DEF Sweep, Working
  <2> QED BY <1>7, <2>1, <2>2, <2>3
<1>8. CASE Crash \/ Verify \/ UndoBegins \/ MountsChange \/ \E b \in BOOLEAN : Start(b)
  <2>1. CASE Crash \/ UndoBegins \/ \E b \in BOOLEAN : Start(b)
    BY <1>1, <2>1 DEF Crash, UndoBegins, Start, Opens, Gone, Working
  <2>2. CASE Verify \/ MountsChange
    BY <1>1, <2>2 DEF Verify, MountsChange, Working
  <2> QED BY <1>8, <2>1, <2>2
<1>10. ASSUME NEW m \in Moves, Arrive(m)
       PROVE  CaseFlight'
  <2>1. UNCHANGED <<phase, move, back, mounted>> /\ kind[m] # "case" /\ \A q \in Moves \ {m} : disk'[q] = disk[q]
    BY <1>10, WriteOne DEF Arrive, memory
  <2>2. kind[move] = "case" => disk'[move] = disk[move] /\ Look(move, "from")' = Look(move, "from")
    BY <1>0, <2>1 DEF Look, Entry, Place
  <2> QED BY <1>0, <2>1, <2>2 DEF CaseFlight
<1>9. CASE UNCHANGED vars
  BY <1>9 DEF vars, CaseFlight, Look, Entry, Place
<1> QED BY <1>2, <1>3, <1>4, <1>5, <1>6, <1>7, <1>8, <1>9, <1>10 DEF Next, Process, MoveStep

LEMMA CaseFlying == Spec => []CaseFlight
<1>1. Init => CaseFlight
  BY DEF Init, CaseFlight
<1>2. Shape /\ OneEntry /\ CaseFlight /\ [Next]_vars => CaseFlight'
  BY CaseFlightStep
<1> QED BY <1>1, <1>2, Inductive, Announcing, PTL DEF Spec

LEMMA CaseHeldStep ==
  ASSUME Shape, OneEntry, CaseFlight, [Next]_vars, NEW m \in Moves, kind[m] = "case", Held(m),
         phase \notin {"opened", "duplicate", "unlink", "tidy"}, ~back
  PROVE  Held(m)'
<1> USE ShapeParts
<1>0. /\ disk[m] \in [Entries -> Contents] /\ UNCHANGED kind
      /\ Src = "from" /\ Dst = "to" /\ Part = "part"
  BY EnvSteps DEF DiskType, Src, Dst, Part
<1>1. ASSUME UNCHANGED <<disk[m]["from"], disk[m]["to"]>>, "orig" \in {disk[m]["from"], disk[m]["to"]}
      PROVE  Held(m)'
  BY <1>1 DEF Held
<1>2. CASE disk'[m] = disk[m]
  BY <1>0, <1>2 DEF Held
<1>3. ASSUME NEW q \in Moves, q # m, NEW f, OnDisk(q, f)
      PROVE  Held(m)'
  <2>1. disk'[m] = disk[m]
    BY <1>3, WriteOne
  <2> QED BY <1>2, <2>1
<1>4. CASE CopyBegins \/ CopyEnds \/ VerifyFails \/ Delete \/ Finalize \/ Rename \/ (OpThrows /\ disk' # disk)
  <2>0. Working /\ "target" \in mounted /\ \E f : UNCHANGED disk \/ OnDisk(move, f)
    BY <1>4 DEF CopyBegins, CopyEnds, VerifyFails, Delete, Finalize, Rename, OpThrows, Working, Shape, Reachable
  <2>1. SUFFICES ASSUME move = m
                 PROVE  Held(m)'
    BY <1>2, <1>3, <2>0
  <2>2. mounted = Shares
    BY <2>0 DEF Shape, Reachable, Shares
  <2>3. /\ Entry(m, "from") \in {"from", "to"} /\ Entry(m, "part") = "part"
        /\ Look(m, "part") = disk[m]["part"]
        /\ "orig" \in {disk[m]["from"], disk[m]["to"]} => Look(m, "from") = "orig"
        /\ Place("to") = "to" /\ {"from", "to", "part"} \subseteq Entries
    BY <2>2, CaseLook
  <2>4. ASSUME NEW c, OnDisk(m, [disk[m] EXCEPT !["part"] = c]), "orig" \in {disk[m]["from"], disk[m]["to"]}
        PROVE  Held(m)'
    <3>1. disk'[m] = [disk[m] EXCEPT !["part"] = c]
      BY <2>4, WriteOne
    <3>2. UNCHANGED <<disk[m]["from"], disk[m]["to"]>>
      BY <1>0, <2>3, <3>1
    <3> QED BY <1>1, <2>4, <3>2
  <2>5. CASE CopyBegins \/ CopyEnds
    <3>1. "orig" \in {disk[m]["from"], disk[m]["to"]}
      BY <2>1, <2>5 DEF CopyBegins, CopyEnds, CaseFlight, Held
    <3>2. UNCHANGED disk \/ \E c : OnDisk(m, [disk[m] EXCEPT !["part"] = c])
      BY <1>0, <2>1, <2>3, <2>5 DEF CopyBegins, CopyEnds
    <3> QED BY <1>2, <2>4, <3>1, <3>2
  <2>6. CASE VerifyFails
    <3>1. /\ phase = "copied" /\ disk[m]["part"] # Look(m, "from")
          /\ UNCHANGED disk \/ OnDisk(m, [disk[m] EXCEPT !["part"] = "none"])
      BY <1>0, <2>1, <2>3, <2>6 DEF VerifyFails, Verified, Unlinked
    <3>2. "orig" \in {disk[m]["from"], disk[m]["to"]}
      BY <2>1, <3>1 DEF CaseFlight, Held
    <3> QED BY <1>2, <2>4, <3>1, <3>2
  <2>7. CASE Delete
    <3>1. disk[m]["part"] = "orig"
      BY <2>1, <2>3, <2>7 DEF Delete, CaseFlight, Held
    <3>2. OnDisk(m, [disk[m] EXCEPT ![Entry(m, "from")] = "none"])
      BY <1>0, <2>1, <2>7 DEF Delete, Unlinked
    <3>3. disk'[m] = [disk[m] EXCEPT ![Entry(m, "from")] = "none"]
      BY <3>2, WriteOne
    <3>4. disk'[m]["part"] = "orig"
      BY <1>0, <2>3, <3>1, <3>3
    <3> QED BY <1>0, <3>4 DEF Held
  <2>8. CASE phase = "finalize" /\ OnDisk(m, Renamed(m, "part", "to"))
    <3>1. Look(m, "part") = "orig"
      BY <2>1, <2>3, <2>8 DEF CaseFlight, Held
    <3>2. disk'[m] = Renamed(m, "part", "to")
      BY <2>8, WriteOne
    <3>3. {"part", "to"} \subseteq Names
      BY Places
    <3>4. Renamed(m, "part", "to")["to"] = Look(m, "part")
      BY <2>3, <3>3, Arrives
    <3> QED BY <3>1, <3>2, <3>4 DEF Held
  <2>9. phase # "renaming"
    BY <2>1 DEF CaseFlight
  <2> QED BY <1>0, <1>2, <1>4, <2>1, <2>5, <2>6, <2>7, <2>8, <2>9 DEF Finalize, Rename, OpThrows
<1>5. ASSUME NEW q \in Moves, Arrive(q)
      PROVE  Held(m)'
  BY <1>3, <1>5 DEF Arrive
<1>6. CASE \/ Verify \/ (\E b \in BOOLEAN : Start(b)) \/ UndoBegins \/ Crash \/ MountsChange
           \/ ItemStep \/ VerifyCopy \/ (\E q \in Moves : Begin(q) \/ PreflightFails(q))
           \/ (OpThrows /\ disk' = disk) \/ UNCHANGED vars
  <2>1. UNCHANGED disk
    BY <1>6 DEF Verify, Start, UndoBegins, Crash, MountsChange, ItemStep, NotInBatch, SoftSkip, Plan,
       ItemDone, MarkSuccess, ItemAborted, MarkFailed, VerifyCopy, Begin, PreflightFails, vars
  <2> QED BY <1>2, <2>1
<1>7. ~Recovery /\ ~UndoStep /\ ~\E q \in Moves : Sweep(q)
  BY DEF Recovery, Abandon, Duplicate, AttemptUnlink, DeleteSource, AlreadyMoved, Ambiguous, Tidy, RollForward,
     Reconcile, Sweep, UndoStep, UndoDebris, UndoMove, UndoEnds
<1> QED BY <1>4, <1>5, <1>6, <1>7 DEF Next, Process, MoveStep

\* No step of a run's normal work, nor its death, loses the bytes of a case-only
\* rename, although it deletes its source before it finalizes.
THEOREM CaseOnlyKept == Spec => CaseKept
<1>1. Shape /\ OneEntry /\ CaseFlight /\ [Next]_vars =>
        [\A m \in Moves :
           kind[m] = "case" /\ Held(m) /\ phase \notin {"opened", "duplicate", "unlink", "tidy"} /\ ~back =>
             Held(m)']_vars
  BY CaseHeldStep
<1> QED BY <1>1, Inductive, Announcing, CaseFlying, PTL DEF Spec, CaseKept
-----------------------------------------------------------------------------
(* When nothing but the undo can happen.                                       *)

Calm == faults = {"undo"}

Resting(n) == [k \in Entries |-> IF k = n THEN "orig" ELSE "none"]

\* Where the files of a move are before and after the pass under way.
Here == Resting(Src)
There == Resting(Dst)

\* The files of the move under way, by phase.
MidMove(f) ==
  /\ phase \in {"renaming", "copying"} => f = Here
  /\ phase = "streaming" => f = [Here EXCEPT ![Part] = "torn"]
  /\ phase \in {"copied", "finalize"} => f = [Here EXCEPT ![Part] = "orig"]
  /\ phase = "delete" => f = [Here EXCEPT ![Dst] = "orig"]

\* A pass over the moves of the item, forward or back: what is left is still where
\* it was, what was done is at the other end.
Pass ==
  /\ phase = "next" \/ Working
  /\ \A m \in Moves : kind[m] # "case" =>
       IF m \in left THEN disk[m] = Here
       ELSE IF Working /\ m = move THEN MidMove(disk[m])
       ELSE disk[m] = There
  /\ Working => move \notin left

CalmBefore ==
  /\ phase \in {"idle", "item"} /\ (phase = "item" => batch)
  /\ journals = <<>> /\ ledger = "none" /\ ~undone /\ ~back /\ ~rolling /\ ~mine
  /\ row = [eligible |-> TRUE, cars |-> Sidecars]
  /\ \A m \in Moves : disk[m] = Untouched

CalmForward ==
  /\ Pass
  /\ ledger = "none" /\ ~undone /\ ~back /\ ~rolling
  /\ Latest.tried = Moves \ left
  /\ \A m \in left : disk[m] = Untouched
  /\ phase = "copied" => Look(move, "part") = Look(move, "from")

CalmFinished ==
  /\ phase \in {"finish", "idle"} /\ (phase = "idle" => ledger = "success")
  /\ ~back /\ ~rolling
  /\ journals # <<>> /\ Latest.state = "complete" /\ Latest.tried = Moves
  /\ \A m \in Moves : kind[m] # "case" => disk[m] = Resting(IF undone THEN "from" ELSE "to")
  /\ undone => phase = "idle"

CalmBack ==
  /\ Pass
  /\ ledger = "success" /\ undone /\ back /\ ~rolling
  /\ journals # <<>> /\ Latest.state = "complete" /\ Latest.tried = Moves
  /\ Working => kind[move] # "case"

CalmInv == Calm => mounted = Shares /\ (CalmBefore \/ CalmForward \/ CalmFinished \/ CalmBack)

LEMMA SameFiles ==
  ASSUME NEW f \in [Entries -> Contents], NEW g \in [Entries -> Contents], \A k \in Entries : f[k] = g[k]
  PROVE  f = g
OBVIOUS

LEMMA RestingTyped ==
  /\ \A n : Resting(n) \in [Entries -> Contents]
  /\ \A n : \A k \in Entries : Resting(n)[k] = IF k = n THEN "orig" ELSE "none"
  /\ Resting("from") = Untouched
BY DEF Resting, Untouched, Contents

\* With both shares there a name is an entry of its own.
LEMMA CalmNames ==
  ASSUME mounted = Shares, NEW m \in Moves, kind[m] # "case", NEW n \in Names
  PROVE  Place(n) = n /\ Entry(m, n) = n /\ Look(m, n) = disk[m][n] /\ n \in Entries
<1>1. Place(n) = n /\ n \in Entries
  BY Places DEF Shares
<1> QED BY <1>1, EntryName DEF Look

LEMMA CalmRename ==
  ASSUME DiskType, mounted = Shares, NEW m \in Moves, kind[m] # "case", NEW a \in Names, NEW b \in Names
  PROVE  /\ Renamed(m, a, b) \in [Entries -> Contents]
         /\ \A k \in Entries : Renamed(m, a, b)[k] =
              IF k = b THEN disk[m][a] ELSE IF k = a THEN "none" ELSE disk[m][k]
<1>1. /\ Place(b) = b /\ Entry(m, a) = a /\ Entry(m, b) = b /\ Look(m, a) = disk[m][a]
  BY CalmNames
<1> QED BY <1>1, RenameOne

\* The names of a move whose files were not touched: what a lookup finds.
LEMMA UntouchedLook ==
  ASSUME NEW m \in Moves, disk[m] = Untouched, mounted = Shares
  PROVE  /\ Look(m, "from") = "orig" /\ Exists(m, "from")
         /\ ~Exists(m, "part")
         /\ kind[m] # "case" => ~Exists(m, "to")
         /\ disk[m]["from"] = "orig"
<1>1. {"from", "to", "part"} \subseteq Entries /\ {"from", "to", "part"} \subseteq Names
  BY Places
<1>2. disk[m]["from"] = "orig" /\ disk[m]["to"] = "none" /\ disk[m]["part"] = "none"
  BY <1>1 DEF Untouched
<1>3. CASE kind[m] = "case"
  <2>1. Entry(m, "from") = "from" /\ Entry(m, "part") = "part"
    BY <1>2, <1>3 DEF Entry, ShareOf, Shares
  <2> QED BY <1>2, <1>3, <2>1 DEF Look, Exists
<1>4. CASE kind[m] # "case"
  BY <1>1, <1>2, <1>4, CalmNames DEF Exists
<1> QED BY <1>3, <1>4

LEMMA PassStutters ==
  ASSUME Pass, UNCHANGED vars
  PROVE  Pass'
<1>1. Here' = Here /\ There' = There /\ Part' = Part /\ Dst' = Dst
  BY DEF vars, Here, There, Src, Dst, Part, Resting
<1> QED BY <1>1 DEF vars, Pass, Working, MidMove

\* One step of a procedure within a pass.
LEMMA MoveInPass ==
  ASSUME Shape, CaseFlight, Calm, mounted = Shares, Pass,
         Rename \/ CopyBegins \/ CopyEnds \/ VerifyCopy \/ Finalize \/ Delete
  PROVE  Pass' /\ \A q \in Moves \ {move} : disk'[q] = disk[q]
<1> USE ShapeParts
<1>0. /\ disk[move] \in [Entries -> Contents] /\ Working
      /\ UNCHANGED <<kind, mounted, move, left, back>>
      /\ {Src, Dst, Part} \subseteq Names /\ Src # Dst /\ Part # Dst /\ Part # Src
      /\ {Src, Dst, Part} \subseteq Entries
  <2>1. {Src, Dst, Part} \subseteq Names /\ Src # Dst /\ Part # Dst /\ Part # Src
    BY OwnNames
  <2>2. Names \subseteq Entries
    BY DEF Entries
  <2> QED BY <2>1, <2>2 DEF DiskType, Rename, CopyBegins, CopyEnds, VerifyCopy, Finalize, Delete,
        Working, env, memory
<1>1. Src' = Src /\ Dst' = Dst /\ Part' = Part
  BY <1>0 DEF Src, Dst, Part
<1>2. Here' = Here /\ There' = There
  BY <1>1 DEF Here, There, Resting
<1>3. \A q \in Moves \ {move} : disk'[q] = disk[q]
  BY WriteOne DEF Rename, CopyBegins, CopyEnds, VerifyCopy, Finalize, Delete
<1>4. phase' = "next" \/ Working'
  BY DEF Rename, CopyBegins, CopyEnds, VerifyCopy, Finalize, Delete, DeletesFirst, Working
<1>5. ASSUME kind[move] # "case"
      PROVE  IF phase' = "next" THEN disk'[move] = There ELSE MidMove(disk[move])'
  <2>1. move \notin left /\ MidMove(disk[move])
    BY <1>0, <1>5 DEF Pass
  <2>2. Here \in [Entries -> Contents] /\ There \in [Entries -> Contents]
        /\ \A k \in Entries : /\ Here[k] = IF k = Src THEN "orig" ELSE "none"
                              /\ There[k] = IF k = Dst THEN "orig" ELSE "none"
    BY <1>0, RestingTyped DEF Here, There, Resting
  <2>3. \A n \in Names : Entry(move, n) = n /\ Look(move, n) = disk[move][n]
    BY <1>5, CalmNames
  <2>4. ASSUME NEW f, OnDisk(move, f)
        PROVE  disk'[move] = f
    BY <2>4, WriteOne
  <2>5. CASE Rename
    <3>1. disk[move] = Here /\ disk'[move] = Renamed(move, Src, Dst) /\ phase' = "next"
      BY <2>1, <2>4, <2>5 DEF Rename, MidMove
    <3>2. Renamed(move, Src, Dst) = There
      <4>1. Renamed(move, Src, Dst) \in [Entries -> Contents]
            /\ \A k \in Entries : Renamed(move, Src, Dst)[k] =
                 IF k = Dst THEN disk[move][Src] ELSE IF k = Src THEN "none" ELSE disk[move][k]
        BY <1>0, <1>5, CalmRename
      <4> QED BY <1>0, <2>2, <3>1, <4>1, SameFiles
    <3> QED BY <3>1, <3>2
  <2>6. CASE CopyBegins
    <3>1. disk'[move] = [Here EXCEPT ![Part] = "torn"] /\ phase' = "streaming"
      BY <1>0, <2>1, <2>3, <2>4, <2>6 DEF CopyBegins, MidMove
    <3> QED BY <1>0, <1>1, <1>2, <3>1 DEF MidMove
  <2>7. CASE CopyEnds
    <3>1. disk[move] = [Here EXCEPT ![Part] = "torn"] /\ phase' = "copied"
          /\ disk'[move] = [disk[move] EXCEPT ![Part] = disk[move][Src]]
      BY <1>0, <2>1, <2>3, <2>4, <2>7 DEF CopyEnds, MidMove, Calm
    <3>2. disk'[move] = [Here EXCEPT ![Part] = "orig"]
      <4>1. disk[move][Src] = "orig"
        BY <1>0, <2>2, <3>1
      <4> QED BY <1>0, <2>2, <3>1, <4>1
    <3> QED BY <1>0, <1>1, <1>2, <3>1, <3>2 DEF MidMove
  <2>8. CASE VerifyCopy
    <3>1. phase = "copied" /\ phase' = "finalize" /\ UNCHANGED disk
      BY <1>5, <2>8 DEF VerifyCopy, DeletesFirst
    <3> QED BY <1>0, <1>1, <1>2, <2>1, <3>1 DEF MidMove
  <2>9. CASE Finalize
    <3>1. disk[move] = [Here EXCEPT ![Part] = "orig"] /\ phase' = "delete"
          /\ disk'[move] = Renamed(move, Part, Dst)
      BY <1>5, <2>1, <2>4, <2>9 DEF Finalize, DeletesFirst, MidMove
    <3>2. Renamed(move, Part, Dst) = [Here EXCEPT ![Dst] = "orig"]
      <4>1. Renamed(move, Part, Dst) \in [Entries -> Contents]
            /\ \A k \in Entries : Renamed(move, Part, Dst)[k] =
                 IF k = Dst THEN disk[move][Part] ELSE IF k = Part THEN "none" ELSE disk[move][k]
        BY <1>0, <1>5, CalmRename
      <4>2. [Here EXCEPT ![Dst] = "orig"] \in [Entries -> Contents]
        BY <1>0, <2>2 DEF Contents
      <4>3. \A k \in Entries : Renamed(move, Part, Dst)[k] = [Here EXCEPT ![Dst] = "orig"][k]
        BY <1>0, <2>2, <3>1, <4>1
      <4> QED BY <4>1, <4>2, <4>3, SameFiles
    <3> QED BY <1>0, <1>1, <1>2, <3>1, <3>2 DEF MidMove
  <2>10. CASE Delete
    <3>1. disk[move] = [Here EXCEPT ![Dst] = "orig"] /\ phase' = "next"
          /\ disk'[move] = [disk[move] EXCEPT ![Src] = "none"]
      BY <1>0, <1>5, <2>1, <2>3, <2>4, <2>10 DEF Delete, DeletesFirst, MidMove, Unlinked
    <3>2. disk'[move] \in [Entries -> Contents] /\ \A k \in Entries : disk'[move][k] = There[k]
      BY <1>0, <2>2, <3>1 DEF Contents
    <3> QED BY <2>2, <3>1, <3>2, SameFiles
  <2> QED BY <2>5, <2>6, <2>7, <2>8, <2>9, <2>10
<1>6. \A m \in Moves : kind'[m] # "case" =>
        IF m \in left' THEN disk'[m] = Here'
        ELSE IF Working' /\ m = move' THEN MidMove(disk[m])'
        ELSE disk'[m] = There'
  <2> SUFFICES ASSUME NEW m \in Moves, kind[m] # "case"
               PROVE  IF m \in left THEN disk'[m] = Here
                      ELSE IF Working' /\ m = move THEN MidMove(disk[move])'
                      ELSE disk'[m] = There
    BY <1>0, <1>2
  <2>1. CASE m # move
    BY <1>0, <1>3, <2>1 DEF Pass
  <2>2. CASE m = move
    <3>1. phase' = "next" => ~Working'
      BY DEF Working
    <3> QED BY <1>0, <1>4, <1>5, <2>2, <3>1 DEF Pass
  <2> QED BY <2>1, <2>2
<1> QED BY <1>0, <1>3, <1>4, <1>6 DEF Pass

\* The faults of a calm run: none but the undo.
LEMMA CalmFaults ==
  ASSUME Shape, OneEntry, Calm, mounted = Shares, [Next]_vars
  PROVE  Calm' /\ mounted' = Shares /\ UNCHANGED kind
         /\ ~OpThrows /\ ~Crash /\ ~MountsChange /\ ~\E m \in Moves : Arrive(m)
<1>1. ~OpThrows /\ ~Crash /\ ~MountsChange /\ ~\E m \in Moves : Arrive(m)
  BY DEF Calm, OpThrows, Crash, MountsChange, Arrive
<1> QED BY <1>1, EnvSteps DEF Calm

LEMMA FromBefore ==
  ASSUME Shape, OneEntry, Calm, mounted = Shares, CalmBefore, [Next]_vars
  PROVE  CalmBefore' \/ CalmForward'
<1> USE ShapeParts
<1>0. /\ Media \in Moves /\ Moves = {Media} \cup Sidecars /\ row.cars = Sidecars
      /\ \A m \in Moves : /\ Look(m, "from") = "orig" /\ Exists(m, "from")
                          /\ kind[m] # "case" => ~Exists(m, "to")
                          /\ disk[m]["from"] = "orig"
  BY UntouchedLook DEF CalmBefore, Moves
<1>1. ~OpThrows /\ ~Crash /\ ~MountsChange /\ ~\E m \in Moves : Arrive(m)
  BY CalmFaults
<1>2. /\ ~Recovery /\ ~MoveStep /\ ~UndoStep /\ ~ItemDone /\ ~MarkSuccess /\ ~ItemAborted /\ ~MarkFailed
      /\ ~\E m \in Moves : Sweep(m)
  BY DEF CalmBefore, Sweep, ItemAborted, MarkFailed, Recovery, Abandon, Duplicate, AttemptUnlink, DeleteSource, AlreadyMoved, Ambiguous, Tidy, RollForward,
     Reconcile, MoveStep, Begin, PreflightFails, Rename, CopyBegins, CopyEnds, VerifyCopy, VerifyFails,
     Finalize, Delete, UndoStep, UndoDebris, UndoMove, UndoEnds, ItemDone, MarkSuccess
<1>3. ~UndoBegins /\ ~NotInBatch
  BY DEF CalmBefore, UndoBegins, NotInBatch
<1>4. ~SoftSkip
  BY <1>0 DEF SoftSkip, Fits, Calm
<1>5. ~Verify
  <2>1. SUFFICES ASSUME Verify PROVE FALSE
    OBVIOUS
  <2>2. row' = [eligible |-> TRUE, cars |-> Sidecars]
    BY <1>0, <2>1 DEF Verify
  <2> QED BY <2>1, <2>2 DEF Verify, CalmBefore
<1>6. ASSUME NEW b \in BOOLEAN, Start(b)
      PROVE  CalmBefore'
  BY <1>6 DEF Start, Opens, Unresolved, CalmBefore, env
<1>7. CASE Plan
  <2> DEFINE rec == Record("open", {Media} \cup row.cars, {})
  <2>1. rec \in Records /\ rec.tried = {} /\ rec.tried \subseteq rec.ops /\ journals' = Append(journals, rec)
    BY <1>0, <1>7 DEF Record, Records, Plan, CalmBefore
  <2>2. Latest'.tried = {}
    BY <2>1, AppendOne
  <2>3. /\ left' = Moves /\ phase' = "next" /\ ~back' /\ ~rolling'
        /\ UNCHANGED <<kind, disk, ledger, undone>>
    BY <1>0, <1>7 DEF Plan, CalmBefore, env
  <2>4. Pass'
    BY <2>3, RestingTyped DEF CalmBefore, Pass, Here, Src, Working
  <2> QED BY <2>2, <2>3, <2>4 DEF CalmForward, CalmBefore
<1>8. CASE UNCHANGED vars
  BY <1>8 DEF vars, CalmBefore
<1> QED BY <1>1, <1>2, <1>3, <1>4, <1>5, <1>6, <1>7, <1>8 DEF Next, Process, ItemStep

LEMMA FromForward ==
  ASSUME Shape, OneEntry, CaseFlight, Calm, mounted = Shares, CalmForward, [Next]_vars
  PROVE  CalmForward' \/ CalmFinished'
<1> USE ShapeParts
<1>0. /\ Media \in Moves /\ move \in Moves /\ Pass /\ UNCHANGED kind
      /\ journals # <<>> /\ Latest \in Records /\ Latest.tried \subseteq Latest.ops
      /\ Latest.ops = ops /\ left \subseteq ops /\ left \subseteq Moves
  <2>1. ~back /\ (phase = "next" \/ Working) /\ Planned
    BY DEF CalmForward, Pass, Shape
  <2>2. journals # <<>> /\ Latest.ops = ops /\ left \subseteq ops
    BY <2>1 DEF Planned, Working
  <2> QED BY <2>2, CalmFaults, LatestTyped DEF CalmForward, Shape, TypeOK, Moves
<1>1. ~OpThrows /\ ~Crash /\ ~MountsChange /\ ~\E m \in Moves : Arrive(m)
  BY CalmFaults
<1>2. ~Recovery /\ ~UndoStep /\ ~UndoBegins /\ ~Verify /\ ~(\E b \in BOOLEAN : Start(b))
      /\ ~NotInBatch /\ ~SoftSkip /\ ~Plan /\ ~MarkSuccess /\ ~ItemAborted /\ ~MarkFailed
      /\ ~\E m \in Moves : Sweep(m)
  BY DEF CalmForward, Sweep, ItemAborted, MarkFailed, Pass, Working, Recovery, Abandon, Duplicate, AttemptUnlink, DeleteSource, AlreadyMoved, Ambiguous, Tidy,
     RollForward, Reconcile, UndoStep, UndoDebris, UndoMove, UndoEnds, UndoBegins, Verify, Start, NotInBatch,
     SoftSkip, Plan, MarkSuccess
<1>3. ~\E m \in Moves : PreflightFails(m)
  <2>1. SUFFICES ASSUME NEW m \in Moves, PreflightFails(m) PROVE FALSE
    OBVIOUS
  <2>2. disk[m] = Untouched /\ Src = "from" /\ Dst = "to" /\ Part = "part"
    BY <2>1 DEF PreflightFails, Chosen, CalmForward, Src, Dst, Part
  <2> QED BY <2>1, <2>2, UntouchedLook DEF PreflightFails, Preflight
<1>4. ~VerifyFails
  BY DEF VerifyFails, Verified, CalmForward, Src, Part
<1>5. ASSUME NEW m \in Moves, Begin(m)
      PROVE  CalmForward'
  <2> DEFINE rec == [Latest EXCEPT !.tried = @ \cup {m}]
  <2>1. m \in left /\ left' = left \ {m} /\ move' = m /\ phase' \in {"renaming", "copying"} /\ phase = "next"
        /\ UNCHANGED <<disk, ledger, undone, back, rolling>> /\ Rewrite(rec)
    BY <1>5 DEF Begin, Chosen, FirstStep, Attempt, env
  <2>2. rec \in Records /\ rec.tried = Latest.tried \cup {m} /\ rec.tried \subseteq rec.ops
    BY <1>0, <2>1 DEF Records
  <2>3. Latest'.tried = Latest.tried \cup {m}
    BY <1>0, <2>1, <2>2, RewriteOne
  <2>4. Here' = Here /\ There' = There
    BY <2>1 DEF Here, There, Src, Dst, Resting
  <2>5. Pass'
    <3>1. Working' /\ move' \notin left' /\ ~Working
      BY <2>1 DEF Working
    <3>2. ASSUME NEW q \in Moves, kind[q] # "case"
          PROVE  IF q \in left' THEN disk'[q] = Here'
                 ELSE IF q = move' THEN MidMove(disk[q])' ELSE disk'[q] = There'
      BY <2>1, <2>4, <3>1, <3>2 DEF CalmForward, Pass, MidMove
    <3> QED BY <1>0, <3>1, <3>2 DEF Pass
  <2> QED BY <2>1, <2>3, <2>5 DEF CalmForward
<1>6. CASE Rename \/ CopyBegins \/ CopyEnds \/ VerifyCopy \/ Finalize \/ Delete
  <2>1. Pass' /\ \A q \in Moves \ {move} : disk'[q] = disk[q]
    BY <1>0, <1>6, MoveInPass
  <2>2. UNCHANGED <<kind, mounted, journals, ledger, undone, left, move, rolling, back>> /\ Working
    BY <1>6 DEF Rename, CopyBegins, CopyEnds, VerifyCopy, Finalize, Delete, Working, env, memory
  <2>3. \A m \in left' : disk'[m] = Untouched
    BY <1>0, <2>1, <2>2 DEF CalmForward, Pass
  <2>4. phase' = "copied" => Look(move, "part")' = Look(move, "from")'
    <3>1. SUFFICES ASSUME phase' = "copied"
                   PROVE  Look(move, "part")' = Look(move, "from")'
      OBVIOUS
    <3>1a. /\ {"from", "to", "part"} \subseteq Entries /\ disk[move] \in [Entries -> Contents]
           /\ Entry(move, "part") = "part" /\ Src = "from" /\ Part = "part"
      BY Places DEF DiskType, CalmForward, Src, Part, Entry, Shares, ShareOf
    <3>2. OnDisk(move, [disk[move] EXCEPT !["part"] = Look(move, "from")])
      BY <1>6, <3>1, <3>1a DEF Rename, CopyBegins, CopyEnds, VerifyCopy, Finalize, Delete, DeletesFirst, Calm
    <3>3. disk'[move] = [disk[move] EXCEPT !["part"] = Look(move, "from")]
      BY <3>2, WriteOne
    <3>4. /\ disk'[move]["part"] = Look(move, "from")
          /\ disk'[move]["from"] = disk[move]["from"] /\ disk'[move]["to"] = disk[move]["to"]
      BY <3>1a, <3>3
    <3>5. Entry(move, "from")' = Entry(move, "from") /\ Entry(move, "from") \in {"from", "to"}
          /\ Entry(move, "part")' = "part"
      BY <1>0, <2>2, <3>4 DEF Entry, ShareOf, Shares, Place
    <3> QED BY <2>2, <3>4, <3>5 DEF Look
  <2> QED BY <2>1, <2>2, <2>3, <2>4 DEF CalmForward, Latest
<1>7. CASE ItemDone
  <2> DEFINE rec == [Latest EXCEPT !.state = "complete"]
  <2>1. left = {} /\ phase = "next" /\ phase' = "finish" /\ UNCHANGED <<disk, undone, back, rolling>> /\ Rewrite(rec)
    BY <1>7 DEF ItemDone, Terminal, env, memory
  <2>2. rec \in Records /\ rec.tried = Latest.tried /\ rec.tried \subseteq rec.ops /\ rec.state = "complete"
    BY <1>0 DEF Records
  <2>3. Latest'.tried = Moves /\ Latest'.state = "complete" /\ journals' # <<>>
    BY <1>0, <2>1, <2>2, RewriteOne DEF CalmForward
  <2>4. \A m \in Moves : kind[m] # "case" => disk[m] = Resting("to")
    BY <2>1 DEF CalmForward, Pass, There, Dst, Working
  <2> QED BY <1>0, <2>1, <2>3, <2>4 DEF CalmForward, CalmFinished
<1>8. CASE UNCHANGED vars
  <2>1. Pass'
    BY <1>0, <1>8, PassStutters
  <2>2. Look(move, "part")' = Look(move, "part") /\ Look(move, "from")' = Look(move, "from")
    BY <1>8 DEF vars, Look, Entry, Place
  <2> QED BY <1>8, <2>1, <2>2 DEF vars, CalmForward, Latest
<1> QED BY <1>1, <1>2, <1>3, <1>4, <1>5, <1>6, <1>7, <1>8 DEF Next, Process, ItemStep, MoveStep

LEMMA FromFinished ==
  ASSUME Shape, OneEntry, Calm, mounted = Shares, CalmFinished, [Next]_vars
  PROVE  CalmFinished' \/ CalmBack'
<1>1. ~OpThrows /\ ~Crash /\ ~MountsChange /\ (~\E m \in Moves : Arrive(m)) /\ UNCHANGED kind
  BY CalmFaults
<1>2. /\ ~Recovery /\ ~MoveStep /\ ~UndoStep /\ ~ItemDone /\ ~NotInBatch /\ ~SoftSkip /\ ~Plan
      /\ ~ItemAborted /\ ~MarkFailed /\ ~\E m \in Moves : Sweep(m)
  BY DEF CalmFinished, Sweep, ItemAborted, MarkFailed, Recovery, Abandon, Duplicate, AttemptUnlink, DeleteSource, AlreadyMoved, Ambiguous, Tidy, RollForward,
     Reconcile, MoveStep, Begin, PreflightFails, Rename, CopyBegins, CopyEnds, VerifyCopy, VerifyFails,
     Finalize, Delete, UndoStep, UndoDebris, UndoMove, UndoEnds, ItemDone, NotInBatch, SoftSkip, Plan
<1>3. ~\E b \in BOOLEAN : Start(b)
  BY DEF CalmFinished, Start, Candidate, Unresolved
<1>4. CASE MarkSuccess
  BY <1>1, <1>4 DEF MarkSuccess, ItemEnds, Gone, CalmFinished, Latest, env
<1>5. CASE Verify
  BY <1>1, <1>5 DEF Verify, CalmFinished, Latest, env, memory
<1>6. CASE UndoBegins
  <2>1. /\ phase' = "next" /\ back' /\ undone' /\ left' = Moves /\ ~undone
        /\ UNCHANGED <<journals, disk, ledger, rolling>> /\ ledger = "success"
    BY <1>6 DEF UndoBegins, CalmFinished
  <2>2. Pass'
    BY <1>1, <2>1 DEF CalmFinished, Pass, Here, Src, Resting, Working
  <2> QED BY <2>1, <2>2 DEF CalmBack, CalmFinished, Latest, Working
<1>7. CASE UNCHANGED vars
  BY <1>7 DEF vars, CalmFinished, Latest
<1> QED BY <1>1, <1>2, <1>3, <1>4, <1>5, <1>6, <1>7 DEF Next, Process, ItemStep

LEMMA FromBack ==
  ASSUME Shape, OneEntry, CaseFlight, Calm, mounted = Shares, CalmBack, [Next]_vars
  PROVE  CalmBack' \/ CalmFinished'
<1> USE ShapeParts
<1>0. /\ Media \in Moves /\ move \in Moves /\ Pass /\ UNCHANGED kind
      /\ Src = "to" /\ Dst = "from" /\ Part = "back"
      /\ {"from", "to", "part", "back"} \subseteq Names /\ {"from", "to", "part", "back"} \subseteq Entries
      /\ \A q \in Moves : disk[q] \in [Entries -> Contents]
  BY CalmFaults, Places DEF CalmBack, Pass, Src, Dst, Part, DiskType
<1>1. ~OpThrows /\ ~Crash /\ ~MountsChange /\ ~\E m \in Moves : Arrive(m)
  BY CalmFaults
<1>2. ~Recovery /\ ~ItemStep /\ ~UndoBegins /\ ~Verify /\ ~(\E b \in BOOLEAN : Start(b))
      /\ ~\E m \in Moves : Begin(m) \/ PreflightFails(m)
  BY DEF CalmBack, Pass, Working, Recovery, Abandon, Duplicate, AttemptUnlink, DeleteSource, AlreadyMoved, Ambiguous, Tidy,
     RollForward, Reconcile, ItemStep, NotInBatch, SoftSkip, Plan, ItemDone, MarkSuccess, ItemAborted, MarkFailed, UndoBegins, Verify,
     Start, Begin, PreflightFails
<1>3. ASSUME NEW m \in Moves, m \in left, kind[m] # "case", phase = "next"
      PROVE  /\ disk[m] = Resting("to")
             /\ Look(m, "to") = "orig" /\ Exists(m, "to")
             /\ ~Exists(m, "from") /\ ~Exists(m, "part") /\ ~Exists(m, "back")
  <2>1. disk[m] = Resting("to")
    BY <1>0, <1>3 DEF Pass, Here
  <2>2. \A n \in Names : Look(m, n) = disk[m][n]
    BY <1>3, CalmNames
  <2>3. \A n \in {"from", "part", "back"} : disk[m][n] = "none"
    BY <1>0, <2>1, RestingTyped
  <2>4. disk[m]["to"] = "orig"
    BY <1>0, <2>1, RestingTyped
  <2> QED BY <1>0, <2>1, <2>2, <2>3, <2>4 DEF Exists
<1>4. ASSUME NEW m \in Moves, UndoDebris(m)
      PROVE  CalmBack'
  <2>1. kind[m] = "case"
    BY <1>3, <1>4 DEF UndoDebris, ChosenBack
  <2>2. phase' = "next" /\ phase = "next" /\ left' = left \ {m} /\ UNCHANGED <<back, ledger, journals, undone, rolling>>
        /\ \A q \in Moves \ {m} : disk'[q] = disk[q]
    BY <1>4, WriteOne DEF UndoDebris, env
  <2>3. Here' = Here /\ There' = There
    BY <2>2 DEF Here, There, Src, Dst, Resting
  <2>4. Pass'
    BY <1>0, <2>1, <2>2, <2>3 DEF Pass, Working
  <2> QED BY <2>2, <2>4 DEF CalmBack, Latest, Working
<1>10. ASSUME NEW m \in Moves, Sweep(m)
       PROVE  CalmBack'
  <2>1. kind[m] = "case"
    BY <1>3, <1>10 DEF Sweep, ChosenBack, CalmBack, Pass, Working
  <2>2. /\ UNCHANGED <<phase, left, move, back, ledger, journals, undone, rolling>> /\ phase = "next"
        /\ \A q \in Moves \ {m} : disk'[q] = disk[q]
    BY <1>10, WriteOne DEF Sweep, env, memory, CalmBack, Pass, Working
  <2>3. Here' = Here /\ There' = There
    BY <2>2 DEF Here, There, Src, Dst, Resting
  <2>4. Pass'
    BY <1>0, <2>1, <2>2, <2>3 DEF Pass, Working
  <2> QED BY <2>2, <2>4 DEF CalmBack, Latest, Working
<1>5. ASSUME NEW m \in Moves, UndoMove(m)
      PROVE  CalmBack'
  <2>1. kind[m] # "case"
    BY <1>5 DEF UndoMove, Exists, Look, Entry, ShareOf, Shares
  <2>2. m \in left /\ phase = "next" /\ ~Exists(m, "part")
    BY <1>3, <1>5, <2>1 DEF UndoMove, ChosenBack
  <2>3. Preflight(m)
    BY <1>0, <1>3, <2>1, <2>2 DEF Preflight
  <2>4. phase' \in {"renaming", "copying"} /\ move' = m /\ left' = left \ {m}
        /\ UNCHANGED <<disk, back, ledger, journals, undone, rolling>>
    BY <1>5, <2>2, <2>3 DEF UndoMove, FirstStep, env
  <2>5. Here' = Here /\ There' = There
    BY <2>4 DEF Here, There, Src, Dst, Resting
  <2>6. Pass'
    <3>1. Working' /\ move' \notin left' /\ ~Working
      BY <2>2, <2>4 DEF Working
    <3>2. ASSUME NEW q \in Moves, kind[q] # "case"
          PROVE  IF q \in left' THEN disk'[q] = Here'
                 ELSE IF q = move' THEN MidMove(disk[q])' ELSE disk'[q] = There'
      BY <1>0, <2>2, <2>4, <2>5, <3>1, <3>2 DEF Pass, MidMove
    <3> QED BY <1>0, <3>1, <3>2 DEF Pass
  <2> QED BY <1>0, <2>1, <2>4, <2>6 DEF CalmBack, Latest
<1>6. CASE Rename \/ CopyBegins \/ CopyEnds \/ VerifyCopy \/ Finalize \/ Delete
  <2>1. Pass'
    BY <1>0, <1>6, MoveInPass
  <2>2. UNCHANGED <<journals, ledger, undone, move, rolling, back>> /\ Working
    BY <1>6 DEF Rename, CopyBegins, CopyEnds, VerifyCopy, Finalize, Delete, Working, env, memory
  <2> QED BY <1>0, <2>1, <2>2 DEF CalmBack, Latest
<1>7. ~VerifyFails
  <2>1. SUFFICES ASSUME VerifyFails PROVE FALSE
    OBVIOUS
  <2>2. phase = "copied" /\ Working /\ kind[move] # "case"
    BY <2>1 DEF VerifyFails, Working, CalmBack
  <2>3. disk[move] = [Resting("to") EXCEPT !["back"] = "orig"]
    BY <1>0, <2>2 DEF Pass, MidMove, Here
  <2>4. \A n \in Names : Look(move, n) = disk[move][n]
    BY <1>0, <2>2, CalmNames
  <2>5. disk[move]["to"] = "orig" /\ disk[move]["back"] = "orig"
    BY <1>0, <2>3, RestingTyped DEF Resting
  <2> QED BY <1>0, <2>1, <2>4, <2>5 DEF VerifyFails, Verified
<1>8. CASE UndoEnds
  <2>1. left = {} /\ phase = "next" /\ phase' = "idle" /\ ~back' /\ ~rolling'
        /\ UNCHANGED <<disk, journals, ledger, undone>>
    BY <1>8 DEF UndoEnds, Gone, env
  <2>2. \A m \in Moves : kind[m] # "case" => disk[m] = Resting("from")
    BY <1>0, <2>1 DEF Pass, There, Working
  <2> QED BY <1>0, <2>1, <2>2 DEF CalmBack, CalmFinished, Latest
<1>9. CASE UNCHANGED vars
  <2>1. Pass'
    BY <1>0, <1>9, PassStutters
  <2> QED BY <1>9, <2>1 DEF vars, CalmBack, Latest, Working
<1> QED BY <1>1, <1>2, <1>4, <1>5, <1>6, <1>7, <1>8, <1>9, <1>10 DEF Next, Process, MoveStep, UndoStep

LEMMA CalmStays == Spec => []CalmInv
<1>1. Init => CalmInv
  BY DEF Init, CalmInv, CalmBefore
<1>2. Shape /\ OneEntry /\ CaseFlight /\ CalmInv /\ [Next]_vars => CalmInv'
  <2> SUFFICES ASSUME Shape, OneEntry, CaseFlight, CalmInv, [Next]_vars, Calm'
               PROVE  mounted' = Shares /\ (CalmBefore' \/ CalmForward' \/ CalmFinished' \/ CalmBack')
    BY DEF CalmInv
  <2>1. Calm
    BY EnvSteps DEF Calm
  <2>2. mounted = Shares /\ (CalmBefore \/ CalmForward \/ CalmFinished \/ CalmBack)
    BY <2>1 DEF CalmInv
  <2> QED BY <2>1, <2>2, CalmFaults, FromBefore, FromForward, FromFinished, FromBack
<1> QED BY <1>1, <1>2, Inductive, Announcing, CaseFlying, PTL DEF Spec

\* When nothing else goes wrong, the undo of a finished item puts the media file and
\* every sidecar back under its old name, byte for byte, and leaves no partial.
THEOREM UndoPutsBack == Spec => []UndoRestores
<1>1. CalmInv => UndoRestores
  <2> SUFFICES ASSUME CalmInv, undone, ~back, faults = {"undo"}, NEW m \in Moves, kind[m] # "case"
               PROVE  disk[m] = Untouched
    BY DEF UndoRestores
  <2>1. CalmFinished
    BY DEF CalmInv, Calm, CalmBefore, CalmForward, CalmBack
  <2> QED BY <2>1, RestingTyped DEF CalmFinished
<1> QED BY <1>1, CalmStays, PTL
=============================================================================
