--------------------------- MODULE RenameLibrary ---------------------------
(***************************************************************************)
(* The plex-rename workflow over a whole library, run after run:           *)
(* discover, plan, verify, apply and confirm (workflows/plex-rename/stages)*)
(* and the decisions of its naming engine (naming.ts).                     *)
(*                                                                         *)
(* The first three stages keep snapshots in the ledger, the last two what  *)
(* was done once and for all.  Plex learns of a moved file some time after *)
(* the move; its owner corrects matches and moves files by hand.  The line *)
(* of the journal, the move of the media and the mark of the row are steps *)
(* of their own, which a kill can come between; RenameApply has the steps  *)
(* of the move itself.                                                     *)
(***************************************************************************)
EXTENDS WorkItems, Sequences

CONSTANTS
  Keys,        \* Plex's rating keys, in the order of the walk and of the batches
  Files, Bytes,
  Roots,       \* library roots, each on a share of its own, in the order of their paths
  Titles,
  Unfit,       \* no match, and no id: the engine refuses to name the item
  Episodes, ShowOf, \* the titles that are episodes, and what a title is part of
  Libraries,   \* libraries the model starts with
  full,        \* roots on a volume that takes no more
  maxPerDay, maxPerRun,
  Retries,     \* of apply and confirm
  Limits,      \* of the runs the owner asks for; 0 is no limit
  FaultChoices \* how often each of Faults may happen

\* "ask": the owner starts a run; "walk": a show cannot be read; "io": a move fails;
\* "health": Plex is saturated; "fetch": Plex does not answer; "late": the grace for
\* a rescan is over; "kill"; "rekey": Plex builds a new entry for a file it finds
\* elsewhere; "rematch", "edit": the owner corrects a match, or moves a file.
Faults == {"ask", "walk", "io", "health", "fetch", "late", "kill", "rekey", "rematch", "edit"}

KeySet == {Keys[i] : i \in DOMAIN Keys}
RootSet == {Roots[i] : i \in DOMAIN Roots}

\* A release name is of one file, a canonical name of one title.
Names == Files \cup Titles
Paths == [root : RootSet, name : Names]

\* What Plex has under a key: a file, the path it believes it to have, its match.
Items == [file : Files, path : Paths, title : Titles \cup {Unfit}]

\* Each file has one key and a path of its own.
IsLibrary(lib) ==
  /\ DOMAIN lib \subseteq KeySet /\ \A k \in DOMAIN lib : lib[k] \in Items
  /\ \A f \in Files : \E k \in DOMAIN lib : lib[k].file = f
  /\ \A k, l \in DOMAIN lib : lib[k].file = lib[l].file \/ lib[k].path = lib[l].path => k = l

ASSUME LibraryAssumption ==
  /\ Keys \in Seq(KeySet) /\ Roots \in Seq(RootSet)
  /\ \A i, j \in DOMAIN Keys : Keys[i] = Keys[j] => i = j
  /\ \A i, j \in DOMAIN Roots : Roots[i] = Roots[j] => i = j
  /\ NoKey \notin KeySet /\ Unfit \notin Titles /\ Files \cap Titles = {}
  /\ Bytes \in [Files -> Nat] /\ Episodes \subseteq Titles
  /\ Titles \cup {Unfit} \subseteq DOMAIN ShowOf
  /\ \A lib \in Libraries : IsLibrary(lib)
  /\ full \subseteq RootSet
  /\ {maxPerDay, maxPerRun} \subseteq Nat \ {0} /\ Retries \in Nat /\ Limits \subseteq Nat
  /\ \A choice \in FaultChoices : choice \in [Faults -> Nat]

VARIABLES
  faults,
  disk,      \* where each file is
  plex,      \* the item of each live key
  discover, plan, verify, \* the snapshots: a key without a row is not in the domain
  ledger,    \* the rows of apply and confirm
  appliedTo, \* the target in the rows of apply that say success
  open,      \* the item of the latest journal that has no end, if any
  moving,    \* the file that is moved and whose row is not marked yet, if any
  limited, roots,  \* of the run: ctx.selectedRoots()
  phase,     \* "idle", or the stage under way ("select" and "pending" at its start)
  attempt,   \* of apply or confirm
  todo,      \* keys the stage has still to handle
  failing,   \* the attempt has failed an item
  usedToday,
  moves,     \* history: how often each file was moved by apply
  unmarked,  \* history: files that were moved without the row being marked then
  rekeyed    \* history: files that were given a new key

world == <<disk, plex>>
snapshots == <<discover, plan, verify>>
done == <<ledger, appliedTo, usedToday, moves>>
journal == <<open, moving, unmarked>>
run == <<limited, roots, phase, attempt, todo, failing>>
vars == <<faults, world, snapshots, done, journal, run, rekeyed>>

DISCOVER_JOB == "plex-rename-discover"
PLAN_JOB == "plex-rename-plan"
VERIFY_JOB == "plex-rename-verify"
APPLY_JOB == "plex-rename-apply"
CONFIRM_JOB == "plex-rename-confirm"
MAX_ATTEMPTS == 3

NoRows == [k \in {} |-> k]

Init ==
  /\ faults \in FaultChoices
  /\ plex \in Libraries
  /\ disk = [f \in Files |-> LET k == CHOOSE k \in DOMAIN plex : plex[k].file = f IN plex[k].path]
  /\ discover = NoRows /\ plan = NoRows /\ verify = NoRows
  /\ ledger = [j \in {APPLY_JOB, CONFIRM_JOB} |-> [k \in KeySet |-> NoRow]]
  /\ appliedTo = NoRows
  /\ limited = FALSE /\ roots = {} /\ phase = "idle" /\ attempt = 0
  /\ todo = {} /\ failing = FALSE
  /\ usedToday = 0
  /\ open = {} /\ moving = {} /\ unmarked = {}
  /\ moves = [f \in Files |-> 0] /\ rekeyed = {}

Disturbed(f) == faults[f] > 0 /\ faults' = [faults EXCEPT ![f] = @ - 1]

First(S) == Keys[Min({i \in DOMAIN Keys : Keys[i] \in S})]
Last(S) == Keys[Max({i \in DOMAIN Keys : Keys[i] \in S})]

\* f with the entries of g, which replace its own.
Over(f, g) == [k \in DOMAIN f \cup DOMAIN g |-> IF k \in DOMAIN g THEN g[k] ELSE f[k]]

\* Mutant of pruneSnapshotRows: no row is deleted.
KeepAll(rows, seen) == rows

pruneSnapshotRows(rows, seen) == [k \in DOMAIN rows \cap seen |-> rows[k]]

\* What a stage leaves of its rows: the new ones, and in a limited run those of other
\* roots.
Recorded(rows, new) ==
  IF limited THEN Over(rows, new) ELSE pruneSnapshotRows(Over(rows, new), DOMAIN new)

Begins(stage, keys, n) ==
  phase' = stage /\ todo' = keys /\ attempt' = n /\ failing' = FALSE /\ UNCHANGED <<limited, roots>>

RunEnds ==
  /\ phase' = "idle" /\ todo' = {} /\ attempt' = 0 /\ failing' = FALSE
  /\ limited' = FALSE /\ roots' = {}

-----------------------------------------------------------------------------
(* Runs, which the schedule starts once a day and the owner at any time. *)

AllRows ==
  LET Success(rows) == [k \in KeySet |-> IF k \in DOMAIN rows THEN Row("success", 1, k) ELSE NoRow]
  IN [j \in {DISCOVER_JOB, PLAN_JOB, VERIFY_JOB, APPLY_JOB, CONFIRM_JOB} |->
        CASE j = DISCOVER_JOB -> Success(discover)
          [] j = PLAN_JOB -> Success(plan)
          [] j = VERIFY_JOB -> Success(verify)
          [] OTHER -> ledger[j]]

Scheduled ==
  /\ phase = "idle"
  /\ phase' = "discover" /\ limited' = FALSE /\ roots' = KeySet
  /\ usedToday' = 0
  /\ UNCHANGED <<faults, world, snapshots, ledger, appliedTo, journal, attempt, todo, failing, moves, rekeyed>>

Asked ==
  /\ phase = "idle" /\ Disturbed("ask")
  /\ \E n \in Limits :
       LET chosen == IF n = 0 THEN KeySet
                     ELSE selectPendingRoots(AllRows, DOMAIN AllRows, {CONFIRM_JOB},
                                             Keys, DOMAIN plex, n, MAX_ATTEMPTS)
       IN /\ chosen # {}
          /\ phase' = "discover" /\ limited' = (n > 0) /\ roots' = chosen
  /\ UNCHANGED <<world, snapshots, done, journal, attempt, todo, failing, rekeyed>>

-----------------------------------------------------------------------------
(* Discover. *)

\* The live walk; what fails to be read is left out.
walkLibraryParts(failed) ==
  [k \in {k \in DOMAIN plex : ShowOf[plex[k].title] \notin failed} |-> plex[k]]

Discover ==
  /\ phase = "discover"
  /\ \E failed \in {{}} \cup {{ShowOf[plex[k].title]} : k \in DOMAIN plex} :
       LET walked == walkLibraryParts(failed)
           allowed == [k \in DOMAIN walked \cap roots |-> walked[k]]
       IN /\ IF failed = {} THEN UNCHANGED faults ELSE Disturbed("walk")
          /\ discover' = IF limited THEN Over(discover, allowed)
                         ELSE pruneSnapshotRows(Over(discover, allowed), DOMAIN walked)
  /\ Begins("plan", {}, 0)
  /\ UNCHANGED <<world, plan, verify, done, journal, rekeyed>>

-----------------------------------------------------------------------------
(* Plan. *)

\* The root that has most of a show; a file counts its bytes and one.
chooseShowHomeRoots(rows, show) ==
  LET On(r) == {k \in DOMAIN rows : ShowOf[rows[k].title] = show /\ rows[k].path.root = r}
      weight == [i \in DOMAIN Roots |->
                   MapThenSumSet(LAMBDA k : Bytes[rows[k].file] + 1, On(Roots[i]))]
      heaviest == {i \in DOMAIN Roots : \A j \in DOMAIN Roots : weight[i] >= weight[j]}
  IN Roots[Min(heaviest)]

Target(rows, k) ==
  [root |-> IF rows[k].title \in Episodes THEN chooseShowHomeRoots(rows, ShowOf[rows[k].title])
            ELSE rows[k].path.root,
   name |-> rows[k].title]

Decision(what, from, to) == [decision |-> what, from |-> from, to |-> to]

decideRename(rows, k) ==
  LET from == rows[k].path
  IN IF rows[k].title = Unfit THEN Decision("skip", from, from)
     ELSE IF Target(rows, k) = from THEN Decision("already-canonical", from, from)
     ELSE Decision("rename", from, Target(rows, k))

\* Mutant of Collides: the first of several items with a target gets it.
CollidesWithFirst(entries, rows, k) ==
  \/ k # First({l \in DOMAIN entries : entries[l].decision = "rename" /\ entries[l].to = entries[k].to})
  \/ \E l \in DOMAIN rows : rows[l].path = entries[k].to

\* Another item has the target, by its plan or already.
Collides(entries, rows, k) ==
  \/ \E l \in DOMAIN entries \ {k} : entries[l].decision = "rename" /\ entries[l].to = entries[k].to
  \/ \E l \in DOMAIN rows : rows[l].path = entries[k].to

finalizePlan(entries, rows) ==
  [k \in DOMAIN entries |->
     IF entries[k].decision = "rename" /\ Collides(entries, rows, k)
     THEN Decision("skip", entries[k].from, entries[k].from)
     ELSE entries[k]]

Plan ==
  /\ phase = "plan"
  /\ \E entries \in {[k \in DOMAIN discover \cap roots |-> decideRename(discover, k)]} :
       plan' = Recorded(plan, finalizePlan(entries, discover))
  /\ Begins("gate", {}, 0)
  /\ UNCHANGED <<faults, world, discover, verify, done, journal, rekeyed>>

-----------------------------------------------------------------------------
(* Verify. *)

ToRename == {k \in DOMAIN plan : plan[k].decision = "rename"}

\* The contract of the plan, which looks at the rows of all keys.
PlanIsWellFormed ==
  \A k, l \in ToRename : plan[k].from # plan[k].to /\ (plan[k].to = plan[l].to => k = l)

Gate ==
  /\ phase = "gate"
  /\ IF PlanIsWellFormed THEN Begins("verify", ToRename \cap roots, 0) ELSE RunEnds
  /\ UNCHANGED <<faults, world, snapshots, done, journal, rekeyed>>

Occupied(p) == \E f \in Files : disk[f] = p

\* Of the size Plex has recorded for the file of the snapshot.
Present(p, bytes) == \E f \in Files : disk[f] = p /\ Bytes[f] = bytes

VerifyItem ==
  /\ phase = "verify" /\ todo # {}
  /\ LET k == First(todo)
         bytes == IF k \in DOMAIN discover THEN Bytes[discover[k].file] ELSE 0
         eligible == k \in DOMAIN discover /\ Present(plan[k].from, bytes) /\ ~Occupied(plan[k].to)
         verdict == [eligible |-> eligible, from |-> plan[k].from, to |-> plan[k].to, bytes |-> bytes]
     IN verify' = Over(verify, [l \in {k} |-> verdict]) /\ todo' = todo \ {k}
  /\ UNCHANGED <<faults, world, discover, plan, done, journal, limited, roots, phase, attempt, failing, rekeyed>>

VerifyEnds ==
  /\ phase = "verify" /\ todo = {}
  /\ verify' = IF limited THEN verify ELSE pruneSnapshotRows(verify, ToRename)
  /\ Begins("select", {}, 1)
  /\ UNCHANGED <<faults, world, discover, plan, done, journal, rekeyed>>

-----------------------------------------------------------------------------
(* Apply. *)

\* Mutant of NotApplied: an item is taken whatever apply did to it before.
AnyItem(k) == TRUE

NotApplied(k) == ~isWorkItemDone(ledger, APPLY_JOB, k, MAX_ATTEMPTS)

Eligible == {k \in DOMAIN verify \cap roots : verify[k].eligible /\ NotApplied(k)}

Least(a, b) == IF a < b THEN a ELSE b

\* The first ones, as many as the day and the run allow.
Batch == FirstOnes(Keys, Eligible, Least(maxPerDay - usedToday, maxPerRun))

\* A day without room ends the attempt here, and so does a saturated Plex.
ApplySelects ==
  /\ phase = "select"
  /\ \/ /\ IF Batch = {} /\ Eligible # {} THEN Begins("apply", {}, attempt)
           ELSE Begins(IF open = {} THEN "apply" ELSE "reconcile", Batch, attempt)
        /\ UNCHANGED faults
     \/ Disturbed("health") /\ Begins("apply", {}, attempt)
  /\ UNCHANGED <<world, snapshots, done, journal, rekeyed>>

\* A row that does not say success has no target.
MarkApply(k, status, to) ==
  /\ ledger' = markWorkItem(ledger, APPLY_JOB, k, Row(status, 1, k))
  /\ appliedTo' = IF status = "success" THEN Over(appliedTo, [l \in {k} |-> to])
                  ELSE [l \in DOMAIN appliedTo \ {k} |-> appliedTo[l]]
  /\ usedToday' = IF status = "success" THEN usedToday + 1 ELSE usedToday

\* What was under way when an earlier run died, after the batch was selected: the item
\* is marked as the disk tells, or left to the batches when its file never moved.  The
\* remaining operations may fail.
Reconcile ==
  /\ phase = "reconcile"
  /\ \E o \in open :
       \/ /\ Occupied(o.from) /\ ~Occupied(o.to)
          /\ UNCHANGED <<faults, ledger, appliedTo, usedToday, failing>>
       \/ /\ ~Occupied(o.from) /\ Occupied(o.to)
          /\ MarkApply(o.key, "success", o.to) /\ UNCHANGED <<faults, failing>>
       \/ /\ IF ~Occupied(o.from) /\ Occupied(o.to) THEN Disturbed("io")
             ELSE (Occupied(o.from) <=> Occupied(o.to)) /\ UNCHANGED faults
          /\ MarkApply(o.key, "failed", o.to) /\ failing' = TRUE
  /\ open' = {}
  /\ phase' = "apply"
  /\ UNCHANGED <<world, snapshots, moves, moving, unmarked, limited, roots, attempt, todo, rekeyed>>

\* Checked again right before the move; a move to another share needs room there.
MayMove(v) ==
  /\ Present(v.from, v.bytes)
  /\ ~Occupied(v.to)
  /\ v.from.root = v.to.root \/ v.to.root \notin full

Handled(k) == todo' = todo \ {k} /\ UNCHANGED <<limited, roots, phase, attempt>>

\* The next item of the batch, and nothing is under way.
Idle == phase = "apply" /\ todo # {} /\ open = {} /\ moving = {}

SoftSkip ==
  /\ Idle
  /\ LET k == First(todo)
     IN /\ ~MayMove(verify[k])
        /\ MarkApply(k, "skipped", verify[k].to)
        /\ Handled(k)
  /\ UNCHANGED <<faults, world, snapshots, failing, moves, journal, rekeyed>>

\* The line of the journal that an item is planned.
Intend ==
  /\ Idle
  /\ LET k == First(todo)
     IN /\ MayMove(verify[k])
        /\ open' = {[key |-> k, from |-> verify[k].from, to |-> verify[k].to]}
  /\ UNCHANGED <<faults, world, snapshots, done, moving, unmarked, run, rekeyed>>

Move ==
  /\ phase = "apply" /\ todo # {} /\ open # {} /\ moving = {}
  /\ LET v == verify[First(todo)]
         f == CHOOSE f \in Files : disk[f] = v.from
     IN /\ MayMove(v)
        /\ disk' = [disk EXCEPT ![f] = v.to]
        /\ moves' = [moves EXCEPT ![f] = @ + 1]
        /\ moving' = {f}
  /\ UNCHANGED <<faults, plex, snapshots, ledger, appliedTo, usedToday, open, unmarked, run, rekeyed>>

\* The line that the item is done, after its last operation.
Complete ==
  /\ phase = "apply" /\ open # {} /\ moving # {}
  /\ open' = {}
  /\ UNCHANGED <<faults, world, snapshots, done, moving, unmarked, run, rekeyed>>

MarkApplied ==
  /\ phase = "apply" /\ todo # {} /\ open = {} /\ moving # {}
  /\ MarkApply(First(todo), "success", verify[First(todo)].to)
  /\ Handled(First(todo))
  /\ moving' = {}
  /\ UNCHANGED <<faults, world, snapshots, moves, open, unmarked, failing, rekeyed>>

\* An operation fails: before the media have moved, because something is in the way or
\* the share is, or after that, at a subtitle.  The end of the item in the journal and the
\* mark are one step: between them a kill leaves what it leaves before MarkApplied.
MoveFails ==
  /\ phase = "apply" /\ todo # {} /\ open # {}
  /\ LET k == First(todo)
     IN /\ \/ Disturbed("io")
           \/ moving = {} /\ ~MayMove(verify[k]) /\ UNCHANGED faults
        /\ MarkApply(k, "failed", verify[k].to)
        /\ Handled(k)
  /\ failing' = TRUE
  /\ open' = {} /\ moving' = {} /\ unmarked' = unmarked \cup moving
  /\ UNCHANGED <<world, snapshots, moves, rekeyed>>

\* A failed item fails the attempt; without a further one the run is over.
StageEnds(again, next) ==
  IF ~failing THEN next
  ELSE IF attempt <= Retries THEN Begins(again, {}, attempt + 1)
  ELSE RunEnds

ApplyEnds ==
  /\ phase = "apply" /\ todo = {}
  /\ StageEnds("select", Begins("pending", {}, 1))
  /\ UNCHANGED <<faults, world, snapshots, done, journal, rekeyed>>

-----------------------------------------------------------------------------
(* Confirm. *)

Applied(k) == ledger[APPLY_JOB][k].status = "success"
Confirmed(k) == ledger[CONFIRM_JOB][k].status = "success"

ConfirmSelects ==
  /\ phase = "pending"
  /\ Begins("confirm",
            {k \in roots : Applied(k) /\ ~isWorkItemDone(ledger, CONFIRM_JOB, k, MAX_ATTEMPTS)}, attempt)
  /\ UNCHANGED <<faults, world, snapshots, done, journal, rekeyed>>

\* The id in a canonical name is that of the film or the show.
IdOf(name) == IF name \in Titles THEN ShowOf[name] ELSE name

\* Mutant of Reassociated: only the key that was moved counts.
NeverReassociated(to) == FALSE

\* The snapshot has the path, in its last row by key, and the id that is part of it.
Reassociated(to) ==
  LET owners == {l \in DOMAIN discover : discover[l].path = to}
  IN owners # {} /\ LET title == discover[Last(owners)].title
                    IN title # Unfit /\ ShowOf[title] = IdOf(to.name)

Found(k) ==
  \/ k \in DOMAIN plex /\ plex[k].path = appliedTo[k]
  \/ Reassociated(appliedTo[k])

Confirms(k, status) ==
  /\ ledger' = markWorkItem(ledger, CONFIRM_JOB, k, Row(status, 1, k))
  /\ failing' = (failing \/ status = "failed")
  /\ Handled(k)

\* An item that is not found waits for a rescan, and fails when the grace is over.
ConfirmItem ==
  /\ phase = "confirm" /\ todo # {}
  /\ LET k == First(todo)
     IN \/ Found(k) /\ Confirms(k, "success") /\ UNCHANGED faults
        \/ ~Found(k) /\ Confirms(k, "skipped") /\ UNCHANGED faults
        \/ ~Found(k) /\ Disturbed("late") /\ Confirms(k, "failed")
        \/ Disturbed("fetch") /\ Confirms(k, "skipped")
  /\ UNCHANGED <<world, snapshots, appliedTo, usedToday, moves, journal, rekeyed>>

ConfirmEnds ==
  /\ phase = "confirm" /\ todo = {}
  /\ StageEnds("pending", RunEnds)
  /\ UNCHANGED <<faults, world, snapshots, done, journal, rekeyed>>

-----------------------------------------------------------------------------
(* A kill or a cancel; Plex and the owner. *)

\* The journal that the reconciliation opens may not have the item yet, or have its end
\* before the row is marked.
Kill ==
  /\ phase # "idle" /\ Disturbed("kill")
  /\ RunEnds
  /\ open' \in {open} \cup (IF phase = "reconcile" THEN {{}} ELSE {})
  /\ moving' = {} /\ unmarked' = unmarked \cup moving
  /\ UNCHANGED <<world, snapshots, done, rekeyed>>

Rescan(k) ==
  /\ k \in DOMAIN plex /\ plex[k].path # disk[plex[k].file]
  /\ plex' = [plex EXCEPT ![k].path = disk[plex[k].file]]
  /\ UNCHANGED <<faults, disk, snapshots, done, journal, run, rekeyed>>

\* A key that was never used.
Fresh ==
  {k \in KeySet \ (DOMAIN plex \cup DOMAIN discover \cup DOMAIN verify) :
     ledger[APPLY_JOB][k] = NoRow /\ \A o \in open : o.key # k}

Rekey(k) ==
  /\ k \in DOMAIN plex /\ plex[k].path # disk[plex[k].file]
  /\ Disturbed("rekey") /\ Fresh # {}
  /\ LET f == plex[k].file
         item == [plex[k] EXCEPT !.path = disk[f]]
     IN /\ plex' = [l \in (DOMAIN plex \ {k}) \cup {First(Fresh)} |->
                      IF l = First(Fresh) THEN item ELSE plex[l]]
        /\ rekeyed' = rekeyed \cup {f}
  /\ UNCHANGED <<disk, snapshots, done, journal, run>>

Rematch(k) ==
  /\ k \in DOMAIN plex /\ Disturbed("rematch")
  /\ \E t \in Titles \cup {Unfit} : t # plex[k].title /\ plex' = [plex EXCEPT ![k].title = t]
  /\ UNCHANGED <<disk, snapshots, done, journal, run, rekeyed>>

Edit(f) ==
  /\ Disturbed("edit")
  /\ \E p \in Paths : ~Occupied(p) /\ p.name \in Titles \cup {f} /\ disk' = [disk EXCEPT ![f] = p]
  /\ UNCHANGED <<plex, snapshots, done, journal, run, rekeyed>>

Works ==
  \/ Discover \/ Plan \/ Gate \/ VerifyItem \/ VerifyEnds
  \/ ApplySelects \/ Reconcile \/ SoftSkip \/ Intend \/ Move \/ Complete \/ MarkApplied
  \/ MoveFails \/ ApplyEnds
  \/ ConfirmSelects \/ ConfirmItem \/ ConfirmEnds

Next ==
  \/ Scheduled \/ Asked \/ Works \/ Kill
  \/ \E k \in KeySet : Rescan(k) \/ Rekey(k) \/ Rematch(k)
  \/ \E f \in Files : Edit(f)

Spec == Init /\ [][Next]_vars

\* The schedule starts a run every day, a run takes its steps, Plex rescans.
FairSpec ==
  /\ Spec
  /\ WF_vars(Scheduled) /\ WF_vars(Works)
  /\ \A k \in KeySet : WF_vars(Rescan(k))

-----------------------------------------------------------------------------
(* Properties. *)

\* Type correctness; the live keys of Plex have different files, and a day's moves exceed
\* its quota by at most the one that the reconciliation completes.
TypeOK ==
  /\ faults \in [Faults -> Nat]
  /\ disk \in [Files -> Paths] /\ \A f, g \in Files : disk[f] = disk[g] => f = g
  /\ DOMAIN plex \subseteq KeySet /\ \A k \in DOMAIN plex : plex[k] \in Items
  /\ \A k, l \in DOMAIN plex : plex[k].file = plex[l].file => k = l
  /\ DOMAIN discover \cup DOMAIN plan \cup DOMAIN verify \subseteq KeySet
  /\ \A k \in DOMAIN discover : discover[k] \in Items
  /\ \A k \in DOMAIN plan :
       plan[k] \in [decision : {"rename", "already-canonical", "skip"}, from : Paths, to : Paths]
  /\ \A k \in DOMAIN verify :
       verify[k] \in [eligible : BOOLEAN, from : Paths, to : Paths, bytes : Nat]
  /\ ledger \in LedgerOf({APPLY_JOB, CONFIRM_JOB}, KeySet)
  /\ DOMAIN appliedTo = {k \in KeySet : Applied(k)}
  /\ roots \cup todo \subseteq KeySet
  /\ phase \in {"idle", "discover", "plan", "gate", "verify", "select", "reconcile", "apply",
              "pending", "confirm"}
  /\ limited \in BOOLEAN /\ failing \in BOOLEAN /\ attempt \in 0 .. Retries + 1
  /\ usedToday \in 0 .. maxPerDay + 1 /\ moves \in [Files -> Nat]
  /\ open \subseteq [key : KeySet, from : Paths, to : Paths] /\ \A o, p \in open : o = p
  /\ moving \cup unmarked \cup rekeyed \subseteq Files /\ \A f, g \in moving : f = g

\* k is moved by this step.
MovesNow(k) == moves' # moves /\ k \in todo /\ k = First(todo)

\* What a run moves is what its own plan says, from its own snapshot, to a target no
\* other item of the snapshot has or wants: not what an older plan said, and not the
\* first one of several (naming.ts:782-784).  In a limited run this does not hold.
MovesArePlanned ==
  [][\A k \in KeySet : MovesNow(k) /\ ~limited =>
       /\ k \in DOMAIN discover \cap ToRename
       /\ <<plan[k].from, plan[k].to>> = <<verify[k].from, verify[k].to>>
       /\ discover[k].path = verify[k].from /\ verify[k].to = Target(discover, k)
       /\ \A l \in DOMAIN discover \ {k} :
            verify[k].to \notin {discover[l].path}
            /\ (discover[l].title # Unfit => verify[k].to # Target(discover, l))]_vars

\* The same of limited runs: a decision always reflects the current state of the
\* library (plex-rename.workflow.ts:28-29).
LimitedMovesArePlanned ==
  [][\A k \in KeySet : MovesNow(k) =>
       k \in ToRename /\ plan[k].from = verify[k].from /\ plan[k].to = verify[k].to]_vars

\* A file is moved at most once, ever (plex-rename.workflow.ts:30-31).
MovedOnce == \A f \in Files : moves[f] <= 1

\* The size tells a file from all others: apply compares nothing else.
SizesTell == \A f, g \in Files : Bytes[f] = Bytes[g] => f = g

\* A file is moved again only after Plex gave it another key, or after a move whose
\* success was not marked then, since the run was killed before the mark or a subtitle
\* failed: the batch is selected before the reconciliation marks what it finds
\* (apply.ts:146-179, 241-259).  It is not because its match changed, a confirmation
\* failed, or the owner moved it - unless he puts it where a file of the same size was.
MovedAgainHasACause ==
  SizesTell => \A f \in Files \ (rekeyed \cup unmarked) : moves[f] <= 1

\* Nothing is left to be done of an item: Plex knows where its file is, and that is
\* its canonical path, unless it is unfit, was moved before, or its target is taken or on
\* a full volume.
Settled(k) ==
  LET Wanted(l) == IF plex[l].title = Unfit THEN plex[l].path ELSE Target(plex, l)
  IN /\ plex[k].path = disk[plex[k].file]
     /\ \/ plex[k].title = Unfit \/ Applied(k)
        \/ LET to == Wanted(k)
           IN \/ plex[k].path = to \/ Occupied(to) \/ \E l \in DOMAIN plex \ {k} : Wanted(l) = to
              \/ to.root \in full /\ to.root # plex[k].path.root

\* The item that was moved, or another one with its id, is where apply has put it.
CaughtUp(k) ==
  \E l \in DOMAIN plex :
    /\ plex[l].path = appliedTo[k]
    /\ l = k \/ (plex[l].title # Unfit /\ ShowOf[plex[l].title] = IdOf(appliedTo[k].name))

\* The library converges: in the end every item is settled, and every move that Plex
\* has caught up with is confirmed, also if it retired the key of the item.
Converges ==
  <>[](/\ \A k \in DOMAIN plex : Settled(k)
       /\ \A k \in KeySet : Applied(k) /\ CaughtUp(k) => Confirmed(k))

=============================================================================
