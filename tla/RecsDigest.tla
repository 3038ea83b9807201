---------------------------- MODULE RecsDigest ----------------------------
(***************************************************************************)
(* The recommender workflows from the branches' suggestions to the digest: *)
(* the merge stage, which verifies suggestions by a search, tops the list  *)
(* up and writes it (core/recommender/merge.ts), the notify stage, which   *)
(* pushes a digest of what the owner was not told of and then records it   *)
(* (core/recommender/notify.ts), and the owner, who dismisses and          *)
(* un-dismisses recommendations in the dashboard at any time.              *)
(*                                                                         *)
(* Each attempt of a stage is a process of its own that may be killed.     *)
(***************************************************************************)
EXTENDS WorkItems, Sequences

CONSTANTS
  Titles,          \* what the branches may suggest
  Ids,             \* films the search knows
  NoId,
  Match,           \* what the search finds; NoId is no film, or one below the bar
  Genre,
  recsTarget, recsGenreCap, recsTopUpRounds,
  MergeRetries, NotifyRetries,
  FaultChoices     \* how often each of Faults may happen

\* "quota", "search": a search is refused by the quota of its service, or fails;
\* "branch": a branch fails; "push": a push fails; "answer": a push gets through, its
\* answer does not; "kill"; "dismiss", "buy": the owner clicks, or adds to the library.
Faults == {"quota", "search", "branch", "push", "answer", "kill", "dismiss", "buy"}

ASSUME RecsAssumption ==
  /\ IsFiniteSet(Titles) /\ IsFiniteSet(Ids) /\ {NoId, NoKey} \cap Ids = {}
  /\ Match \in [Titles -> Ids \cup {NoId}] /\ DOMAIN Genre = Ids
  /\ {recsTarget, recsGenreCap} \subseteq Nat \ {0}
  /\ {recsTopUpRounds, MergeRetries, NotifyRetries} \subseteq Nat
  /\ \A choice \in FaultChoices : choice \in [Faults -> Nat]

VARIABLES
  faults,  \* how often each may still happen
  phase,   \* "idle", "branches", "pooled" (before an attempt of the merge), "verify",
           \* "list", "load" (before an attempt of the notification), "push", "mark"
  attempt, \* of the stage under way
  pool,    \* the branches' files
  owned,   \* the snapshot of the library
  merge,   \* what the process of the merge knows
  newRecs, \* what the process of the notification has in its digest
  unmarked, \* and has not marked yet
  recs,    \* recommendations.json
  told,    \* the history file
  ledger,
  pushed,    \* history: how many digests with it went out
  dismissed, \* history: what the owner has dismissed and not un-dismissed
  owed,      \* history: in a digest that failed, and not recorded since
  causes     \* history: what happened that a property makes an exception for

stage == <<phase, attempt, pool, owned, merge, newRecs, unmarked>>
store == <<recs, told, ledger>>
history == <<pushed, dismissed, owed, causes>>
vars == <<faults, stage, store, history>>

RECS_JOB == "movie-recs"
MERGE_JOB == "rec-merge"

NoMerge == [batch |-> {}, seen |-> {}, byTmdb |-> <<>>, round |-> 0,
            quotaHit |-> FALSE, searchFailed |-> FALSE]

Init ==
  /\ faults \in FaultChoices
  /\ phase = "idle" /\ attempt = 0
  /\ pool = {} /\ owned = {}
  /\ merge = NoMerge /\ newRecs = {} /\ unmarked = {}
  /\ recs = {} /\ told = {}
  /\ ledger = [j \in {RECS_JOB, MERGE_JOB} |-> [i \in Ids |-> NoRow]]
  /\ pushed = [i \in Ids |-> 0]
  /\ dismissed = {} /\ owed = {} /\ causes = {}

Disturbed(f) ==
  /\ faults[f] > 0
  /\ faults' = [faults EXCEPT ![f] = @ - 1]

Done(i) == isWorkItemDone(ledger, RECS_JOB, i, 1)
Ignored(i) == ledger[RECS_JOB][i].status = "ignored"
Success(i) == ledger[RECS_JOB][i].status = "success"

\* The process of a stage is gone; before says where its next attempt begins.  The
\* branches' files are written anew before they are read in another run.
Leaves(before, next, files) ==
  /\ phase' = before /\ attempt' = next
  /\ pool' = IF before = "pooled" THEN files ELSE {}
  /\ merge' = NoMerge /\ newRecs' = {} /\ unmarked' = {}

RunEnds == Leaves("idle", 0, {})

Retries == IF phase \in {"verify", "list"} THEN MergeRetries ELSE NotifyRetries

\* A stage that used up its attempts fails, and the ones after it are skipped.
AttemptFails ==
  IF attempt > Retries THEN RunEnds
  ELSE Leaves(IF phase \in {"verify", "list"} THEN "pooled" ELSE "load", attempt + 1, pool)

-----------------------------------------------------------------------------
(* Snapshot, branches. *)

StartRun ==
  /\ phase = "idle"
  /\ phase' = "branches"
  /\ \/ UNCHANGED <<owned, faults>>
     \/ Disturbed("buy") /\ \E i \in Ids : owned' = owned \cup {i}
  /\ UNCHANGED <<attempt, pool, merge, newRecs, unmarked, store, history>>

Branches ==
  /\ phase = "branches"
  /\ \E files \in SUBSET Titles : Leaves("pooled", 1, files)
  /\ UNCHANGED <<faults, owned, store, history>>

BranchFails ==
  /\ phase = "branches"
  /\ Disturbed("branch")
  /\ RunEnds
  /\ UNCHANGED <<owned, store, history>>

-----------------------------------------------------------------------------
(* Merge. *)

\* At most recsGenreCap of a genre and recsTarget in all, taken in rounds of one per
\* genre, in the order in which the genres and their films were found.
balanceByGenre(found) ==
  LET Earlier(i, g) == {j \in 1 .. i : Genre[found[j]] = g}
      Rank(i) == Cardinality(Earlier(i, Genre[found[i]]))
      First(i) == Min(Earlier(i, Genre[found[i]]))
      Kept == {i \in DOMAIN found : Rank(i) <= recsGenreCap}
      Before(j, i) == Rank(j) < Rank(i) \/ (Rank(j) = Rank(i) /\ First(j) < First(i))
  IN {found[i] : i \in {i \in Kept : Cardinality({j \in Kept : Before(j, i)}) < recsTarget}}

Short == Cardinality(balanceByGenre(merge.byTmdb)) < recsTarget

MergeStarts ==
  /\ phase = "pooled"
  /\ phase' = "verify"
  /\ merge' = [NoMerge EXCEPT !.batch = pool, !.seen = pool]
  /\ UNCHANGED <<faults, attempt, pool, owned, newRecs, unmarked, store, history>>

Known(i) == \E k \in DOMAIN merge.byTmdb : merge.byTmdb[k] = i

\* Mutant of Found: what the owner was told of is found again.
FoundAgain(i) ==
  IF i \in owned \cup {NoId} \/ Known(i) THEN merge.byTmdb ELSE Append(merge.byTmdb, i)

\* A hit that is owned, told, dismissed or known already adds nothing.
Found(i) ==
  IF i \in owned \cup {NoId} \/ Done(i) \/ Known(i) THEN merge.byTmdb
  ELSE Append(merge.byTmdb, i)

Verify ==
  /\ phase = "verify"
  /\ \E t \in merge.batch :
       merge' = [merge EXCEPT !.batch = @ \ {t}, !.byTmdb = Found(Match[t])]
  /\ UNCHANGED <<faults, phase, attempt, pool, owned, newRecs, unmarked, store, history>>

SearchFails ==
  /\ phase = "verify" /\ Disturbed("search")
  /\ \E t \in merge.batch :
       merge' = [merge EXCEPT !.batch = @ \ {t}, !.searchFailed = TRUE]
  /\ UNCHANGED <<phase, attempt, pool, owned, newRecs, unmarked, store, history>>

QuotaReached ==
  /\ phase = "verify" /\ merge.batch # {} /\ Disturbed("quota")
  /\ merge' = [merge EXCEPT !.batch = {}, !.quotaHit = TRUE]
  /\ UNCHANGED <<phase, attempt, pool, owned, newRecs, unmarked, store, history>>

\* Mutant of ToppingUp: one round too many.
ToppingUpOnceMore == ~merge.quotaHit /\ Short /\ merge.round <= recsTopUpRounds

ToppingUp == ~merge.quotaHit /\ Short /\ merge.round < recsTopUpRounds

\* The branches are asked again.  No answer, an error, or nothing new ends it.
TopUp ==
  /\ phase = "verify" /\ merge.batch = {} /\ ToppingUp
  /\ \E more \in SUBSET Titles :
       LET fresh == more \ merge.seen
       IN /\ merge' = [merge EXCEPT !.batch = fresh, !.seen = @ \cup fresh, !.round = @ + 1]
          /\ phase' = IF fresh = {} THEN "list" ELSE phase
  /\ UNCHANGED <<faults, attempt, pool, owned, newRecs, unmarked, store, history>>

\* The list is written even if searches failed, in which case the attempt fails.
WriteList ==
  /\ \/ phase = "list"
     \/ phase = "verify" /\ merge.batch = {} /\ ~ToppingUp
  /\ recs' = balanceByGenre(merge.byTmdb)
  /\ ledger' = [ledger EXCEPT ![MERGE_JOB] =
                  [i \in Ids |-> IF i \in recs' THEN Row("success", 1, i) ELSE @[i]]]
  /\ IF merge.searchFailed THEN AttemptFails ELSE Leaves("load", 1, pool)
  /\ UNCHANGED <<faults, owned, told, history>>

-----------------------------------------------------------------------------
(* Notify. *)

\* Neither dismissed nor in a digest before.
New == {i \in recs : ~Ignored(i) /\ ~Done(i)}

\* Mutant of Load: the digest has the first one only.
LoadFirst ==
  /\ phase = "load"
  /\ IF New = {} THEN RunEnds
     ELSE /\ phase' = "push" /\ newRecs' = {CHOOSE i \in New : TRUE} /\ unmarked' = newRecs'
          /\ UNCHANGED <<attempt, pool, merge>>
  /\ UNCHANGED <<faults, owned, store, history>>

Load ==
  /\ phase = "load"
  /\ IF New = {} THEN RunEnds
     ELSE /\ phase' = "push" /\ newRecs' = New /\ unmarked' = New
          /\ UNCHANGED <<attempt, pool, merge>>
  /\ UNCHANGED <<faults, owned, store, history>>

GoesOut == pushed' = [i \in Ids |-> IF i \in newRecs THEN pushed[i] + 1 ELSE pushed[i]]

Push ==
  /\ phase = "push"
  /\ GoesOut
  /\ phase' = "mark"
  /\ UNCHANGED <<faults, attempt, pool, owned, merge, newRecs, unmarked, store>>
  /\ UNCHANGED <<dismissed, owed, causes>>

\* The digest goes out, but its answer is lost; a further try of the same push may
\* get an answer.
AnswerLost ==
  /\ phase = "push" /\ Disturbed("answer")
  /\ GoesOut
  /\ causes' = causes \cup {"lost answer"}
  /\ \/ UNCHANGED <<phase, attempt, pool, merge, newRecs, unmarked, owed>>
     \/ AttemptFails /\ owed' = owed \cup newRecs
  /\ UNCHANGED <<owned, store, dismissed>>

PushFails ==
  /\ phase = "push" /\ Disturbed("push")
  /\ AttemptFails
  /\ owed' = owed \cup newRecs
  /\ UNCHANGED <<owned, store, pushed, dismissed, causes>>

\* Mutant of Notified: the row is one that a later run takes up again.
NotifiedSoftly(i) == Row("skipped", 1, i)

Notified(i) == Row("success", 1, i)

\* With the last mark the history is appended to and the run ends.
Mark ==
  /\ phase = "mark"
  /\ \E i \in unmarked :
       /\ ledger' = markWorkItem(ledger, RECS_JOB, i, Notified(i))
       /\ owed' = owed \ {i}
       /\ IF unmarked = {i} THEN told' = told \cup newRecs /\ RunEnds
          ELSE unmarked' = unmarked \ {i} /\ UNCHANGED <<told, phase, attempt, pool, merge, newRecs>>
  /\ UNCHANGED <<faults, owned, recs, pushed, dismissed, causes>>

-----------------------------------------------------------------------------
(* A kill, after which the attempt is repeated (the timeout) or the run is over (a  *)
(* cancel, a stop of the machine), and the clicks of the owner.                     *)

Kill ==
  /\ phase \in {"verify", "list", "push", "mark"} /\ Disturbed("kill")
  /\ RunEnds \/ AttemptFails
  /\ owed' = IF phase = "push" THEN owed \cup newRecs ELSE owed
  /\ causes' = IF phase = "mark" THEN causes \cup {"lost mark"} ELSE causes
  /\ UNCHANGED <<owned, store, pushed, dismissed>>

ignoreSurfacedItem(i) ==
  markWorkItem(ledger, RECS_JOB, i,
    IF ledger[RECS_JOB][i] = NoRow THEN Row("ignored", 0, i) ELSE AsIgnored(ledger[RECS_JOB][i]))

Dismiss(i) ==
  /\ Disturbed("dismiss")
  /\ ledger' = ignoreSurfacedItem(i)
  /\ dismissed' = dismissed \cup {i} /\ owed' = owed \ {i}
  /\ UNCHANGED <<stage, recs, told, pushed, causes>>

unignoreSurfacedItem(i) ==
  IF Ignored(i) THEN markWorkItem(ledger, RECS_JOB, i, NoRow) ELSE ledger

Undismiss(i) ==
  /\ i \in dismissed
  /\ ledger' = unignoreSurfacedItem(i)
  /\ dismissed' = dismissed \ {i} /\ causes' = causes \cup {"undismissed"}
  /\ UNCHANGED <<faults, stage, recs, told, pushed, owed>>

Owner == \E i \in Ids : Dismiss(i) \/ Undismiss(i)

Works ==
  \/ Branches \/ MergeStarts \/ Verify \/ TopUp \/ WriteList
  \/ Load \/ Push \/ Mark

Next ==
  \/ StartRun \/ Works
  \/ BranchFails \/ SearchFails \/ QuotaReached \/ PushFails \/ AnswerLost
  \/ Kill \/ Owner

Spec == Init /\ [][Next]_vars

\* A run that was started takes its steps.
FairSpec == Spec /\ WF_vars(Works)

-----------------------------------------------------------------------------
(* Properties. *)

\* Type correctness; the merge knows every title it has in its batch, and the rounds
\* of top-ups are bounded.
TypeOK ==
  /\ faults \in [Faults -> Nat]
  /\ phase \in {"idle", "branches", "pooled", "verify", "list", "load", "push", "mark"}
  /\ attempt \in Nat /\ pool \subseteq Titles /\ owned \subseteq Ids
  /\ merge.batch \subseteq merge.seen /\ merge.seen \subseteq Titles
  /\ merge.byTmdb \in Seq(Ids) /\ merge.round \in 0 .. recsTopUpRounds
  /\ unmarked \subseteq newRecs /\ newRecs \subseteq Ids
  /\ recs \subseteq Ids /\ told \subseteq Ids
  /\ ledger \in LedgerOf({RECS_JOB, MERGE_JOB}, Ids)
  /\ pushed \in [Ids -> Nat]

\* The list that goes to the notification in a run of this library is novel (nothing
\* owned, nothing the owner was told of before), within the target, and balanced.
ListIsNovel ==
  phase = "load" /\ attempt = 1 =>
    /\ \A i \in recs : i \notin owned /\ ~Success(i)
    /\ Cardinality(recs) <= recsTarget
    /\ \A i \in recs : Cardinality({k \in recs : Genre[k] = Genre[i]}) <= recsGenreCap

\* A film is recommended twice only after it was un-dismissed, which is the exception of
\* movies.workflow.ts (idempotencyNote), an answer of the service was lost, or a kill came
\* between a digest and its marks: failed pushes, retries, short lists and dismissals do
\* not repeat anything.
TwiceHasACause == causes = {} => \A i \in Ids : pushed[i] <= 1

\* What the owner has dismissed stays dismissed until it is un-dismissed.
DismissalSticks == \A i \in dismissed : Ignored(i)

\* A digest that failed is retried by the next run (notify.ts:96-97): when a digest is
\* composed, what a failed one held is still there.
OwedIsListed == phase = "load" => \A i \in owed \ owned : i \in recs

\* What a run lists and the owner was not told of is recorded as told in the end,
\* unless it was dismissed, or the digest failed or was killed.
Delivered ==
  \A i \in Ids :
    (phase = "load" /\ i \in New) ~> (Success(i) \/ Ignored(i) \/ i \in owed \/ "lost mark" \in causes)

=============================================================================
