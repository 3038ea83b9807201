---------------------------- MODULE WorkoutsSync ----------------------------
(***************************************************************************)
(* hevy-sync, the first stage of the workouts-sync workflow                *)
(* (workflows/workouts-sync/stages/hevy-sync.ts): it pages through an      *)
(* account by way of the response cache of its service, marks the workouts *)
(* the ledger does not call done, and then rewrites the history file with  *)
(* the old workouts and the new ones.                                      *)
(*                                                                         *)
(* An attempt is a process of its own.  It may be killed at any step, and  *)
(* it outlives a daemon that dies, which then may start another one.       *)
(***************************************************************************)
EXTENDS WorkItems, SequencesExt

CONSTANTS
  Workouts,
  Accounts,       \* accounts the model starts with, newest workout first
  PageSize,       \* workouts on a page
  Procs,          \* identities for processes: two, an orphan and a child
  FaultChoices,   \* sets of what may go wrong
  MaxDisturbances \* bound on everything that goes wrong and on edits of the account

\* "edit": the owner logs or deletes a workout; "down": a call of the service
\* fails; "busy": the database is locked; "kill": a cancel, the timeout, or a
\* stop of the machine; "tear": a kill while the file is being written;
\* "orphan": the daemon dies and its child does not.
Faults == {"edit", "down", "busy", "kill", "tear", "orphan"}

ASSUME WorkoutsAssumption ==
  /\ IsFiniteSet(Workouts) /\ NoKey \notin Workouts
  /\ \A a \in Accounts : a \in Seq(Workouts) /\ \A i, j \in DOMAIN a : a[i] = a[j] => i = j
  /\ PageSize \in Nat \ {0} /\ IsFiniteSet(Procs)
  /\ FaultChoices \subseteq SUBSET Faults /\ MaxDisturbances \in Nat

VARIABLES
  faults, disturbances,
  account, \* what the service lists, newest first
  deleted, \* workouts that were taken off the account
  cache,   \* pages the service cache holds, the one that expires first at the head
  ledger,
  file,    \* the history file: how often it has each workout, and whether it parses
  proc,    \* the processes
  causes   \* history: what happened that the properties make an exception for

world == <<account, deleted>>
syncVars == <<faults, disturbances, world, cache, ledger, file, proc, causes>>

JOB_NAME == "hevy-sync"
MAX_RETRIES == 3

None == [w \in Workouts |-> 0]
Plus(m, n) == [w \in Workouts |-> m[w] + n[w]]
Once(ws) == [w \in Workouts |-> IF w \in ws THEN 1 ELSE 0]

\* The file has copies of workouts, in an order nothing depends on.
File(copies) == [copies |-> copies, torn |-> FALSE]
TornFile == [copies |-> None, torn |-> TRUE]

\* phase: "none" for no process, "page" before the lookup of a page, "call" after a
\* miss, "plan", "mark", "write", and "writing" when the file has been truncated.
NoProc ==
  [phase |-> "none", orphan |-> FALSE, page |-> 1, found |-> None, todo |-> None,
   existing |-> None, fresh |-> None, failed |-> FALSE]

SyncInit ==
  /\ faults \in FaultChoices /\ disturbances = 0
  /\ account \in Accounts /\ deleted = {}
  /\ cache = <<>>
  /\ ledger = [j \in {JOB_NAME} |-> [w \in Workouts |-> NoRow]]
  /\ file = File(None)
  /\ proc = [p \in Procs |-> NoProc]
  /\ causes = {}

Disturbed(f) ==
  /\ f \in faults
  /\ disturbances < MaxDisturbances
  /\ disturbances' = disturbances + 1

-----------------------------------------------------------------------------
(* The account, the pages it is served in and the cache. *)

PageNo(i) == ((i - 1) \div PageSize) + 1

PageOf(n) ==
  [page |-> n,
   workouts |-> {account[i] : i \in {i \in DOMAIN account : PageNo(i) = n}},
   count |-> (Len(account) + PageSize - 1) \div PageSize]

Cached(n) == {cache[i] : i \in {i \in DOMAIN cache : cache[i].page = n}}

\* The one row of a page is replaced.
setCached(reply) ==
  LET old == {i \in DOMAIN cache : cache[i].page = reply.page}
  IN cache' = IF old = {} THEN Append(cache, reply)
              ELSE Append(RemoveAt(cache, CHOOSE i \in old : TRUE), reply)

\* The pages that follow are shifted against those that were read or cached.
Shifts ==
  causes' = IF cache # <<>> \/ \E p \in Procs : proc[p].phase \in {"page", "call"}
            THEN causes \cup {"shift"} ELSE causes

Edit ==
  /\ Disturbed("edit")
  /\ \/ \E w \in Workouts :
          /\ \A i \in DOMAIN account : account[i] # w
          /\ w \notin deleted
          /\ account' = <<w>> \o account
          /\ UNCHANGED deleted
     \/ \E i \in DOMAIN account :
          /\ account' = RemoveAt(account, i)
          /\ deleted' = deleted \cup {account[i]}
  /\ Shifts
  /\ UNCHANGED <<faults, cache, ledger, file, proc>>

\* The time to live of a page is over, or the cache is cleared.
Expire ==
  /\ cache # <<>>
  /\ cache' \in {Tail(cache), <<>>}
  /\ UNCHANGED <<faults, disturbances, world, ledger, file, proc, causes>>

-----------------------------------------------------------------------------
(* An attempt. *)

Goes(p, changes) == proc' = [proc EXCEPT ![p] = changes]

Ends(p) == Goes(p, NoProc)

\* One attempt at a time, as far as the daemon knows.
Start(p) ==
  /\ proc[p].phase = "none"
  /\ \A q \in Procs : proc[q].phase = "none" \/ proc[q].orphan
  /\ Goes(p, [NoProc EXCEPT !.phase = "page"])
  /\ causes' = IF \E q \in Procs : proc[q].orphan THEN causes \cup {"overlap"} ELSE causes
  /\ UNCHANGED <<faults, disturbances, world, cache, ledger, file>>

Received(p, reply) ==
  Goes(p, [proc[p] EXCEPT !.found = Plus(@, Once(reply.workouts)),
                          !.page = @ + 1,
                          !.phase = IF proc[p].page + 1 <= reply.count THEN "page" ELSE "plan"])

LookUp(p) ==
  /\ proc[p].phase = "page"
  /\ IF Cached(proc[p].page) = {} THEN Goes(p, [proc[p] EXCEPT !.phase = "call"])
     ELSE \E reply \in Cached(proc[p].page) : Received(p, reply)
  /\ UNCHANGED <<faults, disturbances, world, cache, ledger, file, causes>>

Answer(p) ==
  /\ proc[p].phase = "call"
  /\ LET reply == PageOf(proc[p].page) IN Received(p, reply) /\ setCached(reply)
  /\ UNCHANGED <<faults, disturbances, world, ledger, file, causes>>

CallFails(p) ==
  /\ proc[p].phase = "call"
  /\ Disturbed("down")
  /\ Ends(p)
  /\ UNCHANGED <<faults, world, cache, ledger, file, causes>>

\* Mutant of Todo: the workouts are not looked up in the ledger.
TodoAll(found) == found

Todo(found) ==
  [w \in Workouts |-> IF isWorkItemDone(ledger, JOB_NAME, w, MAX_RETRIES) THEN 0 ELSE found[w]]

\* Nothing to do, a file that does not parse, or the marks.  An empty file is read
\* as an empty history.
Plan(p) ==
  /\ proc[p].phase = "plan"
  /\ LET todo == Todo(proc[p].found)
     IN IF todo = None \/ file.torn THEN Ends(p)
        ELSE Goes(p, [proc[p] EXCEPT !.todo = todo, !.existing = file.copies, !.phase = "mark"])
  /\ UNCHANGED <<faults, disturbances, world, cache, ledger, file, causes>>

\* w joins what will be written before it is marked.
Marked(p, w, failed) ==
  LET todo == [proc[p].todo EXCEPT ![w] = @ - 1]
  IN Goes(p, [proc[p] EXCEPT !.todo = todo, !.fresh[w] = @ + 1, !.failed = @ \/ failed,
                             !.phase = IF todo = None THEN "write" ELSE "mark"])

Mark(p) ==
  /\ proc[p].phase = "mark"
  /\ \E w \in Workouts :
       /\ proc[p].todo[w] > 0
       /\ Marked(p, w, FALSE)
       /\ ledger' = markWorkItem(ledger, JOB_NAME, w, Row("success", 1, w))
  /\ UNCHANGED <<faults, disturbances, world, cache, file, causes>>

\* Mutant of FailedRow: the failure counts as the last one.
FailedForGood(w) == Row("failed", MAX_RETRIES, w)

FailedRow(w) == Row("failed", 1, w)

\* The mark throws; the mark as failed does not.
MarkFails(p) ==
  /\ proc[p].phase = "mark"
  /\ Disturbed("busy")
  /\ \E w \in Workouts :
       /\ proc[p].todo[w] > 0
       /\ Marked(p, w, TRUE)
       /\ ledger' = markWorkItem(ledger, JOB_NAME, w, FailedRow(w))
  /\ causes' = causes \cup {"failed mark"}
  /\ UNCHANGED <<faults, world, cache, file>>

\* What was marked and not yet written is lost.
Loses(p) == causes' = IF proc[p].fresh # None THEN causes \cup {"loss"} ELSE causes

\* Both marks throw, and the attempt with them.
MarkThrows(p) ==
  /\ proc[p].phase = "mark"
  /\ Disturbed("busy")
  /\ Ends(p) /\ Loses(p)
  /\ UNCHANGED <<faults, world, cache, ledger, file>>

Truncate(p) ==
  /\ proc[p].phase = "write"
  /\ file' = File(None)
  /\ Goes(p, [proc[p] EXCEPT !.phase = "writing"])
  /\ UNCHANGED <<faults, disturbances, world, cache, ledger, causes>>

\* Mutant of Merged: only what is new is written.
OnlyFresh(p) == proc[p].fresh

Merged(p) == Plus(proc[p].existing, proc[p].fresh)

\* Whether the attempt then succeeds or throws for its failed marks, it is over.
Write(p) ==
  /\ proc[p].phase = "writing"
  /\ file' = File(Merged(p))
  /\ Ends(p)
  /\ UNCHANGED <<faults, disturbances, world, cache, ledger, causes>>

-----------------------------------------------------------------------------
(* Processes that die, and one that should have. *)

Kill(p) ==
  /\ proc[p].phase \notin {"none", "writing"}
  /\ Disturbed("kill")
  /\ Ends(p) /\ Loses(p)
  /\ UNCHANGED <<faults, world, cache, ledger, file>>

\* In the middle of the write: the file is empty, or has a part of the text.
KillWriter(p) ==
  /\ proc[p].phase = "writing"
  /\ Disturbed("tear")
  /\ file' \in {file, TornFile}
  /\ Ends(p) /\ Loses(p)
  /\ UNCHANGED <<faults, world, cache, ledger>>

DaemonDies(p) ==
  /\ proc[p].phase # "none" /\ ~proc[p].orphan
  /\ Disturbed("orphan")
  /\ Goes(p, [proc[p] EXCEPT !.orphan = TRUE])
  /\ UNCHANGED <<faults, world, cache, ledger, file, causes>>

Works(p) == LookUp(p) \/ Answer(p) \/ Plan(p) \/ Mark(p) \/ Truncate(p) \/ Write(p)

SyncNext ==
  \/ Edit \/ Expire
  \/ \E p \in Procs :
       \/ Start(p) \/ Works(p)
       \/ CallFails(p) \/ MarkFails(p) \/ MarkThrows(p)
       \/ Kill(p) \/ KillWriter(p) \/ DaemonDies(p)

SyncSpec == SyncInit /\ [][SyncNext]_syncVars

\* A process takes its steps, the schedule starts one every month, and a cached
\* page expires.
SyncFairSpec ==
  /\ SyncSpec
  /\ WF_syncVars(Expire) /\ WF_syncVars(\E p \in Procs : Start(p))
  /\ \A p \in Procs : WF_syncVars(Works(p))

-----------------------------------------------------------------------------
(* Properties. *)

\* Type correctness; the cache has one reply of a page, also when two processes
\* missed it together.
SyncTypeOK ==
  /\ faults \subseteq Faults /\ disturbances \in 0 .. MaxDisturbances
  /\ account \in Seq(Workouts) /\ deleted \subseteq Workouts
  /\ cache \in Seq([page : Nat, workouts : SUBSET Workouts, count : Nat])
  /\ \A m, n \in 1 .. Len(cache) : cache[m].page = cache[n].page => m = n
  /\ ledger \in LedgerOf({JOB_NAME}, Workouts)
  /\ file \in [copies : [Workouts -> Nat], torn : BOOLEAN]
  /\ \A p \in Procs :
       /\ proc[p].phase \in {"none", "page", "call", "plan", "mark", "write", "writing"}
       /\ {proc[p].found, proc[p].todo, proc[p].existing, proc[p].fresh} \subseteq [Workouts -> Nat]
       /\ proc[p].page \in Nat \ {0}
  /\ causes \subseteq {"shift", "overlap", "failed mark", "loss"}

Success(w) == ledger[JOB_NAME][w].status = "success"

AtRest == \A p \in Procs : proc[p].phase = "none"

\* What the job promises of a workout it calls synced: its data has been appended to
\* the history (hevy-sync.job.ts:13-15).
SyncedIsRecorded == AtRest => \A w \in Workouts : Success(w) => file.copies[w] > 0

\* A workout is synced but not recorded only after an attempt has died between its
\* marks and the end of its write, or two processes have worked at once: not because
\* of failed calls, failed marks, stale pages or edits.
LossHasACause == causes \cap {"loss", "overlap"} = {} => SyncedIsRecorded

\* Workouts that are already synced are skipped (hevy-sync.job.ts:11-13), so the
\* history has each once.
RecordedOnce == \A w \in Workouts : file.copies[w] <= 1

\* The history repeats a workout only if the account was edited under cached pages
\* or between two calls, or a mark failed: not because of kills, retries, expired
\* pages, or a second process next to an orphan.
RepetitionHasACause ==
  causes \cap {"shift", "failed mark"} = {} => RecordedOnce

\* The history only ever grows (hevy-sync.job.ts:15).
OnlyGrows ==
  \A w \in Workouts : [](file.copies[w] > 0 => [](AtRest => file.copies[w] > 0))

\* Every workout that stays on the account is synced in the end, whatever failed on
\* the way: a failed mark is not final, and a stale page does not hide it for ever.
\* Only a history file that no longer parses stops the job for good.
Drains ==
  \A w \in Workouts :
    (\E i \in DOMAIN account : account[i] = w) ~> (Success(w) \/ w \in deleted \/ file.torn)

=============================================================================
