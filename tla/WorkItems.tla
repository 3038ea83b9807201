----------------------------- MODULE WorkItems -----------------------------
(***************************************************************************)
(* The work-item ledger (db/store/workItems.ts): one row per job and item. *)
(* Stages skip what the ledger calls done, limited runs choose their       *)
(* inputs by it, and cycling stops by it.  A ledger is a function from     *)
(* jobs to functions from keys to rows; every operator here is one query   *)
(* or one statement, so it is atomic.                                      *)
(***************************************************************************)
EXTENDS Naturals, FiniteSets, FiniteSetsExt

WorkStatus == {"success", "failed", "skipped", "ignored"}

\* No input has this key; NoRow stands for a row that does not exist.
NoKey == "no key"
NoRow == [status |-> "none", attempts |-> 0, root |-> NoKey]

Row(status, attempts, root) ==
  [status |-> status, attempts |-> attempts, root |-> root]

LedgerOf(jobs, keys) ==
  [jobs -> [keys -> [status : WorkStatus \cup {"none"}, attempts : Nat,
                     root : keys \cup {NoKey}]]]

markWorkItem(L, job, key, row) == [L EXCEPT ![job][key] = row]

Exhausted(row, max) == row.status = "failed" /\ row.attempts >= max

isWorkItemDone(L, job, key, max) ==
  \/ L[job][key].status \in {"success", "ignored"}
  \/ Exhausted(L[job][key], max)

-----------------------------------------------------------------------------
(* Choosing the inputs of a limited run. *)

RowsOfRoot(L, jobs, root) ==
  UNION {{L[j][k] : k \in {k \in DOMAIN L[j] : L[j][k].root = root}} : j \in jobs}

rootHasOutstandingWork(L, jobs, root, min) ==
  \E r \in RowsOfRoot(L, jobs, root) : r.status = "failed" /\ ~Exhausted(r, min)

rootReachedTerminal(L, terminal, root, min) ==
  \E r \in RowsOfRoot(L, terminal, root) :
    r.status \in {"success", "ignored"} \/ Exhausted(r, min)

rootHasTerminalBlocker(L, jobs, root, min) ==
  \E r \in RowsOfRoot(L, jobs, root) :
    r.status \in {"ignored", "skipped"} \/ Exhausted(r, min)

\* Mutant of isRootPending: pending means not past the first stage that has rows.
PendingByEntry(L, jobs, terminal, root, min) ==
  \/ rootHasOutstandingWork(L, jobs, root, min)
  \/ RowsOfRoot(L, jobs, root) = {}

isRootPending(L, jobs, terminal, root, min) ==
  \/ rootHasOutstandingWork(L, jobs, root, min)
  \/ /\ ~rootReachedTerminal(L, terminal, root, min)
     /\ ~rootHasTerminalBlocker(L, jobs, root, min)

\* The first n of the keys in S, in the order of the sequence s that has each once.
FirstOnes(s, S, n) ==
  {s[i] : i \in {i \in DOMAIN s : s[i] \in S /\ Cardinality({j \in 1 .. i : s[j] \in S}) <= n}}

\* The first n pending ones of the candidates, which are in the order of the sequence s.
selectPendingRoots(L, jobs, terminal, s, candidates, n, min) ==
  FirstOnes(s, {k \in candidates : isRootPending(L, jobs, terminal, k, min)}, n)

-----------------------------------------------------------------------------
(* Whether another cycle of a workflow is of use (db/store/workflows.ts). *)

RowsIn(L, jobs) ==
  {jk \in jobs \X UNION {DOMAIN L[j] : j \in jobs} : L[jk[1]][jk[2]].status # "none"}

workflowRetryableCount(L, jobs, min) ==
  Cardinality({jk \in RowsIn(L, jobs) :
                 LET r == L[jk[1]][jk[2]] IN r.status = "failed" /\ ~Exhausted(r, min)})

workflowProgressSignature(L, jobs, min) ==
  [items |-> Cardinality(RowsIn(L, jobs)),
   attempts |-> MapThenSumSet(LAMBDA jk : L[jk[1]][jk[2]].attempts, RowsIn(L, jobs)),
   retryable |-> workflowRetryableCount(L, jobs, min)]

\* The null before the first cycle: no ledger has this signature.
NoSignature == [items |-> 0, attempts |-> 0, retryable |-> 1]

\* Mutant of noForwardProgress: only the number of rows counts.
NoNewItems(before, now) == now.items = before.items

noForwardProgress(before, now) ==
  /\ before # NoSignature
  /\ now.items = before.items
  /\ now.attempts = before.attempts
  /\ now.retryable >= before.retryable

-----------------------------------------------------------------------------
(* The controls of the dashboard. *)

unstickWorkItem(L, job, key) ==
  IF L[job][key].status = "failed" THEN markWorkItem(L, job, key, NoRow) ELSE L

AsIgnored(row) == Row("ignored", row.attempts, row.root)

ignoreWorkItem(L, job, key) ==
  IF L[job][key].status = "failed" THEN markWorkItem(L, job, key, AsIgnored(L[job][key])) ELSE L

bulkUnstickItems(L, jobs, min) ==
  [j \in DOMAIN L |-> [k \in DOMAIN L[j] |->
     IF j \in jobs /\ Exhausted(L[j][k], min) THEN NoRow ELSE L[j][k]]]

bulkIgnoreItems(L, jobs, min) ==
  [j \in DOMAIN L |-> [k \in DOMAIN L[j] |->
     IF j \in jobs /\ Exhausted(L[j][k], min) THEN AsIgnored(L[j][k]) ELSE L[j][k]]]

=============================================================================
