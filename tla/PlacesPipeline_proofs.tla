----------------------- MODULE PlacesPipeline_proofs -----------------------
(***************************************************************************)
(* What holds of the places workflow for any number of places, runs,       *)
(* retries, kills and clicks.                                              *)
(***************************************************************************)
EXTENDS PlacesPipeline, TLAPS

Busy == phase \in {"loop", "call"}

\* Where the control of a run can be.
Shape ==
  /\ phase = "idle" <=> stage = "none"
  /\ stage = Ingest => phase = "load"
  /\ phase = "call" => item \in Cids /\ item \notin todo
  /\ ~Busy => todo = {}

Typed == TypeOK /\ Shape

RowOf(s, c) == ledger[s][Key(s, c)]

\* A row that is not settled has an attempt left.
Budget ==
  \A s \in ItemStages, k \in Keys :
    /\ ledger[s][k].attempts <= MaxAttempts
    /\ ledger[s][k].status \notin {"failed", "success", "ignored"} =>
         ledger[s][k].attempts < MaxAttempts

\* What the stage still works on.
Open == todo \cup (IF phase = "call" THEN {item} ELSE {})

Ready ==
  /\ phase = "call" => prior < MaxAttempts
  /\ Busy => \A c \in Open :
       /\ RowOf(stage, c).attempts < MaxAttempts
       /\ RowOf(stage, c).status # "success"
       /\ stage = Enrich => RowOf(Resolve, c).status = "success"
       /\ stage = Llm => RowOf(Enrich, c).status = "success"

\* What the files and the memory of a stage call a success, the ledger does too.
Sourced ==
  \A s \in {Resolve, Enrich}, c \in Cids :
    /\ file[s][c] = "success" => RowOf(s, c).status = "success"
    /\ (Busy /\ stage = s /\ mem[c] = "success") => RowOf(s, c).status = "success"

\* A stage that works has all the successes in its memory, otherwise they are
\* in its file.
Saved ==
  \A s \in ItemStages, c \in Cids :
    RowOf(s, c).status = "success" =>
      \E d \in Cids :
        /\ Key(s, d) = Key(s, c)
        /\ (IF Busy /\ stage = s THEN mem ELSE file[s])[FileKey(s, d)] = "success"

IInv ==
  /\ Typed
  /\ Distinct => Budget /\ Ready /\ Sourced /\ Provenance
  /\ Orderly => Saved

-----------------------------------------------------------------------------
(* What the statements do to the ledger. *)

\* A mark changes one row.
LEMMA MarkRows ==
  ASSUME TypeOK, stage \in ItemStages, item \in Cids,
         NEW status \in WorkStatus, NEW attempts \in Nat,
         Marked(status, attempts)
  PROVE  /\ ledger' \in LedgerOf(Jobs, Keys)
         /\ \A s \in Jobs, k \in Keys :
              ledger'[s][k] = IF s = stage /\ k = Key(stage, item)
                              THEN Row(status, attempts, item) ELSE ledger[s][k]
<1>1. Key(stage, item) \in Keys /\ stage \in Jobs
  BY PlacesAssumption DEF Key, Keys, TypeOK, Jobs, PlacesAssumption
<1>2. ledger \in [Jobs -> [Keys -> [status : WorkStatus \cup {"none"}, attempts : Nat,
                     root : Keys \cup {NoKey}]]]
  BY DEF TypeOK, LedgerOf
<1>3. Row(status, attempts, item) \in [status : WorkStatus \cup {"none"}, attempts : Nat,
                     root : Keys \cup {NoKey}]
  BY DEF Row, Keys
<1> QED
  BY <1>1, <1>2, <1>3 DEF Marked, markWorkItem, LedgerOf

\* The operator touches failed rows only, to delete them or to ignore them.
LEMMA OperatorRows ==
  ASSUME TypeOK, Operator
  PROVE  /\ ledger' \in LedgerOf(Jobs, Keys)
         /\ \A s \in Jobs, k \in Keys :
              \/ ledger'[s][k] = ledger[s][k]
              \/ /\ ledger[s][k].status = "failed"
                 /\ \/ ledger'[s][k] = NoRow
                    \/ ledger'[s][k] = AsIgnored(ledger[s][k])
<1> DEFINE Rows == [status : WorkStatus \cup {"none"}, attempts : Nat,
                     root : Keys \cup {NoKey}]
<1>1. ledger \in [Jobs -> [Keys -> Rows]]
  BY DEF TypeOK, LedgerOf
<1>2. NoRow \in Rows /\ \A r \in Rows : AsIgnored(r) \in Rows
  BY DEF NoRow, WorkStatus, AsIgnored, Row
<1> HIDE DEF Rows
<1>3. CASE \E j \in Jobs, k \in Keys :
             ledger' \in {unstickWorkItem(ledger, j, k), ignoreWorkItem(ledger, j, k)}
  <2>1. PICK j \in Jobs, k \in Keys :
             ledger' \in {unstickWorkItem(ledger, j, k), ignoreWorkItem(ledger, j, k)}
    BY <1>3
  <2>2. CASE ledger' = ledger
    BY <1>1, <2>2 DEF LedgerOf, Rows
  <2>3. CASE ledger' = [ledger EXCEPT ![j][k] = NoRow] /\ ledger[j][k].status = "failed"
    BY <1>1, <1>2, <2>3 DEF LedgerOf, Rows
  <2>4. CASE ledger' = [ledger EXCEPT ![j][k] = AsIgnored(ledger[j][k])] /\ ledger[j][k].status = "failed"
    BY <1>1, <1>2, <2>4 DEF LedgerOf, Rows
  <2> QED BY <2>1, <2>2, <2>3, <2>4 DEF unstickWorkItem, ignoreWorkItem, markWorkItem
<1>4. CASE \E jobs \in {Jobs} \cup {{j} : j \in Jobs} :
             ledger' \in {bulkUnstickItems(ledger, jobs, MaxAttempts),
                          bulkIgnoreItems(ledger, jobs, MaxAttempts)}
  <2>1. PICK jobs : ledger' \in {bulkUnstickItems(ledger, jobs, MaxAttempts),
                                 bulkIgnoreItems(ledger, jobs, MaxAttempts)}
    BY <1>4
  <2>2. DOMAIN ledger = Jobs /\ \A j \in Jobs : DOMAIN ledger[j] = Keys
    BY <1>1
  <2>3. CASE ledger' = bulkUnstickItems(ledger, jobs, MaxAttempts)
    <3>1. ledger' = [j \in Jobs |-> [k \in Keys |->
             IF j \in jobs /\ Exhausted(ledger[j][k], MaxAttempts) THEN NoRow ELSE ledger[j][k]]]
      BY <2>2, <2>3 DEF bulkUnstickItems
    <3> QED BY <1>1, <1>2, <3>1 DEF LedgerOf, Rows, Exhausted
  <2>4. CASE ledger' = bulkIgnoreItems(ledger, jobs, MaxAttempts)
    <3>1. ledger' = [j \in Jobs |-> [k \in Keys |->
             IF j \in jobs /\ Exhausted(ledger[j][k], MaxAttempts)
             THEN AsIgnored(ledger[j][k]) ELSE ledger[j][k]]]
      BY <2>2, <2>4 DEF bulkIgnoreItems
    <3> QED BY <1>1, <1>2, <3>1 DEF LedgerOf, Rows, Exhausted
  <2> QED BY <2>1, <2>3, <2>4
<1> QED BY <1>3, <1>4 DEF Operator

-----------------------------------------------------------------------------
(* Where the control goes. *)

LEMMA InitTyped == Init => Typed
<1> USE PlacesAssumption DEF PlacesAssumption
<1> SUFFICES ASSUME Init PROVE Typed
  OBVIOUS
<1>1. ledger \in LedgerOf(Jobs, Keys)
  BY DEF Init, LedgerOf, NoRow
<1>2. file \in [ItemStages -> [Keys -> Entries]] /\ mem \in [Keys -> Entries]
  BY DEF Init, Blank, Entries
<1>3. attempt \in 1 .. MaxRetries + 1 /\ disturbances \in 0 .. MaxDisturbances
  BY DEF Init
<1> QED
  BY <1>1, <1>2, <1>3 DEF Init, Typed, TypeOK, Shape, Busy, Ingest

\* The end of an attempt, of a member or of a run leaves nothing open.
LEMMA EndsTyped ==
  ASSUME Typed, UNCHANGED world, disturbances' \in 0 .. MaxDisturbances,
         ledger' \in LedgerOf(Jobs, Keys), file' \in [ItemStages -> [Keys -> Entries]],
         stage \in Jobs,
         RunOver \/ JobFails \/ JobSucceeds
  PROVE  Typed' /\ ~Busy' /\ todo' = {} /\ phase' # "call"
<1> USE PlacesAssumption DEF PlacesAssumption
<1>1. mem' \in [Keys -> Entries] /\ todo' = {} /\ item' = NoKey /\ prior' = 0 /\ failed' = FALSE
  BY DEF RunOver, JobFails, JobSucceeds, Forget, Blank, Entries
<1>2. CASE RunOver
  <2>1. stage' = "none" /\ phase' = "idle" /\ attempt' \in 1 .. MaxRetries + 1 /\ roots' = {}
    BY <1>2 DEF RunOver
  <2> QED
    BY <1>1, <2>1 DEF Typed, TypeOK, Shape, Busy, world, Ingest
<1>3. CASE JobFails /\ ~RunOver
  <2>1. stage' = stage /\ phase' = "load" /\ attempt' \in 1 .. MaxRetries + 1 /\ roots' = roots
    BY <1>3 DEF JobFails, Typed, TypeOK
  <2>2. stage # "none"
    BY DEF Jobs, ItemStages, Ingest, Resolve, Enrich, Llm
  <2> QED
    BY <1>1, <2>1, <2>2 DEF Typed, TypeOK, Shape, Busy, world
<1>4. CASE JobSucceeds /\ ~RunOver
  <2>1. stage' \in ItemStages /\ phase' = "gate" /\ attempt' \in 1 .. MaxRetries + 1 /\ roots' = roots
    BY <1>4 DEF JobSucceeds, After, Jobs, ItemStages, Ingest, Resolve, Enrich, Llm
  <2>2. stage' \in Jobs \ {"none", Ingest}
    BY <2>1 DEF Jobs, ItemStages, Ingest, Resolve, Enrich, Llm
  <2> QED
    BY <1>1, <2>1, <2>2 DEF Typed, TypeOK, Shape, Busy, world
<1> QED
  BY <1>2, <1>3, <1>4

\* The call is over, the stage goes on.
LEMMA CallEnds ==
  ASSUME Typed, phase = "call", GoOn, disturbances' \in 0 .. MaxDisturbances,
         ledger' \in LedgerOf(Jobs, Keys), file' \in [ItemStages -> [Keys -> Entries]],
         mem' \in [Keys -> Entries], todo' \subseteq todo, failed' \in BOOLEAN
  PROVE  Typed'
BY DEF GoOn, Typed, TypeOK, Shape, Busy, world

LEMMA NotedTyped ==
  ASSUME TypeOK, stage \in ItemStages, item \in Cids
  PROVE  /\ FileKey(stage, item) \in Keys
         /\ \A e \in Entries : Noted(e) => mem' \in [Keys -> Entries]
<1>1. FileKey(stage, item) \in Keys
  BY PlacesAssumption DEF FileKey, Keys, TypeOK, PlacesAssumption
<1> QED
  BY <1>1 DEF Noted, TypeOK

LEMMA CheckpointTyped ==
  ASSUME TypeOK, stage \in ItemStages, mem' \in [Keys -> Entries], MayCheckpoint
  PROVE  file' \in [ItemStages -> [Keys -> Entries]]
BY DEF MayCheckpoint, TypeOK

LEMMA DisturbedTyped ==
  ASSUME TypeOK, NEW f, Disturbed(f)
  PROVE  disturbances' \in 0 .. MaxDisturbances
BY PlacesAssumption DEF Disturbed, TypeOK, PlacesAssumption

LEMMA StepTyped == Typed /\ [Next]_vars => Typed'
<1> USE PlacesAssumption DEF PlacesAssumption
<1> SUFFICES ASSUME Typed, [Next]_vars PROVE Typed'
  OBVIOUS
<1> USE DEF Typed
<1>0. /\ ledger \in LedgerOf(Jobs, Keys)
      /\ file \in [ItemStages -> [Keys -> Entries]]
      /\ disturbances \in 0 .. MaxDisturbances
      /\ phase = "call" => stage \in ItemStages /\ item \in Cids
  BY DEF TypeOK, Shape, Jobs
<1>1. CASE StartRun
  <2>1. roots' \subseteq Cids
    BY <1>1 DEF StartRun, selectPendingRoots, FirstOnes, Cids
  <2>2. attempt' \in 1 .. MaxRetries + 1 /\ stage' \in Jobs /\ stage' # "none"
    BY <1>1 DEF StartRun, Jobs, Ingest
  <2> QED
    BY <1>1, <2>1, <2>2 DEF StartRun, TypeOK, Shape, Busy, world, local
<1>2. CASE RunIngest
  <2>1. ledger' \in LedgerOf(Jobs, Keys)
    <3>1. ledger \in [Jobs -> [Keys -> [status : WorkStatus \cup {"none"}, attempts : Nat,
                     root : Keys \cup {NoKey}]]]
      BY <1>0 DEF LedgerOf
    <3>2. \A k \in Keys : Row("success", 1, k) \in [status : WorkStatus \cup {"none"}, attempts : Nat,
                     root : Keys \cup {NoKey}]
      BY DEF Row, WorkStatus
    <3>3. [k \in Keys |-> IF k \in roots THEN Row("success", 1, k) ELSE ledger[Ingest][k]]
            \in [Keys -> [status : WorkStatus \cup {"none"}, attempts : Nat, root : Keys \cup {NoKey}]]
      BY <3>1, <3>2 DEF Jobs
    <3> QED
      BY <1>2, <3>1, <3>3 DEF RunIngest, LedgerOf
  <2>2. stage \in Jobs
    BY <1>2 DEF RunIngest, Jobs
  <2> QED
    BY <1>0, <1>2, <2>1, <2>2, EndsTyped DEF RunIngest
<1>3. CASE IngestRefuses
  <2>1. stage \in Jobs
    BY <1>3 DEF IngestRefuses, Jobs
  <2> QED
    BY <1>0, <1>3, <2>1, EndsTyped, DisturbedTyped DEF IngestRefuses
<1>4. CASE Gate
  <2>1. stage \in Jobs
    BY <1>4 DEF Gate, TypeOK, Shape
  <2>2. CASE ~RunOver
    BY <1>4, <2>2 DEF Gate, TypeOK, Shape, Busy, world, local
  <2> QED
    BY <1>0, <1>4, <2>1, <2>2, EndsTyped DEF Gate
<1>5. CASE Load
  <2>1. mem' \in [Keys -> Entries] /\ todo' \subseteq Cids
    BY <1>0, <1>5 DEF Load, TypeOK
  <2> QED
    BY <1>5, <2>1 DEF Load, TypeOK, Shape, Busy, world, Ingest, ItemStages, Resolve, Enrich, Llm
<1>6. CASE NothingToDo
  BY <1>0, <1>6, EndsTyped DEF NothingToDo, Jobs
<1>7. CASE CapReached
  <2>1. disturbances' \in 0 .. MaxDisturbances
    BY <1>7, DisturbedTyped DEF CapReached
  <2>2. CASE JobSucceeds /\ stage \in {Resolve, Enrich}
    BY <1>0, <1>7, <2>1, <2>2, EndsTyped DEF CapReached, Jobs, ItemStages
  <2>3. CASE ~(JobSucceeds /\ stage \in {Resolve, Enrich})
    BY <1>7, <2>1, <2>3 DEF CapReached, TypeOK, Shape, Busy, world
  <2> QED
    BY <2>2, <2>3
<1>8. ASSUME NEW c \in Cids, Take(c)
      PROVE  Typed'
  <2>1. prior' \in Nat
    <3>1. Key(stage, c) \in Keys
      BY DEF Key, Keys, TypeOK
    <3>2. stage \in Jobs
      BY <1>8 DEF Take, TypeOK, Shape
    <3> QED
      BY <1>0, <1>8, <3>1, <3>2 DEF Take, LedgerOf
  <2> QED
    BY <1>8, <2>1 DEF Take, TypeOK, Shape, Busy, world
<1>9. CASE Succeeds
  <2>1. ledger' \in LedgerOf(Jobs, Keys)
    BY <1>0, <1>9, MarkRows DEF Succeeds, TypeOK, WorkStatus
  <2>2. mem' \in [Keys -> Entries]
    BY <1>0, <1>9, NotedTyped DEF Succeeds, Entries
  <2> QED
    BY <1>0, <1>9, <2>1, <2>2, CallEnds, CheckpointTyped DEF Succeeds, TypeOK
<1>10. CASE Fails
  <2>1. ledger' \in LedgerOf(Jobs, Keys)
    BY <1>0, <1>10, MarkRows DEF Fails, TypeOK, WorkStatus
  <2>2. mem' \in [Keys -> Entries]
    BY <1>0, <1>10, NotedTyped DEF Fails, Entries, TypeOK
  <2>3. todo' \subseteq todo
    BY <1>10 DEF Fails
  <2>4. failed' \in BOOLEAN /\ disturbances' = disturbances
    BY <1>10 DEF Fails
  <2> QED
    BY <1>0, <1>10, <2>1, <2>2, <2>3, <2>4, CallEnds, CheckpointTyped DEF Fails
<1>11. CASE Refused
  <2>1. ledger' \in LedgerOf(Jobs, Keys)
    BY <1>0, <1>11, MarkRows DEF Refused, TypeOK, WorkStatus
  <2>2. disturbances' \in 0 .. MaxDisturbances
    BY <1>11, DisturbedTyped DEF Refused
  <2> QED
    BY <1>0, <1>11, <2>1, <2>2, CallEnds DEF Refused, TypeOK
<1>12. CASE Finish
  <2>1. stage \in ItemStages
    BY <1>12 DEF Finish, TypeOK, Shape, Jobs
  <2>2. file' \in [ItemStages -> [Keys -> Entries]]
    BY <1>12, <2>1 DEF Finish, TypeOK
  <2> QED
    BY <1>0, <1>12, <2>1, <2>2, EndsTyped DEF Finish, Jobs
<1>13. CASE Throws
  <2>1. stage \in Jobs
    BY <1>13 DEF Throws, Jobs, ItemStages
  <2> QED
    BY <1>0, <1>13, <2>1, EndsTyped, DisturbedTyped DEF Throws
<1>14. CASE Killed
  <2>1. stage \in Jobs
    BY <1>14 DEF Killed, TypeOK
  <2> QED
    BY <1>0, <1>14, <2>1, EndsTyped, DisturbedTyped DEF Killed
<1>15. CASE Operator
  <2>1. ledger' \in LedgerOf(Jobs, Keys)
    BY <1>15, OperatorRows
  <2>2. disturbances' \in 0 .. MaxDisturbances
    BY <1>15, DisturbedTyped DEF Operator
  <2> QED
    BY <1>15, <2>1, <2>2 DEF Operator, TypeOK, Shape, Busy, world, local
<1>16. CASE UNCHANGED vars
  BY <1>16 DEF vars, TypeOK, Shape, Busy, world, local
<1> QED
  BY <1>1, <1>2, <1>3, <1>4, <1>5, <1>6, <1>7, <1>8, <1>9, <1>10, <1>11, <1>12, <1>13,
     <1>14, <1>15, <1>16 DEF Next, Work

THEOREM TypeCorrect == Spec => []TypeOK
<1>1. Spec => []Typed
  BY InitTyped, StepTyped, PTL DEF Spec
<1>2. Typed => TypeOK
  BY DEF Typed
<1> QED
  BY <1>1, <1>2, PTL

-----------------------------------------------------------------------------
(* How the ledger moves. *)

LEMMA WorldFixed == [Next]_vars => UNCHANGED world
BY DEF Next, Work, StartRun, RunIngest, IngestRefuses, Gate, Load, NothingToDo, CapReached,
   Take, Succeeds, Fails, Refused, Finish, Throws, Killed, Operator, GoOn, world, vars

LEMMA KeyInKeys ==
  ASSUME TypeOK, NEW s \in ItemStages, NEW c \in Cids
  PROVE  Key(s, c) \in Keys
BY PlacesAssumption DEF Key, Keys, TypeOK, PlacesAssumption

LEMMA KeysApart ==
  ASSUME TypeOK, Distinct, NEW s \in ItemStages, NEW c \in Cids, NEW d \in Cids,
         Key(s, c) = Key(s, d)
  PROVE  c = d
BY DEF Key, Distinct

\* Before a call the ledger has its row for the item, which it may have a try.
MarkedRow(s, k) ==
  /\ phase = "call" /\ phase' = "loop" /\ s = stage /\ k = Key(stage, item)
  /\ ledger[s][k].status # "success"
  /\ ledger'[s][k].attempts <= MaxAttempts
  /\ \/ ledger'[s][k].status \in {"success", "failed"}
     \/ ledger'[s][k].status = "skipped" /\ ledger'[s][k].attempts < MaxAttempts

ClickedRow(s, k) ==
  /\ ledger[s][k].status = "failed"
  /\ ledger'[s][k].status \in {"none", "ignored"}
  /\ ledger'[s][k].attempts <= ledger[s][k].attempts
  /\ ledger'[s][k].status = "none" => ledger'[s][k].attempts = 0

\* A row of a stage changes when its item was tried or put off, and when the
\* operator unsticks or ignores it.
LEMMA RowStep ==
  ASSUME Typed, Distinct, Ready, [Next]_vars,
         NEW s \in ItemStages, NEW k \in Keys
  PROVE  ledger'[s][k] = ledger[s][k] \/ MarkedRow(s, k) \/ ClickedRow(s, k)
<1> USE PlacesAssumption DEF PlacesAssumption
<1>0. s \in Jobs /\ ledger \in LedgerOf(Jobs, Keys)
  BY DEF Jobs, Typed, TypeOK
<1>1. CASE phase = "call" /\ GoOn
           /\ \E st \in {"success", "failed", "skipped"}, a \in {prior, prior + 1} :
                Marked(st, a) /\ (a = prior \/ st # "skipped")
  <2>1. stage \in ItemStages /\ item \in Cids /\ prior \in Nat /\ prior < MaxAttempts
    BY <1>1 DEF Typed, TypeOK, Shape, Jobs, Ready
  <2>2. PICK st \in {"success", "failed", "skipped"}, a \in {prior, prior + 1} :
           Marked(st, a) /\ (a = prior \/ st # "skipped")
    BY <1>1
  <2>2a. a \in Nat /\ st \in WorkStatus
    BY <2>1 DEF WorkStatus
  <2>3. ledger'[s][k] = IF s = stage /\ k = Key(stage, item) THEN Row(st, a, item) ELSE ledger[s][k]
    BY <1>0, <2>1, <2>2, <2>2a, MarkRows DEF Typed
  <2>4. phase' = "loop"
    BY <1>1 DEF GoOn
  <2>5. ledger[stage][Key(stage, item)].status # "success"
    BY <1>1 DEF Ready, Busy, Open, RowOf
  <2> QED
    BY <1>1, <2>1, <2>2, <2>3, <2>4, <2>5 DEF MarkedRow, Row
<1>2. CASE Operator
  <2>1. \/ ledger'[s][k] = ledger[s][k]
        \/ /\ ledger[s][k].status = "failed"
           /\ ledger'[s][k] = NoRow \/ ledger'[s][k] = AsIgnored(ledger[s][k])
    BY <1>0, <1>2, OperatorRows DEF Typed
  <2>2. ledger[s][k].attempts \in Nat
    BY <1>0 DEF LedgerOf
  <2> QED
    BY <2>1, <2>2 DEF ClickedRow, NoRow, AsIgnored, Row
<1>3. CASE RunIngest
  <2>1. ledger'[s] = ledger[s]
    BY <1>0, <1>3 DEF RunIngest, LedgerOf, ItemStages, Ingest, Resolve, Enrich, Llm
  <2> QED
    BY <2>1
<1>4. CASE Succeeds \/ Fails \/ Refused
  BY <1>1, <1>4 DEF Succeeds, Fails, Refused
<1>5. CASE ledger' = ledger
  BY <1>5
<1> QED
  BY <1>2, <1>3, <1>4, <1>5 DEF Next, Work, StartRun, IngestRefuses, Gate, Load, NothingToDo,
     CapReached, Take, Finish, Throws, Killed, vars

\* The budget holds, and a row of a stage never goes back from success.
LEMMA StepBudget ==
  ASSUME Typed, Distinct, Budget, Ready, [Next]_vars
  PROVE  /\ Budget'
         /\ \A s \in ItemStages, k \in Keys :
              ledger[s][k].status = "success" => ledger'[s][k] = ledger[s][k]
<1> USE PlacesAssumption DEF PlacesAssumption
<1> SUFFICES ASSUME NEW s \in ItemStages, NEW k \in Keys
             PROVE  /\ ledger'[s][k].attempts <= MaxAttempts
                    /\ ledger'[s][k].status \notin {"failed", "success", "ignored"} =>
                         ledger'[s][k].attempts < MaxAttempts
                    /\ ledger[s][k].status = "success" => ledger'[s][k] = ledger[s][k]
  BY DEF Budget
<1>1. CASE ledger'[s][k] = ledger[s][k]
  BY <1>1 DEF Budget
<1>2. CASE MarkedRow(s, k)
  BY <1>2 DEF MarkedRow
<1>3. CASE ClickedRow(s, k)
  <2>1. ledger[s][k].attempts \in Nat /\ ledger'[s][k].attempts \in Nat
    BY StepTyped DEF Typed, TypeOK, LedgerOf, Jobs
  <2> QED
    BY <1>3, <2>1 DEF ClickedRow, Budget
<1> QED
  BY <1>1, <1>2, <1>3, RowStep

\* What is still open keeps its attempt, and the stages before it are done.
LEMMA StillOpen ==
  ASSUME Typed, Distinct, Budget, Ready, [Next]_vars, Busy, stage' = stage,
         NEW c \in Cids, c \in Open, phase' = "loop" => c # item \/ phase # "call"
  PROVE  /\ RowOf(stage, c)'.attempts < MaxAttempts
         /\ RowOf(stage, c)'.status # "success"
         /\ stage = Enrich => RowOf(Resolve, c)'.status = "success"
         /\ stage = Llm => RowOf(Enrich, c)'.status = "success"
<1> USE PlacesAssumption DEF PlacesAssumption
<1>0. stage \in ItemStages /\ placeOf' = placeOf
  BY WorldFixed DEF Typed, TypeOK, Shape, Busy, Jobs, world
<1>1. \A s \in ItemStages : RowOf(s, c)' = ledger'[s][Key(s, c)] /\ Key(s, c) \in Keys
  BY <1>0, KeyInKeys DEF RowOf, Key, Typed
<1>2. ~MarkedRow(stage, Key(stage, c))
  BY <1>0, KeysApart DEF MarkedRow, Typed, Shape
<1>3. /\ ledger[stage][Key(stage, c)].attempts < MaxAttempts
      /\ ledger[stage][Key(stage, c)].status # "success"
      /\ stage = Enrich => ledger[Resolve][Key(Resolve, c)].status = "success"
      /\ stage = Llm => ledger[Enrich][Key(Enrich, c)].status = "success"
  BY DEF Ready, RowOf
<1>4. ledger[stage][Key(stage, c)].attempts \in Nat /\ ledger'[stage][Key(stage, c)].attempts \in Nat
  BY <1>0, <1>1, StepTyped DEF Typed, TypeOK, LedgerOf, Jobs
<1>5. /\ ledger'[stage][Key(stage, c)].attempts < MaxAttempts
      /\ ledger'[stage][Key(stage, c)].status # "success"
  BY <1>0, <1>1, <1>2, <1>3, <1>4, RowStep DEF ClickedRow
<1>6. /\ stage = Enrich => ledger'[Resolve][Key(Resolve, c)].status = "success"
      /\ stage = Llm => ledger'[Enrich][Key(Enrich, c)].status = "success"
  BY <1>1, <1>3, StepBudget DEF ItemStages
<1> QED
  BY <1>0, <1>1, <1>5, <1>6 DEF ItemStages

LEMMA InitReady == Init => (Distinct => Budget /\ Ready /\ Sourced /\ Provenance) /\ Saved
<1> USE PlacesAssumption DEF PlacesAssumption
<1> SUFFICES ASSUME Init PROVE Budget /\ Ready /\ Sourced /\ Provenance /\ Saved
  OBVIOUS
<1>1. \A s \in Jobs, k \in Keys : ledger[s][k] = NoRow
  BY DEF Init
<1>2. \A s \in ItemStages, c \in Cids : Key(s, c) \in Keys /\ placeOf[c] \in Keys
  BY DEF Init, Key, Keys
<1>3. \A s \in ItemStages, k \in Keys : file[s][k] = "none"
  BY DEF Init, Blank
<1>4. Budget
  BY <1>1 DEF Budget, NoRow, Jobs
<1>5. Ready
  BY DEF Init, Ready, Busy
<1>6. Sourced
  BY <1>3 DEF Init, Sourced, Busy, Keys, ItemStages
<1>7. Provenance
  BY <1>1, <1>2 DEF Provenance, NoRow, Jobs, ItemStages
<1>8. Saved
  BY <1>1, <1>2 DEF Saved, RowOf, NoRow, Jobs
<1> QED
  BY <1>4, <1>5, <1>6, <1>7, <1>8

LEMMA StepReady ==
  ASSUME Typed, Distinct, Budget, Ready, Sourced, [Next]_vars
  PROVE  Ready'
<1> USE PlacesAssumption DEF PlacesAssumption
<1>0. Typed'
  BY StepTyped
<1>1. ASSUME stage' = stage, Busy, Busy', Open' \subseteq Open,
             phase' = "call" => prior' < MaxAttempts,
             \A c \in Open' : phase' = "loop" => c # item \/ phase # "call"
      PROVE  Ready'
  BY <1>1, StillOpen DEF Ready, Open, Typed, TypeOK, Shape
<1>2. CASE ~Busy'
  BY <1>2 DEF Ready, Busy
<1>3. CASE Load
  <2>1. stage \in ItemStages /\ UNCHANGED <<ledger, stage, placeOf, file>> /\ phase' = "loop"
    BY <1>3 DEF Load, world
  <2>2. Open' = todo' /\ todo' \subseteq Outstanding(stage)
    BY <1>3, <2>1 DEF Load, Open
  <2>3. ASSUME NEW c \in Outstanding(stage)
        PROVE  /\ RowOf(stage, c).attempts < MaxAttempts
               /\ RowOf(stage, c).status # "success"
               /\ stage = Enrich => RowOf(Resolve, c).status = "success"
               /\ stage = Llm => RowOf(Enrich, c).status = "success"
    <3>1. c \in Cids /\ c \in Candidates(stage) /\ ~isWorkItemDone(ledger, stage, Key(stage, c), MaxAttempts)
      BY <2>1 DEF Outstanding, Candidates, ItemStages, Resolve, Enrich, Llm
    <3>2. Key(stage, c) \in Keys
      BY <2>1, <3>1, KeyInKeys DEF Typed
    <3>3. RowOf(stage, c).attempts \in Nat
      BY <2>1, <3>2 DEF RowOf, Typed, TypeOK, LedgerOf, Jobs
    <3>4. RowOf(stage, c).attempts < MaxAttempts /\ RowOf(stage, c).status # "success"
      BY <2>1, <3>1, <3>2, <3>3 DEF isWorkItemDone, Exhausted, RowOf, Budget
    <3>5. stage = Enrich => file[Resolve][c] = "success"
      BY <3>1 DEF Candidates, Resolve, Enrich, Llm
    <3>6. stage = Llm => file[Enrich][c] = "success"
      BY <3>1 DEF Candidates, Resolve, Enrich, Llm
    <3> QED
      BY <3>1, <3>4, <3>5, <3>6 DEF Sourced
  <2>4. \A s \in ItemStages, c \in Cids : RowOf(s, c)' = RowOf(s, c)
    BY <2>1 DEF RowOf, Key
  <2>5. Outstanding(stage) \subseteq Cids
    BY <2>1 DEF Outstanding, Candidates, ItemStages, Resolve, Enrich, Llm
  <2> QED
    BY <2>1, <2>2, <2>3, <2>4, <2>5 DEF Ready, ItemStages
<1>4. ASSUME NEW c \in Cids, Take(c)
      PROVE  Ready'
  <2>1. stage' = stage /\ Busy /\ phase = "loop" /\ phase' = "call" /\ item' = c /\ todo' = todo \ {c} /\ c \in todo
    BY <1>4 DEF Take, Busy
  <2>2. prior' < MaxAttempts
    BY <1>4, <2>1 DEF Take, Ready, RowOf, Open
  <2> QED
    BY <1>1, <2>1, <2>2 DEF Open, Busy
<1>5. CASE phase = "call" /\ GoOn /\ todo' \subseteq todo
  BY <1>1, <1>5 DEF GoOn, Busy, Open, Typed, Shape
<1>6. CASE Operator \/ UNCHANGED vars
  <2>1. UNCHANGED <<stage, phase, todo, item, prior>>
    BY <1>6 DEF Operator, vars, local
  <2>2. CASE Busy
    BY <1>1, <2>1, <2>2 DEF Open, Ready, Busy
  <2> QED
    BY <1>2, <2>1, <2>2 DEF Busy
<1>7. CASE CapReached
  <2>1. CASE phase = "loop" /\ stage = Resolve /\ todo' = {} /\ UNCHANGED <<stage, phase>>
    BY <1>1, <2>1 DEF Open, Busy
  <2>2. CASE phase = "load" /\ JobSucceeds /\ stage \in {Resolve, Enrich}
    BY <1>2, <2>2 DEF JobSucceeds, RunOver, Busy
  <2> QED
    BY <1>7, <2>1, <2>2 DEF CapReached
<1>8. CASE Succeeds \/ Fails \/ Refused
  BY <1>5, <1>8 DEF Succeeds, Fails, Refused
<1>9. CASE StartRun \/ RunIngest \/ IngestRefuses \/ Gate \/ NothingToDo \/ Finish \/ Throws \/ Killed
  BY <1>2, <1>9 DEF StartRun, RunIngest, IngestRefuses, Gate, NothingToDo, Finish, Throws,
     Killed, JobSucceeds, JobFails, RunOver, Busy
<1> QED
  BY <1>3, <1>4, <1>6, <1>7, <1>8, <1>9 DEF Next, Work

\* The step in which a file or the memory gets a success is the one in which
\* the ledger gets it.
LEMMA StepSourced ==
  ASSUME Typed, Distinct, Budget, Ready, Sourced, [Next]_vars
  PROVE  Sourced'
<1> USE PlacesAssumption DEF PlacesAssumption
<1> SUFFICES ASSUME NEW s \in {Resolve, Enrich}, NEW c \in Cids
             PROVE  /\ file'[s][c] = "success" => RowOf(s, c)'.status = "success"
                    /\ (Busy' /\ stage' = s /\ mem'[c] = "success") => RowOf(s, c)'.status = "success"
  BY DEF Sourced
<1>0. s \in ItemStages /\ placeOf' = placeOf
  BY WorldFixed DEF ItemStages, world
<1>1. RowOf(s, c)' = ledger'[s][Key(s, c)] /\ RowOf(s, c) = ledger[s][Key(s, c)] /\ Key(s, c) \in Keys
  BY <1>0, KeyInKeys DEF RowOf, Key, Typed
<1>2. RowOf(s, c).status = "success" => RowOf(s, c)'.status = "success"
  BY <1>0, <1>1, StepBudget
<1>3. CASE file' = file /\ (~Busy' \/ (UNCHANGED <<stage, mem>> /\ Busy))
  BY <1>2, <1>3 DEF Sourced
<1>4. CASE Load
  BY <1>2, <1>4 DEF Sourced, Load
<1>5. CASE Finish
  <2>1. ~Busy'
    BY <1>5 DEF Finish, JobFails, JobSucceeds, RunOver, Busy
  <2>2. file'[s] = IF stage = s THEN mem ELSE file[s]
    BY <1>0, <1>5 DEF Finish, Typed, TypeOK
  <2>3. Busy
    BY <1>5 DEF Finish, Busy
  <2> QED
    BY <1>2, <2>1, <2>2, <2>3 DEF Sourced
<1>6. ASSUME phase = "call", GoOn, MayCheckpoint,
             stage = s => ((mem'[c] = "success" => mem[c] = "success" \/ RowOf(s, c)'.status = "success"))
      PROVE  /\ file'[s][c] = "success" => RowOf(s, c)'.status = "success"
             /\ (Busy' /\ stage' = s /\ mem'[c] = "success") => RowOf(s, c)'.status = "success"
  <2>1. stage' = stage /\ Busy
    BY <1>6 DEF GoOn, Busy
  <2>2. stage = s /\ mem'[c] = "success" => RowOf(s, c)'.status = "success"
    BY <1>2, <1>6, <2>1 DEF Sourced
  <2>3. file'[s] = file[s] \/ (stage = s /\ file'[s] = mem')
    BY <1>0, <1>6 DEF MayCheckpoint, Typed, TypeOK
  <2> QED
    BY <1>2, <2>1, <2>2, <2>3 DEF Sourced
<1>7. CASE Succeeds
  <2>1. stage \in ItemStages /\ item \in Cids /\ phase = "call" /\ GoOn /\ MayCheckpoint /\ Noted("success")
    BY <1>7 DEF Succeeds, Typed, TypeOK, Shape, Jobs
  <2>2. stage = s => mem' = [mem EXCEPT ![item] = "success"]
    BY <2>1 DEF Noted, FileKey, Resolve, Enrich, Llm
  <2>3. stage = s /\ c = item => RowOf(s, c)'.status = "success"
    <3>1. prior + 1 \in Nat
      BY DEF Typed, TypeOK
    <3>2. ledger'[stage][Key(stage, item)] = Row("success", prior + 1, item)
      BY <1>7, <2>1, <3>1, MarkRows, KeyInKeys DEF Succeeds, Typed, WorkStatus, Jobs
    <3> QED
      BY <1>1, <3>2 DEF Row
  <2>4. stage = s /\ c # item => mem'[c] = mem[c]
    BY <2>2 DEF Typed, TypeOK, Keys
  <2> QED
    BY <1>6, <2>1, <2>3, <2>4
<1>8. CASE Fails
  <2>1. stage \in ItemStages /\ item \in Cids /\ phase = "call" /\ GoOn /\ MayCheckpoint
    BY <1>8 DEF Fails, Typed, TypeOK, Shape, Jobs
  <2>2. stage = s => \E e \in {"failed", "located"} : mem' = [mem EXCEPT ![item] = e]
    BY <1>8, <2>1 DEF Fails, Noted, FileKey, Resolve, Enrich, Llm
  <2>3. stage = s /\ mem'[c] = "success" => mem[c] = "success"
    BY <2>2 DEF Typed, TypeOK, Keys
  <2> QED
    BY <1>6, <2>1, <2>3
<1>9. CASE Refused
  BY <1>3, <1>9 DEF Refused, GoOn, Busy
<1>10. ASSUME NEW d \in Cids, Take(d)
       PROVE  file' = file /\ UNCHANGED <<stage, mem>> /\ Busy
  BY <1>10 DEF Take, Busy
<1>11. CASE Operator \/ UNCHANGED vars
  BY <1>3, <1>11 DEF Operator, vars, local, Busy
<1>12. CASE CapReached
  BY <1>3, <1>12 DEF CapReached, JobSucceeds, RunOver, Busy
<1>13. CASE StartRun \/ RunIngest \/ IngestRefuses \/ Gate \/ NothingToDo \/ Throws \/ Killed
  BY <1>3, <1>13 DEF StartRun, RunIngest, IngestRefuses, Gate, NothingToDo, Throws,
     Killed, JobSucceeds, JobFails, RunOver, Busy
<1> QED
  BY <1>3, <1>4, <1>5, <1>7, <1>8, <1>9, <1>10, <1>11, <1>12, <1>13 DEF Next, Work

LEMMA StepProvenance ==
  ASSUME Typed, Distinct, Budget, Ready, Provenance, [Next]_vars
  PROVE  Provenance'
<1> USE PlacesAssumption DEF PlacesAssumption
<1>0. placeOf' = placeOf
  BY WorldFixed DEF world
<1>1. ASSUME NEW c \in Cids, NEW s \in {Enrich, Llm}, NEW u \in {Resolve, Enrich},
             s = Enrich <=> u = Resolve,
             ledger[s][placeOf[c]].status # "none" => ledger[u][Key(u, c)].status = "success",
             ledger'[s][placeOf[c]].status # "none"
      PROVE  ledger'[u][Key(u, c)].status = "success"
  <2>0. s \in ItemStages /\ u \in ItemStages /\ Key(s, c) = placeOf[c]
    BY DEF ItemStages, Key, Resolve, Enrich, Llm
  <2>1. Key(u, c) \in Keys /\ Key(s, c) \in Keys
    BY <2>0, KeyInKeys DEF Typed
  <2>2. SUFFICES ledger[u][Key(u, c)].status = "success"
    BY <2>0, <2>1, StepBudget
  <2>3. CASE MarkedRow(s, Key(s, c))
    <3>1. c = item
      BY <2>0, <2>3, KeysApart DEF MarkedRow, Typed, Shape
    <3> QED
      BY <1>1, <2>0, <2>3, <3>1 DEF MarkedRow, Ready, Busy, Open, RowOf, Resolve, Enrich, Llm
  <2> QED
    BY <1>1, <2>0, <2>1, <2>3, RowStep DEF ClickedRow
<1>2. \A c \in Cids : Key(Resolve, c) = c /\ Key(Enrich, c) = placeOf[c]
  BY DEF Key, Resolve, Enrich
<1>3. Distinct'
  BY <1>0 DEF Distinct
<1> QED
  BY <1>0, <1>1, <1>2 DEF Provenance, Resolve, Enrich, Llm

-----------------------------------------------------------------------------
(* The saves. *)

\* The entries a stage goes by: its memory while it works, otherwise its file.
Entry(s, c) == (IF Busy /\ stage = s THEN mem ELSE file[s])[FileKey(s, c)]

LEMMA EntriesStay ==
  ASSUME Typed, Saved, UNCHANGED placeOf,
         \A s \in ItemStages, c \in Cids : RowOf(s, c)'.status = "success" => RowOf(s, c).status = "success",
         \A s \in ItemStages, c \in Cids : Entry(s, c)' = Entry(s, c)
  PROVE  Saved'
<1>1. \A s \in ItemStages, c \in Cids : Key(s, c)' = Key(s, c) /\ FileKey(s, c)' = FileKey(s, c)
  BY DEF Key, FileKey
<1> QED
  BY <1>1 DEF Saved, Entry

LEMMA StepSaved ==
  ASSUME Typed, Orderly, Saved, [Next]_vars
  PROVE  Saved'
<1> USE PlacesAssumption DEF PlacesAssumption
<1>0. placeOf' = placeOf
  BY WorldFixed DEF world
<1>1. \A s \in ItemStages, c \in Cids : Key(s, c)' = Key(s, c) /\ FileKey(s, c)' = FileKey(s, c)
  BY <1>0 DEF Key, FileKey
<1>2. \A s \in ItemStages, c \in Cids : Key(s, c) \in Keys /\ FileKey(s, c) \in Keys
  <2>1. placeOf \in [Cids -> Places]
    BY DEF Typed, TypeOK
  <2> QED
    BY <2>1 DEF Key, FileKey, Keys
<1>3. CASE ledger' = ledger /\ UNCHANGED <<file, stage, mem, phase>>
  BY <1>0, <1>1, <1>3, EntriesStay DEF Entry, Busy, RowOf
<1>4. CASE ledger' = ledger /\ file' = file /\ ~Busy /\ ~Busy'
  BY <1>0, <1>1, <1>4, EntriesStay DEF Entry, RowOf
<1>5. CASE RunIngest
  <2>1. ~Busy /\ ~Busy' /\ file' = file
    BY <1>5 DEF RunIngest, JobSucceeds, RunOver, Busy, Typed, Shape
  <2>2. \A s \in ItemStages : ledger'[s] = ledger[s]
    BY <1>5 DEF RunIngest, Typed, TypeOK, LedgerOf, ItemStages, Jobs, Ingest, Resolve, Enrich, Llm
  <2> QED
    BY <1>0, <1>1, <2>1, <2>2, EntriesStay DEF Entry, RowOf
<1>6. CASE Load
  <2>1. \A s \in ItemStages, c \in Cids : Entry(s, c)' = Entry(s, c)
    BY <1>1, <1>6 DEF Entry, Load, Busy
  <2> QED
    BY <1>0, <1>1, <1>6, <2>1, EntriesStay DEF Load, RowOf
<1>7. CASE Finish
  <2>1. Busy /\ ~Busy' /\ ledger' = ledger
    BY <1>7 DEF Finish, JobFails, JobSucceeds, RunOver, Busy
  <2>2. \A s \in ItemStages : file'[s] = IF stage = s THEN mem ELSE file[s]
    BY <1>7 DEF Finish, Typed, TypeOK
  <2> QED
    BY <1>0, <1>1, <2>1, <2>2, EntriesStay DEF Entry, RowOf
<1>8. CASE Operator
  <2>1. \A s \in ItemStages, c \in Cids : Entry(s, c)' = Entry(s, c)
    BY <1>1, <1>8 DEF Entry, Operator, local, Busy
  <2>2. \A s \in ItemStages, k \in Keys :
          ledger'[s][k].status = "success" => ledger[s][k].status = "success"
    <3>1. \A s \in Jobs, k \in Keys :
            \/ ledger'[s][k] = ledger[s][k]
            \/ ledger'[s][k] = NoRow \/ ledger'[s][k] = AsIgnored(ledger[s][k])
      BY <1>8, OperatorRows DEF Typed
    <3>2. NoRow.status = "none" /\ \A r : AsIgnored(r).status = "ignored"
      BY DEF NoRow, AsIgnored, Row
    <3>3. ItemStages \subseteq Jobs
      BY DEF Jobs
    <3> QED
      BY <3>1, <3>2, <3>3
  <2> QED
    BY <1>0, <1>1, <1>2, <2>1, <2>2, EntriesStay DEF RowOf
<1>9. ASSUME phase = "call", stage \in ItemStages, item \in Cids, phase' = "loop", stage' = stage, MayCheckpoint \/ file' = file,
             NEW st \in {"success", "failed", "skipped"}, NEW a \in Nat, Marked(st, a),
             \/ mem' = mem /\ st # "success"
             \/ \E e \in Entries : Noted(e) /\ (st = "success" => e = "success")
                                    /\ (stage = Llm => e = "success")
      PROVE  Saved'
  <2> SUFFICES ASSUME NEW s \in ItemStages, NEW c \in Cids, RowOf(s, c)'.status = "success"
               PROVE  \E d \in Cids : Key(s, d) = Key(s, c) /\ Entry(s, d)' = "success"
    BY <1>1 DEF Saved, Entry
  <2>1. \A t \in ItemStages, k \in Keys :
          ledger'[t][k] = IF t = stage /\ k = Key(stage, item) THEN Row(st, a, item) ELSE ledger[t][k]
    BY <1>9, MarkRows DEF WorkStatus, Typed, Jobs
  <2>2. Busy /\ Busy'
    BY <1>9 DEF Busy
  <2>3. CASE s # stage
    <3>1. file'[s] = file[s]
      BY <1>9, <2>3 DEF MayCheckpoint, Typed, TypeOK
    <3>2. RowOf(s, c).status = "success"
      BY <1>1, <1>2, <2>1, <2>3 DEF RowOf
    <3> QED
      BY <1>1, <1>9, <2>3, <3>1, <3>2 DEF Saved, Entry
  <2>4. CASE s = stage /\ Key(s, c) # Key(stage, item)
    <3>1. RowOf(s, c).status = "success"
      BY <1>1, <1>2, <2>1, <2>4 DEF RowOf
    <3>2. PICK d \in Cids : Key(s, d) = Key(s, c) /\ mem[FileKey(s, d)] = "success"
      BY <2>2, <2>4, <3>1 DEF Saved
    <3>3. mem'[FileKey(s, d)] = "success"
      <4>1. stage # Llm => FileKey(s, d) # FileKey(stage, item)
        BY <2>4, <3>2 DEF FileKey
      <4>2. CASE mem' = mem
        BY <3>2, <4>2
      <4>3. ASSUME NEW e \in Entries, Noted(e), stage = Llm => e = "success"
            PROVE  mem'[FileKey(s, d)] = "success"
        BY <1>2, <3>2, <4>1, <4>3 DEF Noted, Typed, TypeOK
      <4> QED
        BY <1>9, <4>2, <4>3
    <3> QED
      BY <1>1, <1>9, <2>2, <2>4, <3>2, <3>3 DEF Entry
  <2>5. CASE s = stage /\ Key(s, c) = Key(stage, item)
    <3>1. st = "success"
      BY <1>1, <1>2, <2>1, <2>5 DEF RowOf, Row
    <3>2. mem'[FileKey(stage, item)] = "success"
      BY <1>2, <1>9, <3>1 DEF Noted, Typed, TypeOK
    <3> QED
      BY <1>1, <1>9, <2>2, <2>5, <3>2 DEF Entry
  <2> QED
    BY <2>3, <2>4, <2>5
<1>10. phase = "call" => stage \in ItemStages /\ item \in Cids /\ prior \in Nat /\ prior + 1 \in Nat
  BY DEF Typed, TypeOK, Shape, Jobs
<1>11. CASE Succeeds
  BY <1>9, <1>10, <1>11 DEF Succeeds, GoOn, Entries
<1>12. CASE Fails
  <2>1. /\ phase = "call" /\ GoOn /\ MayCheckpoint /\ Marked("failed", prior + 1)
        /\ mem' = mem \/ \E e \in {"failed", "located"} : Noted(e) /\ stage # Llm
    BY <1>12 DEF Fails, Resolve, Enrich, Llm
  <2> QED
    BY <1>9, <1>10, <2>1 DEF GoOn, Entries
<1>13. CASE Refused
  BY <1>9, <1>10, <1>13 DEF Refused, GoOn
<1>14. CASE CapReached
  BY <1>3, <1>4, <1>14 DEF CapReached, JobSucceeds, RunOver, Busy
<1>15. ASSUME NEW c \in Cids, Take(c)
       PROVE  Saved'
  <2>1. \A s \in ItemStages, d \in Cids : Entry(s, d)' = Entry(s, d)
    BY <1>1, <1>15 DEF Entry, Take, Busy
  <2> QED
    BY <1>0, <1>1, <1>15, <2>1, EntriesStay DEF Take, RowOf
<1>16. CASE StartRun \/ IngestRefuses \/ Gate \/ NothingToDo
  BY <1>4, <1>16 DEF StartRun, IngestRefuses, Gate, NothingToDo,
     JobSucceeds, JobFails, RunOver, Busy, Typed, Shape, Ingest
<1>17. ~Throws /\ ~Killed
  BY DEF Throws, Killed, Disturbed, Orderly
<1>18. CASE UNCHANGED vars
  BY <1>3, <1>18 DEF vars, local
<1> QED
  BY <1>5, <1>6, <1>7, <1>8, <1>11, <1>12, <1>13, <1>14, <1>15, <1>16, <1>17, <1>18 DEF Next, Work

-----------------------------------------------------------------------------
(* The theorems. *)

LEMMA Inductive ==
  /\ Init => IInv
  /\ IInv /\ [Next]_vars => IInv'
<1>1. Init => IInv
  BY InitTyped, InitReady DEF IInv
<1>2. ASSUME IInv, [Next]_vars PROVE IInv'
  <2>1. placeOf' = placeOf /\ faults' = faults
    BY <1>2, WorldFixed DEF world
  <2>2. (Distinct' <=> Distinct) /\ (Orderly' <=> Orderly)
    BY <2>1 DEF Distinct, Orderly
  <2> QED
    BY <1>2, <2>2, StepTyped, StepBudget, StepReady, StepSourced, StepProvenance, StepSaved DEF IInv
<1> QED
  BY <1>1, <1>2

LEMMA Invariance == Spec => []IInv
BY Inductive, PTL DEF Spec

\* The budget of attempts holds for any number of places, runs and retries.
THEOREM Budgeted == Spec => []AttemptsBounded
<1>1. IInv => AttemptsBounded
  BY DEF IInv, AttemptsBounded, Budget
<1> QED
  BY <1>1, Invariance, PTL

\* An item reaches a stage by way of the one before.
THEOREM Sources == Spec => []Provenance
<1>1. IInv => Provenance
  BY DEF IInv, Provenance
<1> QED
  BY <1>1, Invariance, PTL

\* What the ledger calls done has been saved, or is going to be.
THEOREM PayloadKept == Spec => []DoneHasPayload
<1>1. IInv => DoneHasPayload
  BY DEF IInv, DoneHasPayload, Saved, RowOf, Busy
<1> QED
  BY <1>1, Invariance, PTL

\* Nothing that is done is worked on again.
THEOREM DoneOnce == Spec => NeverRedone
<1>1. IInv /\ [Next]_vars =>
        [\A s \in ItemStages, k \in Keys :
           (Distinct /\ ledger[s][k].status = "success") => ledger'[s][k] = ledger[s][k]]_vars
  BY StepBudget DEF IInv
<1> QED
  BY <1>1, Invariance, PTL DEF Spec, NeverRedone

-----------------------------------------------------------------------------
(* The selector of limited runs. *)

\* The rows of a stage belong to the place they are about, and ingest has no
\* row that failed, was put off or ignored.
Rooted ==
  /\ \A s \in ItemStages, k \in Keys :
       IF ledger[s][k].status = "none" THEN ledger[s][k].root = NoKey
       ELSE ledger[s][k].root \in Cids /\ k = Key(s, ledger[s][k].root)
  /\ \A k \in Keys : ledger[Ingest][k].status \in {"none", "success"}

LEMMA StepRooted == Typed /\ Rooted /\ [Next]_vars => Rooted'
<1> USE PlacesAssumption DEF PlacesAssumption
<1> SUFFICES ASSUME Typed, Rooted, [Next]_vars PROVE Rooted'
  OBVIOUS
<1> DEFINE Fits(r, s, k) ==
             IF r.status = "none" THEN r.root = NoKey ELSE r.root \in Cids /\ k = Key(s, r.root)
<1>0. /\ ledger \in LedgerOf(Jobs, Keys) /\ Ingest \in Jobs /\ Ingest \notin ItemStages
      /\ ItemStages \subseteq Jobs
      /\ \A s \in ItemStages, c \in Cids : Key(s, c)' = Key(s, c)
  BY WorldFixed DEF Typed, TypeOK, Jobs, ItemStages, Ingest, Resolve, Enrich, Llm, world, Key
<1>1. ASSUME \A s \in ItemStages, k \in Keys : Fits(ledger'[s][k], s, k),
             \A k \in Keys : ledger'[Ingest][k].status \in {"none", "success"}
      PROVE  Rooted'
  BY <1>0, <1>1 DEF Rooted
<1>2. \A s \in ItemStages, k \in Keys : Fits(ledger[s][k], s, k)
  BY DEF Rooted
<1>3. CASE phase = "call" /\ \E st \in {"success", "failed", "skipped"}, a \in {prior, prior + 1} : Marked(st, a)
  <2>1. stage \in ItemStages /\ item \in Cids /\ prior \in Nat
    BY <1>3 DEF Typed, TypeOK, Shape, Jobs
  <2>2. PICK st \in {"success", "failed", "skipped"}, a \in {prior, prior + 1} : Marked(st, a)
    BY <1>3
  <2>3. a \in Nat /\ st \in WorkStatus
    BY <2>1 DEF WorkStatus
  <2>4. \A s \in Jobs, k \in Keys :
          ledger'[s][k] = IF s = stage /\ k = Key(stage, item) THEN Row(st, a, item) ELSE ledger[s][k]
    BY <2>1, <2>2, <2>3, MarkRows DEF Typed
  <2>5. Fits(Row(st, a, item), stage, Key(stage, item))
    BY <2>1 DEF Row
  <2>6. \A k \in Keys : ledger'[Ingest][k] = ledger[Ingest][k]
    BY <1>0, <2>1, <2>4
  <2>7. \A s \in ItemStages, k \in Keys : Fits(ledger'[s][k], s, k)
    BY <1>0, <1>2, <2>4, <2>5
  <2> QED
    BY <1>1, <2>6, <2>7 DEF Rooted
<1>4. CASE Operator
  <2>1. \A s \in Jobs, k \in Keys :
          \/ ledger'[s][k] = ledger[s][k]
          \/ /\ ledger[s][k].status = "failed"
             /\ ledger'[s][k] = NoRow \/ ledger'[s][k] = AsIgnored(ledger[s][k])
    BY <1>4, OperatorRows DEF Typed
  <2>2. \A s \in ItemStages, k \in Keys : Fits(ledger'[s][k], s, k)
    <3>1. NoRow.status = "none" /\ NoRow.root = NoKey
      BY DEF NoRow
    <3>2. \A r : AsIgnored(r).status = "ignored" /\ AsIgnored(r).root = r.root
      BY DEF AsIgnored, Row
    <3> QED
      BY <1>0, <1>2, <2>1, <3>1, <3>2
  <2>3. \A k \in Keys : ledger'[Ingest][k] = ledger[Ingest][k]
    BY <1>0, <2>1 DEF Rooted
  <2> QED
    BY <1>1, <2>2, <2>3 DEF Rooted
<1>5. CASE RunIngest
  <2>1. \A s \in ItemStages : ledger'[s] = ledger[s]
    BY <1>0, <1>5 DEF RunIngest, LedgerOf
  <2>2. \A k \in Keys : ledger'[Ingest][k] = IF k \in roots THEN Row("success", 1, k) ELSE ledger[Ingest][k]
    BY <1>0, <1>5 DEF RunIngest, LedgerOf
  <2>3. \A k \in Keys : ledger'[Ingest][k].status \in {"none", "success"}
    <3>1. \A k \in Keys : Row("success", 1, k).status = "success"
      BY DEF Row
    <3>2. \A k \in Keys : ledger[Ingest][k].status \in {"none", "success"}
      BY DEF Rooted
    <3> QED
      BY <2>2, <3>1, <3>2
  <2> QED
    BY <1>1, <1>2, <2>1, <2>3
<1>6. CASE Succeeds \/ Fails \/ Refused
  BY <1>3, <1>6 DEF Succeeds, Fails, Refused
<1>7. CASE ledger' = ledger
  BY <1>1, <1>2, <1>7 DEF Rooted
<1> QED
  BY <1>4, <1>5, <1>6, <1>7 DEF Next, Work, StartRun, IngestRefuses, Gate, Load, NothingToDo,
     CapReached, Take, Finish, Throws, Killed, vars

LEMMA RootedAlways == Spec => []Rooted
<1>1. Init => Rooted
  BY DEF Init, Rooted, NoRow, Jobs
<1>2. IInv => Typed
  BY DEF IInv
<1> QED
  BY <1>1, <1>2, StepRooted, Invariance, PTL DEF Spec

\* The rows of a place are its rows at the three stages, but for those of ingest.
LEMMA RowsOfPlace ==
  ASSUME Typed, Rooted, NEW c \in Cids, NEW jobs \in {Jobs, {Llm}},
         NEW r \in RowsOfRoot(ledger, jobs, c)
  PROVE  \/ \E s \in ItemStages \cap jobs : r = RowOf(s, c)
         \/ Ingest \in jobs /\ r.status \in {"none", "success"}
<1> USE PlacesAssumption DEF PlacesAssumption
<1>1. jobs \subseteq Jobs /\ \A j \in Jobs : DOMAIN ledger[j] = Keys
  BY DEF Typed, TypeOK, LedgerOf, Jobs, ItemStages
<1>2. PICK j \in jobs, k \in Keys : r = ledger[j][k] /\ r.root = c
  BY <1>1 DEF RowsOfRoot
<1>3. CASE j = Ingest
  BY <1>2, <1>3 DEF Rooted
<1>4. CASE j \in ItemStages
  <2>1. c # NoKey
    BY DEF Keys
  <2>2. k = Key(j, c)
    BY <1>2, <1>4, <2>1 DEF Rooted
  <2> QED
    BY <1>2, <1>4, <2>2 DEF RowOf
<1> QED
  BY <1>1, <1>2, <1>3, <1>4 DEF Jobs

LEMMA RowOfPlace ==
  ASSUME Typed, Distinct, Rooted, NEW c \in Cids, NEW s \in ItemStages,
         RowOf(s, c).status # "none"
  PROVE  /\ RowOf(s, c) \in RowsOfRoot(ledger, Jobs, c)
         /\ s = Llm => RowOf(s, c) \in RowsOfRoot(ledger, {Llm}, c)
<1> USE PlacesAssumption DEF PlacesAssumption
<1>1. Key(s, c) \in Keys /\ s \in Jobs /\ DOMAIN ledger[s] = Keys
  BY KeyInKeys DEF Typed, TypeOK, LedgerOf, Jobs
<1>2. RowOf(s, c).root \in Cids /\ Key(s, c) = Key(s, RowOf(s, c).root)
  BY <1>1 DEF Rooted, RowOf
<1>3. RowOf(s, c).root = c
  BY <1>2, KeysApart DEF Typed
<1> QED
  BY <1>1, <1>3 DEF RowsOfRoot, RowOf

\* What the selector asks of the rows of a place, stage by stage.
LEMMA PendingByStage ==
  ASSUME Typed, Distinct, Rooted, NEW c \in Cids
  PROVE  isRootPending(ledger, Jobs, {Llm}, c, MaxAttempts) <=>
           \/ \E s \in ItemStages :
                RowOf(s, c).status = "failed" /\ ~Exhausted(RowOf(s, c), MaxAttempts)
           \/ /\ RowOf(Llm, c).status # "success"
              /\ \A s \in ItemStages :
                   /\ RowOf(s, c).status \notin {"ignored", "skipped"}
                   /\ ~Exhausted(RowOf(s, c), MaxAttempts)
<1>1. rootHasOutstandingWork(ledger, Jobs, c, MaxAttempts) <=>
        \E s \in ItemStages :
          RowOf(s, c).status = "failed" /\ ~Exhausted(RowOf(s, c), MaxAttempts)
  BY RowsOfPlace, RowOfPlace DEF rootHasOutstandingWork
<1>2. rootHasTerminalBlocker(ledger, Jobs, c, MaxAttempts) <=>
        \E s \in ItemStages :
          RowOf(s, c).status \in {"ignored", "skipped"} \/ Exhausted(RowOf(s, c), MaxAttempts)
  BY RowsOfPlace, RowOfPlace DEF rootHasTerminalBlocker, Exhausted
<1>3. rootReachedTerminal(ledger, {Llm}, c, MaxAttempts) <=>
        RowOf(Llm, c).status \in {"success", "ignored"} \/ Exhausted(RowOf(Llm, c), MaxAttempts)
  <2>1. Ingest \notin {Llm} /\ Llm \in ItemStages /\ ItemStages \cap {Llm} = {Llm}
    BY DEF Ingest, Llm, ItemStages
  <2>2. ASSUME NEW r \in RowsOfRoot(ledger, {Llm}, c) PROVE r = RowOf(Llm, c)
    BY <2>1, RowsOfPlace
  <2>3. RowOf(Llm, c).status # "none" => RowOf(Llm, c) \in RowsOfRoot(ledger, {Llm}, c)
    BY <2>1, RowOfPlace
  <2> QED
    BY <2>2, <2>3 DEF rootReachedTerminal, Exhausted
<1>4. Llm \in ItemStages
  BY DEF ItemStages
<1> QED
  BY <1>1, <1>2, <1>3, <1>4 DEF isRootPending

\* Between runs a stage would take a place whose row is missing or may be tried
\* again and that is done at the stage before.
LEMMA OutstandingByStage ==
  ASSUME IInv, Orderly, Distinct, stage = "none", NEW c \in Cids, NEW s \in ItemStages
  PROVE  c \in Outstanding(s) <=>
           /\ RowOf(s, c).status \notin {"success", "ignored"}
           /\ ~Exhausted(RowOf(s, c), MaxAttempts)
           /\ s = Enrich => RowOf(Resolve, c).status = "success"
           /\ s = Llm => RowOf(Enrich, c).status = "success"
<1>1. Typed /\ ~Busy /\ Sourced /\ Saved
  BY DEF IInv, Typed, Shape, Busy
<1>2. ASSUME NEW u \in {Resolve, Enrich}
      PROVE  file[u][c] = "success" <=> RowOf(u, c).status = "success"
  <2>1. u \in ItemStages /\ \A d \in Cids : FileKey(u, d) = d
    BY DEF ItemStages, FileKey, Resolve, Enrich, Llm
  <2>2. ASSUME RowOf(u, c).status = "success" PROVE file[u][c] = "success"
    <3>1. PICK d \in Cids : Key(u, d) = Key(u, c) /\ file[u][FileKey(u, d)] = "success"
      BY <1>1, <2>1, <2>2 DEF Saved
    <3>2. d = c
      BY <1>1, <2>1, <3>1, KeysApart DEF Typed
    <3> QED
      BY <2>1, <3>1, <3>2
  <2> QED
    BY <1>1, <2>2 DEF Sourced
<1>3. c \in Candidates(s) <=> /\ s = Enrich => RowOf(Resolve, c).status = "success"
                              /\ s = Llm => RowOf(Enrich, c).status = "success"
  BY <1>2 DEF Candidates, ItemStages, Resolve, Enrich, Llm
<1> QED
  BY <1>3 DEF Outstanding, isWorkItemDone, RowOf

\* The selector of limited runs and the filters of the stages agree on what is
\* pending, for any number of places and any history of retries and clicks.
THEOREM Agreement == Spec => []SelectorAgrees
<1>1. ASSUME IInv, Rooted PROVE SelectorAgrees
  <2> SUFFICES ASSUME Orderly, Distinct, stage = "none", NEW c \in Cids
               PROVE  isRootPending(ledger, Jobs, {Llm}, c, MaxAttempts) <=>
                        \E s \in ItemStages :
                          c \in Outstanding(s) /\ RowOf(s, c).status # "skipped"
    BY DEF SelectorAgrees, RowOf
  <2> DEFINE Retryable(s) == RowOf(s, c).status = "failed" /\ ~Exhausted(RowOf(s, c), MaxAttempts)
             Untried(s) == RowOf(s, c).status = "none"
  <2>1. \A s \in ItemStages :
          c \in Outstanding(s) /\ RowOf(s, c).status # "skipped" <=>
            /\ Retryable(s) \/ Untried(s)
            /\ s = Enrich => RowOf(Resolve, c).status = "success"
            /\ s = Llm => RowOf(Enrich, c).status = "success"
    <3>1. \A s \in ItemStages : RowOf(s, c).status \in WorkStatus \cup {"none"}
      BY <1>1, KeyInKeys DEF IInv, Typed, TypeOK, LedgerOf, Jobs, RowOf
    <3> QED
      BY <1>1, <3>1, OutstandingByStage DEF WorkStatus, Exhausted
  <2>2. /\ ~Untried(Enrich) => RowOf(Resolve, c).status = "success"
        /\ ~Untried(Llm) => RowOf(Enrich, c).status = "success"
    BY <1>1 DEF IInv, Provenance, RowOf, Key, Resolve, Enrich, Llm
  <2>3. isRootPending(ledger, Jobs, {Llm}, c, MaxAttempts) <=>
           \/ \E s \in ItemStages : Retryable(s)
           \/ /\ RowOf(Llm, c).status # "success"
              /\ \A s \in ItemStages : RowOf(s, c).status \in {"none", "success"} \/ Retryable(s)
    <3>1. \A s \in ItemStages : RowOf(s, c).status \in WorkStatus \cup {"none"}
      BY <1>1, KeyInKeys DEF IInv, Typed, TypeOK, LedgerOf, Jobs, RowOf
    <3> QED
      BY <1>1, <3>1, PendingByStage DEF IInv, WorkStatus, Exhausted
  <2>4. ASSUME NEW s \in ItemStages, Retryable(s)
        PROVE  \E t \in ItemStages : c \in Outstanding(t) /\ RowOf(t, c).status # "skipped"
    BY <2>1, <2>2, <2>4 DEF ItemStages, Resolve, Enrich, Llm
  <2> QED
    BY <2>1, <2>2, <2>3, <2>4 DEF ItemStages, Resolve, Enrich, Llm
<1> QED
  BY <1>1, Invariance, RootedAlways, PTL
=============================================================================
