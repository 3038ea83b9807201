---------------------- MODULE PerfumesPipeline_proofs ----------------------
(***************************************************************************)
(* What holds of the perfumes workflow for any number of perfumes, runs,   *)
(* cycles, retries, kills and clicks.                                      *)
(***************************************************************************)
EXTENDS PerfumesPipeline, WorkItems_proofs

Called == phase \in {"call", "write", "mark"}
Working == phase = "loop" \/ Called

\* Where the control of a run can be.
Shape ==
  /\ Called => item \in Perfumes /\ item \notin todo
  /\ ~Working => todo = {}

Typed == TypeOK /\ Shape

\* A row that is not settled has an attempt left.
Budget ==
  \A s \in Stages, p \in Perfumes :
    /\ ledger[s][p].attempts <= maxAttempts
    /\ ledger[s][p].status \notin {"failed", "success", "ignored"} =>
         ledger[s][p].attempts < maxAttempts

\* What the stage works on has an attempt left, no success, and its input.  Find-url only
\* works while the file of the URLs is whole.
Ready ==
  /\ Called => prior < maxAttempts
  /\ \A p \in todo : ledger[stage][p].attempts < maxAttempts
  /\ \A p \in todo \cup (IF Called THEN {item} ELSE {}) : ledger[stage][p].status # "success"
  /\ stage # Find => \A p \in todo \cup (IF Called THEN {item} ELSE {}) :
                       out[Before(stage)][p] # "none"
  /\ phase = "mark" => out[stage][item] \in {"good", "shapeless"}
  /\ (Working /\ stage = Find) => ~UrlsTorn

\* Unless the operator steps in, a mark raises the attempts of its row: those
\* before the call are still the row's, and a perfume with a URL of its own is
\* marked by find-url at most once.
Untried ==
  "operator" \notin faults =>
    /\ Called => prior = ledger[stage][item].attempts
    /\ \A p \in linked : ledger[Find][p] = NoRow \/ ledger[Find][p].status = "success"
    /\ (stage = Find /\ phase = "call") => item \notin linked
    /\ stage = Find => \A p \in linked \cap (todo \cup (IF Called THEN {item} ELSE {})) :
                         ledger[Find][p] = NoRow

Signature == workflowProgressSignature(ledger, Stages, maxAttempts)

\* So the signature stays what it was as long as a cycle marks nothing, and the
\* first mark moves it for good.
Signed ==
  /\ phase # "idle" => cycle >= 1
  /\ cycle <= 1 => before = NoSignature
  /\ before.attempts \in Nat
  /\ ("operator" \notin faults /\ cycle > 1) =>
       /\ ~moved => before = Signature
       /\ moved => before.attempts < Signature.attempts

IInv == Typed /\ Budget /\ Ready /\ DoneHasOutput /\ Untried /\ Signed

-----------------------------------------------------------------------------
(* What the statements do to the ledger. *)

\* The operator touches failed rows only, to delete them or to ignore them.
LEMMA OperatorRows ==
  ASSUME TypeOK, Operator
  PROVE  /\ ledger' \in LedgerOf(Stages, Perfumes)
         /\ \A s \in Stages, p \in Perfumes :
              \/ ledger'[s][p] = ledger[s][p]
              \/ /\ ledger[s][p].status = "failed"
                 /\ ledger'[s][p] = NoRow \/ ledger'[s][p] = AsIgnored(ledger[s][p])
<1> DEFINE Rows == [status : WorkStatus \cup {"none"}, attempts : Nat,
                     root : Perfumes \cup {NoKey}]
<1>1. ledger \in [Stages -> [Perfumes -> Rows]]
  BY DEF TypeOK, LedgerOf
<1>2. NoRow \in Rows /\ \A r \in Rows : AsIgnored(r) \in Rows
  BY DEF NoRow, WorkStatus, AsIgnored, Row
<1> HIDE DEF Rows
<1>3. CASE \E s \in Stages, p \in Perfumes :
             ledger' \in {unstickWorkItem(ledger, s, p), ignoreWorkItem(ledger, s, p)}
  <2>1. PICK s \in Stages, p \in Perfumes :
             ledger' \in {unstickWorkItem(ledger, s, p), ignoreWorkItem(ledger, s, p)}
    BY <1>3
  <2>2. CASE ledger' = ledger
    BY <1>1, <2>2 DEF LedgerOf, Rows
  <2>3. CASE ledger' = [ledger EXCEPT ![s][p] = NoRow] /\ ledger[s][p].status = "failed"
    BY <1>1, <1>2, <2>3 DEF LedgerOf, Rows
  <2>4. CASE ledger' = [ledger EXCEPT ![s][p] = AsIgnored(ledger[s][p])] /\ ledger[s][p].status = "failed"
    BY <1>1, <1>2, <2>4 DEF LedgerOf, Rows
  <2> QED BY <2>1, <2>2, <2>3, <2>4 DEF unstickWorkItem, ignoreWorkItem, markWorkItem
<1>4. CASE \E jobs \in {Stages} \cup {{s} : s \in Stages} :
             ledger' \in {bulkUnstickItems(ledger, jobs, maxAttempts),
                          bulkIgnoreItems(ledger, jobs, maxAttempts)}
  <2>1. PICK jobs : ledger' \in {bulkUnstickItems(ledger, jobs, maxAttempts),
                                 bulkIgnoreItems(ledger, jobs, maxAttempts)}
    BY <1>4
  <2>2. DOMAIN ledger = Stages /\ \A s \in Stages : DOMAIN ledger[s] = Perfumes
    BY <1>1
  <2>3. CASE ledger' = bulkUnstickItems(ledger, jobs, maxAttempts)
    <3>1. ledger' = [s \in Stages |-> [p \in Perfumes |->
             IF s \in jobs /\ Exhausted(ledger[s][p], maxAttempts) THEN NoRow ELSE ledger[s][p]]]
      BY <2>2, <2>3 DEF bulkUnstickItems
    <3> QED BY <1>1, <1>2, <3>1 DEF LedgerOf, Rows, Exhausted
  <2>4. CASE ledger' = bulkIgnoreItems(ledger, jobs, maxAttempts)
    <3>1. ledger' = [s \in Stages |-> [p \in Perfumes |->
             IF s \in jobs /\ Exhausted(ledger[s][p], maxAttempts)
             THEN AsIgnored(ledger[s][p]) ELSE ledger[s][p]]]
      BY <2>2, <2>4 DEF bulkIgnoreItems
    <3> QED BY <1>1, <1>2, <3>1 DEF LedgerOf, Rows, Exhausted
  <2> QED BY <2>1, <2>3, <2>4
<1> QED BY <1>3, <1>4 DEF Operator

\* A mark changes one row.
LEMMA MarkRows ==
  ASSUME TypeOK, item \in Perfumes, NEW st \in {"success", "failed"}, NEW a \in Nat,
         Marked(st, a)
  PROVE  /\ ledger' \in LedgerOf(Stages, Perfumes)
         /\ \A s \in Stages, p \in Perfumes :
              ledger'[s][p] = IF s = stage /\ p = item THEN Row(st, a, item) ELSE ledger[s][p]
<1>1. ledger \in [Stages -> [Perfumes -> [status : WorkStatus \cup {"none"}, attempts : Nat,
                     root : Perfumes \cup {NoKey}]]] /\ stage \in Stages
  BY DEF TypeOK, LedgerOf
<1>2. Row(st, a, item) \in [status : WorkStatus \cup {"none"}, attempts : Nat,
                     root : Perfumes \cup {NoKey}]
  BY DEF Row, WorkStatus
<1> QED
  BY <1>1, <1>2 DEF Marked, markWorkItem, LedgerOf

LEMMA RowTyped ==
  ASSUME TypeOK, NEW s \in Stages, NEW p \in Perfumes
  PROVE  ledger[s][p].attempts \in Nat
BY DEF TypeOK, LedgerOf

-----------------------------------------------------------------------------
(* Where the control goes. *)

\* The end of an attempt, of a member or of a run leaves nothing open.
LEMMA Ends ==
  ASSUME Typed, RunOver \/ JobFails \/ JobSucceeds
  PROVE  /\ stage' \in Stages /\ attempt' \in 1 .. MaxRetries + 1
         /\ phase' \in {"idle", "load", "gate", "cycle"}
         /\ todo' = {} /\ item' = NoKey /\ prior' = 0 /\ failed' = FALSE
<1> USE PerfumesAssumption DEF PerfumesAssumption
<1>1. CASE RunOver
  BY <1>1 DEF RunOver, Forget, Stages
<1>2. CASE JobFails
  BY <1>2 DEF JobFails, MemberFailed, Forget, Typed, TypeOK
<1>3. CASE JobSucceeds
  BY <1>3 DEF JobSucceeds, Forget, Typed, TypeOK, After, Stages, Find, Fetch, Parse, Build
<1> QED
  BY <1>1, <1>2, <1>3

\* The part of the state the end of an attempt does not touch.
LEMMA EndsTyped ==
  ASSUME Typed, RunOver \/ JobFails \/ JobSucceeds, UNCHANGED <<world, ledger>>,
         out' \in [Stages -> [Perfumes -> Outputs]],
         disturbances' \in 0 .. MaxDisturbances,
         RunOver \/ UNCHANGED <<roots, cycling>>
  PROVE  Typed'
<1> USE PerfumesAssumption DEF PerfumesAssumption
<1>1. roots' \subseteq Perfumes /\ cycle' \in 0 .. maxCycles
  BY DEF RunOver, cycling, Typed, TypeOK
<1>2. moved' \in BOOLEAN
  BY DEF RunOver, cycling, Typed, TypeOK
<1>3. TypeOK'
  <2>1. stage' \in Stages /\ attempt' \in 1 .. MaxRetries + 1
    BY Ends
  <2>0. /\ phase' \in {"idle", "load", "gate", "cycle"}
        /\ todo' = {} /\ item' = NoKey /\ prior' = 0
    BY Ends
  <2>1a. phase' \in {"idle", "gate", "load", "loop", "call", "write", "mark", "cycle"}
    BY <2>0
  <2>1b. todo' \subseteq Perfumes /\ item' \in Perfumes \cup {NoKey} /\ prior' \in Nat
    BY <2>0
  <2>2. failed' \in BOOLEAN
    BY Ends
  <2> QED
    BY <1>1, <1>2, <2>1, <2>1a, <2>1b, <2>2 DEF Typed, TypeOK, world
<1> QED
  BY <1>3, Ends DEF Typed, Shape, Called, Working

LEMMA InitTyped == Init => Typed
<1> USE PerfumesAssumption DEF PerfumesAssumption
<1> SUFFICES ASSUME Init PROVE Typed
  OBVIOUS
<1>1. ledger \in LedgerOf(Stages, Perfumes)
  BY DEF Init, LedgerOf, NoRow
<1>2. out \in [Stages -> [Perfumes -> Outputs]] /\ stage \in Stages
  BY DEF Init, Outputs, Stages
<1>3. attempt \in 1 .. MaxRetries + 1 /\ disturbances \in 0 .. MaxDisturbances /\ cycle \in 0 .. maxCycles
  BY DEF Init
<1> QED
  BY <1>1, <1>2, <1>3 DEF Init, Typed, TypeOK, Shape, Called, Working

LEMMA DisturbedTyped ==
  ASSUME TypeOK, NEW f, Disturbed(f)
  PROVE  disturbances' \in 0 .. MaxDisturbances
BY PerfumesAssumption DEF Disturbed, TypeOK, PerfumesAssumption

LEMMA StepTyped == Typed /\ [Next]_vars => Typed'
<1> USE PerfumesAssumption DEF PerfumesAssumption
<1> SUFFICES ASSUME Typed, [Next]_vars PROVE Typed'
  OBVIOUS
<1>0. /\ ledger \in LedgerOf(Stages, Perfumes)
      /\ out \in [Stages -> [Perfumes -> Outputs]]
      /\ disturbances \in 0 .. MaxDisturbances
      /\ TypeOK
  BY DEF Typed, TypeOK
<1>1. CASE StartRun
  <2>1. roots' \subseteq Perfumes
    BY <1>1 DEF StartRun, selectPendingRoots, FirstOnes, Perfumes
  <2>2. cycle' \in 0 .. maxCycles
    BY <1>1 DEF StartRun
  <2>3. moved' \in BOOLEAN /\ stage' \in Stages
    BY <1>1 DEF StartRun, Stages
  <2> QED
    BY <1>1, <2>1, <2>2, <2>3 DEF StartRun, Typed, TypeOK, Shape, Called, Working, world, local
<1>2. CASE CycleEnds
  <2>1. CASE RunOver
    BY <1>0, <1>2, <2>1, EndsTyped DEF CycleEnds
  <2>2. CASE ~RunOver
    <3>0. cycle # maxCycles /\ cycle' = cycle + 1 /\ moved' = FALSE /\ stage' = Find
      BY <1>2, <2>2 DEF CycleEnds, Stable
    <3>1. cycle' \in 0 .. maxCycles
      BY <3>0 DEF Typed, TypeOK
    <3>1a. moved' \in BOOLEAN /\ stage' \in Stages
      BY <3>0 DEF Stages
    <3>2. phase' = "load" /\ UNCHANGED <<world, disturbances, ledger, out, attempt, roots, local>> /\ phase = "cycle"
      BY <1>2, <2>2 DEF CycleEnds
    <3> QED
      BY <3>1, <3>1a, <3>2 DEF Typed, TypeOK, Shape, Called, Working, world, local
  <2> QED
    BY <2>1, <2>2
<1>3. CASE Gate
  BY <1>3 DEF Gate, MemberFailed, Typed, TypeOK, Shape, Called, Working, world, local, cycling
<1>4. CASE Load
  <2>1. CASE JobFails \/ JobSucceeds
    BY <1>0, <1>4, <2>1, EndsTyped DEF Load
  <2>2. CASE ~JobFails /\ ~JobSucceeds
    <3>1. todo' \subseteq Perfumes
      BY <1>4, <2>2 DEF Load, Typed, TypeOK
    <3> QED
      BY <1>4, <2>2, <3>1 DEF Load, Typed, TypeOK, Shape, Called, Working, world, cycling
  <2> QED
    BY <2>1, <2>2
<1>5. ASSUME NEW p \in Perfumes, Take(p)
      PROVE  Typed'
  <2>1. prior' \in Nat
    BY <1>0, <1>5, RowTyped DEF Take, TypeOK
  <2>2. phase' \in {"call", "write"}
    BY <1>5 DEF Take
  <2> QED
    BY <1>5, <2>1, <2>2 DEF Take, Typed, TypeOK, Shape, Called, Working, world, cycling
<1>6. CASE Wrote
  <2>1. out' \in [Stages -> [Perfumes -> Outputs]]
    <3>1. PICK o \in Outputs : out' = [out EXCEPT ![stage][item] = o]
      BY <1>6 DEF Wrote, Outputs
    <3> QED
      BY <1>0, <3>1
  <2> QED
    BY <1>6, <2>1 DEF Wrote, Typed, TypeOK, Shape, Called, Working, world, cycling, local
<1>7. ASSUME NEW st \in {"success", "failed"}, NEW a \in Nat, Marked(st, a), Called, out' = out,
             failed' \in BOOLEAN
      PROVE  Typed'
  <2>1. ledger' \in LedgerOf(Stages, Perfumes)
    BY <1>0, <1>7, MarkRows DEF Typed, Shape
  <2> QED
    BY <1>7, <2>1 DEF Marked, Typed, TypeOK, Shape, Called, Working, world
<1>8. CASE Succeeds
  <2>1. prior + 1 \in Nat
    BY <1>0 DEF TypeOK
  <2> QED
    BY <1>0, <1>7, <1>8, <2>1 DEF Succeeds, Called, TypeOK
<1>9. CASE Fails
  <2>1. prior + 1 \in Nat
    BY <1>0 DEF TypeOK
  <2> QED
    BY <1>0, <1>7, <1>9, <2>1 DEF Fails, Called
<1>10. CASE Pauses
  <2>1. disturbances' \in 0 .. MaxDisturbances
    BY <1>0, <1>10, DisturbedTyped DEF Pauses
  <2> QED
    BY <1>10, <2>1 DEF Pauses, Typed, TypeOK, Shape, Called, Working, world, cycling
<1>11. CASE Finish
  BY <1>0, <1>11, EndsTyped DEF Finish
<1>12. CASE Throws
  BY <1>0, <1>12, EndsTyped, DisturbedTyped DEF Throws
<1>13. CASE Killed
  BY <1>0, <1>13, EndsTyped, DisturbedTyped DEF Killed
<1>13a. CASE KilledInWrite
  <2>1. out' \in [Stages -> [Perfumes -> Outputs]]
    BY <1>0, <1>13a DEF KilledInWrite, Torn, Outputs
  <2> QED
    BY <1>0, <1>13a, <2>1, EndsTyped, DisturbedTyped DEF KilledInWrite
<1>14. CASE Operator
  <2>1. disturbances' \in 0 .. MaxDisturbances
    BY <1>0, <1>14, DisturbedTyped DEF Operator
  <2>2. ledger' \in LedgerOf(Stages, Perfumes)
    BY <1>0, <1>14, OperatorRows
  <2> QED
    BY <1>14, <2>1, <2>2 DEF Operator, Typed, TypeOK, Shape, Called, Working, world, local, cycling
<1>15. CASE UNCHANGED vars
  BY <1>15 DEF vars, Typed, TypeOK, Shape, Called, Working, world, local, cycling
<1> QED
  BY <1>1, <1>2, <1>3, <1>4, <1>5, <1>6, <1>8, <1>9, <1>10, <1>11, <1>12, <1>13, <1>13a, <1>14, <1>15
     DEF Next, Work

THEOREM TypeCorrect == Spec => []TypeOK
<1>1. Spec => []Typed
  BY InitTyped, StepTyped, PTL DEF Spec
<1>2. Typed => TypeOK
  BY DEF Typed
<1> QED
  BY <1>1, <1>2, PTL

-----------------------------------------------------------------------------
(* Outputs come before rows, and attempts stay within the budget. *)

LEMMA WorldFixed == [Next]_vars => UNCHANGED world
BY DEF Next, Work, StartRun, CycleEnds, Gate, Load, Take, Wrote, Succeeds, Fails, Marked,
   Pauses, Finish, Throws, Killed, KilledInWrite, Operator, world, vars

\* What a stage has written stays there.
LEMMA OutputsStay ==
  ASSUME Typed, [Next]_vars, NEW s \in Stages, NEW p \in Perfumes, out[s][p] # "none"
  PROVE  out'[s][p] # "none"
<1>0. out \in [Stages -> [Perfumes -> Outputs]] /\ stage \in Stages
  BY DEF Typed, TypeOK
<1>1. CASE Wrote
  <2>1. PICK o \in {"good", "shapeless"} : out' = [out EXCEPT ![stage][item] = o]
    BY <1>1 DEF Wrote
  <2> QED
    BY <1>0, <2>1
<1>2. CASE KilledInWrite
  BY <1>0, <1>2 DEF KilledInWrite, Torn
<1>3. CASE out' = out
  BY <1>3
<1> QED
  BY <1>1, <1>2, <1>3 DEF Next, Work, StartRun, CycleEnds, Gate, Load, Take, Succeeds, Fails,
     Pauses, Finish, Throws, Killed, Operator, vars

\* The attempts of a try: a URL of the table counts as the first.
LEMMA Marks ==
  ASSUME Typed, Ready, Succeeds \/ Fails
  PROVE  \E st \in {"success", "failed"}, a \in 1 .. maxAttempts :
           /\ Marked(st, a)
           /\ st = "success" => phase = "mark"
<1> USE PerfumesAssumption DEF PerfumesAssumption
<1>1. prior \in Nat /\ (Called => prior + 1 \in 1 .. maxAttempts) /\ 1 \in 1 .. maxAttempts
  BY DEF Typed, TypeOK, Ready
<1> QED
  BY <1>1 DEF Succeeds, Fails, Called

\* What a step does to a row.
LEMMA RowStep ==
  ASSUME Typed, Ready, [Next]_vars, NEW s \in Stages, NEW p \in Perfumes
  PROVE  \/ ledger'[s][p] = ledger[s][p]
         \/ ledger'[s][p].status \in {"none", "ignored"}
            /\ ledger[s][p].status = "failed"
            /\ ledger'[s][p].attempts <= ledger[s][p].attempts
            /\ (ledger'[s][p].status = "none" => ledger'[s][p].attempts = 0)
         \/ Called /\ s = stage /\ p = item /\ phase' = "loop"
            /\ UNCHANGED <<stage, todo, out>>
            /\ ledger'[s][p].attempts \in 1 .. maxAttempts
            /\ ledger'[s][p].status \in {"success", "failed"}
            /\ (ledger'[s][p].status = "success" => phase = "mark")
<1>1. CASE Succeeds \/ Fails
  <2>1. PICK st \in {"success", "failed"}, a \in 1 .. maxAttempts :
           Marked(st, a) /\ (st = "success" => phase = "mark")
    BY <1>1, Marks
  <2>2. Called /\ item \in Perfumes /\ out' = out
    BY <1>1 DEF Succeeds, Fails, Called, Typed, Shape
  <2>2a. a \in Nat
    BY PerfumesAssumption DEF PerfumesAssumption
  <2>3. ledger'[s][p] = IF s = stage /\ p = item THEN Row(st, a, item) ELSE ledger[s][p]
    BY <2>1, <2>2, <2>2a, MarkRows DEF Typed
  <2>4. phase' = "loop" /\ UNCHANGED <<stage, todo>>
    BY <2>1 DEF Marked
  <2> QED
    BY <2>1, <2>2, <2>3, <2>4 DEF Row
<1>2. CASE Operator
  <2>1. \/ ledger'[s][p] = ledger[s][p]
        \/ /\ ledger[s][p].status = "failed"
           /\ ledger'[s][p] = NoRow \/ ledger'[s][p] = AsIgnored(ledger[s][p])
    BY <1>2, OperatorRows DEF Typed
  <2>2. ledger[s][p].attempts \in Nat
    BY RowTyped DEF Typed
  <2> QED
    BY <2>1, <2>2 DEF NoRow, AsIgnored, Row
<1>3. CASE ledger' = ledger
  BY <1>3
<1> QED
  BY <1>1, <1>2, <1>3 DEF Next, Work, StartRun, CycleEnds, Gate, Load, Take, Wrote,
     Pauses, Finish, Throws, Killed, KilledInWrite, vars

LEMMA StepBudget ==
  ASSUME Typed, Budget, Ready, [Next]_vars
  PROVE  Budget'
<1> USE PerfumesAssumption DEF PerfumesAssumption
<1> SUFFICES ASSUME NEW s \in Stages, NEW p \in Perfumes
             PROVE  /\ ledger'[s][p].attempts <= maxAttempts
                    /\ ledger'[s][p].status \notin {"failed", "success", "ignored"} =>
                         ledger'[s][p].attempts < maxAttempts
  BY DEF Budget
<1>1. ledger[s][p].attempts \in Nat /\ ledger'[s][p].attempts \in Nat
  BY RowTyped, StepTyped DEF Typed, TypeOK, LedgerOf
<1>2. ledger[s][p].attempts <= maxAttempts
  BY DEF Budget
<1>3. CASE ledger'[s][p] = ledger[s][p]
  BY <1>3 DEF Budget
<1> QED
  BY <1>1, <1>2, <1>3, RowStep

\* A write, or a kill within it, leaves what the rows say has succeeded.
LEMMA SuccessesKept ==
  ASSUME Typed, Ready, DoneHasOutput, Wrote \/ KilledInWrite,
         NEW s \in Stages, NEW p \in Perfumes, ledger[s][p].status = "success"
  PROVE  out'[s][p] \in {"good", "shapeless"} \/ (s = Find /\ UrlsTorn')
<1>0. /\ out \in [Stages -> [Perfumes -> Outputs]] /\ stage \in Stages /\ Find \in Stages
      /\ Called /\ item \in Perfumes
  BY DEF Typed, TypeOK, Shape, Wrote, KilledInWrite, Called, Stages
<1>1. out[s][p] \in {"good", "shapeless"} \/ (s = Find /\ UrlsTorn)
  BY DEF DoneHasOutput
<1>2. ~(s = stage /\ p = item) /\ (stage = Find => ~UrlsTorn)
  BY <1>0 DEF Ready, Working
<1>3. CASE Wrote
  <2>1. PICK o \in {"good", "shapeless"} : out' = [out EXCEPT ![stage][item] = o]
    BY <1>3 DEF Wrote
  <2>2. out'[s][p] = out[s][p]
    BY <1>0, <1>2, <2>1
  <2>3. CASE s = Find /\ UrlsTorn
    <3>1. out'[Find] = out[Find]
      BY <1>0, <1>2, <2>1, <2>3
    <3> QED
      BY <2>3, <3>1 DEF UrlsTorn
  <2> QED
    BY <1>1, <2>2, <2>3
<1>4. CASE KilledInWrite
  <2>1. out' \in Torn(stage, item)
    BY <1>4 DEF KilledInWrite
  <2>2. CASE stage = Find
    <3>1. UrlsTorn' /\ (s # Find => out'[s][p] = out[s][p])
      BY <1>0, <2>1, <2>2 DEF Torn, UrlsTorn
    <3> QED
      BY <1>1, <3>1
  <2>3. CASE stage # Find
    <3>1. out'[s][p] = out[s][p] /\ out'[Find] = out[Find]
      BY <1>0, <1>2, <2>1, <2>3 DEF Torn
    <3> QED
      BY <1>1, <3>1 DEF UrlsTorn
  <2> QED
    BY <2>2, <2>3
<1> QED
  BY <1>3, <1>4

LEMMA StepDone ==
  ASSUME Typed, Ready, DoneHasOutput, [Next]_vars
  PROVE  DoneHasOutput'
<1> SUFFICES ASSUME NEW s \in Stages, NEW p \in Perfumes
             PROVE  /\ ledger'[s][p].status = "success" =>
                         out'[s][p] \in {"good", "shapeless"} \/ (s = Find /\ UrlsTorn')
                    /\ (s # Find /\ ledger'[s][p] # NoRow) => out'[Before(s)][p] # "none"
  BY DEF DoneHasOutput
<1>1. s # Find => Before(s) \in Stages
  BY DEF Before, Stages, Find, Fetch, Parse, Build
<1>2. ledger'[s][p].status = "success" =>
        out'[s][p] \in {"good", "shapeless"} \/ (s = Find /\ UrlsTorn')
  <2>1. CASE Wrote \/ KilledInWrite
    BY <2>1, SuccessesKept DEF Wrote, KilledInWrite
  <2>2. CASE out' = out
    <3>1. ledger'[s][p].status = "success" =>
            out[s][p] \in {"good", "shapeless"} \/ (s = Find /\ UrlsTorn)
      BY RowStep DEF DoneHasOutput, Ready
    <3> QED
      BY <2>2, <3>1 DEF UrlsTorn
  <2> QED
    BY <2>1, <2>2 DEF Next, Work, StartRun, CycleEnds, Gate, Load, Take, Succeeds, Fails,
       Pauses, Finish, Throws, Killed, Operator, vars
<1>3. (s # Find /\ ledger'[s][p] # NoRow) => out[Before(s)][p] # "none"
  <2>1. CASE ledger[s][p] # NoRow
    BY <2>1 DEF DoneHasOutput
  <2>2. CASE ledger[s][p] = NoRow
    <3>1. ledger[s][p].status # "failed"
      BY <2>2 DEF NoRow
    <3> QED
      BY <2>2, <3>1, RowStep DEF Ready
  <2> QED
    BY <2>1, <2>2
<1> QED
  BY <1>1, <1>2, <1>3, OutputsStay

LEMMA StepReady ==
  ASSUME Typed, Budget, Ready, [Next]_vars
  PROVE  Ready'
<1> USE PerfumesAssumption DEF PerfumesAssumption
<1>0. Typed' /\ stage \in Stages /\ (stage # Find => Before(stage) \in Stages)
  BY StepTyped DEF Typed, TypeOK, Before, Stages, Find, Fetch, Parse, Build
<1>1. CASE todo' = {} /\ ~Called' /\ (phase' = "loop" => Working /\ UNCHANGED <<stage, out>>)
  BY <1>1 DEF Ready, Working, Called, UrlsTorn
<1>2. ASSUME stage' = stage,
             todo' \subseteq todo,
             Called' => /\ prior' < maxAttempts
                        /\ item' \in Perfumes
                        /\ stage # Find => out[Before(stage)][item'] # "none"
                        /\ ledger[stage][item'].status # "success"
                        /\ phase' = "mark" => out'[stage][item'] \in {"good", "shapeless"},
             Working' => Working /\ (UrlsTorn' => UrlsTorn),
             \A p \in todo' : phase' = "loop" => p # item \/ ~Called
      PROVE  Ready'
  <2>1. todo \subseteq Perfumes
    BY DEF Typed, TypeOK
  <2>2. \A p \in todo' : ledger'[stage][p].attempts < maxAttempts
    <3> SUFFICES ASSUME NEW p \in todo'
                 PROVE  ledger'[stage][p].attempts < maxAttempts
      OBVIOUS
    <3>1. ledger[stage][p].attempts < maxAttempts /\ p \in Perfumes
      BY <1>2, <2>1 DEF Ready
    <3>2. ledger[stage][p].attempts \in Nat /\ ledger'[stage][p].attempts \in Nat
      BY <1>0, <3>1, RowTyped DEF Typed, TypeOK, LedgerOf
    <3> QED
      BY <1>0, <1>2, <3>1, <3>2, RowStep
  <2>3. stage # Find => \A p \in todo' \cup (IF Called' THEN {item'} ELSE {}) : out'[Before(stage)][p] # "none"
    <3> SUFFICES ASSUME stage # Find, NEW p \in todo' \cup (IF Called' THEN {item'} ELSE {})
                 PROVE  out'[Before(stage)][p] # "none"
      OBVIOUS
    <3>1. p \in Perfumes /\ out[Before(stage)][p] # "none"
      BY <1>2, <2>1 DEF Ready
    <3> QED
      BY <1>0, <3>1, OutputsStay
  <2>4. Before(stage)' = Before(stage)
    BY <1>2 DEF Before
  <2>5. ASSUME NEW p \in todo' \cup (IF Called' THEN {item'} ELSE {})
        PROVE  ledger'[stage][p].status # "success"
    <3>1. p \in Perfumes /\ ledger[stage][p].status # "success"
      BY <1>2, <2>1, <2>5 DEF Ready
    <3>2. ~(Called /\ p = item /\ phase' = "loop")
      BY <1>2, <2>5 DEF Called
    <3> QED
      BY <1>0, <3>1, <3>2, RowStep
  <2>6. (Working' /\ stage' = Find) => ~UrlsTorn'
    BY <1>2 DEF Ready
  <2> QED
    BY <1>2, <2>2, <2>3, <2>4, <2>5, <2>6 DEF Ready, Called
<1>3. CASE Load
  <2>1. CASE JobFails \/ JobSucceeds
    BY <1>1, <2>1, Ends DEF Called
  <2>2. CASE ~JobFails /\ ~JobSucceeds
    <3>1. /\ stage' = stage /\ todo' \subseteq Outstanding(stage) /\ phase' = "loop"
          /\ UNCHANGED <<ledger, out>> /\ ~(UrlsTorn /\ stage # Parse)
      BY <1>3, <2>2 DEF Load
    <3>2. ASSUME NEW p \in Outstanding(stage)
          PROVE  /\ ledger[stage][p].attempts < maxAttempts
                 /\ ledger[stage][p].status # "success"
                 /\ stage # Find => out[Before(stage)][p] # "none"
      <4>1. p \in Perfumes /\ ~isWorkItemDone(ledger, stage, p, maxAttempts)
        BY DEF Outstanding
      <4>2. ledger[stage][p].attempts \in Nat
        BY <1>0, <4>1, RowTyped DEF Typed
      <4> QED
        BY <1>0, <4>1, <4>2 DEF Outstanding, isWorkItemDone, Exhausted, Budget
    <3>3. Before(stage)' = Before(stage)
      BY <3>1 DEF Before
    <3>4. Working' /\ stage' = Find => ~UrlsTorn'
      BY <3>1 DEF UrlsTorn, Find, Parse
    <3> QED
      BY <3>1, <3>2, <3>3, <3>4 DEF Ready, Called
  <2> QED
    BY <2>1, <2>2
<1>4. ASSUME NEW p \in Perfumes, Take(p)
      PROVE  Ready'
  <2>1. /\ stage' = stage /\ todo' \subseteq todo /\ item' = p /\ p \in todo
        /\ phase = "loop" /\ phase' \in {"call", "write"} /\ prior' = ledger[stage][p].attempts
        /\ out' = out
    BY <1>4 DEF Take
  <2>2. /\ prior' < maxAttempts /\ (stage # Find => out[Before(stage)][p] # "none")
        /\ ledger[stage][p].status # "success"
    BY <2>1 DEF Ready
  <2> QED
    BY <1>2, <2>1, <2>2 DEF Called, Working, UrlsTorn
<1>5. CASE Wrote
  <2>1. /\ UNCHANGED <<stage, todo, item, prior>> /\ Called /\ phase' = "mark"
    BY <1>5 DEF Wrote, local, Called
  <2>2. out'[stage][item] \in {"good", "shapeless"} /\ (UrlsTorn' => UrlsTorn)
    <3>1. PICK o \in {"good", "shapeless"} : out' = [out EXCEPT ![stage][item] = o]
      BY <1>5 DEF Wrote
    <3> QED
      BY <1>0, <2>1, <3>1 DEF Typed, TypeOK, Shape, UrlsTorn
  <2> QED
    BY <1>2, <2>1, <2>2 DEF Ready, Typed, Shape, Working
<1>6. CASE Succeeds \/ Fails
  <2>1. phase' = "loop" /\ UNCHANGED <<stage, todo, out>> /\ Called
    BY <1>6 DEF Succeeds, Fails, Marked, Called
  <2> QED
    BY <1>2, <2>1 DEF Called, Working, UrlsTorn, Typed, Shape
<1>7. CASE Operator \/ UNCHANGED vars
  <2>1. UNCHANGED <<stage, phase, todo, item, prior, out>>
    BY <1>7 DEF Operator, vars, local
  <2> QED
    BY <1>2, <2>1 DEF Ready, Called, Working, UrlsTorn, Typed, Shape
<1>8. CASE Pauses
  BY <1>1, <1>8 DEF Pauses, Called, Working
<1>9. CASE Finish \/ Throws \/ Killed \/ KilledInWrite
  BY <1>1, <1>9, Ends DEF Finish, Throws, Killed, KilledInWrite, Called
<1>10. CASE StartRun \/ Gate
  BY <1>1, <1>10 DEF StartRun, Gate, MemberFailed, local, Typed, Shape, Called, Working
<1>11. CASE CycleEnds
  <2>1. CASE RunOver
    BY <1>1, <2>1, Ends DEF Called
  <2>2. CASE ~RunOver
    BY <1>1, <1>11, <2>2 DEF CycleEnds, local, Typed, Shape, Called, Working
  <2> QED
    BY <2>1, <2>2
<1> QED
  BY <1>3, <1>4, <1>5, <1>6, <1>7, <1>8, <1>9, <1>10, <1>11 DEF Next, Work

-----------------------------------------------------------------------------
(* Cycles without progress. *)

LEMMA StagesFinite == IsFiniteSet(Stages) /\ IsFiniteSet(Perfumes)
<1>1. IsFiniteSet({Find}) /\ IsFiniteSet({Fetch}) /\ IsFiniteSet({Parse}) /\ IsFiniteSet({Build})
  BY FS_Singleton
<1>2. Stages = (({Find} \cup {Fetch}) \cup {Parse}) \cup {Build}
  BY DEF Stages
<1> QED
  BY <1>1, <1>2, FS_Union, PerfumesAssumption DEF PerfumesAssumption

\* The marker of the first cycle is not the signature of any ledger.
LEMMA SignatureReal ==
  ASSUME TypeOK
  PROVE  /\ Signature \in [items : Nat, attempts : Nat, retryable : Nat]
         /\ Signature.retryable = workflowRetryableCount(ledger, Stages, maxAttempts)
         /\ Signature # NoSignature
<1> DEFINE R == RowsIn(ledger, Stages)
           F == {jk \in R : ledger[jk[1]][jk[2]].status = "failed"
                             /\ ~Exhausted(ledger[jk[1]][jk[2]], maxAttempts)}
<1>0. ledger \in LedgerOf(Stages, Perfumes)
  BY DEF TypeOK
<1>1. IsFiniteSet(R)
  BY <1>0, StagesFinite, RowsFinite
<1>2. IsFiniteSet(F) /\ F \subseteq R
  BY <1>1, FS_Subset
<1>3. Cardinality(F) \in Nat /\ Cardinality(R) \in Nat /\ Cardinality(F) <= Cardinality(R)
  BY <1>1, <1>2, FS_CardinalityType, FS_Subset
<1>4. workflowRetryableCount(ledger, Stages, maxAttempts) = Cardinality(F)
  BY DEF workflowRetryableCount
<1> HIDE DEF R, F
<1>5. Signature.items = Cardinality(R)
  BY DEF Signature, workflowProgressSignature, R
<1>6. Signature.retryable = Cardinality(F)
  BY <1>4 DEF Signature, workflowProgressSignature
<1>7. NoSignature.items = 0 /\ NoSignature.retryable = 1
  BY DEF NoSignature
<1>8. Signature \in [items : Nat, attempts : Nat, retryable : Nat]
  BY <1>0, StagesFinite, SignatureTyped DEF Signature
<1> QED
  BY <1>3, <1>4, <1>5, <1>6, <1>7, <1>8

\* A mark is of a row that has fewer attempts.
LEMMA MarkRaises ==
  ASSUME Typed, Ready, Untried, "operator" \notin faults, Succeeds \/ Fails
  PROVE  \E st \in {"success", "failed"}, a \in 1 .. maxAttempts :
           /\ Marked(st, a)
           /\ a > ledger[stage][item].attempts
           /\ (stage = Find /\ item \in linked) => st = "success"
<1> USE PerfumesAssumption DEF PerfumesAssumption
<1>1. Called /\ stage \in Stages /\ item \in Perfumes /\ linked \subseteq Perfumes
  BY DEF Succeeds, Fails, Called, Typed, TypeOK, Shape
<1>2. prior \in Nat /\ prior + 1 \in 1 .. maxAttempts /\ 1 \in 1 .. maxAttempts
  BY <1>1 DEF Typed, TypeOK, Ready
<1>3. prior = ledger[stage][item].attempts
  BY <1>1 DEF Untried
<1>4. CASE stage = Find /\ item \in linked
  <2>1. ledger[Find][item] = NoRow
    BY <1>1, <1>4 DEF Untried
  <2>2. prior = 0
    BY <1>3, <1>4, <2>1 DEF NoRow
  <2>3. Succeeds
    BY <1>4 DEF Fails, Untried
  <2>4. Marked("success", 1)
    BY <1>4, <2>3 DEF Succeeds
  <2> QED
    BY <1>2, <1>3, <2>2, <2>4
<1>5. CASE ~(stage = Find /\ item \in linked)
  <2>1. Marked("success", prior + 1) \/ Marked("failed", prior + 1)
    BY <1>5 DEF Succeeds, Fails
  <2> QED
    BY <1>2, <1>3, <1>5, <2>1
<1> QED
  BY <1>4, <1>5

LEMMA StepUntried ==
  ASSUME Typed, Ready, Untried, [Next]_vars
  PROVE  Untried'
<1> USE PerfumesAssumption DEF PerfumesAssumption
<1>0. /\ UNCHANGED <<linked, faults>> /\ linked \subseteq Perfumes /\ Find \in Stages
      /\ stage \in Stages /\ todo \subseteq Perfumes
  BY WorldFixed DEF world, Typed, TypeOK, Stages
<1> SUFFICES ASSUME "operator" \notin faults PROVE Untried'
  BY <1>0 DEF Untried
<1>1. CASE ledger' = ledger /\ todo' = {} /\ ~Called'
  BY <1>0, <1>1 DEF Untried, Called
<1>2. CASE Load
  <2>1. CASE JobFails \/ JobSucceeds
    BY <1>1, <1>2, <2>1, Ends DEF Load, Called
  <2>2. CASE ~JobFails /\ ~JobSucceeds
    <3>1. /\ stage' = stage /\ todo' \subseteq Outstanding(stage) /\ phase' = "loop" /\ ledger' = ledger
      BY <1>2, <2>2 DEF Load
    <3>2. \A p \in linked \cap Outstanding(Find) : ledger[Find][p] = NoRow
      BY DEF Outstanding, isWorkItemDone, Untried
    <3> QED
      BY <1>0, <3>1, <3>2 DEF Untried, Called
  <2> QED
    BY <2>1, <2>2
<1>3. ASSUME NEW p \in Perfumes, Take(p)
      PROVE  Untried'
  <2>1. /\ UNCHANGED <<stage, ledger>> /\ todo' \subseteq todo /\ item' = p /\ p \in todo
        /\ prior' = ledger[stage][p].attempts
        /\ phase' = IF stage = Find /\ p \in linked THEN "write" ELSE "call"
    BY <1>3 DEF Take
  <2> QED
    BY <1>0, <2>1 DEF Untried, Called
<1>4. CASE Wrote
  BY <1>0, <1>4 DEF Wrote, local, Untried, Called
<1>5. CASE Succeeds \/ Fails
  <2>1. PICK st \in {"success", "failed"}, a \in 1 .. maxAttempts :
           Marked(st, a) /\ ((stage = Find /\ item \in linked) => st = "success")
    BY <1>5, MarkRaises
  <2>2. Called /\ item \in Perfumes /\ item \notin todo /\ a \in Nat
    BY <1>5 DEF Succeeds, Fails, Called, Typed, Shape
  <2>3. \A s \in Stages, p \in Perfumes :
          ledger'[s][p] = IF s = stage /\ p = item THEN Row(st, a, item) ELSE ledger[s][p]
    BY <2>1, <2>2, MarkRows DEF Typed
  <2>4. phase' = "loop" /\ UNCHANGED <<stage, todo>>
    BY <2>1 DEF Marked
  <2>5. \A p \in linked : ledger'[Find][p] = NoRow \/ ledger'[Find][p].status = "success"
    BY <1>0, <2>1, <2>3 DEF Untried, Row
  <2>6. stage = Find => \A p \in linked \cap todo : ledger'[Find][p] = NoRow
    BY <1>0, <2>2, <2>3 DEF Untried
  <2> QED
    BY <1>0, <2>4, <2>5, <2>6 DEF Untried, Called
<1>6. CASE UNCHANGED vars
  BY <1>0, <1>6 DEF vars, local, Untried, Called
<1>7. CASE Finish \/ Throws \/ Killed \/ KilledInWrite
  BY <1>1, <1>7, Ends DEF Finish, Throws, Killed, KilledInWrite, Called
<1>8. CASE StartRun \/ Gate
  BY <1>1, <1>8 DEF StartRun, Gate, MemberFailed, local, Typed, Shape, Called, Working
<1>9. CASE CycleEnds
  <2>1. CASE RunOver
    BY <1>1, <1>9, <2>1, Ends DEF CycleEnds, Called
  <2>2. CASE ~RunOver
    BY <1>1, <1>9, <2>2 DEF CycleEnds, local, Typed, Shape, Called, Working
  <2> QED
    BY <2>1, <2>2
<1>10. CASE Pauses
  BY <1>1, <1>10 DEF Pauses, Called
<1>11. ~Operator
  BY DEF Operator, Disturbed
<1> QED
  BY <1>2, <1>3, <1>4, <1>5, <1>6, <1>7, <1>8, <1>9, <1>10, <1>11 DEF Next, Work

LEMMA StepSigned ==
  ASSUME Typed, Ready, Untried, Signed, [Next]_vars
  PROVE  Signed'
<1> USE PerfumesAssumption DEF PerfumesAssumption
<1>0. faults' = faults /\ cycle \in Nat
  BY WorldFixed DEF world, Typed, TypeOK
<1>1. CASE UNCHANGED <<ledger, cycling>> /\ (phase # "idle" \/ phase' = phase)
  BY <1>0, <1>1 DEF Signed, Signature, cycling
<1>2. CASE RunOver \/ StartRun
  <2>1. cycle' \in {0, 1} /\ before' = NoSignature /\ (cycle' = 0 => phase' = "idle")
    BY <1>2 DEF RunOver, StartRun
  <2> QED
    BY <2>1 DEF Signed, NoSignature
<1>3. CASE CycleEnds /\ ~RunOver
  <2>1. cycle' = cycle + 1 /\ before' = Signature /\ moved' = FALSE /\ ledger' = ledger
    BY <1>3 DEF CycleEnds, Signature
  <2>2. Signature' = Signature
    BY <2>1 DEF Signature
  <2>3. Signature.attempts \in Nat
    BY SignatureReal DEF Typed
  <2>4. cycle >= 1
    BY <1>3 DEF CycleEnds, Signed
  <2> QED
    BY <1>0, <2>1, <2>2, <2>3, <2>4 DEF Signed
<1>4. CASE Operator
  BY <1>0, <1>4 DEF Operator, Disturbed, Signed, cycling
<1>5. CASE Succeeds \/ Fails
  <2>0. moved' = TRUE /\ UNCHANGED <<cycle, before>> /\ phase # "idle"
    BY <1>5 DEF Succeeds, Fails, Marked
  <2> SUFFICES ASSUME "operator" \notin faults, cycle > 1
               PROVE  before.attempts < Signature'.attempts
    BY <1>0, <2>0 DEF Signed
  <2>1. PICK st \in {"success", "failed"}, a \in 1 .. maxAttempts :
           Marked(st, a) /\ a > ledger[stage][item].attempts
    BY <1>5, MarkRaises
  <2> DEFINE r == Row(st, a, item)
  <2>2. /\ ledger \in LedgerOf(Stages, Perfumes) /\ stage \in Stages /\ item \in Perfumes
        /\ ledger' = markWorkItem(ledger, stage, item, r)
    BY <1>5, <2>1 DEF Succeeds, Fails, Marked, Called, Typed, TypeOK, Shape
  <2>3. /\ r \in [status : WorkStatus, attempts : Nat, root : Perfumes \cup {NoKey}]
        /\ r.attempts > ledger[stage][item].attempts
    BY <2>1, <2>2 DEF Row, WorkStatus
  <2> HIDE DEF r
  <2>4. Signature.attempts < Signature'.attempts
    <3>1. workflowProgressSignature(ledger, Stages, maxAttempts).attempts
            < workflowProgressSignature(markWorkItem(ledger, stage, item, r), Stages, maxAttempts).attempts
      BY <2>2, <2>3, StagesFinite, MarkAdvances
    <3> QED
      BY <2>2, <3>1 DEF Signature
  <2>5. Signature.attempts \in Nat /\ Signature'.attempts \in Nat
    <3>1. ledger' \in LedgerOf(Stages, Perfumes)
      BY StepTyped DEF Typed, TypeOK
    <3>2. /\ workflowProgressSignature(ledger, Stages, maxAttempts) \in
               [items : Nat, attempts : Nat, retryable : Nat]
          /\ workflowProgressSignature(ledger', Stages, maxAttempts) \in
               [items : Nat, attempts : Nat, retryable : Nat]
      BY <2>2, <3>1, StagesFinite, SignatureTyped
    <3> QED
      BY <3>2 DEF Signature
  <2>6. before.attempts \in Nat /\ before.attempts <= Signature.attempts
    BY <2>5 DEF Signed
  <2> QED
    BY <2>4, <2>5, <2>6
<1> QED
  BY <1>1, <1>2, <1>3, <1>4, <1>5 DEF Next, Work, StartRun, CycleEnds, Gate, Load, Take,
     Wrote, Pauses, Finish, Throws, Killed, KilledInWrite, vars

\* After a cycle that marked nothing the signature is the one before.
LEMMA IdleStep ==
  ASSUME Typed, Signed, [Next]_vars, "operator" \notin faults, cycle' > cycle, cycle > 1
  PROVE  moved
<1> USE PerfumesAssumption DEF PerfumesAssumption
<1>1. cycle \in Nat
  BY DEF Typed, TypeOK
<1>2. CycleEnds /\ ~Stable(Signature)
  <2>1. ~RunOver /\ ~StartRun /\ cycle' # cycle
    BY <1>1 DEF RunOver, StartRun
  <2> QED
    BY <2>1 DEF Next, Work, StartRun, CycleEnds, Gate, Load, Take, Wrote, Succeeds, Fails,
       Marked, Pauses, Finish, Throws, Killed, KilledInWrite, Operator, cycling, vars, Signature
<1>3. Signature.retryable \in Nat /\ Signature # NoSignature
  BY SignatureReal DEF Typed
<1>4. ~noForwardProgress(before, Signature)
  BY <1>2 DEF Stable
<1>5. before # Signature
  BY <1>3, <1>4 DEF noForwardProgress
<1> QED
  BY <1>5 DEF Signed

\* After one that marked something it is another.
LEMMA BusyStep ==
  ASSUME Typed, Signed, Next, "operator" \notin faults, disturbances' = disturbances,
         phase = "cycle", cycle' = 0, cycle < maxCycles,
         workflowRetryableCount(ledger, Stages, maxAttempts) > 0
  PROVE  ~moved
<1> USE PerfumesAssumption DEF PerfumesAssumption
<1>1. cycle \in Nat /\ disturbances \in Nat
  BY DEF Typed, TypeOK
<1>2. CycleEnds
  BY <1>1 DEF Next, Work, StartRun, Gate, Load, Take, Wrote, Succeeds, Fails, Finish, Pauses,
     Throws, Killed, KilledInWrite, Operator, Disturbed
<1>3. CASE Stable(Signature)
  <2>1. Signature.retryable # 0 /\ cycle # maxCycles
    BY <1>1, SignatureReal DEF Typed
  <2>2. noForwardProgress(before, Signature)
    BY <1>3, <2>1 DEF Stable
  <2>3. before # NoSignature /\ Signature.attempts = before.attempts
    BY <2>2 DEF noForwardProgress
  <2> QED
    BY <1>1, <2>3 DEF Signed
<1>4. CASE ~Stable(Signature)
  BY <1>1, <1>2, <1>4 DEF CycleEnds, Signature
<1> QED
  BY <1>3, <1>4

-----------------------------------------------------------------------------
(* The theorems. *)

LEMMA InitIInv == Init => IInv
<1> USE PerfumesAssumption DEF PerfumesAssumption
<1> SUFFICES ASSUME Init PROVE IInv
  OBVIOUS
<1>1. Typed
  BY InitTyped
<1>2. \A s \in Stages, p \in Perfumes : ledger[s][p] = NoRow
  BY DEF Init
<1>3. Budget
  BY <1>2 DEF Budget, NoRow
<1>4. Ready
  BY DEF Init, Ready, Called, Working
<1>5. DoneHasOutput
  BY <1>2 DEF DoneHasOutput, NoRow
<1>6. Untried
  BY <1>2 DEF Init, Untried, Called, Stages
<1>7. Signed
  BY DEF Init, Signed, NoSignature
<1> QED
  BY <1>1, <1>3, <1>4, <1>5, <1>6, <1>7 DEF IInv

LEMMA Invariance == Spec => []IInv
<1>1. IInv /\ [Next]_vars => IInv'
  BY StepTyped, StepBudget, StepReady, StepDone, StepUntried, StepSigned DEF IInv
<1> QED
  BY <1>1, InitIInv, PTL DEF Spec

\* A success has its output and an item had its input, wherever a kill strikes.
THEOREM OutputFirst == Spec => []DoneHasOutput
<1>1. IInv => DoneHasOutput
  BY DEF IInv
<1> QED
  BY <1>1, Invariance, PTL

\* No perfume is tried more often than its budget.
THEOREM Budgeted == Spec => []AttemptsBounded
<1>1. IInv => AttemptsBounded
  BY DEF IInv, AttemptsBounded, Budget
<1> QED
  BY <1>1, Invariance, PTL

\* But for the operator, a run goes on after a cycle that marked something and
\* stops after one that marked nothing.
THEOREM CyclesTrack == Spec => CyclingTracksProgress
<1>1. IInv /\ [Next]_vars =>
        [(phase = "cycle" /\ "operator" \notin faults /\ disturbances' = disturbances) =>
           /\ (cycle' > cycle /\ cycle > 1) => moved
           /\ (/\ cycle' = 0 /\ cycle < maxCycles
               /\ workflowRetryableCount(ledger, Stages, maxAttempts) > 0) => ~moved]_vars
  BY IdleStep, BusyStep DEF IInv
<1> QED
  BY <1>1, Invariance, PTL DEF Spec, CyclingTracksProgress
=============================================================================
