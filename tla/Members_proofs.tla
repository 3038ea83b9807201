-------------------------- MODULE Members_proofs --------------------------
(***************************************************************************)
(* Proofs about the processes of the members of a workflow: their attempts *)
(* under the daemon, for any number of invocations of a job and any number *)
(* of retries; the meter they share, for any number of processes, any      *)
(* limits and any lengths of the windows; and the sync that reads an       *)
(* account through the response cache, for any account, any size of the    *)
(* pages, any number of processes and any number of things that go wrong.  *)
(***************************************************************************)
EXTENDS MemberRun, ServiceMeter, WorkoutsSync, FiniteSetTheorems,
        SequenceTheorems, TLAPS

-----------------------------------------------------------------------------
(* Member runs. *)

\* An attempt under way needs a daemon, and has a row that says so until a reset.
RunningHasRow ==
  \A r \in Runs : phase[r] = "running" =>
    up /\ attempt[r] \in Attempts /\ row[r][attempt[r]] = IF r \in erased THEN "none" ELSE "running"

\* Before the first attempt there is no row, so nothing that a reset could delete.
WaitingAtZero ==
  \A r \in Runs : phase[r] = "waiting" =>
    attempt[r] = 0 /\ r \notin erased /\ \A a \in Attempts : row[r][a] = "none"

\* An invocation that has not settled has no outcome.
OpenOutcome == \A r \in Runs : phase[r] # "settled" => outcome[r] = "none"

\* The listener has heard every abort of an attempt under way.
AbortHeard == \A r \in Runs : phase[r] = "running" /\ aborted[r] => cancelled[r]

IInv ==
  /\ TypeOK
  /\ RunningHasRow
  /\ WaitingAtZero
  /\ OpenOutcome
  /\ AbortHeard
  /\ OneInvocation
  /\ RetriesJustified
  /\ AbortSticks

\* The steps on one invocation.
StepOf(r) ==
  \/ BeginSkipped(r) \/ BeginCancelled(r) \/ Begin(r) \/ BeginThrows(r)
  \/ \E status \in {"success", "failed"} : Report(r, status)
  \/ \E a \in Attempts : Exit(r, a)
  \/ Timeout(r) \/ AbortWaiting(r) \/ Abort(r)
  \/ CloseEnds(r) \/ CloseRetries(r) \/ FinishThrows(r) \/ RetryThrows(r)

LEMMA NextIsSteps == Next <=> (\E r \in Runs : StepOf(r)) \/ Reset \/ Crash \/ Restart
BY DEF Next, StepOf

LEMMA VerdictType ==
  ASSUME NEW r \in Runs
  PROVE  /\ Verdict(r) \in Verdicts
         /\ Retries(r) => ~cancelled[r] /\ attempt[r] <= MaxRetries
         /\ Verdict(r) \in {"failed", "timeout", "success", "cancelled"}
         /\ cancelled[r] => Verdict(r) = "cancelled"
         /\ Finish(r) \in Statuses \ {"running"}
BY DEF Verdict, Verdicts, Retries, Finish, Statuses

LEMMA InitIInv == Init => IInv
<1> SUFFICES ASSUME Init PROVE IInv
  OBVIOUS
<1>1. TypeOK
  BY MemberAssumption DEF Init, TypeOK, Attempts, Verdicts, Statuses
<1>2. RunningHasRow /\ WaitingAtZero /\ OpenOutcome /\ AbortHeard /\ OneInvocation /\ AbortSticks
  BY DEF Init, RunningHasRow, WaitingAtZero, OpenOutcome, AbortHeard, OneInvocation, AbortSticks
<1>3. RetriesJustified
  BY MemberAssumption DEF Init, RetriesJustified, Attempts
<1> QED BY <1>1, <1>2, <1>3 DEF IInv

-----------------------------------------------------------------------------
\* An entry of a table of attempts is replaced.
LEMMA EntryReplaced ==
  ASSUME NEW V, NEW t \in [Runs -> [Attempts -> V]], NEW r \in Runs, NEW a \in Attempts, NEW v \in V
  PROVE  /\ [t EXCEPT ![r][a] = v] \in [Runs -> [Attempts -> V]]
         /\ [t EXCEPT ![r][a] = v][r][a] = v
         /\ \A b \in Attempts : b # a => [t EXCEPT ![r][a] = v][r][b] = t[r][b]
         /\ \A s \in Runs : s # r => [t EXCEPT ![r][a] = v][s] = t[s]
OBVIOUS

LEMMA TableTypes ==
  ASSUME TypeOK
  PROVE  /\ row \in [Runs -> [Attempts -> Statuses]]
         /\ child \in [Runs -> [Attempts -> {"none", "alive", "dead"}]]
         /\ 1 \in Attempts /\ {"none", "running", "skipped"} \subseteq Statuses
         /\ Verdicts \subseteq Statuses /\ "running" \notin Verdicts
         /\ Attempts \subseteq 0 .. MaxRetries + 1
BY MemberAssumption DEF TypeOK, Statuses, Attempts, Verdicts

\* The first call spawns.
LEMMA BeginIInv ==
  ASSUME IInv, NEW r \in Runs, Begin(r)
  PROVE  IInv'
<1> USE DEF IInv
<1>1. /\ up /\ phase[r] = "waiting" /\ ~aborted[r] /\ UNCHANGED <<up, outcome, aborted, erased>>
      /\ phase' = [phase EXCEPT ![r] = "running"] /\ attempt' = [attempt EXCEPT ![r] = 1]
      /\ reported' = [reported EXCEPT ![r] = "none"]
      /\ timedOut' = [timedOut EXCEPT ![r] = FALSE]
      /\ cancelled' = [cancelled EXCEPT ![r] = FALSE]
  BY DEF Begin, Spawn
<1>2. /\ row' \in [Runs -> [Attempts -> Statuses]] /\ row'[r][1] = "running"
      /\ \A s \in Runs : s # r => row'[s] = row[s]
      /\ child' \in [Runs -> [Attempts -> {"none", "alive", "dead"}]]
      /\ \A s \in Runs : s # r => child'[s] = child[s]
  BY TableTypes, EntryReplaced DEF Begin, Spawn
<1>3. TypeOK'
  BY <1>1, <1>2, TableTypes DEF TypeOK
<1>4. RunningHasRow'
  BY <1>1, <1>2, TableTypes DEF RunningHasRow, TypeOK, WaitingAtZero
<1>5. WaitingAtZero' /\ OpenOutcome' /\ AbortHeard' /\ AbortSticks'
  BY <1>1, <1>2 DEF WaitingAtZero, OpenOutcome, AbortHeard, AbortSticks, TypeOK
<1>6. \A s \in Runs : phase[s] = "running" => s \in erased
  BY DEF RunningHasRow, Begin, HasActiveRun
<1>7. OneInvocation'
  BY <1>1, <1>6 DEF OneInvocation, TypeOK
<1>8. RetriesJustified'
  BY <1>1, <1>2 DEF RetriesJustified, TypeOK, Attempts
<1> QED BY <1>3, <1>4, <1>5, <1>7, <1>8

\* The first call ends the invocation.
LEMMA BeginEndsIInv ==
  ASSUME IInv, NEW r \in Runs, BeginSkipped(r) \/ BeginCancelled(r) \/ BeginThrows(r)
  PROVE  IInv'
<1> USE DEF IInv
<1>1. /\ phase[r] = "waiting" /\ phase' = [phase EXCEPT ![r] = "settled"]
      /\ UNCHANGED <<up, attempt, child, reported, timedOut, cancelled, aborted, erased>>
      /\ \E status \in {"skipped", "cancelled", "threw"} : outcome' = [outcome EXCEPT ![r] = status]
  BY DEF BeginSkipped, BeginCancelled, BeginThrows, Settle, NoSpawn
<1>2. /\ row' \in [Runs -> [Attempts -> Statuses]]
      /\ \A s \in Runs : s # r => row'[s] = row[s]
  <2>1. row' = [row EXCEPT ![r][1] = "skipped"] \/ row' = row
    BY DEF BeginSkipped, BeginCancelled, BeginThrows
  <2> DEFINE f == [row EXCEPT ![r][1] = "skipped"]
  <2>2. /\ f \in [Runs -> [Attempts -> Statuses]]
        /\ \A s \in Runs : s # r => f[s] = row[s]
    BY TableTypes, EntryReplaced
  <2>3. row \in [Runs -> [Attempts -> Statuses]]
    BY TableTypes
  <2>4. row' = f \/ row' = row
    BY <2>1
  <2> HIDE DEF f
  <2> QED BY <2>2, <2>3, <2>4
<1> USE <1>1, <1>2
<1>3. TypeOK'
  <2>1. outcome' \in [Runs -> Verdicts \cup {"none", "skipped", "threw"}]
    BY DEF TypeOK, Verdicts
  <2>2. phase' \in [Runs -> {"waiting", "running", "settled", "lost"}]
    BY DEF TypeOK
  <2> QED BY <2>1, <2>2 DEF TypeOK
<1>4. RunningHasRow'
  BY DEF RunningHasRow, TypeOK
<1>5. WaitingAtZero' /\ OpenOutcome' /\ AbortHeard'
  BY DEF WaitingAtZero, OpenOutcome, AbortHeard, TypeOK
<1>6. AbortSticks'
  BY DEF AbortSticks, TypeOK
<1>7. OneInvocation'
  BY DEF OneInvocation, TypeOK
<1>8. RetriesJustified'
  <2> SUFFICES ASSUME NEW s \in Runs, NEW b \in Attempts, b < attempt[s]
               PROVE  /\ \/ row'[s][b] \in {"failed", "timeout"}
                         \/ row'[s][b] = "none" /\ s \in erased
                      /\ child[s][b] = "dead"
    BY DEF RetriesJustified
  <2>1. s # r
    BY MemberAssumption DEF WaitingAtZero, Attempts
  <2> QED BY <2>1 DEF RetriesJustified
<1> QED BY <1>3, <1>4, <1>5, <1>6, <1>7, <1>8

\* The daemon dies, by itself or in the log line before a kill.
LEMMA DiesIInv ==
  ASSUME IInv, Dies, UNCHANGED <<outcome, attempt, row, child, reported, erased>>,
         timedOut' \in [Runs -> BOOLEAN], cancelled' \in [Runs -> BOOLEAN], aborted' \in [Runs -> BOOLEAN],
         \A s \in Runs : phase[s] = "settled" => aborted'[s] = aborted[s]
  PROVE  IInv'
<1> USE DEF IInv
<1>1. /\ up' = FALSE
      /\ phase' \in [Runs -> {"waiting", "running", "settled", "lost"}]
      /\ \A s \in Runs : phase'[s] # "running"
      /\ \A s \in Runs : \/ phase'[s] = phase[s]
                         \/ phase'[s] = "lost" /\ phase[s] # "settled"
  BY DEF Dies, TypeOK
<1>2. TypeOK'
  BY <1>1 DEF TypeOK
<1>3. RunningHasRow' /\ OneInvocation' /\ WaitingAtZero' /\ OpenOutcome' /\ AbortHeard' /\ AbortSticks'
  BY <1>1 DEF RunningHasRow, OneInvocation, WaitingAtZero, OpenOutcome, AbortHeard, AbortSticks
<1>4. RetriesJustified'
  BY DEF RetriesJustified
<1> QED BY <1>2, <1>3, <1>4

\* What happens before and while an attempt is under way: a result, a timeout, an abort.
LEMMA FlightIInv ==
  ASSUME IInv, NEW r \in Runs,
         \/ \E status \in {"success", "failed"} : Report(r, status)
         \/ Timeout(r) \/ AbortWaiting(r) \/ Abort(r)
  PROVE  IInv'
<1> USE DEF IInv
<1>1. /\ UNCHANGED <<outcome, attempt, row, child, erased>>
      /\ phase[r] \in {"waiting", "running"}
      /\ reported' \in [Runs -> {"none", "success", "failed"}]
      /\ timedOut' \in [Runs -> BOOLEAN]
      /\ cancelled' \in [Runs -> BOOLEAN] /\ aborted' \in [Runs -> BOOLEAN]
      /\ \A s \in Runs : s # r => cancelled'[s] = cancelled[s] /\ aborted'[s] = aborted[s]
      /\ phase[r] = "running" => \/ cancelled'[r]
                                 \/ cancelled'[r] = cancelled[r] /\ aborted'[r] = aborted[r]
      /\ UNCHANGED <<up, phase>> \/ (Dies /\ reported' = reported)
  <2>1. CASE \E status \in {"success", "failed"} : Report(r, status)
    BY <2>1 DEF Report, TypeOK
  <2>2. CASE Timeout(r)
    BY <2>2 DEF Timeout, LogKill, TypeOK
  <2>3. CASE AbortWaiting(r)
    BY <2>3 DEF AbortWaiting, TypeOK
  <2>4. CASE Abort(r)
    BY <2>4 DEF Abort, LogKill, TypeOK
  <2> QED BY <2>1, <2>2, <2>3, <2>4
<1>2. CASE Dies /\ reported' = reported
  <2>1. \A s \in Runs : phase[s] = "settled" => aborted'[s] = aborted[s]
    BY <1>1
  <2> QED BY <1>1, <1>2, <2>1, DiesIInv
<1>3. CASE UNCHANGED <<up, phase>>
  <2>1. TypeOK'
    BY <1>1, <1>3 DEF TypeOK
  <2>2. RunningHasRow' /\ OneInvocation' /\ WaitingAtZero' /\ OpenOutcome' /\ RetriesJustified'
    BY <1>1, <1>3 DEF RunningHasRow, OneInvocation, WaitingAtZero, OpenOutcome, RetriesJustified
  <2>3. AbortHeard' /\ AbortSticks'
    BY <1>1, <1>3 DEF AbortHeard, AbortSticks
  <2> QED BY <2>1, <2>2, <2>3
<1> QED BY <1>1, <1>2, <1>3

\* A reset of the output deletes every row, also that of an attempt under way.
LEMMA ResetIInv ==
  ASSUME IInv, Reset
  PROVE  IInv'
<1> USE DEF IInv, Reset
<1>1. /\ row' \in [Runs -> [Attempts -> Statuses]] /\ erased' \subseteq Runs
      /\ \A s \in Runs, a \in Attempts : row'[s][a] = "none" /\ (row[s][a] # "none" => s \in erased')
  BY DEF Statuses, TypeOK
<1>2. TypeOK'
  BY <1>1 DEF TypeOK
<1>3. RunningHasRow'
  BY <1>1 DEF RunningHasRow
<1>4. WaitingAtZero'
  BY <1>1 DEF WaitingAtZero
<1>5. OpenOutcome' /\ AbortHeard' /\ AbortSticks' /\ OneInvocation'
  BY DEF OpenOutcome, AbortHeard, AbortSticks, OneInvocation
<1>6. RetriesJustified'
  BY <1>1 DEF RetriesJustified
<1> QED BY <1>2, <1>3, <1>4, <1>5, <1>6

LEMMA ExitIInv ==
  ASSUME IInv, NEW r \in Runs, NEW a \in Attempts, Exit(r, a)
  PROVE  IInv'
<1> USE DEF IInv, Exit
<1>1. /\ child' \in [Runs -> [Attempts -> {"none", "alive", "dead"}]]
      /\ \A s \in Runs, b \in Attempts : child[s][b] = "dead" => child'[s][b] = "dead"
  BY TableTypes, EntryReplaced
<1>2. TypeOK'
  BY <1>1 DEF TypeOK
<1>3. RunningHasRow' /\ OneInvocation' /\ WaitingAtZero' /\ OpenOutcome' /\ AbortHeard' /\ AbortSticks'
  BY DEF RunningHasRow, OneInvocation, WaitingAtZero, OpenOutcome, AbortHeard, AbortSticks
<1>4. RetriesJustified'
  BY <1>1 DEF RetriesJustified
<1> QED BY <1>2, <1>3, <1>4

\* The close of an attempt that is not the last.
LEMMA CloseRetriesIInv ==
  ASSUME IInv, NEW r \in Runs, CloseRetries(r)
  PROVE  IInv'
<1> USE DEF IInv
<1> DEFINE a == attempt[r]
<1>1. /\ phase[r] = "running" /\ child[r][a] = "dead" /\ up
      /\ UNCHANGED <<up, phase, outcome, aborted, erased>>
      /\ attempt' = [attempt EXCEPT ![r] = a + 1]
      /\ reported' = [reported EXCEPT ![r] = "none"]
      /\ timedOut' = [timedOut EXCEPT ![r] = FALSE]
      /\ cancelled' = [cancelled EXCEPT ![r] = FALSE]
  BY DEF CloseRetries, Closing, Spawn
<1>2. /\ r \notin erased
      /\ a \in Attempts /\ a + 1 \in Attempts /\ a # a + 1
      /\ Verdict(r) \in {"failed", "timeout"}
      /\ ~aborted[r]
  BY <1>1, MemberAssumption, VerdictType
     DEF CloseRetries, Retries, RunningHasRow, TypeOK, Attempts, AbortHeard, HasRow
<1>3. /\ child' \in [Runs -> [Attempts -> {"none", "alive", "dead"}]]
      /\ \A s \in Runs, b \in Attempts : s # r \/ b # a + 1 => child'[s][b] = child[s][b]
  BY <1>2, TableTypes, EntryReplaced DEF CloseRetries, Spawn
<1>4. /\ row' \in [Runs -> [Attempts -> Statuses]]
      /\ row'[r][a] = Verdict(r) /\ row'[r][a + 1] = "running"
      /\ \A s \in Runs, b \in Attempts : s # r \/ b \notin {a, a + 1} => row'[s][b] = row[s][b]
  <2> DEFINE f == [row EXCEPT ![r][a] = Verdict(r)]
  <2>1. row' = [f EXCEPT ![r][a + 1] = "running"]
    BY DEF CloseRetries
  <2>2. Verdict(r) \in Statuses /\ "running" \in Statuses
    BY <1>2, TableTypes DEF Statuses, Verdicts
  <2>3. /\ f \in [Runs -> [Attempts -> Statuses]] /\ f[r][a] = Verdict(r)
        /\ \A s \in Runs, b \in Attempts : s # r \/ b # a => f[s][b] = row[s][b]
    BY <1>2, <2>2, TableTypes, EntryReplaced
  <2> HIDE DEF f
  <2> QED BY <1>2, <2>1, <2>2, <2>3, EntryReplaced
<1> HIDE DEF a
<1>5. TypeOK'
  BY <1>1, <1>2, <1>3, <1>4, TableTypes DEF TypeOK
<1>6. RunningHasRow'
  BY <1>1, <1>2, <1>4 DEF RunningHasRow, TypeOK
<1>7. WaitingAtZero' /\ OpenOutcome' /\ AbortHeard' /\ AbortSticks' /\ OneInvocation'
  BY <1>1, <1>2, <1>4 DEF WaitingAtZero, OpenOutcome, AbortHeard, AbortSticks, OneInvocation, TypeOK
<1>8. RetriesJustified'
  <2> SUFFICES ASSUME NEW s \in Runs, NEW b \in Attempts, b < attempt'[s]
               PROVE  /\ \/ row'[s][b] \in {"failed", "timeout"}
                         \/ row'[s][b] = "none" /\ s \in erased'
                      /\ child'[s][b] = "dead"
    BY DEF RetriesJustified
  <2>1. CASE s # r
    BY <1>1, <1>3, <1>4, <2>1 DEF RetriesJustified, TypeOK
  <2>2. CASE s = r /\ b = a
    BY <1>1, <1>2, <1>3, <1>4, <2>2
  <2>3. CASE s = r /\ b # a
    <3>1. b < attempt[s] /\ b # a + 1
      BY <1>1, <1>2, <2>3 DEF TypeOK, Attempts, a
    <3>2. row'[s][b] = row[s][b] /\ child'[s][b] = child[s][b]
      BY <1>3, <1>4, <2>3, <3>1
    <3> QED BY <1>1, <3>1, <3>2 DEF RetriesJustified
  <2> QED BY <2>1, <2>2, <2>3
<1> QED BY <1>5, <1>6, <1>7, <1>8

\* The end of an invocation, in order or by a write that throws.
LEMMA CloseEndsIInv ==
  ASSUME IInv, NEW r \in Runs, CloseEnds(r) \/ FinishThrows(r) \/ RetryThrows(r)
  PROVE  IInv'
<1> USE DEF IInv
<1>1. /\ phase[r] = "running" /\ phase' = [phase EXCEPT ![r] = "settled"]
      /\ UNCHANGED <<up, attempt, child, reported, timedOut, cancelled, aborted, erased>>
      /\ \/ outcome' = [outcome EXCEPT ![r] = "threw"]
         \/ outcome' = [outcome EXCEPT ![r] = Verdict(r)]
  BY DEF CloseEnds, FinishThrows, RetryThrows, Closing, Settle, NoSpawn
<1>2. attempt[r] \in Attempts /\ Verdict(r) \in Verdicts /\ Finish(r) \in Statuses
  BY <1>1, VerdictType, TableTypes DEF RunningHasRow
<1>3. /\ row' \in [Runs -> [Attempts -> Statuses]]
      /\ \A s \in Runs, b \in Attempts : s # r \/ b # attempt[r] => row'[s][b] = row[s][b]
  <2>1. row' = [row EXCEPT ![r][attempt[r]] = Finish(r)] \/ row' = row
    BY DEF CloseEnds, FinishThrows, RetryThrows
  <2> DEFINE f == [row EXCEPT ![r][attempt[r]] = Finish(r)]
  <2>2. /\ f \in [Runs -> [Attempts -> Statuses]]
        /\ \A s \in Runs, b \in Attempts : s # r \/ b # attempt[r] => f[s][b] = row[s][b]
    BY <1>2, TableTypes, EntryReplaced
  <2>3. row \in [Runs -> [Attempts -> Statuses]]
    BY TableTypes
  <2>4. row' = f \/ row' = row
    BY <2>1
  <2> HIDE DEF f
  <2> QED BY <2>2, <2>3, <2>4
<1>4. TypeOK'
  <2>1. outcome' \in [Runs -> Verdicts \cup {"none", "skipped", "threw"}]
    BY <1>1, <1>2 DEF TypeOK
  <2>2. phase' \in [Runs -> {"waiting", "running", "settled", "lost"}]
    BY <1>1 DEF TypeOK
  <2> QED BY <1>1, <1>3, <2>1, <2>2 DEF TypeOK
<1>5. RunningHasRow'
  BY <1>1, <1>3 DEF RunningHasRow, TypeOK
<1>6. WaitingAtZero' /\ OpenOutcome' /\ AbortHeard' /\ OneInvocation'
  BY <1>1, <1>3 DEF WaitingAtZero, OpenOutcome, AbortHeard, OneInvocation, TypeOK
<1>7. AbortSticks'
  <2>1. aborted[r] => Verdict(r) = "cancelled"
    BY <1>1, VerdictType DEF AbortHeard
  <2> QED BY <1>1, <2>1 DEF AbortSticks, TypeOK
<1>8. RetriesJustified'
  <2> SUFFICES ASSUME NEW s \in Runs, NEW b \in Attempts, b < attempt[s]
               PROVE  /\ \/ row'[s][b] \in {"failed", "timeout"}
                         \/ row'[s][b] = "none" /\ s \in erased'
                      /\ child[s][b] = "dead"
    BY <1>1 DEF RetriesJustified
  <2>1. s # r \/ b # attempt[r]
    BY DEF TypeOK, Attempts
  <2>2. row'[s][b] = row[s][b]
    BY <1>3, <2>1
  <2> QED BY <1>1, <2>2 DEF RetriesJustified
<1> QED BY <1>4, <1>5, <1>6, <1>7, <1>8

LEMMA RestartIInv ==
  ASSUME IInv, Restart
  PROVE  IInv'
<1> USE DEF IInv, Restart
<1>1. /\ row' \in [Runs -> [Attempts -> Statuses]]
      /\ \A s \in Runs, b \in Attempts : row[s][b] # "running" => row'[s][b] = row[s][b]
  BY TableTypes DEF Statuses, Verdicts
<1>2. TypeOK'
  BY <1>1 DEF TypeOK
<1>3. RunningHasRow' /\ OneInvocation' /\ WaitingAtZero' /\ OpenOutcome' /\ AbortHeard' /\ AbortSticks'
  BY <1>1 DEF RunningHasRow, OneInvocation, WaitingAtZero, OpenOutcome, AbortHeard, AbortSticks
<1>4. RetriesJustified'
  BY <1>1 DEF RetriesJustified
<1> QED BY <1>2, <1>3, <1>4

LEMMA NextIInv == IInv /\ [Next]_vars => IInv'
<1> SUFFICES ASSUME IInv, [Next]_vars PROVE IInv'
  OBVIOUS
<1>1. CASE UNCHANGED vars
  BY <1>1 DEF vars, IInv, TypeOK, RunningHasRow, WaitingAtZero, OpenOutcome, AbortHeard,
     OneInvocation,     RetriesJustified, AbortSticks
<1>2. ASSUME NEW r \in Runs, StepOf(r)
      PROVE  IInv'
  BY <1>2, BeginIInv, BeginEndsIInv, FlightIInv, ExitIInv, CloseRetriesIInv, CloseEndsIInv
     DEF StepOf
<1>3. CASE Crash
  BY <1>3, DiesIInv DEF Crash, IInv, TypeOK
<1> QED BY <1>1, <1>2, <1>3, NextIsSteps, ResetIInv, RestartIInv

LEMMA Inductive == Spec => []IInv
BY InitIInv, NextIInv, PTL DEF Spec

-----------------------------------------------------------------------------
\* Shape of the state.
THEOREM TypeCorrect == Spec => []TypeOK
BY Inductive, PTL DEF IInv

\* Of two attempts of the job under way one has lost its row to a reset, whatever throws
\* and whenever the daemon restarts: runJobForWorkflow's guard and the row together.
THEOREM NoOverlap == Spec => []OneInvocation
BY Inductive, PTL DEF IInv

\* A repeated attempt had failed or timed out, and its process was gone.
THEOREM OnlyFailuresRepeated == Spec => []RetriesJustified
BY Inductive, PTL DEF IInv

\* A cancel outlasts whatever the child reports on its way down.
THEOREM CancelWins == Spec => []AbortSticks
BY Inductive, PTL DEF IInv

\* After the abort signal no process is spawned.
THEOREM NoSpawn_AfterAbort == Spec => NoSpawnAfterAbort
<1> DEFINE Quiet == \A r \in Runs : aborted[r] => attempt'[r] = attempt[r]
<1>1. IInv /\ [Next]_vars => [Quiet]_vars
  <2> SUFFICES ASSUME IInv, [Next]_vars, NEW s \in Runs, aborted[s]
               PROVE  attempt'[s] = attempt[s]
    OBVIOUS
  <2> USE DEF IInv, TypeOK
  <2>1. ASSUME NEW r \in Runs, Begin(r)
        PROVE  attempt'[s] = attempt[s]
    BY <2>1 DEF Begin, Spawn
  <2>2. ASSUME NEW r \in Runs, CloseRetries(r)
        PROVE  attempt'[s] = attempt[s]
    <3>1. ~aborted[r]
      BY <2>2, VerdictType DEF CloseRetries, Closing, AbortHeard
    <3> QED BY <2>2, <3>1 DEF CloseRetries, Spawn
  <2>3. ASSUME NEW r \in Runs, StepOf(r), ~Begin(r), ~CloseRetries(r)
        PROVE  attempt' = attempt
    BY <2>3 DEF StepOf, BeginSkipped, BeginCancelled, BeginThrows, NoSpawn, Report, Exit, Timeout,
       AbortWaiting, Abort, CloseEnds, FinishThrows, RetryThrows
  <2> QED BY <2>1, <2>2, <2>3, NextIsSteps DEF Reset, Crash, Restart, vars
<1> QED BY <1>1, Inductive, PTL DEF Spec, NoSpawnAfterAbort

\* The rows tell which attempt is under way, up to resets and to invocations that ended in
\* a throw.
THEOREM RowsTell == Spec => []RowsExact
<1>1. Init => RowsExact
  BY DEF Init, RowsExact
<1>2. IInv /\ RowsExact /\ [Next]_vars => RowsExact'
  <2> SUFFICES ASSUME IInv, RowsExact, [Next]_vars PROVE RowsExact'
    OBVIOUS
  <2> USE DEF IInv, TypeOK, RowsExact
  <2>1. ASSUME NEW r \in Runs, Begin(r)
        PROVE  RowsExact'
    <3>1. /\ phase' = [phase EXCEPT ![r] = "running"] /\ attempt' = [attempt EXCEPT ![r] = 1]
          /\ up' /\ up /\ phase[r] = "waiting" /\ outcome' = outcome
          /\ r \notin erased /\ erased' = erased
      BY <2>1 DEF Begin, Spawn, WaitingAtZero
    <3>2. /\ row'[r][1] = "running"
          /\ \A s \in Runs, b \in Attempts : s # r \/ b # 1 => row'[s][b] = row[s][b]
      BY <2>1, TableTypes, EntryReplaced DEF Begin
    <3> QED BY <3>1, <3>2
  <2>2. ASSUME NEW r \in Runs, BeginSkipped(r) \/ BeginCancelled(r) \/ BeginThrows(r)
        PROVE  RowsExact'
    <3>1. /\ phase' = [phase EXCEPT ![r] = "settled"] /\ UNCHANGED <<up, attempt, erased>>
          /\ up /\ phase[r] = "waiting"
          /\ \A s \in Runs : s # r => outcome'[s] = outcome[s]
      BY <2>2 DEF BeginSkipped, BeginCancelled, BeginThrows, Settle, NoSpawn
    <3>2. \A s \in Runs, b \in Attempts :
            row'[s][b] = row[s][b] \/ (s = r /\ b = 1 /\ row'[s][b] = "skipped")
      BY <2>2, TableTypes, EntryReplaced DEF BeginSkipped, BeginCancelled, BeginThrows
    <3>3. \A b \in Attempts : row'[r][b] = "running" => outcome'[r] = "threw"
      <4>1. \A b \in Attempts : row[r][b] # "running"
        BY <3>1 DEF OpenOutcome
      <4> QED BY <3>2, <4>1
    <3> QED BY <3>1, <3>2, <3>3
  <2>3. ASSUME NEW r \in Runs, CloseRetries(r) \/ CloseEnds(r) \/ RetryThrows(r) \/ FinishThrows(r)
        PROVE  RowsExact'
    <3> DEFINE a == attempt[r]
    <3>1. /\ up /\ up' /\ phase[r] = "running" /\ a \in Attempts
          /\ Verdict(r) \in Verdicts /\ Verdict(r) \in Statuses /\ Verdict(r) # "running"
          /\ Finish(r) \in Statuses /\ Finish(r) # "running" /\ erased' = erased
      BY <2>3, VerdictType, TableTypes
         DEF CloseRetries, CloseEnds, RetryThrows, FinishThrows, Closing, RunningHasRow, Verdicts
    <3>2. CASE CloseRetries(r)
      <4>1. /\ phase' = phase /\ attempt' = [attempt EXCEPT ![r] = a + 1] /\ outcome' = outcome
            /\ HasRow(r)
            /\ row' = [[row EXCEPT ![r][a] = Verdict(r)] EXCEPT ![r][a + 1] = "running"]
        BY <3>2 DEF CloseRetries, Spawn
      <4>2. a + 1 \in Attempts /\ a # a + 1 /\ r \notin erased
        BY <3>1, <3>2, MemberAssumption DEF CloseRetries, Retries, Attempts, HasRow, RunningHasRow
      <4>3. /\ row'[r][a] = Verdict(r) /\ row'[r][a + 1] = "running"
            /\ \A s \in Runs, b \in Attempts : s # r \/ b \notin {a, a + 1} => row'[s][b] = row[s][b]
        BY <3>1, <4>1, <4>2, TableTypes
      <4> HIDE DEF a
      <4> QED BY <3>1, <4>1, <4>2, <4>3 DEF a
    <3>3. CASE CloseEnds(r) \/ RetryThrows(r)
      <4>1. /\ phase' = [phase EXCEPT ![r] = "settled"] /\ attempt' = attempt
            /\ \A s \in Runs : s # r => outcome'[s] = outcome[s]
        BY <3>3 DEF CloseEnds, RetryThrows, Settle, NoSpawn
      <4>2. /\ row'[r][a] = Finish(r)
            /\ \A s \in Runs, b \in Attempts : s # r \/ b # a => row'[s][b] = row[s][b]
        BY <3>1, <3>3, TableTypes, EntryReplaced DEF CloseEnds, RetryThrows
      <4>3. \A b \in Attempts : row'[r][b] # "running"
        <5> SUFFICES ASSUME NEW b \in Attempts, b # a
                     PROVE  row[r][b] # "running"
          BY <3>1, <4>2
        <5> QED BY <3>1 DEF OpenOutcome
      <4> QED BY <3>1, <4>1, <4>2, <4>3
    <3>4. CASE FinishThrows(r)
      <4>1. /\ phase' = [phase EXCEPT ![r] = "settled"] /\ UNCHANGED <<attempt, row>>
            /\ outcome' = [outcome EXCEPT ![r] = "threw"]
        BY <3>4 DEF FinishThrows, Settle, NoSpawn
      <4> QED BY <3>1, <4>1
    <3> QED BY <2>3, <3>2, <3>3, <3>4
  <2>4. ASSUME UNCHANGED <<up, phase, outcome, attempt, row, erased>>
        PROVE  RowsExact'
    BY <2>4
  <2>5. ASSUME Dies
        PROVE  RowsExact'
    BY <2>5 DEF Dies
  <2>7. ASSUME Restart
        PROVE  RowsExact'
    BY <2>7 DEF Restart, RunningHasRow
  <2>8. ASSUME Reset
        PROVE  RowsExact'
    BY <2>8 DEF Reset
  <2>6. ASSUME NEW r \in Runs, StepOf(r)
        PROVE  RowsExact'
    BY <2>1, <2>2, <2>3, <2>4, <2>5, <2>6
       DEF StepOf, Report, Exit, Timeout, AbortWaiting, Abort, LogKill
  <2> QED BY <2>4, <2>5, <2>6, <2>7, <2>8, NextIsSteps DEF vars, Crash
<1> QED BY <1>1, <1>2, Inductive, PTL DEF Spec

\* A live process is that of the attempt under way, or an orphan.
Accounted ==
  \A r \in Runs, a \in Attempts :
    child[r][a] = "alive" => phase[r] = "lost" \/ (phase[r] = "running" /\ attempt[r] = a)

LEMMA AccountedStep == IInv /\ Accounted /\ [Next]_vars => Accounted'
<1> SUFFICES ASSUME IInv, Accounted, [Next]_vars PROVE Accounted'
  OBVIOUS
<1> USE DEF IInv, TypeOK, Accounted
<1>1. ASSUME NEW r \in Runs, Begin(r)
      PROVE  Accounted'
  <2>1. /\ phase' = [phase EXCEPT ![r] = "running"] /\ attempt' = [attempt EXCEPT ![r] = 1]
        /\ phase[r] = "waiting"
        /\ \A s \in Runs, b \in Attempts : s # r \/ b # 1 => child'[s][b] = child[s][b]
    BY <1>1, TableTypes, EntryReplaced DEF Begin, Spawn
  <2> QED BY <2>1
<1>2. ASSUME NEW r \in Runs, CloseRetries(r)
      PROVE  Accounted'
  <2> DEFINE a == attempt[r]
  <2>1. /\ phase' = phase /\ attempt' = [attempt EXCEPT ![r] = a + 1]
        /\ phase[r] = "running" /\ child[r][a] = "dead"
        /\ child' = [child EXCEPT ![r][a + 1] = "alive"]
    BY <1>2 DEF CloseRetries, Closing, Spawn
  <2>2. \A s \in Runs, b \in Attempts : s # r \/ b # a + 1 => child'[s][b] = child[s][b]
    BY <2>1, TableTypes, EntryReplaced
  <2> HIDE DEF a
  <2> QED BY <2>1, <2>2 DEF a
<1>3. ASSUME NEW r \in Runs, CloseEnds(r) \/ FinishThrows(r) \/ RetryThrows(r)
      PROVE  Accounted'
  BY <1>3 DEF CloseEnds, FinishThrows, RetryThrows, Closing, Settle, NoSpawn
<1>4. ASSUME NEW r \in Runs, BeginSkipped(r) \/ BeginCancelled(r) \/ BeginThrows(r)
      PROVE  Accounted'
  BY <1>4 DEF BeginSkipped, BeginCancelled, BeginThrows, Settle, NoSpawn
<1>5. ASSUME NEW r \in Runs, NEW a \in Attempts, Exit(r, a)
      PROVE  Accounted'
  <2>1. \A s \in Runs, b \in Attempts : child'[s][b] = "alive" => child[s][b] = "alive"
    BY <1>5, TableTypes, EntryReplaced DEF Exit
  <2> QED BY <1>5, <2>1 DEF Exit
<1>6. ASSUME UNCHANGED <<phase, attempt, child>>
      PROVE  Accounted'
  BY <1>6
<1>7. ASSUME Dies, UNCHANGED <<attempt, child>>
      PROVE  Accounted'
  BY <1>7 DEF Dies
<1>8. ASSUME NEW r \in Runs, StepOf(r)
      PROVE  Accounted'
  BY <1>1, <1>2, <1>3, <1>4, <1>5, <1>6, <1>7, <1>8
     DEF StepOf, Report, Timeout, AbortWaiting, Abort, LogKill
<1> QED BY <1>6, <1>7, <1>8, NextIsSteps DEF vars, Reset, Crash, Restart

\* Of two live processes of the job one is an orphan of a daemon that died, or one has
\* lost its row to a reset.
THEOREM OnlyOrphansOverlap == Spec => []OneProcess
<1>1. Init => Accounted
  BY DEF Init, Accounted
<1>2. IInv /\ Accounted => OneProcess
  <2> SUFFICES ASSUME IInv, Accounted, NEW r \in Runs, NEW s \in Runs, NEW a \in Attempts,
                      NEW b \in Attempts, child[r][a] = "alive", child[s][b] = "alive",
                      <<r, a>> # <<s, b>>, phase[r] # "lost", phase[s] # "lost"
               PROVE  {r, s} \cap erased # {}
    BY DEF OneProcess
  <2>1. phase[r] = "running" /\ attempt[r] = a /\ phase[s] = "running" /\ attempt[s] = b
    BY DEF Accounted
  <2> QED BY <2>1 DEF IInv, OneInvocation
<1> QED BY <1>1, <1>2, AccountedStep, Inductive, PTL DEF Spec

-----------------------------------------------------------------------------
(* The meter. *)

Cleared == {c \in Callers : pc[c] = "cleared"}

PastMonth == {c \in Callers : pc[c] \in {"monthOk", "cleared"}}

\* The rows are finitely many, of the past.
RowsPast == IsFiniteSet(usage) /\ \A u \in usage : u.at <= now

\* A process that passed a quota check is worth a call already: together with the
\* calls made they exceed the cap by less than the number of processes.
QuotaAccounted ==
  /\ CallsToday + Cardinality(Cleared) <= DailyCap + Cardinality(Callers) - 1
  /\ CallsThisMonth + Cardinality(PastMonth) <= MonthlyCap + Cardinality(Callers) - 1

\* The bound on calls: a process past the checks has one left.
CallsLeft == \A c \in PastMonth : calls[c] < MaxCalls

MeterIInv == MeterTypeOK /\ RowsPast /\ CallsLeft /\ QuotaAccounted

-----------------------------------------------------------------------------
\* Arithmetic of seconds and windows.

LEMMA DivBounds ==
  ASSUME NEW t \in Nat, NEW k \in Nat \ {0}
  PROVE  t \div k \in Nat /\ (t \div k) * k <= t /\ t < (t \div k) * k + k
OBVIOUS

LEMMA DivMonotone ==
  ASSUME NEW t \in Nat, NEW u \in Nat, t <= u, NEW k \in Nat \ {0}
  PROVE  t \div k \in Nat /\ u \div k \in Nat /\ t \div k <= u \div k
OBVIOUS

LEMMA TimesMonotone ==
  ASSUME NEW a \in Nat, NEW b \in Nat, a <= b, NEW k \in Nat
  PROVE  a * k <= b * k /\ a * k \in Nat /\ b * k \in Nat
BY SMT

LEMMA SecondBounds ==
  ASSUME NEW t \in Nat
  PROVE  /\ Stored(t) \in Nat /\ Stored(t) * Second \in Nat
         /\ Stored(t) * Second <= t /\ t < Stored(t) * Second + Second
<1>1. Second \in Nat \ {0}
  BY MeterAssumption
<1>2. /\ t \div Second \in Nat
      /\ (t \div Second) * Second <= t
      /\ t < (t \div Second) * Second + Second
  BY <1>1, DivBounds
<1>3. (t \div Second) * Second \in Nat
  BY <1>1, <1>2, TimesMonotone
<1> QED BY <1>2, <1>3 DEF Stored

\* The start of the day or month never moves back.
LEMMA StartMonotone ==
  ASSUME NEW t \in Nat, NEW k \in Nat \ {0}
  PROVE  /\ (Stored(t) \div k) * k \in Nat
         /\ (Stored(t + 1) \div k) * k \in Nat
         /\ (Stored(t) \div k) * k <= (Stored(t + 1) \div k) * k
<1>1. Stored(t) \in Nat /\ Stored(t + 1) \in Nat /\ Stored(t) <= Stored(t + 1)
  BY DivMonotone, MeterAssumption DEF Stored
<1>2. /\ Stored(t) \div k \in Nat
      /\ Stored(t + 1) \div k \in Nat
      /\ Stored(t) \div k <= Stored(t + 1) \div k
  BY <1>1, DivMonotone
<1> QED BY <1>2, TimesMonotone

LEMMA CallersFinite ==
  ASSUME NEW S \in SUBSET Callers
  PROVE  /\ IsFiniteSet(S) /\ Cardinality(S) \in Nat
         /\ Cardinality(Callers) \in Nat
         /\ Cardinality(S) <= Cardinality(Callers)
BY MeterAssumption, FS_Subset, FS_CardinalityType

LEMMA UsageFinite ==
  ASSUME IsFiniteSet(usage), NEW S \in SUBSET usage
  PROVE  IsFiniteSet(S) /\ Cardinality(S) \in Nat
BY FS_Subset, FS_CardinalityType

\* A set grows by at most one element at a time.
LEMMA AddOne ==
  ASSUME NEW S, IsFiniteSet(S), NEW x
  PROVE  /\ IsFiniteSet(S \cup {x})
         /\ Cardinality(S) \in Nat /\ Cardinality(S \cup {x}) \in Nat
         /\ Cardinality(S \cup {x}) <= Cardinality(S) + 1
<1>1. IsFiniteSet(S \cup {x}) /\ Cardinality(S) \in Nat /\ Cardinality(S \cup {x}) \in Nat
  BY FS_AddElement, FS_CardinalityType
<1>2. Cardinality(S \cup {x}) \in {Cardinality(S), Cardinality(S) + 1}
  BY FS_AddElement
<1> QED BY <1>1, <1>2

-----------------------------------------------------------------------------
LEMMA InitMeter == MeterInit => MeterIInv
<1> SUFFICES ASSUME MeterInit PROVE MeterIInv
  OBVIOUS
<1> USE MeterAssumption DEF MeterInit
<1>1. MeterTypeOK /\ RowsPast /\ CallsLeft
  BY FS_EmptySet DEF MeterTypeOK, RowsPast, CallsLeft, PastMonth
<1>2. Cleared = {} /\ PastMonth = {} /\ \A sec : CountFrom(sec) = 0
  <2>1. Cleared = {} /\ PastMonth = {}
    BY DEF Cleared, PastMonth
  <2>2. \A sec : {u \in usage : Stored(u.at) >= sec} = {}
    OBVIOUS
  <2> QED BY <2>1, <2>2, FS_EmptySet DEF CountFrom
<1>3. Cardinality(Callers) \in Nat \ {0}
  BY FS_EmptySet, FS_CardinalityType
<1> QED
  BY <1>1, <1>2, <1>3, FS_EmptySet DEF MeterIInv, QuotaAccounted, CallsToday, CallsThisMonth

\* The counts are numbers, and the empty quota is not one of them.
LEMMA CountsType ==
  ASSUME MeterIInv
  PROVE  /\ CallsToday \in Nat /\ CallsThisMonth \in Nat
         /\ Cardinality(Cleared) \in Nat /\ Cardinality(PastMonth) \in Nat
         /\ Cardinality(Callers) \in Nat
         /\ IsFiniteSet(Cleared) /\ IsFiniteSet(PastMonth)
BY UsageFinite, CallersFinite
   DEF MeterIInv, RowsPast, CallsToday, CallsThisMonth, CountFrom, Cleared, PastMonth

\* A step that leaves the rows and the clock alone and moves one process.
LEMMA MoveMeter ==
  ASSUME MeterIInv, NEW c \in Callers, CheckMonth(c) \/ CheckDay(c) \/ GiveUp(c) \/ KillCaller(c)
  PROVE  MeterIInv'
<1> USE MeterAssumption
<1>1. UNCHANGED <<now, usage, mode, calls>>
  BY DEF CheckMonth, CheckDay, GiveUp, KillCaller
<1>2. MeterTypeOK' /\ RowsPast'
  BY <1>1 DEF CheckMonth, CheckDay, GiveUp, KillCaller, MeterIInv, MeterTypeOK, RowsPast
<1>3. CallsToday' = CallsToday /\ CallsThisMonth' = CallsThisMonth
  BY <1>1 DEF CallsToday, CallsThisMonth, CountFrom
<1>4. CallsLeft'
  BY <1>1 DEF CheckMonth, CheckDay, GiveUp, KillCaller, MeterIInv, MeterTypeOK, CallsLeft, PastMonth
<1>5. /\ Cardinality(Cleared') \in Nat /\ Cardinality(Cleared') <= Cardinality(Callers)
      /\ Cardinality(PastMonth') \in Nat /\ Cardinality(PastMonth') <= Cardinality(Callers)
  BY CallersFinite DEF Cleared, PastMonth
<1>6. CallsToday + Cardinality(Cleared') <= DailyCap + Cardinality(Callers) - 1
  <2>1. CASE CallsToday < DailyCap
    BY <1>5, <2>1, CountsType
  <2>2. CASE ~(CallsToday < DailyCap)
    <3>1. Cleared' \subseteq Cleared
      BY <2>2 DEF CheckMonth, CheckDay, GiveUp, KillCaller, Cleared, MeterIInv, MeterTypeOK
    <3>2. Cardinality(Cleared') <= Cardinality(Cleared)
      BY <3>1, CountsType, FS_Subset
    <3> QED BY <1>5, <3>2, CountsType DEF MeterIInv, QuotaAccounted
  <2> QED BY <2>1, <2>2
<1>7. CallsThisMonth + Cardinality(PastMonth') <= MonthlyCap + Cardinality(Callers) - 1
  <2>1. CASE CallsThisMonth < MonthlyCap
    BY <1>5, <2>1, CountsType
  <2>2. CASE ~(CallsThisMonth < MonthlyCap)
    <3>1. PastMonth' \subseteq PastMonth
      BY <2>2 DEF CheckMonth, CheckDay, GiveUp, KillCaller, PastMonth, MeterIInv, MeterTypeOK
    <3>2. Cardinality(PastMonth') <= Cardinality(PastMonth)
      BY <3>1, CountsType, FS_Subset
    <3> QED BY <1>5, <3>2, CountsType DEF MeterIInv, QuotaAccounted
  <2> QED BY <2>1, <2>2
<1> QED BY <1>2, <1>3, <1>4, <1>6, <1>7 DEF MeterIInv, QuotaAccounted

\* One more row adds at most one to a count.
LEMMA OneMore ==
  ASSUME IsFiniteSet(usage), NEW u, usage' = usage \cup {u}, NEW sec
  PROVE  CountFrom(sec)' <= CountFrom(sec) + 1
<1> DEFINE S == {v \in usage : Stored(v.at) >= sec}
           T == {v \in usage' : Stored(v.at) >= sec}
<1>1. IsFiniteSet(S) /\ Cardinality(S) \in Nat
  BY UsageFinite
<1>2. IsFiniteSet(S \cup {u}) /\ Cardinality(S \cup {u}) \in Nat
      /\ Cardinality(S \cup {u}) <= Cardinality(S) + 1
  BY <1>1, AddOne
<1>3. T \subseteq S \cup {u}
  OBVIOUS
<1>4. Cardinality(T) \in Nat /\ Cardinality(T) <= Cardinality(S \cup {u})
  BY <1>2, <1>3, FS_Subset, FS_CardinalityType
<1>5. CountFrom(sec) = Cardinality(S) /\ CountFrom(sec)' = Cardinality(T)
  BY DEF CountFrom
<1> QED BY <1>1, <1>2, <1>4, <1>5

LEMMA ReserveMeter ==
  ASSUME MeterIInv, NEW c \in Callers, Reserve(c)
  PROVE  MeterIInv'
<1> USE MeterAssumption DEF Reserve
<1> DEFINE u == [by |-> c, no |-> calls[c], at |-> now]
<1>1. usage' = usage \cup {u} /\ now' = now
  OBVIOUS
<1>2. calls[c] \in 0 .. MaxCalls /\ calls[c] < MaxCalls /\ now \in 0 .. MaxTime
  BY DEF MeterIInv, MeterTypeOK, CallsLeft, PastMonth
<1>3. MeterTypeOK'
  <2>1. u \in UsageRow
    BY <1>2 DEF UsageRow
  <2>2. calls' \in [Callers -> 0 .. MaxCalls]
    BY <1>2 DEF MeterIInv, MeterTypeOK
  <2> QED BY <1>1, <2>1, <2>2 DEF MeterIInv, MeterTypeOK
<1>4. RowsPast'
  <2> HIDE DEF u, Reserve
  <2>1. IsFiniteSet(usage')
    <3>1. IsFiniteSet(usage)
      BY DEF MeterIInv, RowsPast
    <3>2. IsFiniteSet(usage \cup {u})
      BY <3>1, AddOne
    <3> QED BY <1>1, <3>2
  <2>2. \A v \in usage' : v.at <= now'
    BY <1>1, <1>2 DEF MeterIInv, RowsPast, u
  <2> QED BY <2>1, <2>2 DEF RowsPast
<1>5. /\ CallsToday' <= CallsToday + 1 /\ CallsToday' \in Nat
      /\ CallsThisMonth' <= CallsThisMonth + 1 /\ CallsThisMonth' \in Nat
  <2>1. CallsToday' <= CallsToday + 1 /\ CallsThisMonth' <= CallsThisMonth + 1
    BY <1>1, OneMore DEF CallsToday, CallsThisMonth, MeterIInv, RowsPast
  <2>2. CallsToday' \in Nat /\ CallsThisMonth' \in Nat
    <3>1. \A S \in SUBSET usage' : Cardinality(S) \in Nat
      BY <1>4, FS_Subset, FS_CardinalityType DEF RowsPast
    <3> QED BY <3>1 DEF CallsToday, CallsThisMonth, CountFrom
  <2> QED BY <2>1, <2>2
<1>6. c \in Cleared /\ c \in PastMonth
  BY DEF Cleared, PastMonth
<1>7. Cleared' = Cleared \ {c} /\ PastMonth' = PastMonth \ {c}
  BY DEF Cleared, PastMonth, MeterIInv, MeterTypeOK
<1>8. /\ Cardinality(Cleared') = Cardinality(Cleared) - 1
      /\ Cardinality(PastMonth') = Cardinality(PastMonth) - 1
  BY <1>6, <1>7, CountsType, FS_RemoveElement
<1>9. QuotaAccounted'
  BY <1>5, <1>8, CountsType DEF MeterIInv, QuotaAccounted
<1>10. CallsLeft'
  BY <1>7 DEF MeterIInv, MeterTypeOK, CallsLeft, PastMonth
<1> QED BY <1>3, <1>4, <1>9, <1>10 DEF MeterIInv

\* Time only makes the windows lose rows.
LEMMA TickMeter == MeterIInv /\ Tick => MeterIInv'
<1> SUFFICES ASSUME MeterIInv, Tick PROVE MeterIInv'
  OBVIOUS
<1> USE MeterAssumption DEF Tick
<1>1. now \in Nat /\ now' = now + 1 /\ usage' = usage
  BY DEF MeterIInv, MeterTypeOK
<1>2. MeterTypeOK' /\ RowsPast'
  BY <1>1 DEF MeterIInv, MeterTypeOK, RowsPast, UsageRow
<1>3. ASSUME NEW a \in Nat, NEW b \in Nat, a <= b
      PROVE  CountFrom(b) <= CountFrom(a) /\ CountFrom(b) \in Nat
  <2>1. \A v \in usage : Stored(v.at) \in Nat
    BY DivBounds DEF MeterIInv, MeterTypeOK, UsageRow, Stored
  <2>2. {v \in usage : Stored(v.at) >= b} \subseteq {v \in usage : Stored(v.at) >= a}
    BY <1>3, <2>1
  <2> QED BY <2>2, UsageFinite, FS_Subset DEF CountFrom, MeterIInv, RowsPast
<1>4. CallsToday' <= CallsToday /\ CallsToday' \in Nat
  <2>1. CallsToday' = CountFrom((Stored(now + 1) \div Day) * Day)
    BY <1>1 DEF CallsToday, CountFrom
  <2> QED BY <1>1, <1>3, <2>1, StartMonotone DEF CallsToday
<1>5. CallsThisMonth' <= CallsThisMonth /\ CallsThisMonth' \in Nat
  <2>1. CallsThisMonth' = CountFrom((Stored(now + 1) \div Month) * Month)
    BY <1>1 DEF CallsThisMonth, CountFrom
  <2> QED BY <1>1, <1>3, <2>1, StartMonotone DEF CallsThisMonth
<1>6. Cleared' = Cleared /\ PastMonth' = PastMonth
  BY DEF Cleared, PastMonth
<1>7. QuotaAccounted'
  BY <1>4, <1>5, <1>6, CountsType DEF MeterIInv, QuotaAccounted
<1> QED BY <1>2, <1>6, <1>7 DEF MeterIInv, CallsLeft

LEMMA NextMeter == MeterIInv /\ [MeterNext]_meterVars => MeterIInv'
<1> SUFFICES ASSUME MeterIInv, [MeterNext]_meterVars PROVE MeterIInv'
  OBVIOUS
<1>1. CASE UNCHANGED meterVars
  BY <1>1 DEF meterVars, MeterIInv, MeterTypeOK, RowsPast, CallsLeft, QuotaAccounted, CallsToday,
     CallsThisMonth, CountFrom, Cleared, PastMonth
<1> QED BY <1>1, MoveMeter, ReserveMeter, TickMeter DEF MeterNext

LEMMA MeterInductive == MeterSpec => []MeterIInv
BY InitMeter, NextMeter, PTL DEF MeterSpec

-----------------------------------------------------------------------------
\* Shape of the state.
THEOREM MeterTypeCorrect == MeterSpec => []MeterTypeOK
BY MeterInductive, PTL DEF MeterIInv

\* The quotas are overshot by at most one call per further process.
THEOREM Overshoot == MeterSpec => []OvershootBounded
<1>1. MeterIInv => OvershootBounded
  <2> SUFFICES ASSUME MeterIInv PROVE OvershootBounded
    OBVIOUS
  <2> QED BY CountsType, MeterAssumption DEF MeterIInv, QuotaAccounted, OvershootBounded
<1> QED BY <1>1, MeterInductive, PTL

\* The spacing between two calls is short by less than a second.
THEOREM Spacing == MeterSpec => []SpacingAlmostHeld
<1>1. MeterInit => SpacingAlmostHeld
  BY DEF MeterInit, SpacingAlmostHeld
<1>2. MeterIInv /\ SpacingAlmostHeld /\ [MeterNext]_meterVars => SpacingAlmostHeld'
  <2> SUFFICES ASSUME MeterIInv, SpacingAlmostHeld, [MeterNext]_meterVars PROVE SpacingAlmostHeld'
    OBVIOUS
  <2> USE DEF SpacingAlmostHeld
  <2>1. ASSUME NEW c \in Callers, Reserve(c), mode = "interval", NEW v \in usage
        PROVE  now - v.at > MinInterval - Second
    <3>1. now - Stored(v.at) * Second >= MinInterval
      BY <2>1 DEF Reserve, SlotFree, IntervalFree
    <3>2. v.at \in Nat /\ now \in Nat
      BY DEF MeterIInv, MeterTypeOK, UsageRow
    <3>3. Stored(v.at) * Second \in Nat /\ v.at < Stored(v.at) * Second + Second
      BY <3>2, SecondBounds
    <3> QED BY <3>1, <3>2, <3>3, MeterAssumption
  <2>2. ASSUME NEW c \in Callers, Reserve(c)
        PROVE  SpacingAlmostHeld'
    <3> DEFINE u == [by |-> c, no |-> calls[c], at |-> now]
    <3>1. usage' = usage \cup {u} /\ mode' = mode /\ u.at = now
      BY <2>2 DEF Reserve
    <3> QED BY <2>1, <2>2, <3>1
  <2>3. ASSUME UNCHANGED <<usage, mode>>
        PROVE  SpacingAlmostHeld'
    BY <2>3
  <2> QED BY <2>2, <2>3 DEF MeterNext, Tick, CheckMonth, CheckDay, GiveUp, KillCaller, meterVars
<1> QED BY <1>1, <1>2, MeterInductive, PTL DEF MeterSpec

\* The rows of a window that has not ended lie in the window the reservation
\* counts, although that one is made of whole seconds.
LEMMA WindowCounted ==
  ASSUME MeterIInv, NEW t \in Nat, now <= t, NEW v \in usage, t - Window * Second <= v.at
  PROVE  Stored(v.at) >= Stored(now) - Window
<1> USE MeterAssumption
<1>1. v.at \in Nat /\ now \in Nat
  BY DEF MeterIInv, MeterTypeOK, UsageRow
<1> DEFINE a == Stored(v.at)
           b == Stored(now)
<1>2. /\ a \in Nat /\ b \in Nat
      /\ v.at < a * Second + Second
      /\ b * Second <= now
  BY <1>1, DivBounds DEF Stored
<1>3. b * Second - Window * Second < a * Second + Second
  BY <1>1, <1>2
<1> HIDE DEF a, b
<1>4. (b - Window - a - 1) * Second < 0
  BY <1>2, <1>3
<1>5. b - Window - a - 1 < 0
  BY <1>2, <1>4
<1> QED BY <1>2, <1>5 DEF a, b

\* The rate holds over every stretch of the window's length.
THEOREM Rate == MeterSpec => []RateHeld
<1>1. MeterInit => RateHeld
  <2> SUFFICES ASSUME MeterInit, NEW t \in 0 .. MaxTime
               PROVE  Cardinality({u \in usage : t - Window * Second <= u.at /\ u.at <= t})
                        <= RatePerWindow
    BY DEF RateHeld
  <2>1. {u \in usage : t - Window * Second <= u.at /\ u.at <= t} = {}
    BY DEF MeterInit
  <2>2. Cardinality({}) = 0 /\ RatePerWindow \in Nat
    BY FS_EmptySet, MeterAssumption
  <2>3. 0 <= RatePerWindow
    BY <2>2
  <2> QED BY <2>1, <2>2, <2>3
<1>2. MeterIInv /\ RateHeld /\ [MeterNext]_meterVars => RateHeld'
  <2> SUFFICES ASSUME MeterIInv, RateHeld, [MeterNext]_meterVars PROVE RateHeld'
    OBVIOUS
  <2>1. ASSUME NEW c \in Callers, Reserve(c), mode = "rate", NEW t \in 0 .. MaxTime
        PROVE  Cardinality({u \in usage' : t - Window * Second <= u.at /\ u.at <= t}) <= RatePerWindow
    <3> DEFINE mine == [by |-> c, no |-> calls[c], at |-> now]
               W(S) == {u \in S : t - Window * Second <= u.at /\ u.at <= t}
    <3>1. usage' = usage \cup {mine} /\ mine.at = now /\ t \in Nat /\ now \in Nat
      BY <2>1, MeterAssumption DEF Reserve, MeterIInv, MeterTypeOK
    <3>2. CASE t < now
      <4>1. W(usage') = W(usage)
        BY <3>1, <3>2
      <4> QED BY <2>1, <4>1 DEF RateHeld
    <3>3. CASE now <= t
      <4> DEFINE S == {u \in usage : Stored(u.at) >= Stored(now) - Window}
      <4>1. Cardinality(S) < RatePerWindow
        BY <2>1 DEF Reserve, SlotFree, RateFree, CountFrom
      <4>2. IsFiniteSet(S) /\ Cardinality(S) \in Nat
        BY UsageFinite DEF MeterIInv, RowsPast
      <4>3. W(usage') \subseteq S \cup {mine}
        BY <3>1, <3>3, WindowCounted
      <4>4. /\ IsFiniteSet(S \cup {mine})
            /\ Cardinality(S \cup {mine}) \in Nat
            /\ Cardinality(S \cup {mine}) <= Cardinality(S) + 1
        BY <4>2, AddOne
      <4>5. Cardinality(W(usage')) \in Nat /\ Cardinality(W(usage')) <= Cardinality(S \cup {mine})
        BY <4>3, <4>4, FS_Subset, FS_CardinalityType
      <4> QED BY <4>1, <4>2, <4>4, <4>5, MeterAssumption
    <3> QED BY <3>1, <3>2, <3>3
  <2>2. ASSUME NEW c \in Callers, Reserve(c)
        PROVE  RateHeld'
    BY <2>1, <2>2 DEF RateHeld, Reserve
  <2>3. ASSUME UNCHANGED <<usage, mode>>
        PROVE  RateHeld'
    BY <2>3 DEF RateHeld
  <2> QED BY <2>2, <2>3 DEF MeterNext, Tick, CheckMonth, CheckDay, GiveUp, KillCaller, meterVars
<1> QED BY <1>1, <1>2, MeterInductive, PTL DEF MeterSpec

-----------------------------------------------------------------------------
(* The sync: types. *)

Counts == [Workouts -> Nat]

Replies == [page : Nat, workouts : SUBSET Workouts, count : Nat]

Processes ==
  [phase : {"none", "page", "call", "plan", "mark", "write", "writing"}, orphan : BOOLEAN,
   page : Nat \ {0}, found : Counts, todo : Counts, existing : Counts, fresh : Counts,
   failed : BOOLEAN]

\* The account has a workout once.
Distinct == \A i, j \in DOMAIN account : account[i] = account[j] => i = j

\* The cache has a page once.
OnePage == \A m, n \in DOMAIN cache : cache[m].page = cache[n].page => m = n

RestTyped ==
  /\ faults \subseteq Faults /\ disturbances \in 0 .. MaxDisturbances
  /\ account \in Seq(Workouts) /\ deleted \subseteq Workouts
  /\ cache \in Seq(Replies) /\ OnePage
  /\ ledger \in LedgerOf({JOB_NAME}, Workouts)
  /\ file \in [copies : Counts, torn : BOOLEAN]
  /\ causes \subseteq {"shift", "overlap", "failed mark", "loss"}

SyncTyped == RestTyped /\ proc \in [Procs -> Processes] /\ Distinct

OnlyProc(p) == \A q \in Procs : q # p => proc'[q] = proc[q]

LEMMA SyncConstants == PageSize \in Nat \ {0} /\ MaxDisturbances \in Nat
BY Zenon, WorkoutsAssumption DEF WorkoutsAssumption

LEMMA WorldTyped ==
  SyncTyped => /\ account \in Seq(Workouts) /\ cache \in Seq(Replies)
               /\ file \in [copies : Counts, torn : BOOLEAN]
BY Zenon DEF SyncTyped, RestTyped

LEMMA CountsTyped ==
  /\ None \in Counts
  /\ \A ws : Once(ws) \in Counts /\ \A w \in Workouts : Once(ws)[w] = IF w \in ws THEN 1 ELSE 0
  /\ \A m, n \in Counts : Plus(m, n) \in Counts /\ \A w \in Workouts : Plus(m, n)[w] = m[w] + n[w]
BY DEF None, Once, Plus, Counts

LEMMA NoProcTyped == NoProc \in Processes
BY CountsTyped DEF NoProc, Processes

LEMMA GoesTyped ==
  ASSUME proc \in [Procs -> Processes], NEW p \in Procs, NEW r \in Processes, Goes(p, r)
  PROVE  proc' \in [Procs -> Processes] /\ proc'[p] = r /\ OnlyProc(p)
BY DEF Goes, OnlyProc

LEMMA EndsProc ==
  ASSUME proc \in [Procs -> Processes], NEW p \in Procs, Ends(p)
  PROVE  proc' \in [Procs -> Processes] /\ proc'[p] = NoProc /\ OnlyProc(p)
BY NoProcTyped, GoesTyped DEF Ends

LEMMA StartProc ==
  ASSUME proc \in [Procs -> Processes], NEW p \in Procs, Start(p)
  PROVE  /\ proc' \in [Procs -> Processes] /\ OnlyProc(p)
         /\ proc'[p] = [NoProc EXCEPT !.phase = "page"]
<1>1. [NoProc EXCEPT !.phase = "page"] \in Processes
  BY NoProcTyped DEF Processes
<1> QED
  BY <1>1, GoesTyped DEF Start

LEMMA PageTyped ==
  ASSUME SyncTyped, NEW n \in Nat
  PROVE  PageOf(n) \in Replies /\ PageOf(n).page = n
<1>1. Len(account) + PageSize - 1 \in Nat /\ PageSize \in Nat \ {0}
  BY SyncConstants, WorldTyped
<1>2. (Len(account) + PageSize - 1) \div PageSize \in Nat
  BY <1>1, DivBounds
<1>3. {account[i] : i \in {i \in DOMAIN account : PageNo(i) = n}} \in SUBSET Workouts
  BY WorldTyped
<1> QED
  BY <1>2, <1>3 DEF PageOf, Replies

LEMMA ReceivedProc ==
  ASSUME proc \in [Procs -> Processes], NEW p \in Procs, NEW reply \in Replies,
         Received(p, reply)
  PROVE  /\ proc' \in [Procs -> Processes] /\ OnlyProc(p)
         /\ proc'[p].phase \in {"page", "plan"} /\ proc'[p].page = proc[p].page + 1
         /\ proc'[p].found = Plus(proc[p].found, Once(reply.workouts))
         /\ proc'[p].todo = proc[p].todo /\ proc'[p].existing = proc[p].existing
         /\ proc'[p].fresh = proc[p].fresh
<1> DEFINE found == Plus(proc[p].found, Once(reply.workouts))
           next == IF proc[p].page + 1 <= reply.count THEN "page" ELSE "plan"
           r == [proc[p] EXCEPT !.found = found, !.page = proc[p].page + 1, !.phase = next]
<1>1. proc[p] \in Processes /\ proc[p].page + 1 \in Nat \ {0}
  BY DEF Processes
<1>2. found \in Counts
  BY <1>1, CountsTyped DEF Processes
<1>3. Goes(p, r)
  BY <1>1 DEF Received, Processes
<1>4. next \in {"page", "plan"}
  OBVIOUS
<1> HIDE DEF found, next
<1>5. r \in Processes
  BY <1>1, <1>2, <1>4 DEF Processes
<1>6. proc'[p] = r /\ proc' \in [Procs -> Processes] /\ OnlyProc(p)
  BY <1>3, <1>5, GoesTyped
<1> QED
  BY <1>1, <1>4, <1>6 DEF Processes, found

LEMMA LookUpProc ==
  ASSUME SyncTyped, NEW p \in Procs, LookUp(p)
  PROVE  /\ proc' \in [Procs -> Processes] /\ OnlyProc(p)
         /\ \/ proc'[p] = [proc[p] EXCEPT !.phase = "call"]
            \/ \E i \in DOMAIN cache :
                 cache[i] \in Replies /\ cache[i].page = proc[p].page /\ Received(p, cache[i])
<1>1. CASE Goes(p, [proc[p] EXCEPT !.phase = "call"])
  <2>1. [proc[p] EXCEPT !.phase = "call"] \in Processes
    BY DEF SyncTyped, Processes
  <2> QED
    BY <1>1, <2>1, GoesTyped DEF SyncTyped
<1>2. CASE \E reply \in Cached(proc[p].page) : Received(p, reply)
  <2>1. PICK i \in DOMAIN cache : cache[i].page = proc[p].page /\ Received(p, cache[i])
    BY <1>2 DEF Cached
  <2>2. cache[i] \in Replies
    BY WorldTyped
  <2> QED
    BY <2>1, <2>2, ReceivedProc DEF SyncTyped
<1> QED
  BY <1>1, <1>2 DEF LookUp

LEMMA TodoTyped ==
  ASSUME NEW found \in Counts
  PROVE  /\ Todo(found) \in Counts
         /\ \A w \in Workouts : Todo(found)[w] # 0 => Todo(found)[w] = found[w] /\ ~Success(w)
<1>1. Todo(found) \in Counts
  BY DEF Todo, Counts
<1>2. ASSUME NEW w \in Workouts, Todo(found)[w] # 0
      PROVE  Todo(found)[w] = found[w] /\ ~Success(w)
  <2>1. ~isWorkItemDone(ledger, JOB_NAME, w, MAX_RETRIES)
    BY <1>2 DEF Todo
  <2> QED
    BY <2>1 DEF Todo, Success, isWorkItemDone
<1> QED
  BY <1>1, <1>2

LEMMA PlanProc ==
  ASSUME SyncTyped, NEW p \in Procs, Plan(p)
  PROVE  /\ proc' \in [Procs -> Processes] /\ OnlyProc(p)
         /\ \/ proc'[p] = NoProc
            \/ proc'[p] = [proc[p] EXCEPT !.todo = Todo(proc[p].found), !.existing = file.copies,
                                          !.phase = "mark"]
<1>1. CASE Ends(p)
  BY <1>1, EndsProc DEF SyncTyped
<1>2. CASE Goes(p, [proc[p] EXCEPT !.todo = Todo(proc[p].found), !.existing = file.copies,
                                   !.phase = "mark"])
  <2>1. proc[p] \in Processes /\ Todo(proc[p].found) \in Counts /\ file.copies \in Counts
    BY TodoTyped DEF SyncTyped, RestTyped, Processes
  <2>2. [proc[p] EXCEPT !.todo = Todo(proc[p].found), !.existing = file.copies, !.phase = "mark"]
          \in Processes
    BY <2>1 DEF Processes
  <2> QED
    BY <1>2, <2>2, GoesTyped DEF SyncTyped
<1> QED
  BY <1>1, <1>2 DEF Plan

LEMMA MarkedProc ==
  ASSUME proc \in [Procs -> Processes], NEW p \in Procs, NEW w \in Workouts,
         proc[p].todo[w] > 0, NEW failed \in BOOLEAN, Marked(p, w, failed)
  PROVE  /\ proc' \in [Procs -> Processes] /\ OnlyProc(p)
         /\ proc'[p].phase \in {"mark", "write"}
         /\ proc'[p].existing = proc[p].existing /\ proc'[p].found = proc[p].found
         /\ proc'[p].todo = [proc[p].todo EXCEPT ![w] = @ - 1]
         /\ proc'[p].fresh = [proc[p].fresh EXCEPT ![w] = @ + 1]
<1> DEFINE todo == [proc[p].todo EXCEPT ![w] = @ - 1]
           fresh == [proc[p].fresh EXCEPT ![w] = @ + 1]
           next == IF todo = None THEN "write" ELSE "mark"
           r == [proc[p] EXCEPT !.todo = todo, !.fresh = fresh, !.failed = proc[p].failed \/ failed,
                                !.phase = next]
<1>1. proc[p] \in Processes /\ proc[p].todo[w] - 1 \in Nat /\ proc[p].fresh[w] + 1 \in Nat
  BY DEF Processes, Counts
<1>2. todo \in Counts /\ fresh \in Counts
  BY <1>1 DEF Processes, Counts
<1>3. next \in {"mark", "write"} /\ (proc[p].failed \/ failed) \in BOOLEAN
  BY <1>1 DEF Processes
<1>4. Goes(p, r)
  BY <1>1 DEF Marked, Processes
<1> HIDE DEF todo, fresh, next
<1>5. r \in Processes
  BY <1>1, <1>2, <1>3 DEF Processes
<1>6. proc'[p] = r /\ proc' \in [Procs -> Processes] /\ OnlyProc(p)
  BY <1>4, <1>5, GoesTyped
<1> QED
  BY <1>1, <1>3, <1>6 DEF Processes, todo, fresh

LEMMA MovedProc ==
  ASSUME proc \in [Procs -> Processes], NEW p \in Procs, Truncate(p) \/ DaemonDies(p)
  PROVE  /\ proc' \in [Procs -> Processes] /\ OnlyProc(p)
         /\ proc'[p].page = proc[p].page /\ proc'[p].found = proc[p].found
         /\ proc'[p].todo = proc[p].todo /\ proc'[p].existing = proc[p].existing
         /\ proc'[p].fresh = proc[p].fresh
         /\ proc'[p].phase = IF Truncate(p) THEN "writing" ELSE proc[p].phase
<1>1. proc[p] \in Processes
  OBVIOUS
<1>2. CASE Truncate(p)
  <2>1. [proc[p] EXCEPT !.phase = "writing"] \in Processes
    BY <1>1 DEF Processes
  <2> QED
    BY <1>1, <1>2, <2>1, GoesTyped DEF Truncate, Processes
<1>3. CASE DaemonDies(p) /\ ~Truncate(p)
  <2>1. [proc[p] EXCEPT !.orphan = TRUE] \in Processes
    BY <1>1 DEF Processes
  <2> QED
    BY <1>1, <1>3, <2>1, GoesTyped DEF DaemonDies, Processes
<1> QED
  BY <1>2, <1>3

-----------------------------------------------------------------------------
(* The account and the cache. *)

LEMMA RemoveTyped ==
  ASSUME NEW S, NEW s \in Seq(S), NEW i \in DOMAIN s
  PROVE  /\ RemoveAt(s, i) \in Seq(S)
         /\ DOMAIN RemoveAt(s, i) = 1 .. Len(s) - 1
         /\ \A j \in 1 .. Len(s) - 1 : RemoveAt(s, i)[j] = s[IF j < i THEN j ELSE j + 1]
<1> DEFINE before == SubSeq(s, 1, i - 1)
           after == SubSeq(s, i + 1, Len(s))
<1>1. Len(s) \in Nat /\ i \in 1 .. Len(s) /\ \A j \in 1 .. Len(s) : s[j] \in S
  OBVIOUS
<1>2. /\ before \in Seq(S) /\ Len(before) = i - 1
      /\ \A j \in 1 .. i - 1 : before[j] = s[j]
  <2>1. 1 \in Int /\ i - 1 \in Int /\ \A j \in 1 .. i - 1 : s[j] \in S
    BY <1>1
  <2>2. /\ before \in Seq(S) /\ Len(before) = IF 1 <= i - 1 THEN i - 1 - 1 + 1 ELSE 0
        /\ \A j \in 1 .. i - 1 - 1 + 1 : before[j] = s[1 + j - 1]
    BY <2>1, SubSeqProperties
  <2> HIDE DEF before
  <2> QED
    BY <1>1, <2>2
<1>3. /\ after \in Seq(S) /\ Len(after) = Len(s) - i
      /\ \A j \in 1 .. Len(s) - i : after[j] = s[i + j]
  <2>1. i + 1 \in Int /\ Len(s) \in Int /\ \A j \in i + 1 .. Len(s) : s[j] \in S
    BY <1>1
  <2>2. /\ after \in Seq(S)
        /\ Len(after) = IF i + 1 <= Len(s) THEN Len(s) - (i + 1) + 1 ELSE 0
        /\ \A j \in 1 .. Len(s) - (i + 1) + 1 : after[j] = s[i + 1 + j - 1]
    BY <2>1, SubSeqProperties
  <2> HIDE DEF after
  <2> QED
    BY <1>1, <2>2
<1>4. RemoveAt(s, i) = before \o after
  BY DEF RemoveAt
<1> HIDE DEF before, after
<1> DEFINE kept == before \o after
<1>5. /\ kept \in Seq(S) /\ Len(kept) = Len(before) + Len(after)
      /\ \A j \in 1 .. Len(before) + Len(after) :
           kept[j] = IF j <= Len(before) THEN before[j] ELSE after[j - Len(before)]
  BY <1>2, <1>3, ConcatProperties
<1> HIDE DEF kept
<1>6. Len(before) + Len(after) = Len(s) - 1
  BY <1>1, <1>2, <1>3
<1>7. DOMAIN kept = 1 .. Len(s) - 1
  BY <1>5, <1>6
<1>8. ASSUME NEW j \in 1 .. Len(s) - 1 PROVE kept[j] = s[IF j < i THEN j ELSE j + 1]
  <2>1. kept[j] = IF j <= i - 1 THEN before[j] ELSE after[j - (i - 1)]
    BY <1>2, <1>5, <1>6
  <2>2. CASE j < i
    BY <1>1, <1>2, <2>1, <2>2
  <2>3. CASE i <= j
    <3>1. j - (i - 1) \in 1 .. Len(s) - i /\ i + (j - (i - 1)) = j + 1 /\ ~(j <= i - 1) /\ ~(j < i)
      BY <1>1, <2>3
    <3>2. after[j - (i - 1)] = s[j + 1]
      BY <1>3, <3>1
    <3> QED
      BY <2>1, <3>1, <3>2
  <2> QED
    BY <1>1, <2>2, <2>3
<1> QED
  BY <1>4, <1>5, <1>7, <1>8 DEF kept

\* Where what is in a sequence after an append or a prepend comes from.
LEMMA AppendTyped ==
  ASSUME NEW S, NEW s \in Seq(S), NEW x \in S
  PROVE  /\ Append(s, x) \in Seq(S)
         /\ \A m \in DOMAIN Append(s, x) :
              \/ m = Len(s) + 1 /\ Append(s, x)[m] = x
              \/ m \in DOMAIN s /\ Append(s, x)[m] = s[m]
<1>1. /\ Append(s, x) \in Seq(S) /\ Len(Append(s, x)) = Len(s) + 1
      /\ \A m \in 1 .. Len(s) : Append(s, x)[m] = s[m]
      /\ Append(s, x)[Len(s) + 1] = x
  BY AppendProperties
<1>2. DOMAIN Append(s, x) = 1 .. Len(s) + 1 /\ DOMAIN s = 1 .. Len(s) /\ Len(s) \in Nat
  BY <1>1
<1> QED
  BY <1>1, <1>2

LEMMA PrependTyped ==
  ASSUME NEW S, NEW s \in Seq(S), NEW x \in S, NEW t, t = <<x>> \o s
  PROVE  /\ t \in Seq(S)
         /\ \A m \in DOMAIN t : (m = 1 /\ t[m] = x) \/ (m - 1 \in DOMAIN s /\ t[m] = s[m - 1])
<1> DEFINE u == <<x>>
<1>1. u \in Seq(S) /\ Len(u) = 1 /\ u[1] = x /\ t = u \o s
  OBVIOUS
<1> HIDE DEF u
<1>2. /\ t \in Seq(S) /\ Len(t) = 1 + Len(s)
      /\ \A m \in 1 .. 1 + Len(s) : t[m] = IF m <= 1 THEN u[m] ELSE s[m - 1]
  BY <1>1, ConcatProperties
<1>3. DOMAIN t = 1 .. 1 + Len(s) /\ DOMAIN s = 1 .. Len(s) /\ Len(s) \in Nat
  BY <1>2
<1>4. ASSUME NEW m \in DOMAIN t
      PROVE  (m = 1 /\ t[m] = x) \/ (m - 1 \in DOMAIN s /\ t[m] = s[m - 1])
  <2>1. CASE m = 1
    BY <1>1, <1>2, <1>3, <2>1
  <2>2. CASE m # 1
    <3>1. m - 1 \in DOMAIN s /\ ~(m <= 1) /\ m \in 1 .. 1 + Len(s)
      BY <1>3, <2>2
    <3> QED
      BY <1>2, <3>1
  <2> QED
    BY <2>1, <2>2
<1> QED
  BY <1>2, <1>4

\* What the cache holds after an insert was in it before, or is the reply; and the
\* reply is the only one of its page.
LEMMA CacheSet ==
  ASSUME cache \in Seq(Replies), OnePage, NEW reply \in Replies, setCached(reply)
  PROVE  /\ cache' \in Seq(Replies) /\ OnePage'
         /\ \A m \in DOMAIN cache' :
              cache'[m] = reply \/ \E n \in DOMAIN cache : cache'[m] = cache[n]
<1> DEFINE old == {i \in DOMAIN cache : cache[i].page = reply.page}
<1>1. CASE old = {}
  <2>1. cache' = Append(cache, reply)
    BY <1>1 DEF setCached
  <2>2. /\ cache' \in Seq(Replies)
        /\ \A m \in DOMAIN cache' :
             \/ m = Len(cache) + 1 /\ cache'[m] = reply
             \/ m \in DOMAIN cache /\ cache'[m] = cache[m]
    BY <2>1, AppendTyped
  <2> QED
    BY <1>1, <2>2 DEF OnePage
<1>2. CASE old # {}
  <2> DEFINE i == CHOOSE i \in old : TRUE
             kept == RemoveAt(cache, i)
  <2>1. i \in old /\ cache' = Append(kept, reply)
    BY <1>2 DEF setCached
  <2>2. i \in DOMAIN cache /\ cache[i].page = reply.page
    BY <2>1
  <2> HIDE DEF i
  <2>3. /\ kept \in Seq(Replies) /\ DOMAIN kept = 1 .. Len(cache) - 1
        /\ \A j \in 1 .. Len(cache) - 1 : kept[j] = cache[IF j < i THEN j ELSE j + 1]
    BY <2>2, RemoveTyped
  <2> HIDE DEF kept
  <2>4. /\ cache' \in Seq(Replies)
        /\ \A m \in DOMAIN cache' :
             \/ m = Len(kept) + 1 /\ cache'[m] = reply
             \/ m \in DOMAIN kept /\ cache'[m] = kept[m]
    BY <2>1, <2>3, AppendTyped
  <2>5. \A m \in DOMAIN kept :
          \E n \in DOMAIN cache \ {i} : kept[m] = cache[n] /\ n = IF m < i THEN m ELSE m + 1
    BY <2>2, <2>3
  <2>6. \A m \in DOMAIN kept : kept[m].page # reply.page
    BY <2>2, <2>5 DEF OnePage
  <2>7. \A m, n \in DOMAIN kept : kept[m].page = kept[n].page => m = n
    BY <2>2, <2>3 DEF OnePage
  <2>8. OnePage'
    BY <2>4, <2>6, <2>7 DEF OnePage
  <2> QED
    BY <2>4, <2>5, <2>8
<1> QED
  BY <1>1, <1>2

\* What is left of the cache when its first page expires.
LEMMA CacheExpires ==
  ASSUME cache \in Seq(Replies), OnePage, Expire
  PROVE  /\ cache' \in Seq(Replies) /\ OnePage'
         /\ \A m \in DOMAIN cache' : \E n \in DOMAIN cache : cache'[m] = cache[n]
<1>1. CASE cache' = <<>>
  BY <1>1 DEF OnePage
<1>2. CASE cache' = Tail(cache) /\ cache # <<>>
  <2>1. /\ cache' \in Seq(Replies)
        /\ \A m \in DOMAIN cache' : m + 1 \in DOMAIN cache /\ cache'[m] = cache[m + 1]
    BY <1>2
  <2> QED
    BY <2>1 DEF OnePage
<1> QED
  BY <1>1, <1>2 DEF Expire

\* An edit keeps the workouts apart.
LEMMA EditTyped ==
  ASSUME account \in Seq(Workouts), Distinct, deleted \subseteq Workouts, Edit
  PROVE  account' \in Seq(Workouts) /\ Distinct' /\ deleted' \subseteq Workouts
<1>1. ASSUME NEW w \in Workouts, \A i \in DOMAIN account : account[i] # w,
             account' = <<w>> \o account, UNCHANGED deleted
      PROVE  account' \in Seq(Workouts) /\ Distinct' /\ deleted' \subseteq Workouts
  <2>1. account' \in Seq(Workouts)
        /\ \A m \in DOMAIN account' :
             \/ m = 1 /\ account'[m] = w
             \/ m - 1 \in DOMAIN account /\ account'[m] = account[m - 1]
    <3>1. account' = <<w>> \o account
      BY <1>1
    <3> QED
      BY <3>1, PrependTyped
  <2>2. (\A i \in DOMAIN account : account[i] # w) /\ UNCHANGED deleted
    BY <1>1
  <2> QED
    BY <2>1, <2>2 DEF Distinct
<1>2. ASSUME NEW i \in DOMAIN account, account' = RemoveAt(account, i),
             deleted' = deleted \cup {account[i]}
      PROVE  account' \in Seq(Workouts) /\ Distinct' /\ deleted' \subseteq Workouts
  <2>1. /\ account' \in Seq(Workouts) /\ DOMAIN account' = 1 .. Len(account) - 1
        /\ \A j \in 1 .. Len(account) - 1 : account'[j] = account[IF j < i THEN j ELSE j + 1]
    BY <1>2, RemoveTyped
  <2>2. Distinct'
    BY <2>1 DEF Distinct
  <2> QED
    BY <1>2, <2>1, <2>2
<1> QED
  BY <1>1, <1>2 DEF Edit

-----------------------------------------------------------------------------
(* Every step keeps the types. *)

LEMMA InitSync == SyncInit => SyncTyped
<1> SUFFICES ASSUME SyncInit PROVE SyncTyped
  OBVIOUS
<1>1. account \in Seq(Workouts) /\ Distinct
  BY Zenon, WorkoutsAssumption DEF SyncInit, WorkoutsAssumption, Distinct
<1>2. faults \subseteq Faults
  BY Zenon, WorkoutsAssumption DEF SyncInit, WorkoutsAssumption
<1>3. cache \in Seq(Replies) /\ OnePage
  BY DEF SyncInit, OnePage
<1>4. ledger \in LedgerOf({JOB_NAME}, Workouts)
  BY DEF SyncInit, LedgerOf, NoRow
<1>5. file \in [copies : Counts, torn : BOOLEAN]
  BY CountsTyped DEF SyncInit, File
<1>6. proc \in [Procs -> Processes]
  BY NoProcTyped DEF SyncInit
<1>7. disturbances \in 0 .. MaxDisturbances
  BY SyncConstants DEF SyncInit
<1> QED
  BY <1>1, <1>2, <1>3, <1>4, <1>5, <1>6, <1>7 DEF SyncInit, SyncTyped, RestTyped

LEMMA DisturbedTyped ==
  ASSUME disturbances \in 0 .. MaxDisturbances, NEW f, Disturbed(f)
  PROVE  disturbances' \in 0 .. MaxDisturbances
BY SyncConstants DEF Disturbed

\* A mark changes the row of one workout.
LEMMA MarkTyped ==
  ASSUME ledger \in LedgerOf({JOB_NAME}, Workouts), NEW w \in Workouts, NEW status \in WorkStatus,
         ledger' = markWorkItem(ledger, JOB_NAME, w, Row(status, 1, w))
  PROVE  /\ ledger' \in LedgerOf({JOB_NAME}, Workouts)
         /\ \A x \in Workouts : Success(x)' <=> IF x = w THEN status = "success" ELSE Success(x)
<1>1. Row(status, 1, w) \in [status : WorkStatus \cup {"none"}, attempts : Nat,
                             root : Workouts \cup {NoKey}]
  BY DEF Row
<1>2. Row(status, 1, w).status = status
  BY DEF Row
<1> QED
  BY <1>1, <1>2 DEF LedgerOf, markWorkItem, Success

\* A step of one process that touches neither the account, nor the file, nor the ledger.
LEMMA ProcStep ==
  ASSUME SyncTyped, UNCHANGED <<faults, world, cache, ledger, file>>,
         disturbances' \in 0 .. MaxDisturbances,
         causes' \subseteq {"shift", "overlap", "failed mark", "loss"},
         proc' \in [Procs -> Processes]
  PROVE  SyncTyped'
BY DEF SyncTyped, RestTyped, OnePage, Distinct, world

LEMMA WorkTyped ==
  ASSUME SyncTyped, NEW p \in Procs, Works(p)
  PROVE  SyncTyped'
<1>0. disturbances \in 0 .. MaxDisturbances /\ causes \subseteq {"shift", "overlap", "failed mark", "loss"}
  BY DEF SyncTyped, RestTyped
<1>1. CASE LookUp(p)
  <2>1. proc' \in [Procs -> Processes]
    <3>1. CASE \E i \in DOMAIN cache : cache[i] \in Replies /\ Received(p, cache[i])
      BY <3>1, ReceivedProc DEF SyncTyped
    <3> QED
      BY <1>1, <3>1, LookUpProc
  <2> QED
    BY <1>0, <1>1, <2>1, ProcStep DEF LookUp
<1>2. CASE Answer(p)
  <2> DEFINE reply == PageOf(proc[p].page)
  <2>1. Received(p, reply) /\ setCached(reply)
        /\ UNCHANGED <<faults, disturbances, world, ledger, file, causes>>
    BY <1>2 DEF Answer
  <2>2. reply \in Replies
    <3>1. proc[p].page \in Nat
      BY DEF SyncTyped, Processes
    <3> QED
      BY <3>1, PageTyped
  <2> HIDE DEF reply
  <2>3. proc' \in [Procs -> Processes]
    BY <2>1, <2>2, ReceivedProc DEF SyncTyped
  <2>4. cache' \in Seq(Replies) /\ OnePage'
    BY Zenon, <2>1, <2>2, CacheSet DEF SyncTyped, RestTyped
  <2> QED
    BY <2>1, <2>3, <2>4 DEF SyncTyped, RestTyped, Distinct, world
<1>3. CASE Plan(p)
  BY <1>0, <1>3, PlanProc, ProcStep DEF Plan
<1>4. CASE Mark(p)
  <2>1. PICK w \in Workouts :
          /\ proc[p].todo[w] > 0 /\ Marked(p, w, FALSE)
          /\ ledger' = markWorkItem(ledger, JOB_NAME, w, Row("success", 1, w))
    BY <1>4 DEF Mark
  <2>2. proc' \in [Procs -> Processes]
    BY <2>1, MarkedProc DEF SyncTyped
  <2>3. ledger' \in LedgerOf({JOB_NAME}, Workouts)
    BY <2>1, MarkTyped DEF SyncTyped, RestTyped, WorkStatus
  <2> QED
    BY <1>4, <2>2, <2>3 DEF Mark, SyncTyped, RestTyped, OnePage, Distinct, world
<1>5. CASE Truncate(p)
  <2>1. proc' \in [Procs -> Processes]
    BY <1>5, MovedProc DEF SyncTyped
  <2>2. file' \in [copies : Counts, torn : BOOLEAN]
    BY <1>5, CountsTyped DEF Truncate, File
  <2> QED
    BY <1>5, <2>1, <2>2 DEF Truncate, SyncTyped, RestTyped, OnePage, Distinct, world
<1>6. CASE Write(p)
  <2>1. proc' \in [Procs -> Processes]
    BY <1>6, EndsProc DEF Write, SyncTyped
  <2>2. Merged(p) \in Counts
    BY CountsTyped DEF Merged, SyncTyped, Processes
  <2>3. file' \in [copies : Counts, torn : BOOLEAN]
    BY <1>6, <2>2 DEF Write, File
  <2> QED
    BY <1>6, <2>1, <2>3 DEF Write, SyncTyped, RestTyped, OnePage, Distinct, world
<1> QED
  BY <1>1, <1>2, <1>3, <1>4, <1>5, <1>6 DEF Works

LEMMA FailTyped ==
  ASSUME SyncTyped, NEW p \in Procs,
         \/ CallFails(p) \/ MarkFails(p) \/ MarkThrows(p) \/ Kill(p) \/ KillWriter(p)
         \/ DaemonDies(p)
  PROVE  SyncTyped'
<1>0. disturbances' \in 0 .. MaxDisturbances
  BY DisturbedTyped DEF CallFails, MarkFails, MarkThrows, Kill, KillWriter, DaemonDies, SyncTyped,
     RestTyped
<1>1. causes' \subseteq {"shift", "overlap", "failed mark", "loss"}
  BY DEF CallFails, MarkFails, MarkThrows, Kill, KillWriter, DaemonDies, Loses, SyncTyped, RestTyped
<1>2. CASE CallFails(p) \/ MarkThrows(p) \/ Kill(p)
  <2>1. proc' \in [Procs -> Processes]
    BY <1>2, EndsProc DEF CallFails, MarkThrows, Kill, SyncTyped
  <2> QED
    BY <1>0, <1>1, <1>2, <2>1, ProcStep DEF CallFails, MarkThrows, Kill
<1>3. CASE MarkFails(p)
  <2>1. PICK w \in Workouts :
          /\ proc[p].todo[w] > 0 /\ Marked(p, w, TRUE)
          /\ ledger' = markWorkItem(ledger, JOB_NAME, w, Row("failed", 1, w))
    BY <1>3 DEF MarkFails, FailedRow
  <2>2. proc' \in [Procs -> Processes]
    BY <2>1, MarkedProc DEF SyncTyped
  <2>3. ledger' \in LedgerOf({JOB_NAME}, Workouts)
    BY <2>1, MarkTyped DEF SyncTyped, RestTyped, WorkStatus
  <2> QED
    BY <1>0, <1>1, <1>3, <2>2, <2>3 DEF MarkFails, SyncTyped, RestTyped, OnePage, Distinct, world
<1>4. CASE KillWriter(p)
  <2>1. proc' \in [Procs -> Processes]
    BY <1>4, EndsProc DEF KillWriter, SyncTyped
  <2>2. file' \in [copies : Counts, torn : BOOLEAN]
    <3>1. TornFile \in [copies : Counts, torn : BOOLEAN]
      BY CountsTyped DEF TornFile
    <3> QED
      BY <1>4, <3>1, WorldTyped DEF KillWriter
  <2> QED
    BY <1>0, <1>1, <1>4, <2>1, <2>2 DEF KillWriter, SyncTyped, RestTyped, OnePage, Distinct, world
<1>5. CASE DaemonDies(p)
  <2>1. proc' \in [Procs -> Processes]
    BY <1>5, MovedProc DEF SyncTyped
  <2> QED
    BY <1>0, <1>1, <1>5, <2>1, ProcStep DEF DaemonDies
<1> QED
  BY <1>2, <1>3, <1>4, <1>5

LEMMA StepSync == SyncTyped /\ [SyncNext]_syncVars => SyncTyped'
<1> SUFFICES ASSUME SyncTyped, [SyncNext]_syncVars PROVE SyncTyped'
  OBVIOUS
<1>1. CASE Edit
  <2>1. account' \in Seq(Workouts) /\ Distinct' /\ deleted' \subseteq Workouts
    BY Zenon, <1>1, EditTyped DEF SyncTyped, RestTyped
  <2>2. disturbances' \in 0 .. MaxDisturbances
    BY <1>1, DisturbedTyped DEF Edit, SyncTyped, RestTyped
  <2>3. causes' \subseteq {"shift", "overlap", "failed mark", "loss"}
    BY <1>1 DEF Edit, Shifts, SyncTyped, RestTyped
  <2> QED
    BY <1>1, <2>1, <2>2, <2>3 DEF Edit, SyncTyped, RestTyped, OnePage
<1>2. CASE Expire
  <2>1. cache' \in Seq(Replies) /\ OnePage'
    BY Zenon, <1>2, CacheExpires DEF SyncTyped, RestTyped
  <2> QED
    BY <1>2, <2>1 DEF Expire, SyncTyped, RestTyped, Distinct, world
<1>3. CASE \E p \in Procs : Start(p)
  <2>1. PICK p \in Procs : Start(p)
    BY <1>3
  <2>2. disturbances' \in 0 .. MaxDisturbances
        /\ causes' \subseteq {"shift", "overlap", "failed mark", "loss"}
    BY <2>1 DEF Start, SyncTyped, RestTyped
  <2> QED
    BY <2>1, <2>2, StartProc, ProcStep DEF Start, SyncTyped
<1>4. CASE UNCHANGED syncVars
  BY <1>4 DEF syncVars, SyncTyped, RestTyped, OnePage, Distinct, world
<1> QED
  BY <1>1, <1>2, <1>3, <1>4, WorkTyped, FailTyped DEF SyncNext

\* Shape of the state; the cache has one reply of a page, also when two processes
\* missed it together.
THEOREM SyncTypeCorrect == SyncSpec => []SyncTypeOK
<1>1. SyncTyped => SyncTypeOK
  <2> SUFFICES ASSUME SyncTyped PROVE SyncTypeOK
    OBVIOUS
  <2>1. /\ faults \subseteq Faults /\ disturbances \in 0 .. MaxDisturbances
        /\ account \in Seq(Workouts) /\ deleted \subseteq Workouts
        /\ cache \in Seq([page : Nat, workouts : SUBSET Workouts, count : Nat])
        /\ ledger \in LedgerOf({JOB_NAME}, Workouts)
        /\ file \in [copies : [Workouts -> Nat], torn : BOOLEAN]
        /\ causes \subseteq {"shift", "overlap", "failed mark", "loss"}
    BY Zenon DEF SyncTyped, RestTyped, Replies, Counts
  <2>2. \A m, n \in 1 .. Len(cache) : cache[m].page = cache[n].page => m = n
    <3>1. DOMAIN cache = 1 .. Len(cache)
      BY WorldTyped
    <3> QED
      BY Zenon, <3>1 DEF SyncTyped, RestTyped, OnePage
  <2>3. \A p \in Procs :
          /\ proc[p].phase \in {"none", "page", "call", "plan", "mark", "write", "writing"}
          /\ {proc[p].found, proc[p].todo, proc[p].existing, proc[p].fresh} \subseteq [Workouts -> Nat]
          /\ proc[p].page \in Nat \ {0}
    BY DEF SyncTyped, Processes, Counts
  <2> QED
    BY Zenon, <2>1, <2>2, <2>3 DEF SyncTypeOK
<1> QED
  BY <1>1, InitSync, StepSync, PTL DEF SyncSpec

-----------------------------------------------------------------------------
(* What is synced is recorded, or about to be. *)

Active(p) == proc[p].phase \in {"mark", "write", "writing"}

\* A process has the workout in what it will write.
Holds(p, w) == proc[p].existing[w] > 0 \/ proc[p].fresh[w] > 0

\* Unless an orphan was joined by another process there is one at most.
Alone ==
  "overlap" \notin causes =>
    \A p, q \in Procs : proc[p].phase # "none" /\ proc[q].phase # "none" => p = q

\* A process that got to its write has something new to write.  One that is alone has
\* read what the file has, and when the file is empty it is because of the process.
HasRead ==
  \A p \in Procs :
    /\ proc[p].phase \in {"write", "writing"} => proc[p].fresh # None
    /\ "overlap" \notin causes =>
         /\ proc[p].phase \in {"mark", "write"} => proc[p].existing = file.copies
         /\ proc[p].phase = "writing" => file.copies = None

\* What is synced is in the file, or a process has it in what it will write.
Kept ==
  causes \cap {"loss", "overlap"} = {} =>
    \A w \in Workouts :
      Success(w) => file.copies[w] > 0 \/ \E p \in Procs : Active(p) /\ Holds(p, w)

LossInv == Alone /\ HasRead /\ Kept

\* A process that is not at its marks or its write changes, and stays so.
LEMMA QuietKept ==
  ASSUME LossInv, NEW p \in Procs, proc[p].phase \notin {"none", "mark", "write", "writing"},
         proc'[p].phase \notin {"mark", "write", "writing"}, OnlyProc(p),
         UNCHANGED <<file, ledger>>, causes \subseteq causes'
  PROVE  LossInv'
<1>1. Alone'
  BY DEF LossInv, Alone, OnlyProc
<1>2. HasRead'
  BY DEF LossInv, HasRead, OnlyProc
<1>3. \A q \in Procs : Active(q) => proc'[q] = proc[q]
  BY DEF Active, OnlyProc
<1>4. \A q \in Procs : Active(q) => Active(q)' /\ \A w : Holds(q, w) => Holds(q, w)'
  BY <1>3 DEF Active, Holds
<1>5. Kept'
  BY <1>4 DEF LossInv, Kept, Success
<1> QED
  BY <1>1, <1>2, <1>5 DEF LossInv

\* A process is gone and what it held, unless that was its file, is a loss.
LEMMA LosesKept ==
  ASSUME SyncTyped, LossInv, NEW p \in Procs, proc'[p] = NoProc, OnlyProc(p), Loses(p),
         proc[p].phase # "none", UNCHANGED ledger,
         proc[p].phase = "writing" \/ UNCHANGED file
  PROVE  LossInv'
<1>0. NoProc.phase = "none" /\ causes \subseteq causes'
  BY DEF NoProc, Loses
<1>1. Alone'
  BY <1>0 DEF LossInv, Alone, OnlyProc
<1>2. HasRead'
  <2> SUFFICES ASSUME NEW q \in Procs, q # p
               PROVE  /\ proc[q].phase \in {"write", "writing"} => proc[q].fresh # None
                      /\ "overlap" \notin causes' =>
                           /\ proc[q].phase \in {"mark", "write"} => proc[q].existing = file'.copies
                           /\ proc[q].phase = "writing" => file'.copies = None
    BY <1>0 DEF HasRead, OnlyProc
  <2>1. "overlap" \notin causes' => proc[q].phase = "none"
    BY <1>0 DEF LossInv, Alone
  <2> QED
    BY <2>1 DEF LossInv, HasRead
<1>3. Kept'
  <2> SUFFICES ASSUME causes' \cap {"loss", "overlap"} = {}, NEW w \in Workouts, Success(w)
               PROVE  file'.copies[w] > 0
    BY DEF Kept, Success
  <2>1. proc[p].fresh = None /\ causes \cap {"loss", "overlap"} = {}
    BY <1>0 DEF Loses
  <2>2. proc[p].phase \notin {"write", "writing"} /\ UNCHANGED file
    BY <2>1 DEF LossInv, HasRead
  <2>3. \A q \in Procs : Active(q) => q = p
    BY <2>1 DEF LossInv, Alone, Active
  <2>4. Active(p) => ~(proc[p].fresh[w] > 0) /\ proc[p].existing = file.copies
    BY <2>1, <2>2 DEF Active, None, LossInv, HasRead
  <2>5. file.copies[w] > 0 \/ (Active(p) /\ Holds(p, w))
    BY <2>1, <2>3 DEF LossInv, Kept
  <2> QED
    BY <2>2, <2>4, <2>5 DEF Holds
<1> QED
  BY <1>1, <1>2, <1>3 DEF LossInv

\* A mark, whether it succeeds or not.
LEMMA MarkedKept ==
  ASSUME SyncTyped, LossInv, NEW p \in Procs, proc[p].phase = "mark",
         NEW w \in Workouts, proc[p].todo[w] > 0, NEW failed \in BOOLEAN, Marked(p, w, failed),
         NEW status \in WorkStatus,
         ledger' = markWorkItem(ledger, JOB_NAME, w, Row(status, 1, w)),
         UNCHANGED file, causes \subseteq causes'
  PROVE  LossInv'
<1>1. /\ OnlyProc(p) /\ proc'[p].phase \in {"mark", "write"}
      /\ proc'[p].existing = proc[p].existing
      /\ proc'[p].fresh = [proc[p].fresh EXCEPT ![w] = @ + 1]
  <2>1. proc \in [Procs -> Processes]
    BY DEF SyncTyped
  <2>2. /\ proc' \in [Procs -> Processes] /\ OnlyProc(p)
        /\ proc'[p].phase \in {"mark", "write"}
        /\ proc'[p].existing = proc[p].existing /\ proc'[p].found = proc[p].found
        /\ proc'[p].todo = [proc[p].todo EXCEPT ![w] = @ - 1]
        /\ proc'[p].fresh = [proc[p].fresh EXCEPT ![w] = @ + 1]
    BY <2>1, MarkedProc
  <2> QED
    BY <2>2
<1>2. proc[p].fresh \in Counts
  BY DEF SyncTyped, Processes
<1>3. /\ proc'[p].fresh[w] > 0 /\ proc'[p].fresh # None
      /\ \A x \in Workouts : proc[p].fresh[x] > 0 => proc'[p].fresh[x] > 0
  BY <1>1, <1>2 DEF Counts, None
<1>4. Alone'
  BY <1>1 DEF LossInv, Alone, OnlyProc
<1>5. HasRead'
  BY <1>1, <1>3 DEF LossInv, HasRead, OnlyProc
<1>6. \A q \in Procs, x \in Workouts : Active(q) /\ Holds(q, x) => Active(q)' /\ Holds(q, x)'
  BY <1>1, <1>3 DEF Active, Holds, OnlyProc
<1>7. Active(p)' /\ Holds(p, w)'
  BY <1>1, <1>3 DEF Active, Holds
<1>8. \A x \in Workouts : Success(x)' => x = w \/ Success(x)
  BY MarkTyped DEF SyncTyped, RestTyped
<1>9. Kept'
  BY <1>6, <1>7, <1>8 DEF LossInv, Kept
<1> QED
  BY <1>4, <1>5, <1>9 DEF LossInv

LEMMA StepKept == SyncTyped /\ LossInv /\ [SyncNext]_syncVars => LossInv'
<1> SUFFICES ASSUME SyncTyped, LossInv, [SyncNext]_syncVars PROVE LossInv'
  OBVIOUS
<1>1. CASE Edit \/ Expire \/ UNCHANGED syncVars
  <2>1. UNCHANGED <<proc, file, ledger>> /\ causes \subseteq causes'
    BY <1>1 DEF Edit, Shifts, Expire, syncVars
  <2> QED
    BY <2>1 DEF LossInv, Alone, HasRead, Kept, Success, Active, Holds
<1>2. ASSUME NEW p \in Procs, Start(p) PROVE LossInv'
  <2>1. OnlyProc(p) /\ proc'[p] = [NoProc EXCEPT !.phase = "page"]
    BY <1>2, StartProc DEF SyncTyped
  <2>2. proc'[p].phase = "page"
    BY <2>1 DEF NoProc
  <2>3. proc[p].phase = "none" /\ UNCHANGED <<file, ledger>> /\ causes \subseteq causes'
    BY <1>2 DEF Start
  <2>4. "overlap" \notin causes' => \A q \in Procs : proc[q].phase = "none"
    BY <1>2 DEF Start
  <2>5. Alone'
    BY <2>1, <2>4 DEF Alone, OnlyProc
  <2>6. HasRead'
    BY <2>1, <2>2, <2>3 DEF LossInv, HasRead, OnlyProc
  <2>7. \A q \in Procs, w \in Workouts : Active(q) /\ Holds(q, w) => Active(q)' /\ Holds(q, w)'
    BY <2>1, <2>3 DEF Active, Holds, OnlyProc
  <2>8. Kept'
    BY <2>3, <2>7 DEF LossInv, Kept, Success
  <2> QED
    BY <2>5, <2>6, <2>8 DEF LossInv
<1>3. ASSUME NEW p \in Procs, LookUp(p) \/ Answer(p) \/ CallFails(p) PROVE LossInv'
  <2>1. /\ proc[p].phase \in {"page", "call"} /\ UNCHANGED <<file, ledger, causes>>
    BY <1>3 DEF LookUp, Answer, CallFails
  <2>2. OnlyProc(p) /\ proc'[p].phase \notin {"mark", "write", "writing"}
    <3>1. ASSUME LookUp(p) PROVE OnlyProc(p) /\ proc'[p].phase \in {"call", "page", "plan"}
      <4>1. CASE \E i \in DOMAIN cache : cache[i] \in Replies /\ Received(p, cache[i])
        BY <4>1, ReceivedProc DEF SyncTyped
      <4>2. CASE proc'[p] = [proc[p] EXCEPT !.phase = "call"]
        BY <3>1, <4>2, LookUpProc DEF SyncTyped, Processes
      <4> QED
        BY <3>1, <4>1, <4>2, LookUpProc
    <3>2. ASSUME Answer(p) PROVE OnlyProc(p) /\ proc'[p].phase \in {"page", "plan"}
      <4>1. proc[p].page \in Nat
        BY DEF SyncTyped, Processes
      <4>2. PageOf(proc[p].page) \in Replies /\ Received(p, PageOf(proc[p].page))
        BY <3>2, <4>1, PageTyped DEF Answer
      <4> QED
        BY <4>2, ReceivedProc DEF SyncTyped
    <3>3. ASSUME CallFails(p) PROVE OnlyProc(p) /\ proc'[p].phase = "none"
      BY <3>3, EndsProc DEF CallFails, SyncTyped, NoProc
    <3> QED
      BY <1>3, <3>1, <3>2, <3>3
  <2> QED
    BY <2>1, <2>2, QuietKept
<1>4. ASSUME NEW p \in Procs, Plan(p) PROVE LossInv'
  <2>1. proc[p].phase = "plan" /\ UNCHANGED <<file, ledger, causes>>
    BY <1>4 DEF Plan
  <2>2. OnlyProc(p)
    BY <1>4, PlanProc
  <2>3. CASE proc'[p] = NoProc
    BY <2>1, <2>2, <2>3, QuietKept DEF NoProc
  <2>4. CASE proc'[p] = [proc[p] EXCEPT !.todo = Todo(proc[p].found), !.existing = file.copies,
                                        !.phase = "mark"]
    <3>1. proc'[p].phase = "mark" /\ proc'[p].existing = file.copies
      BY <2>4 DEF SyncTyped, Processes
    <3>2. Alone'
      BY <2>1, <2>2, <3>1 DEF LossInv, Alone, OnlyProc
    <3>3. HasRead'
      BY <2>1, <2>2, <3>1 DEF LossInv, HasRead, OnlyProc
    <3>4. \A q \in Procs, w \in Workouts : Active(q) /\ Holds(q, w) => Active(q)' /\ Holds(q, w)'
      BY <2>1, <2>2 DEF Active, Holds, OnlyProc
    <3>5. Kept'
      BY <2>1, <3>4 DEF LossInv, Kept, Success
    <3> QED
      BY <3>2, <3>3, <3>5 DEF LossInv
  <2> QED
    BY <1>4, <2>3, <2>4, PlanProc
<1>5. ASSUME NEW p \in Procs, Mark(p) \/ MarkFails(p) PROVE LossInv'
  <2>1. PICK w \in Workouts, failed \in BOOLEAN, status \in WorkStatus :
          /\ proc[p].todo[w] > 0 /\ Marked(p, w, failed)
          /\ ledger' = markWorkItem(ledger, JOB_NAME, w, Row(status, 1, w))
    BY <1>5 DEF Mark, MarkFails, FailedRow, WorkStatus
  <2>2. proc[p].phase = "mark" /\ UNCHANGED file /\ causes \subseteq causes'
    BY <1>5 DEF Mark, MarkFails
  <2> QED
    BY <2>1, <2>2, MarkedKept
<1>6. ASSUME NEW p \in Procs, MarkThrows(p) \/ Kill(p) \/ KillWriter(p) PROVE LossInv'
  <2>1. /\ Loses(p) /\ proc[p].phase # "none" /\ UNCHANGED ledger
        /\ proc[p].phase = "writing" \/ UNCHANGED file
    BY <1>6 DEF MarkThrows, Kill, KillWriter
  <2>2. proc'[p] = NoProc /\ OnlyProc(p)
    BY <1>6, EndsProc DEF MarkThrows, Kill, KillWriter, SyncTyped
  <2> QED
    BY <2>1, <2>2, LosesKept
<1>7. ASSUME NEW p \in Procs, DaemonDies(p) PROVE LossInv'
  <2>1. ~Truncate(p) /\ UNCHANGED <<file, ledger, causes>>
    <3>1. disturbances \in 0 .. MaxDisturbances
      BY Zenon DEF SyncTyped, RestTyped
    <3> QED
      BY <1>7, <3>1, SyncConstants DEF DaemonDies, Truncate, Disturbed
  <2>2. /\ OnlyProc(p) /\ proc'[p].phase = proc[p].phase
        /\ proc'[p].existing = proc[p].existing /\ proc'[p].fresh = proc[p].fresh
    BY <1>7, <2>1, MovedProc DEF SyncTyped
  <2>3. Alone' /\ HasRead'
    BY <2>1, <2>2 DEF LossInv, Alone, HasRead, OnlyProc
  <2>4. \A q \in Procs, w \in Workouts : Active(q) /\ Holds(q, w) => Active(q)' /\ Holds(q, w)'
    BY <2>2 DEF Active, Holds, OnlyProc
  <2>5. Kept'
    BY <2>1, <2>4 DEF LossInv, Kept, Success
  <2> QED
    BY <2>3, <2>5 DEF LossInv
<1>8. ASSUME NEW p \in Procs, Truncate(p) PROVE LossInv'
  <2>1. proc[p].phase = "write" /\ UNCHANGED <<ledger, causes>> /\ file'.copies = None
    BY <1>8 DEF Truncate, File
  <2>2. /\ OnlyProc(p) /\ proc'[p].phase = "writing"
        /\ proc'[p].existing = proc[p].existing /\ proc'[p].fresh = proc[p].fresh
    BY <1>8, MovedProc DEF SyncTyped
  <2>3. Alone'
    BY <2>1, <2>2 DEF LossInv, Alone, OnlyProc
  <2>4. HasRead'
    BY <2>1, <2>2 DEF LossInv, HasRead, Alone, OnlyProc
  <2>5. \A q \in Procs, w \in Workouts : Active(q) /\ Holds(q, w) => Active(q)' /\ Holds(q, w)'
    BY <2>1, <2>2 DEF Active, Holds, OnlyProc
  <2>6. "overlap" \notin causes => \A w \in Workouts : file.copies[w] > 0 => Active(p)' /\ Holds(p, w)'
    BY <2>1, <2>2 DEF LossInv, HasRead, Active, Holds
  <2>7. Kept'
    BY <2>1, <2>5, <2>6 DEF LossInv, Kept, Success
  <2> QED
    BY <2>3, <2>4, <2>7 DEF LossInv
<1>9. ASSUME NEW p \in Procs, Write(p) PROVE LossInv'
  <2>1. proc[p].phase = "writing" /\ UNCHANGED <<ledger, causes>> /\ file'.copies = Merged(p)
    BY <1>9 DEF Write, File
  <2>2. OnlyProc(p) /\ proc'[p] = NoProc /\ NoProc.phase = "none"
    BY <1>9, EndsProc DEF Write, SyncTyped, NoProc
  <2>3. Alone'
    BY <2>1, <2>2 DEF LossInv, Alone, OnlyProc
  <2>4. HasRead'
    BY <2>1, <2>2 DEF LossInv, HasRead, Alone, OnlyProc
  <2>5. proc[p].existing \in Counts /\ proc[p].fresh \in Counts
    BY DEF SyncTyped, Processes
  <2>6. \A w \in Workouts : Holds(p, w) => file'.copies[w] > 0
    BY <2>1, <2>5, CountsTyped DEF Holds, Merged, Counts
  <2>7. Kept'
    <3> SUFFICES ASSUME causes \cap {"loss", "overlap"} = {}, NEW w \in Workouts, Success(w)
                 PROVE  file'.copies[w] > 0
      BY <2>1 DEF Kept, Success
    <3>1. file.copies = None /\ \A q \in Procs : Active(q) => q = p
      BY <2>1 DEF LossInv, HasRead, Alone, Active
    <3>2. ~(file.copies[w] > 0)
      BY <3>1 DEF None
    <3> QED
      BY <2>6, <3>1, <3>2 DEF LossInv, Kept
  <2> QED
    BY <2>3, <2>4, <2>7 DEF LossInv
<1> QED
  BY <1>1, <1>2, <1>3, <1>4, <1>5, <1>6, <1>7, <1>8, <1>9 DEF SyncNext, Works

\* A workout is synced but not recorded only after an attempt has died between its
\* marks and the end of its write, or two processes have worked at once.
THEOREM LossCaused == SyncSpec => []LossHasACause
<1>1. SyncInit => LossInv
  BY DEF SyncInit, LossInv, Alone, HasRead, Kept, NoProc, Success, NoRow
<1>2. LossInv => LossHasACause
  BY DEF LossInv, Kept, Active, LossHasACause, SyncedIsRecorded, AtRest
<1>3. SyncSpec => [](SyncTyped /\ LossInv)
  BY <1>1, InitSync, StepSync, StepKept, PTL DEF SyncSpec
<1> QED
  BY <1>2, <1>3, PTL

-----------------------------------------------------------------------------
(* What is recorded is recorded once. *)

Undisturbed == causes \cap {"shift", "failed mark"} = {}

\* The account has the workout on a page before the n-th.
OnPageBefore(w, n) == \E i \in DOMAIN account : account[i] = w /\ PageNo(i) < n

\* A process finds a workout once, on a page it has read.
FoundOnce(p, w) ==
  /\ proc[p].found[w] <= 1
  /\ proc[p].phase \in {"page", "call"} /\ proc[p].found[w] = 1 => OnPageBefore(w, proc[p].page)

\* It writes a workout once, and has synced it by then.
WrittenOnce(p, w) ==
  /\ proc[p].existing[w] + proc[p].todo[w] + proc[p].fresh[w] <= 1
  /\ proc[p].existing[w] > 0 \/ proc[p].fresh[w] > 0 => Success(w)
  /\ proc[p].phase \in {"page", "call", "plan"} => proc[p].fresh[w] = 0

\* While the pages did not shift and no mark has failed, the cache has the pages as
\* they are, and what is in the file is synced.
OnceInv ==
  Undisturbed =>
    /\ \A m \in DOMAIN cache : cache[m] = PageOf(cache[m].page)
    /\ \A w \in Workouts : file.copies[w] <= 1 /\ (file.copies[w] > 0 => Success(w))
    /\ \A p \in Procs, w \in Workouts : FoundOnce(p, w) /\ WrittenOnce(p, w)

LEMMA PageNoTyped ==
  ASSUME SyncTyped, NEW i \in DOMAIN account
  PROVE  PageNo(i) \in Nat
<1>1. i - 1 \in Nat /\ PageSize \in Nat \ {0}
  BY WorldTyped, SyncConstants
<1>2. (i - 1) \div PageSize \in Nat
  BY <1>1, DivBounds
<1> QED
  BY <1>2 DEF PageNo

\* A workout is on one page, so a further page adds none that was found before.
LEMMA ReceivedOnce ==
  ASSUME SyncTyped, NEW p \in Procs, NEW w \in Workouts, FoundOnce(p, w),
         proc[p].phase \in {"page", "call"}, Received(p, PageOf(proc[p].page)), UNCHANGED account
  PROVE  FoundOnce(p, w)'
<1> DEFINE n == proc[p].page
           reply == PageOf(n)
<1>0. proc[p] \in Processes /\ n \in Nat \ {0} /\ proc[p].found \in Counts /\ proc[p].found[w] \in Nat
  BY DEF SyncTyped, Processes, Counts
<1>1. reply \in Replies
  BY <1>0, PageTyped
<1>2. proc'[p].page = n + 1 /\ proc'[p].found = Plus(proc[p].found, Once(reply.workouts))
  BY <1>1, ReceivedProc DEF SyncTyped
<1>3. proc'[p].found[w] = proc[p].found[w] + (IF w \in reply.workouts THEN 1 ELSE 0)
  BY <1>0, <1>2, CountsTyped
<1>4. w \in reply.workouts <=> \E i \in DOMAIN account : account[i] = w /\ PageNo(i) = n
  BY DEF PageOf
<1> HIDE DEF reply
<1>5. CASE w \in reply.workouts
  <2>1. PICK i \in DOMAIN account : account[i] = w /\ PageNo(i) = n
    BY <1>4, <1>5
  <2>2. ~OnPageBefore(w, n)
    <3> SUFFICES ASSUME NEW j \in DOMAIN account, account[j] = w, PageNo(j) < n PROVE FALSE
      BY DEF OnPageBefore
    <3>1. i = j
      BY <2>1 DEF SyncTyped, Distinct
    <3> QED
      BY <1>0, <2>1, <3>1
  <2>3. proc[p].found[w] = 0
    BY <1>0, <2>2 DEF FoundOnce
  <2>4. PageNo(i)' < proc'[p].page /\ i \in DOMAIN account' /\ account'[i] = w
    BY <1>0, <1>2, <2>1 DEF PageNo
  <2>5. OnPageBefore(w, proc[p].page)'
    BY Zenon, <2>4 DEF OnPageBefore
  <2> QED
    BY <1>3, <1>5, <2>3, <2>5 DEF FoundOnce
<1>6. CASE w \notin reply.workouts
  <2>1. proc'[p].found[w] = proc[p].found[w]
    BY <1>0, <1>3, <1>6
  <2>2. ASSUME OnPageBefore(w, n) PROVE OnPageBefore(w, proc[p].page)'
    <3>1. PICK j \in DOMAIN account : account[j] = w /\ PageNo(j) < n
      BY <2>2 DEF OnPageBefore
    <3>2. PageNo(j) \in Nat
      BY PageNoTyped
    <3>3. PageNo(j)' < proc'[p].page /\ j \in DOMAIN account' /\ account'[j] = w
      BY <1>0, <1>2, <3>1, <3>2 DEF PageNo
    <3> QED
      BY Zenon, <3>3 DEF OnPageBefore
  <2> QED
    BY <2>1, <2>2 DEF FoundOnce
<1> QED
  BY <1>5, <1>6

\* Processes that take no step.
LEMMA OthersOnce ==
  ASSUME NEW p \in Procs, NEW w \in Workouts, proc'[p] = proc[p], FoundOnce(p, w), WrittenOnce(p, w),
         Success(w) => Success(w)'
  PROVE  /\ WrittenOnce(p, w)'
         /\ UNCHANGED account => FoundOnce(p, w)'
         /\ proc[p].phase \notin {"page", "call"} => FoundOnce(p, w)'
BY DEF FoundOnce, WrittenOnce, OnPageBefore, PageNo

LEMMA NoProcOnce ==
  ASSUME NEW p \in Procs, NEW w \in Workouts, proc'[p] \in {NoProc, [NoProc EXCEPT !.phase = "page"]}
  PROVE  FoundOnce(p, w)' /\ WrittenOnce(p, w)'
<1>1. /\ proc'[p].found = None /\ proc'[p].todo = None /\ proc'[p].existing = None
      /\ proc'[p].fresh = None
  BY DEF NoProc
<1>2. None[w] = 0
  BY DEF None
<1> QED
  BY <1>1, <1>2 DEF FoundOnce, WrittenOnce

\* A step of one process that leaves the account, the file and the ledger alone.
LEMMA ProcOnce ==
  ASSUME OnceInv, NEW p \in Procs, OnlyProc(p), UNCHANGED <<account, file, ledger>>,
         causes \subseteq causes',
         \A m \in DOMAIN cache' :
           \/ \E n \in DOMAIN cache : cache'[m] = cache[n]
           \/ cache'[m] = PageOf(cache'[m].page),
         \A w \in Workouts : FoundOnce(p, w) /\ WrittenOnce(p, w) => FoundOnce(p, w)' /\ WrittenOnce(p, w)'
  PROVE  OnceInv'
<1> SUFFICES ASSUME Undisturbed'
             PROVE  /\ \A m \in DOMAIN cache' : (cache[m] = PageOf(cache[m].page))'
                    /\ \A w \in Workouts :
                         file'.copies[w] <= 1 /\ (file'.copies[w] > 0 => Success(w)')
                    /\ \A q \in Procs, w \in Workouts : FoundOnce(q, w)' /\ WrittenOnce(q, w)'
  BY DEF OnceInv
<1>1. Undisturbed
  BY DEF Undisturbed
<1>2. \A n : PageOf(n)' = PageOf(n)
  BY DEF PageOf, PageNo
<1>3. \A m \in DOMAIN cache' : (cache[m] = PageOf(cache[m].page))'
  BY <1>1, <1>2 DEF OnceInv
<1>4. \A w \in Workouts : Success(w)' <=> Success(w)
  BY DEF Success
<1>5. \A q \in Procs, w \in Workouts : FoundOnce(q, w)' /\ WrittenOnce(q, w)'
  BY <1>1, <1>4, OthersOnce DEF OnceInv, OnlyProc
<1> QED
  BY <1>1, <1>3, <1>4, <1>5 DEF OnceInv

\* A process is gone, and the file is as it was or empty.
LEMMA GoneOnce ==
  ASSUME OnceInv, NEW p \in Procs, OnlyProc(p), proc'[p] = NoProc,
         UNCHANGED <<account, cache, ledger>>, causes \subseteq causes',
         \A w \in Workouts :
           Undisturbed => file'.copies[w] <= 1 /\ (file'.copies[w] > 0 => Success(w))
  PROVE  OnceInv'
<1> SUFFICES ASSUME Undisturbed'
             PROVE  /\ \A m \in DOMAIN cache' : (cache[m] = PageOf(cache[m].page))'
                    /\ \A w \in Workouts :
                         file'.copies[w] <= 1 /\ (file'.copies[w] > 0 => Success(w)')
                    /\ \A q \in Procs, w \in Workouts : FoundOnce(q, w)' /\ WrittenOnce(q, w)'
  BY DEF OnceInv
<1>1. Undisturbed
  BY DEF Undisturbed
<1>2. \A m \in DOMAIN cache' : (cache[m] = PageOf(cache[m].page))'
  BY <1>1 DEF OnceInv, PageOf, PageNo
<1>3. \A w \in Workouts : Success(w)' <=> Success(w)
  BY DEF Success
<1>4. \A q \in Procs, w \in Workouts : FoundOnce(q, w)' /\ WrittenOnce(q, w)'
  BY <1>1, <1>3, OthersOnce, NoProcOnce DEF OnceInv, OnlyProc
<1> QED
  BY <1>1, <1>2, <1>3, <1>4

\* A mark moves a workout from what is to do to what is synced and will be written.
LEMMA MarkOnce ==
  ASSUME SyncTyped, OnceInv, NEW p \in Procs, Mark(p)
  PROVE  OnceInv'
<1>1. PICK w \in Workouts :
        /\ proc[p].todo[w] > 0 /\ Marked(p, w, FALSE)
        /\ ledger' = markWorkItem(ledger, JOB_NAME, w, Row("success", 1, w))
  BY DEF Mark
<1>2. proc[p].phase = "mark" /\ UNCHANGED <<account, cache, file, causes>>
  BY DEF Mark, world
<1>3. /\ OnlyProc(p) /\ proc'[p].phase \in {"mark", "write"}
      /\ proc'[p].existing = proc[p].existing /\ proc'[p].found = proc[p].found
      /\ proc'[p].todo = [proc[p].todo EXCEPT ![w] = @ - 1]
      /\ proc'[p].fresh = [proc[p].fresh EXCEPT ![w] = @ + 1]
  <2>1. /\ proc' \in [Procs -> Processes] /\ OnlyProc(p)
        /\ proc'[p].phase \in {"mark", "write"}
        /\ proc'[p].existing = proc[p].existing /\ proc'[p].found = proc[p].found
        /\ proc'[p].todo = [proc[p].todo EXCEPT ![w] = @ - 1]
        /\ proc'[p].fresh = [proc[p].fresh EXCEPT ![w] = @ + 1]
    <3>1. proc \in [Procs -> Processes] /\ FALSE \in BOOLEAN
      BY DEF SyncTyped
    <3> QED
      BY <1>1, <3>1, MarkedProc
  <2> QED
    BY <2>1
<1>4. \A x \in Workouts : Success(x)' <=> x = w \/ Success(x)
  BY <1>1, MarkTyped DEF SyncTyped, RestTyped, WorkStatus
<1>5. ASSUME NEW x \in Workouts, FoundOnce(p, x), WrittenOnce(p, x)
      PROVE  FoundOnce(p, x)' /\ WrittenOnce(p, x)'
  <2>1. /\ proc[p].todo \in Counts /\ proc[p].fresh \in Counts /\ proc[p].existing \in Counts
    BY DEF SyncTyped, Processes
  <2>2. proc'[p].todo[x] + proc'[p].fresh[x] = proc[p].todo[x] + proc[p].fresh[x]
    BY <1>3, <2>1 DEF Counts
  <2>3. /\ proc[p].todo[x] \in Nat /\ proc[p].fresh[x] \in Nat /\ proc[p].existing[x] \in Nat
        /\ proc'[p].todo[x] \in Int /\ proc'[p].fresh[x] \in Int
    BY <1>3, <2>1 DEF Counts
  <2>4. proc'[p].existing[x] + proc'[p].todo[x] + proc'[p].fresh[x] <= 1
    BY <1>3, <1>5, <2>2, <2>3 DEF WrittenOnce
  <2>5. proc'[p].existing[x] > 0 \/ proc'[p].fresh[x] > 0 => Success(x)'
    BY <1>3, <1>4, <1>5, <2>1 DEF WrittenOnce, Counts
  <2> QED
    BY <1>3, <1>5, <2>4, <2>5 DEF FoundOnce, WrittenOnce
<1>6. ASSUME Undisturbed'
      PROVE  /\ \A m \in DOMAIN cache' : (cache[m] = PageOf(cache[m].page))'
             /\ \A x \in Workouts : file'.copies[x] <= 1 /\ (file'.copies[x] > 0 => Success(x)')
             /\ \A q \in Procs, x \in Workouts : FoundOnce(q, x)' /\ WrittenOnce(q, x)'
  <2>1. Undisturbed
    BY <1>2, <1>6 DEF Undisturbed
  <2>2. \A m \in DOMAIN cache' : (cache[m] = PageOf(cache[m].page))'
    BY <1>2, <2>1 DEF OnceInv, PageOf, PageNo
  <2>3. \A q \in Procs, x \in Workouts : FoundOnce(q, x)' /\ WrittenOnce(q, x)'
    BY <1>2, <1>3, <1>4, <1>5, <2>1, OthersOnce DEF OnceInv, OnlyProc
  <2> QED
    BY <1>2, <1>4, <2>1, <2>2, <2>3 DEF OnceInv
<1> QED
  BY <1>6 DEF OnceInv

\* What is planned was not synced, so the file did not have it.
LEMMA PlanOnce ==
  ASSUME SyncTyped, OnceInv, Undisturbed, NEW p \in Procs, NEW w \in Workouts,
         proc[p].phase = "plan",
         proc'[p] = [proc[p] EXCEPT !.todo = Todo(proc[p].found), !.existing = file.copies,
                                    !.phase = "mark"],
         UNCHANGED ledger
  PROVE  FoundOnce(p, w)' /\ WrittenOnce(p, w)'
<1>1. /\ proc[p] \in Processes /\ proc[p].found \in Counts /\ file.copies \in Counts
  BY WorldTyped DEF SyncTyped, Processes
<1>2. /\ proc'[p].phase = "mark" /\ proc'[p].found = proc[p].found
      /\ proc'[p].todo = Todo(proc[p].found) /\ proc'[p].existing = file.copies
      /\ proc'[p].fresh = proc[p].fresh
  BY <1>1 DEF Processes
<1>3. /\ proc[p].found[w] <= 1 /\ proc[p].fresh[w] = 0
      /\ file.copies[w] <= 1 /\ (file.copies[w] > 0 => Success(w))
  BY DEF OnceInv, FoundOnce, WrittenOnce
<1>4. Todo(proc[p].found) \in Counts
      /\ (Todo(proc[p].found)[w] # 0 => Todo(proc[p].found)[w] = proc[p].found[w] /\ ~Success(w))
  BY <1>1, TodoTyped
<1>5. /\ proc[p].found[w] \in Nat /\ file.copies[w] \in Nat /\ Todo(proc[p].found)[w] \in Nat
  BY <1>1, <1>4 DEF Counts
<1>6. proc'[p].existing[w] + proc'[p].todo[w] + proc'[p].fresh[w] <= 1
  BY <1>2, <1>3, <1>4, <1>5
<1>7. Success(w)' <=> Success(w)
  BY DEF Success
<1> QED
  BY <1>2, <1>3, <1>6, <1>7 DEF FoundOnce, WrittenOnce

LEMMA StepOnce == SyncTyped /\ OnceInv /\ [SyncNext]_syncVars => OnceInv'
<1> SUFFICES ASSUME SyncTyped, OnceInv, [SyncNext]_syncVars PROVE OnceInv'
  OBVIOUS
<1>1. CASE Edit
  <2>1. UNCHANGED <<cache, ledger, file, proc>>
    BY <1>1 DEF Edit
  <2>2. Undisturbed' =>
          Undisturbed /\ cache = <<>> /\ \A p \in Procs : proc[p].phase \notin {"page", "call"}
    BY <1>1 DEF Edit, Shifts, Undisturbed
  <2>3. \A w \in Workouts : Success(w)' <=> Success(w)
    BY <2>1 DEF Success
  <2>4. Undisturbed' => \A p \in Procs, w \in Workouts : FoundOnce(p, w)' /\ WrittenOnce(p, w)'
    BY <2>1, <2>2, <2>3, OthersOnce DEF OnceInv
  <2>5. Undisturbed' => \A m \in DOMAIN cache' : (cache[m] = PageOf(cache[m].page))'
    BY <2>1, <2>2
  <2>6. Undisturbed' =>
          \A w \in Workouts : file'.copies[w] <= 1 /\ (file'.copies[w] > 0 => Success(w)')
    BY <2>1, <2>2, <2>3 DEF OnceInv
  <2> QED
    BY <2>4, <2>5, <2>6 DEF OnceInv
<1>2. CASE Expire
  <2>1. UNCHANGED <<account, ledger, file, proc, causes>>
    BY <1>2 DEF Expire, world
  <2>2. \A m \in DOMAIN cache' : \E n \in DOMAIN cache : cache'[m] = cache[n]
    BY Zenon, <1>2, CacheExpires DEF SyncTyped, RestTyped
  <2>3. Undisturbed' => \A m \in DOMAIN cache' : (cache[m] = PageOf(cache[m].page))'
    <3>1. \A n : PageOf(n)' = PageOf(n)
      BY <2>1 DEF PageOf, PageNo
    <3>2. Undisturbed' => Undisturbed
      BY <2>1 DEF Undisturbed
    <3> QED
      BY <2>1, <2>2, <3>2 DEF OnceInv, PageOf, PageNo
  <2> QED
    BY <2>1, <2>3 DEF OnceInv, FoundOnce, WrittenOnce, OnPageBefore, PageNo, Success, Undisturbed
<1>3. ASSUME NEW p \in Procs, Start(p) PROVE OnceInv'
  <2>1. OnlyProc(p) /\ proc'[p] = [NoProc EXCEPT !.phase = "page"]
    BY <1>3, StartProc DEF SyncTyped
  <2>2. UNCHANGED <<account, cache, file, ledger>> /\ causes \subseteq causes'
    BY <1>3 DEF Start, world
  <2> QED
    BY <2>1, <2>2, NoProcOnce, ProcOnce
<1>4. ASSUME NEW p \in Procs, LookUp(p) PROVE OnceInv'
  <2>1. proc[p].phase = "page" /\ UNCHANGED <<account, cache, file, ledger, causes>> /\ OnlyProc(p)
    BY <1>4, LookUpProc DEF LookUp, world
  <2>2. CASE proc'[p] = [proc[p] EXCEPT !.phase = "call"]
    <3>1. /\ proc'[p].phase = "call" /\ proc'[p].page = proc[p].page
          /\ proc'[p].found = proc[p].found /\ proc'[p].todo = proc[p].todo
          /\ proc'[p].existing = proc[p].existing /\ proc'[p].fresh = proc[p].fresh
      BY <2>2 DEF SyncTyped, Processes
    <3>2. \A w \in Workouts :
            FoundOnce(p, w) /\ WrittenOnce(p, w) => FoundOnce(p, w)' /\ WrittenOnce(p, w)'
      BY <2>1, <3>1 DEF FoundOnce, WrittenOnce, OnPageBefore, PageNo, Success
    <3> QED
      BY <2>1, <3>2, ProcOnce
  <2>3. CASE \E i \in DOMAIN cache :
               cache[i] \in Replies /\ cache[i].page = proc[p].page /\ Received(p, cache[i])
    <3>1. PICK i \in DOMAIN cache :
            cache[i] \in Replies /\ cache[i].page = proc[p].page /\ Received(p, cache[i])
      BY <2>3
    <3>2. /\ proc'[p].phase \in {"page", "plan"} /\ proc'[p].todo = proc[p].todo
          /\ proc'[p].existing = proc[p].existing /\ proc'[p].fresh = proc[p].fresh
      BY <3>1, ReceivedProc DEF SyncTyped
    <3>3. \A w \in Workouts : WrittenOnce(p, w) => WrittenOnce(p, w)'
      BY <2>1, <3>2 DEF WrittenOnce, Success
    <3>4. CASE Undisturbed
      <4>1. cache[i] = PageOf(proc[p].page)
        BY <3>1, <3>4 DEF OnceInv
      <4>2. \A w \in Workouts : FoundOnce(p, w) => FoundOnce(p, w)'
        BY <2>1, <3>1, <4>1, ReceivedOnce
      <4> QED
        BY <2>1, <3>3, <4>2, ProcOnce
    <3>5. CASE ~Undisturbed
      BY <2>1, <3>5 DEF OnceInv, Undisturbed
    <3> QED
      BY <3>4, <3>5
  <2> QED
    BY <1>4, <2>2, <2>3, LookUpProc
<1>5. ASSUME NEW p \in Procs, Answer(p) PROVE OnceInv'
  <2> DEFINE reply == PageOf(proc[p].page)
  <2>1. /\ proc[p].phase = "call" /\ Received(p, reply) /\ setCached(reply)
        /\ UNCHANGED <<account, file, ledger, causes>>
    BY <1>5 DEF Answer, world
  <2>2. reply \in Replies /\ reply.page = proc[p].page
    <3>1. proc[p].page \in Nat
      BY DEF SyncTyped, Processes
    <3> QED
      BY <3>1, PageTyped
  <2>3. \A m \in DOMAIN cache' : cache'[m] = reply \/ \E n \in DOMAIN cache : cache'[m] = cache[n]
    <3> HIDE DEF reply
    <3>1. cache \in Seq(Replies) /\ OnePage
      BY Zenon DEF SyncTyped, RestTyped
    <3> QED
      BY Zenon, <2>1, <2>2, <3>1, CacheSet
  <2>4. \A m \in DOMAIN cache' :
          \/ \E n \in DOMAIN cache : cache'[m] = cache[n]
          \/ cache'[m] = PageOf(cache'[m].page)
    BY <2>2, <2>3
  <2>5. /\ OnlyProc(p) /\ proc'[p].phase \in {"page", "plan"} /\ proc'[p].todo = proc[p].todo
        /\ proc'[p].existing = proc[p].existing /\ proc'[p].fresh = proc[p].fresh
    <3> HIDE DEF reply
    <3> QED
      BY <2>1, <2>2, ReceivedProc DEF SyncTyped
  <2>6. \A w \in Workouts : WrittenOnce(p, w) => WrittenOnce(p, w)'
    BY <2>1, <2>5 DEF WrittenOnce, Success
  <2>7. \A w \in Workouts : FoundOnce(p, w) => FoundOnce(p, w)'
    BY <2>1, ReceivedOnce
  <2> QED
    BY <2>1, <2>4, <2>5, <2>6, <2>7, ProcOnce
<1>6. ASSUME NEW p \in Procs, Plan(p) PROVE OnceInv'
  <2>1. proc[p].phase = "plan" /\ UNCHANGED <<account, cache, file, ledger, causes>> /\ OnlyProc(p)
    BY <1>6, PlanProc DEF Plan, world
  <2>2. CASE ~Undisturbed
    BY <2>1, <2>2 DEF OnceInv, Undisturbed
  <2>3. CASE Undisturbed
    <3>1. \A w \in Workouts : FoundOnce(p, w)' /\ WrittenOnce(p, w)'
      BY <1>6, <2>1, <2>3, PlanProc, PlanOnce, NoProcOnce
    <3> QED
      BY <2>1, <3>1, ProcOnce
  <2> QED
    BY <2>2, <2>3
<1>7. ASSUME NEW p \in Procs, MarkFails(p) PROVE OnceInv'
  BY <1>7 DEF MarkFails, OnceInv, Undisturbed
<1>8. ASSUME NEW p \in Procs, CallFails(p) \/ MarkThrows(p) \/ Kill(p) \/ KillWriter(p) PROVE OnceInv'
  <2>1. proc'[p] = NoProc /\ OnlyProc(p)
    BY <1>8, EndsProc DEF CallFails, MarkThrows, Kill, KillWriter, SyncTyped
  <2>2. UNCHANGED <<account, cache, ledger>> /\ causes \subseteq causes' /\ file' \in {file, TornFile}
    BY <1>8 DEF CallFails, MarkThrows, Kill, KillWriter, Loses, world
  <2>3. \A w \in Workouts :
          Undisturbed => file'.copies[w] <= 1 /\ (file'.copies[w] > 0 => Success(w))
    BY <2>2 DEF OnceInv, TornFile, None
  <2> QED
    BY <2>1, <2>2, <2>3, GoneOnce
<1>9. ASSUME NEW p \in Procs, DaemonDies(p) \/ Truncate(p) PROVE OnceInv'
  <2>1. /\ OnlyProc(p)
        /\ proc'[p].page = proc[p].page /\ proc'[p].found = proc[p].found
        /\ proc'[p].todo = proc[p].todo /\ proc'[p].existing = proc[p].existing
        /\ proc'[p].fresh = proc[p].fresh
        /\ proc'[p].phase \in {proc[p].phase, "writing"}
    BY <1>9, MovedProc DEF SyncTyped
  <2>2. /\ UNCHANGED <<account, cache, ledger, causes>>
        /\ file'.copies \in {file.copies, None}
    BY <1>9 DEF DaemonDies, Truncate, File, world
  <2>3. \A w \in Workouts : FoundOnce(p, w) /\ WrittenOnce(p, w) => FoundOnce(p, w)' /\ WrittenOnce(p, w)'
    BY <2>1, <2>2 DEF FoundOnce, WrittenOnce, OnPageBefore, PageNo, Success
  <2>4. \A w \in Workouts : Success(w)' <=> Success(w)
    BY <2>2 DEF Success
  <2>5. Undisturbed' => Undisturbed
    BY <2>2 DEF Undisturbed
  <2>6. Undisturbed => \A q \in Procs, w \in Workouts : FoundOnce(q, w)' /\ WrittenOnce(q, w)'
    BY <2>1, <2>2, <2>3, <2>4, OthersOnce DEF OnceInv, OnlyProc
  <2>7. Undisturbed => \A m \in DOMAIN cache' : (cache[m] = PageOf(cache[m].page))'
    BY <2>2 DEF OnceInv, PageOf, PageNo
  <2>8. Undisturbed =>
          \A w \in Workouts : file'.copies[w] <= 1 /\ (file'.copies[w] > 0 => Success(w)')
    BY <2>2, <2>4 DEF OnceInv, None
  <2> QED
    BY <2>5, <2>6, <2>7, <2>8 DEF OnceInv
<1>10. ASSUME NEW p \in Procs, Write(p) PROVE OnceInv'
  <2>1. UNCHANGED <<account, cache, ledger, causes>> /\ file'.copies = Merged(p)
    BY <1>10 DEF Write, File, world
  <2>2. OnlyProc(p) /\ proc'[p] = NoProc
    BY <1>10, EndsProc DEF Write, SyncTyped
  <2>3. /\ proc[p].existing \in Counts /\ proc[p].fresh \in Counts /\ proc[p].todo \in Counts
    BY DEF SyncTyped, Processes
  <2>4. \A w \in Workouts :
          Undisturbed => file'.copies[w] <= 1 /\ (file'.copies[w] > 0 => Success(w))
    <3> SUFFICES ASSUME NEW w \in Workouts, Undisturbed
                 PROVE  file'.copies[w] <= 1 /\ (file'.copies[w] > 0 => Success(w))
      OBVIOUS
    <3>1. file'.copies[w] = proc[p].existing[w] + proc[p].fresh[w]
      BY <2>1, <2>3, CountsTyped DEF Merged
    <3>2. WrittenOnce(p, w)
      BY DEF OnceInv
    <3> QED
      BY <2>3, <3>1, <3>2 DEF WrittenOnce, Counts
  <2> QED
    BY <2>1, <2>2, <2>4, GoneOnce
<1>11. CASE UNCHANGED syncVars
  <2>1. UNCHANGED <<account, cache, ledger, file, proc, causes>>
    BY <1>11 DEF syncVars, world
  <2>2. Undisturbed' => Undisturbed
    BY <2>1 DEF Undisturbed
  <2>3. \A w \in Workouts : Success(w)' <=> Success(w)
    BY <2>1 DEF Success
  <2>4. Undisturbed => \A q \in Procs, w \in Workouts : FoundOnce(q, w)' /\ WrittenOnce(q, w)'
    BY <2>1, <2>3, OthersOnce DEF OnceInv
  <2>5. Undisturbed => \A m \in DOMAIN cache' : (cache[m] = PageOf(cache[m].page))'
    BY <2>1 DEF OnceInv, PageOf, PageNo
  <2>6. Undisturbed =>
          \A w \in Workouts : file'.copies[w] <= 1 /\ (file'.copies[w] > 0 => Success(w)')
    BY <2>1, <2>3 DEF OnceInv
  <2> QED
    BY <2>2, <2>4, <2>5, <2>6 DEF OnceInv
<1> QED
  BY <1>1, <1>2, <1>3, <1>4, <1>5, <1>6, <1>7, <1>8, <1>9, <1>10, <1>11, MarkOnce DEF SyncNext, Works

\* The history repeats a workout only if the account was edited under cached pages or
\* between two calls, or a mark failed.
THEOREM RepetitionCaused == SyncSpec => []RepetitionHasACause
<1>1. SyncInit => OnceInv
  <2> SUFFICES ASSUME SyncInit PROVE OnceInv
    OBVIOUS
  <2>1. \A w \in Workouts : None[w] = 0
    BY DEF None
  <2>2. cache = <<>> /\ file.copies = None /\ \A p \in Procs : proc[p] = NoProc
    BY DEF SyncInit, File
  <2>3. NoProc.found = None /\ NoProc.todo = None /\ NoProc.existing = None /\ NoProc.fresh = None
    BY DEF NoProc
  <2> QED
    BY <2>1, <2>2, <2>3 DEF OnceInv, FoundOnce, WrittenOnce
<1>2. OnceInv => RepetitionHasACause
  BY DEF OnceInv, Undisturbed, RepetitionHasACause, RecordedOnce
<1>3. SyncSpec => [](SyncTyped /\ OnceInv)
  BY <1>1, InitSync, StepSync, StepOnce, PTL DEF SyncSpec
<1> QED
  BY <1>2, <1>3, PTL
=============================================================================
