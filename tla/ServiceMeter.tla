---------------------------- MODULE ServiceMeter ----------------------------
(***************************************************************************)
(* The shared meter of one external service: callService                   *)
(* (core/services.ts) over the service_usage table (db/store/services.ts). *)
(* The callers are job processes; every statement on the table is atomic,  *)
(* and so is the IMMEDIATE transaction of a reservation, but between two   *)
(* of them the other processes go on.                                      *)
(*                                                                         *)
(* Time is counted in ticks.  A usage row holds datetime('now'), which     *)
(* drops the fraction of the second; julianday('now') and Date.now() keep  *)
(* it.  A call answered from the response cache does not reach the meter.  *)
(***************************************************************************)
EXTENDS Integers, FiniteSets

CONSTANTS
  Callers,          \* job processes that call the service
  Modes,            \* which limits the definition may have, of "interval", "rate", "plain"
  MonthlyCap, DailyCap,
  RatePerWindow,    \* calls per window
  MinInterval,      \* ticks between calls in mode "interval"
  MaxWait,          \* ticks a caller waits for a slot before it gives up
  Second,           \* ticks in a second
  Window,           \* seconds in the rate window
  Day, Month,       \* seconds in a day and in a month
  MaxTime,          \* bound: ticks
  MaxCalls          \* bound: calls of one process

ASSUME MeterAssumption ==
  /\ IsFiniteSet(Callers) /\ Callers # {}
  /\ Modes \subseteq {"interval", "rate", "plain"}
  /\ {MonthlyCap, DailyCap, Second, Day, Month} \subseteq Nat \ {0}
  /\ {RatePerWindow, MinInterval, MaxWait, Window, MaxTime, MaxCalls} \subseteq Nat

VARIABLES
  now,      \* the clock, in ticks
  usage,    \* the service_usage rows of the service: who, its how-manieth call, when
  mode,     \* the limits in force
  pc,       \* where a caller is: "idle", "monthOk" (between the two quota reads),
            \* "cleared" (past the quota, reserving or waiting for a slot), "killed"
  since,    \* when it began to wait
  calls     \* calls it has made

meterVars == <<now, usage, mode, pc, since, calls>>

UsageRow == [by : Callers, no : 0 .. MaxCalls, at : 0 .. MaxTime]

\* The second a row is stored with.
Stored(t) == t \div Second

\* COUNT(*) of the rows from a second on.
CountFrom(sec) == Cardinality({u \in usage : Stored(u.at) >= sec})

CallsToday == CountFrom((Stored(now) \div Day) * Day)

CallsThisMonth == CountFrom((Stored(now) \div Month) * Month)

MeterInit ==
  /\ now = 0
  /\ usage = {}
  /\ mode \in Modes
  /\ pc = [c \in Callers |-> "idle"]
  /\ since = [c \in Callers |-> 0]
  /\ calls = [c \in Callers |-> 0]

-----------------------------------------------------------------------------
\* The quota: two reads, each of which may end the call with QuotaExceededError.

CheckMonth(c) ==
  /\ pc[c] = "idle"
  /\ calls[c] < MaxCalls
  /\ CallsThisMonth < MonthlyCap
  /\ pc' = [pc EXCEPT ![c] = "monthOk"]
  /\ UNCHANGED <<now, usage, mode, since, calls>>

\* Mutant of CheckDay: the read of the daily quota is missing.
SkipDay(c) ==
  /\ pc[c] = "monthOk"
  /\ pc' = [pc EXCEPT ![c] = "cleared"]
  /\ since' = [since EXCEPT ![c] = now]
  /\ UNCHANGED <<now, usage, mode, calls>>

CheckDay(c) ==
  /\ pc[c] = "monthOk"
  /\ IF CallsToday < DailyCap
     THEN /\ pc' = [pc EXCEPT ![c] = "cleared"]
          /\ since' = [since EXCEPT ![c] = now]
     ELSE /\ pc' = [pc EXCEPT ![c] = "idle"]
          /\ UNCHANGED since
  /\ UNCHANGED <<now, usage, mode, calls>>

-----------------------------------------------------------------------------
\* The reservation.

\* Mutant of RateFree: one call too many.
RateOffByOne == CountFrom(Stored(now) - Window) <= RatePerWindow
RateFree == CountFrom(Stored(now) - Window) < RatePerWindow

\* Mutant of IntervalFree: both ends lose their fraction.
IntervalInSeconds ==
  \A u \in usage : (Stored(now) - Stored(u.at) + 1) * Second >= MinInterval

\* The gap is measured from the latest row, whose fraction is lost.
IntervalFree == \A u \in usage : now - Stored(u.at) * Second >= MinInterval

SlotFree ==
  CASE mode = "interval" -> IntervalFree
    [] mode = "rate" -> RateFree
    [] OTHER -> TRUE

\* The reservation is the usage row; a call without a rate limit just adds one.
Reserve(c) ==
  /\ pc[c] = "cleared"
  /\ SlotFree
  /\ usage' = usage \cup {[by |-> c, no |-> calls[c], at |-> now]}
  /\ calls' = [calls EXCEPT ![c] = calls[c] + 1]
  /\ pc' = [pc EXCEPT ![c] = "idle"]
  /\ UNCHANGED <<now, mode, since>>

GiveUp(c) ==
  /\ pc[c] = "cleared"
  /\ ~SlotFree
  /\ now - since[c] > MaxWait
  /\ pc' = [pc EXCEPT ![c] = "idle"]
  /\ UNCHANGED <<now, usage, mode, since, calls>>

\* The job process is killed: a timeout, a cancel, a restart of the daemon.
KillCaller(c) ==
  /\ pc[c] # "killed"
  /\ pc' = [pc EXCEPT ![c] = "killed"]
  /\ UNCHANGED <<now, usage, mode, since, calls>>

Tick ==
  /\ now < MaxTime
  /\ now' = now + 1
  /\ UNCHANGED <<usage, mode, pc, since, calls>>

MeterNext ==
  \/ Tick
  \/ \E c \in Callers : CheckMonth(c) \/ CheckDay(c) \/ Reserve(c) \/ GiveUp(c) \/ KillCaller(c)

MeterSpec == MeterInit /\ [][MeterNext]_meterVars
-----------------------------------------------------------------------------
\* Shape of the state.
MeterTypeOK ==
  /\ now \in 0 .. MaxTime
  /\ usage \subseteq UsageRow
  /\ mode \in Modes
  /\ pc \in [Callers -> {"idle", "monthOk", "cleared", "killed"}]
  /\ since \in [Callers -> 0 .. MaxTime]
  /\ calls \in [Callers -> 0 .. MaxCalls]

\* The README says that the caps hold no matter how many jobs run at once
\* (README.md:53-55).  What does hold: processes that passed the quota together overshoot it by at
\* most one call each, less one, however long they then wait for a slot and
\* whatever midnight passes in between.
OvershootBounded ==
  /\ CallsToday <= DailyCap + Cardinality(Callers) - 1
  /\ CallsThisMonth <= MonthlyCap + Cardinality(Callers) - 1

\* In no stretch of Window seconds are there more calls than the rate: two
\* processes cannot both take the last slot (db/store/services.ts:137-139).
RateHeld ==
  mode = "rate" =>
    \A t \in 0 .. MaxTime :
      Cardinality({u \in usage : t - Window * Second <= u.at /\ u.at <= t}) <= RatePerWindow

\* At least MinInterval should elapse between two calls
\* (db/store/services.ts:159-161, core/types.ts:299).  What does hold: the gap
\* is short by less than a second.
SpacingAlmostHeld ==
  mode = "interval" =>
    \A u, v \in usage :
      u # v => u.at - v.at > MinInterval - Second \/ v.at - u.at > MinInterval - Second
=============================================================================
