------------------------- MODULE RecsDigest_proofs -------------------------
(***************************************************************************)
(* What holds of the recommender workflows for any number of titles and    *)
(* films, any target and cap, any retries, and any number of refusals,     *)
(* failures, lost answers, kills, purchases and clicks.                    *)
(***************************************************************************)
EXTENDS RecsDigest, FiniteSetTheorems, WellFoundedInduction, TLAPS

-----------------------------------------------------------------------------
(* The list the merge makes. *)

\* The parts of balanceByGenre.
Earlier(found, i, g) == {j \in 1 .. i : Genre[found[j]] = g}
Rank(found, i) == Cardinality(Earlier(found, i, Genre[found[i]]))
First(found, i) == Min(Earlier(found, i, Genre[found[i]]))
Kept(found) == {i \in DOMAIN found : Rank(found, i) <= recsGenreCap}
Before(found, j, i) ==
  \/ Rank(found, j) < Rank(found, i)
  \/ Rank(found, j) = Rank(found, i) /\ First(found, j) < First(found, i)
Preceding(found, i) == {j \in Kept(found) : Before(found, j, i)}
Chosen(found) == {i \in Kept(found) : Cardinality(Preceding(found, i)) < recsTarget}

LEMMA Balancing ==
  ASSUME NEW found
  PROVE  balanceByGenre(found) = {found[i] : i \in Chosen(found)}
BY DEF balanceByGenre, Chosen, Preceding, Before, Kept, First, Rank, Earlier

LEMMA LeastExists ==
  ASSUME NEW T \in SUBSET Nat, T # {}
  PROVE  Min(T) \in T /\ \A n \in T : Min(T) <= n
<1>1. \E R : IsWellFoundedOn(R, Nat) /\ \A m, n \in Nat : <<n, m>> \in R <=> n < m
  <2>1. \A m, n \in Nat : <<n, m>> \in OpToRel(<, Nat) <=> n < m
    BY Zenon DEF OpToRel
  <2> QED
    BY Zenon, <2>1, NatLessThanWellFounded
<1>2. PICK R : IsWellFoundedOn(R, Nat) /\ \A m, n \in Nat : <<n, m>> \in R <=> n < m
  BY <1>1
<1>3. \E m \in T : \A n \in T : ~(<<n, m>> \in R)
  BY <1>2, WFMin
<1>4. PICK m \in T : \A n \in T : ~(<<n, m>> \in R)
  BY <1>3
<1>5. \A n \in T : ~(n < m)
  BY <1>2, <1>4
<1>6. \A n \in T : m <= n
  BY <1>5
<1> QED
  BY <1>6 DEF Min

LEMMA EarlierFinite ==
  ASSUME NEW found \in Seq(Ids), NEW i \in DOMAIN found, NEW g
  PROVE  /\ IsFiniteSet(Earlier(found, i, g)) /\ Cardinality(Earlier(found, i, g)) \in Nat
         /\ Earlier(found, i, g) \subseteq Nat
<1>1. i \in Nat
  OBVIOUS
<1>2. IsFiniteSet(1 .. i) /\ Earlier(found, i, g) \in SUBSET (1 .. i)
  BY <1>1, FS_Interval DEF Earlier
<1> QED
  BY <1>1, <1>2, FS_Subset, FS_CardinalityType

LEMMA RankFirst ==
  ASSUME NEW found \in Seq(Ids), NEW i \in DOMAIN found
  PROVE  /\ Rank(found, i) \in Nat \ {0}
         /\ First(found, i) \in Nat /\ Genre[found[First(found, i)]] = Genre[found[i]]
<1> DEFINE E == Earlier(found, i, Genre[found[i]])
<1>1. i \in E
  BY DEF Earlier
<1>2. IsFiniteSet(E) /\ E \subseteq Nat /\ Cardinality(E) \in Nat
  BY EarlierFinite
<1>3. Cardinality(E) # 0
  BY <1>1, <1>2, FS_EmptySet
<1>4. Min(E) \in E
  BY <1>1, <1>2, LeastExists
<1> QED
  BY <1>2, <1>3, <1>4 DEF Rank, First, Earlier

\* Films of one genre have different ranks.
LEMMA RankOfGenre ==
  ASSUME NEW found \in Seq(Ids), NEW i \in DOMAIN found, NEW j \in DOMAIN found,
         Genre[found[i]] = Genre[found[j]], i < j
  PROVE  Rank(found, i) # Rank(found, j)
<1> DEFINE g == Genre[found[j]]
<1>1. Earlier(found, i, g) \in SUBSET Earlier(found, j, g)
  BY DEF Earlier
<1>2. j \in Earlier(found, j, g) /\ j \notin Earlier(found, i, g)
  BY DEF Earlier
<1>3. IsFiniteSet(Earlier(found, j, g))
  BY EarlierFinite
<1> QED
  BY <1>1, <1>2, <1>3, FS_Subset DEF Rank

\* The order in which films are taken is total.
LEMMA BeforeTotal ==
  ASSUME NEW found \in Seq(Ids), NEW i \in DOMAIN found, NEW j \in DOMAIN found, i # j
  PROVE  Before(found, i, j) \/ Before(found, j, i)
<1>1. /\ Rank(found, i) \in Nat /\ First(found, i) \in Nat
      /\ Rank(found, j) \in Nat /\ First(found, j) \in Nat
  BY RankFirst
<1>2. ASSUME Rank(found, i) = Rank(found, j), First(found, i) = First(found, j)
      PROVE  FALSE
  <2>1. Genre[found[i]] = Genre[found[j]]
    BY <1>2, RankFirst
  <2>2. i < j \/ j < i
    OBVIOUS
  <2> QED
    BY <1>2, <2>1, <2>2, RankOfGenre
<1> QED
  BY <1>1, <1>2 DEF Before

LEMMA BeforeOrder ==
  ASSUME NEW found \in Seq(Ids), NEW i \in DOMAIN found, NEW j \in DOMAIN found,
         NEW k \in DOMAIN found, Before(found, i, j)
  PROVE  ~Before(found, i, i) /\ (Before(found, k, i) => Before(found, k, j))
<1>1. \A n \in DOMAIN found : Rank(found, n) \in Nat /\ First(found, n) \in Nat
  BY RankFirst
<1> QED
  BY <1>1 DEF Before

LEMMA PrecedingFinite ==
  ASSUME NEW found \in Seq(Ids)
  PROVE  /\ \A S \in SUBSET DOMAIN found : IsFiniteSet(S)
         /\ \A i : IsFiniteSet(Preceding(found, i)) /\ Cardinality(Preceding(found, i)) \in Nat
<1>1. DOMAIN found = 1 .. Len(found) /\ Len(found) \in Nat
  OBVIOUS
<1>2. \A S \in SUBSET DOMAIN found : IsFiniteSet(S)
  <2>1. IsFiniteSet(DOMAIN found)
    BY <1>1, FS_Interval
  <2> QED
    BY <2>1, FS_Subset
<1>3. \A i : Preceding(found, i) \in SUBSET DOMAIN found
  BY DEF Preceding, Kept
<1> QED
  BY <1>2, <1>3, FS_CardinalityType

\* balanceByGenre takes from what was found, at most the target, and of a genre at
\* most the cap.
LEMMA Balanced ==
  ASSUME NEW found \in Seq(Ids)
  PROVE  /\ \A b \in balanceByGenre(found) : b \in Ids /\ \E k \in DOMAIN found : found[k] = b
         /\ IsFiniteSet(balanceByGenre(found))
         /\ Cardinality(balanceByGenre(found)) <= recsTarget
         /\ \A g : Cardinality({b \in balanceByGenre(found) : Genre[b] = g}) <= recsGenreCap
<1> DEFINE C == Chosen(found)
           B == {found[i] : i \in C}
<1>0. balanceByGenre(found) = B /\ recsTarget \in Nat \ {0} /\ recsGenreCap \in Nat \ {0}
  BY Balancing, RecsAssumption DEF RecsAssumption
<1>1. C \subseteq DOMAIN found /\ IsFiniteSet(C)
  BY PrecedingFinite DEF Chosen, Kept
<1>2. \A b \in B : b \in Ids /\ \E k \in DOMAIN found : found[k] = b
  BY <1>1
<1>3. Cardinality(C) <= recsTarget
  <2> DEFINE h == [i \in C |-> Cardinality(Preceding(found, i))]
  <2>1. h \in [C -> 0 .. recsTarget - 1]
    BY <1>0, PrecedingFinite DEF Chosen
  <2>2. ASSUME NEW i \in C, NEW j \in C, Before(found, i, j)
        PROVE  h[i] # h[j]
    <3>1. i \in Kept(found)
      BY DEF Chosen
    <3>2. Preceding(found, i) \in SUBSET Preceding(found, j)
      BY <1>1, <2>2, BeforeOrder DEF Preceding, Kept
    <3>3. i \in Preceding(found, j) /\ i \notin Preceding(found, i)
      BY <1>1, <2>2, <3>1, BeforeOrder DEF Preceding
    <3>4. Cardinality(Preceding(found, i)) # Cardinality(Preceding(found, j))
      BY <3>2, <3>3, PrecedingFinite, FS_Subset
    <3> QED
      BY <3>4
  <2>3. h \in Injection(C, 0 .. recsTarget - 1)
    BY <1>1, <2>1, <2>2, BeforeTotal DEF Injection, IsInjective
  <2>4. IsFiniteSet(0 .. recsTarget - 1) /\ Cardinality(0 .. recsTarget - 1) = recsTarget
    BY <1>0, FS_Interval
  <2> QED
    BY <2>3, <2>4, FS_Injection
<1>4. ASSUME NEW D \in SUBSET C
      PROVE  /\ IsFiniteSet({found[i] : i \in D})
             /\ Cardinality({found[i] : i \in D}) <= Cardinality(D)
  <2> DEFINE s == [i \in D |-> found[i]]
  <2>1. IsFiniteSet(D)
    BY <1>1, FS_Subset
  <2>2. s \in Surjection(D, {found[i] : i \in D})
    BY DEF Surjection
  <2> QED
    BY <2>1, <2>2, FS_Surjection
<1>5. IsFiniteSet(B) /\ Cardinality(B) <= recsTarget
  <2>1. Cardinality(B) \in Nat /\ Cardinality(C) \in Nat
    BY <1>1, <1>4, FS_CardinalityType
  <2> QED
    BY <1>0, <1>3, <1>4, <2>1
<1>6. ASSUME NEW g
      PROVE  Cardinality({b \in B : Genre[b] = g}) <= recsGenreCap
  <2> DEFINE D == {i \in C : Genre[found[i]] = g}
             r == [i \in D |-> Rank(found, i)]
  <2>1. {b \in B : Genre[b] = g} = {found[i] : i \in D}
    OBVIOUS
  <2>2. r \in [D -> 1 .. recsGenreCap]
    BY <1>0, <1>1, RankFirst DEF Chosen, Kept
  <2>3. ASSUME NEW i \in D, NEW j \in D, r[i] = r[j] PROVE i = j
    <3>1. ~(i < j) /\ ~(j < i)
      BY <1>1, <2>3, RankOfGenre
    <3>2. i \in Nat /\ j \in Nat
      BY <1>1
    <3> QED
      BY <3>1, <3>2
  <2>4. r \in Injection(D, 1 .. recsGenreCap)
    BY <2>2, <2>3 DEF Injection, IsInjective
  <2>5. IsFiniteSet(1 .. recsGenreCap) /\ Cardinality(1 .. recsGenreCap) = recsGenreCap
    BY <1>0, FS_Interval
  <2>6. IsFiniteSet(D) /\ Cardinality(D) <= recsGenreCap
    BY <2>4, <2>5, FS_Injection
  <2>7. Cardinality({found[i] : i \in D}) <= Cardinality(D) /\ IsFiniteSet({found[i] : i \in D})
    BY <1>4
  <2>8. Cardinality(D) \in Nat /\ Cardinality({found[i] : i \in D}) \in Nat
    BY <2>6, <2>7, FS_CardinalityType
  <2>9. Cardinality({found[i] : i \in D}) <= recsGenreCap
    BY <1>0, <2>6, <2>7, <2>8
  <2> QED
    BY <2>1, <2>9
<1> QED
  BY <1>0, <1>2, <1>5, <1>6

-----------------------------------------------------------------------------
(* Types. *)

Merges == [batch : SUBSET Titles, seen : SUBSET Titles, byTmdb : Seq(Ids), round : Nat,
           quotaHit : BOOLEAN, searchFailed : BOOLEAN]

\* A stage under way is in its first attempt or in a later one.
Typed ==
  /\ TypeOK
  /\ merge \in Merges
  /\ phase \notin {"idle", "branches"} => attempt # 0

Rows == [status : WorkStatus \cup {"none"}, attempts : Nat, root : Ids \cup {NoKey}]

LEMMA LedgerType ==
  /\ TypeOK => ledger \in [{RECS_JOB, MERGE_JOB} -> [Ids -> Rows]]
  /\ ledger' \in [{RECS_JOB, MERGE_JOB} -> [Ids -> Rows]] =>
       ledger' \in LedgerOf({RECS_JOB, MERGE_JOB}, Ids)
  /\ RECS_JOB # MERGE_JOB
BY DEF TypeOK, LedgerOf, Rows, RECS_JOB, MERGE_JOB

\* A mark and the clicks change one row of the notification.
LEMMA OneRow ==
  ASSUME TypeOK, NEW i \in Ids, NEW r \in Rows, ledger' = markWorkItem(ledger, RECS_JOB, i, r)
  PROVE  /\ ledger' \in LedgerOf({RECS_JOB, MERGE_JOB}, Ids)
         /\ \A k \in Ids : ledger'[RECS_JOB][k] = IF k = i THEN r ELSE ledger[RECS_JOB][k]
<1>1. ledger' = [ledger EXCEPT ![RECS_JOB][i] = r]
  BY DEF markWorkItem
<1> QED
  BY <1>1, LedgerType

LEMMA DisturbedTyped ==
  ASSUME TypeOK, NEW f \in Faults, Disturbed(f)
  PROVE  faults' \in [Faults -> Nat]
BY DEF TypeOK, Disturbed

LEMMA InitTyped == Init => Typed
<1> SUFFICES ASSUME Init PROVE Typed
  OBVIOUS
<1>1. merge \in Merges
  BY DEF Init, Merges, NoMerge
<1>2. NoRow \in Rows
  BY DEF NoRow, Rows
<1>3. ledger \in LedgerOf({RECS_JOB, MERGE_JOB}, Ids)
  BY <1>2 DEF Init, LedgerOf, Rows
<1>4. faults \in [Faults -> Nat]
  BY RecsAssumption DEF Init, RecsAssumption
<1>5. merge.batch \subseteq merge.seen /\ merge.round \in 0 .. recsTopUpRounds
  BY RecsAssumption DEF Init, NoMerge, RecsAssumption
<1> QED
  BY <1>1, <1>3, <1>4, <1>5 DEF Init, Typed, TypeOK, Merges

\* The store and the history keep their types over a step of the stages.
StoreTyped ==
  /\ owned \subseteq Ids /\ recs \subseteq Ids /\ told \subseteq Ids
  /\ ledger \in LedgerOf({RECS_JOB, MERGE_JOB}, Ids)
  /\ pushed \in [Ids -> Nat]
  /\ faults \in [Faults -> Nat]

\* A process that is gone leaves nothing in memory.
LEMMA LeavesTyped ==
  ASSUME Typed, StoreTyped',
         NEW before \in {"idle", "pooled", "load"}, NEW next \in Nat, NEW files \in SUBSET Titles,
         before # "idle" => next # 0,
         Leaves(before, next, files)
  PROVE  Typed' /\ merge' = NoMerge /\ phase' = before /\ attempt' = next /\ newRecs' = {}
<1>1. merge' \in Merges /\ merge'.batch \subseteq merge'.seen /\ merge'.round \in 0 .. recsTopUpRounds
  BY RecsAssumption DEF Leaves, Merges, NoMerge, RecsAssumption
<1>2. pool' \subseteq Titles
  BY DEF Leaves
<1>3. merge'.seen \subseteq Titles /\ merge'.byTmdb \in Seq(Ids)
  BY <1>1 DEF Merges
<1> QED
  BY <1>1, <1>2, <1>3 DEF Leaves, Typed, TypeOK, StoreTyped

LEMMA EndsTyped ==
  ASSUME Typed, StoreTyped', RunEnds \/ AttemptFails
  PROVE  /\ Typed' /\ phase' \in {"idle", "pooled", "load"} /\ newRecs' = {}
         /\ phase' = "load" => attempt' # 1 \/ attempt = 0
<1>0. attempt \in Nat /\ pool \in SUBSET Titles /\ {} \in SUBSET Titles
  BY DEF Typed, TypeOK
<1>1. CASE RunEnds
  BY <1>0, <1>1, LeavesTyped DEF RunEnds
<1>2. CASE AttemptFails /\ ~RunEnds
  <2>1. Leaves("pooled", attempt + 1, pool) \/ Leaves("load", attempt + 1, pool)
    BY <1>2 DEF AttemptFails
  <2>2. attempt + 1 \in Nat /\ attempt + 1 # 0 /\ (attempt + 1 = 1 => attempt = 0)
    BY <1>0
  <2> QED
    BY <1>0, <2>1, <2>2, LeavesTyped
<1> QED
  BY <1>1, <1>2

LEMMA FoundType ==
  ASSUME Typed, NEW t \in Titles
  PROVE  /\ Found(Match[t]) \in Seq(Ids)
         /\ \A k \in DOMAIN Found(Match[t]) :
              \/ \E n \in DOMAIN merge.byTmdb : merge.byTmdb[n] = Found(Match[t])[k]
              \/ /\ Found(Match[t])[k] \in Ids \ owned
                 /\ ~Done(Found(Match[t])[k])
<1> DEFINE m == Match[t]
<1>1. m \in Ids \cup {NoId} /\ merge.byTmdb \in Seq(Ids)
  BY RecsAssumption DEF RecsAssumption, Typed, TypeOK
<1>2. CASE m \in owned \cup {NoId} \/ Done(m) \/ Known(m)
  BY <1>1, <1>2 DEF Found
<1>3. CASE ~(m \in owned \cup {NoId} \/ Done(m) \/ Known(m))
  <2>1. Found(m) = Append(merge.byTmdb, m) /\ m \in Ids
    BY <1>1, <1>3 DEF Found
  <2>2. \A k \in DOMAIN Append(merge.byTmdb, m) :
          \/ k \in DOMAIN merge.byTmdb /\ Append(merge.byTmdb, m)[k] = merge.byTmdb[k]
          \/ Append(merge.byTmdb, m)[k] = m
    BY <1>1, <2>1
  <2> QED
    BY <1>1, <1>3, <2>1, <2>2
<1> QED
  BY <1>2, <1>3

\* What the merge stage knows, step by step.
LEMMA MergeChanges ==
  ASSUME Typed, merge' \in Merges, merge'.batch \subseteq merge'.seen,
         merge'.round <= recsTopUpRounds, phase' \in {"verify", "list"},
         phase \notin {"idle", "branches"}, faults' \in [Faults -> Nat],
         UNCHANGED <<attempt, pool, owned, newRecs, unmarked, store, history>>
  PROVE  Typed'
<1>1. merge'.round \in 0 .. recsTopUpRounds
  BY RecsAssumption DEF RecsAssumption, Merges
<1>2. merge'.seen \subseteq Titles /\ merge'.byTmdb \in Seq(Ids)
  BY DEF Merges
<1> QED
  BY <1>1, <1>2 DEF Typed, TypeOK, store, history

LEMMA MergeTyped ==
  ASSUME Typed, MergeStarts \/ Verify \/ SearchFails \/ QuotaReached \/ TopUp
  PROVE  Typed'
<1>0. /\ merge \in Merges /\ merge.batch \subseteq merge.seen /\ merge.round <= recsTopUpRounds
      /\ faults \in [Faults -> Nat]
  BY DEF Typed, TypeOK
<1>1. CASE MergeStarts
  <2>1. pool \in SUBSET Titles
    BY DEF Typed, TypeOK
  <2>2. /\ merge' \in Merges /\ merge'.batch \subseteq merge'.seen
        /\ merge'.round <= recsTopUpRounds
    <3>1. NoMerge \in Merges /\ NoMerge.round = 0
      BY DEF NoMerge, Merges
    <3>2. merge' = [NoMerge EXCEPT !.batch = pool, !.seen = pool]
      BY <1>1 DEF MergeStarts
    <3>3. merge'.batch = pool /\ merge'.seen = pool /\ merge'.round = 0
      BY <3>1, <3>2 DEF Merges
    <3>4. merge' \in Merges
      BY <2>1, <3>1, <3>2 DEF Merges
    <3> QED
      BY <3>3, <3>4, RecsAssumption DEF RecsAssumption
  <2> QED
    BY <1>0, <1>1, <2>2, MergeChanges DEF MergeStarts
<1>2. CASE Verify
  <2>1. PICK t \in merge.batch :
          merge' = [merge EXCEPT !.batch = @ \ {t}, !.byTmdb = Found(Match[t])]
    BY <1>2 DEF Verify
  <2>2. Found(Match[t]) \in Seq(Ids)
    BY <2>1, FoundType DEF Typed, TypeOK
  <2>3. /\ merge' \in Merges /\ merge'.batch \subseteq merge'.seen
        /\ merge'.round <= recsTopUpRounds
    BY <1>0, <2>1, <2>2 DEF Merges
  <2> QED
    BY <1>0, <1>2, <2>3, MergeChanges DEF Verify
<1>3. CASE SearchFails
  <2>1. PICK t \in merge.batch :
          merge' = [merge EXCEPT !.batch = @ \ {t}, !.searchFailed = TRUE]
    BY <1>3 DEF SearchFails
  <2>2. /\ merge' \in Merges /\ merge'.batch \subseteq merge'.seen
        /\ merge'.round <= recsTopUpRounds
    BY <1>0, <2>1 DEF Merges
  <2>3. faults' \in [Faults -> Nat]
    BY <1>3, DisturbedTyped DEF SearchFails, Typed, Faults
  <2> QED
    BY <1>3, <2>2, <2>3, MergeChanges DEF SearchFails
<1>4. CASE QuotaReached
  <2>1. /\ merge' \in Merges /\ merge'.batch \subseteq merge'.seen
        /\ merge'.round <= recsTopUpRounds
    BY <1>0, <1>4 DEF QuotaReached, Merges
  <2>2. faults' \in [Faults -> Nat]
    BY <1>4, DisturbedTyped DEF QuotaReached, Typed, Faults
  <2> QED
    BY <1>4, <2>1, <2>2, MergeChanges DEF QuotaReached
<1>5. CASE TopUp
  <2>1. PICK more \in SUBSET Titles :
          merge' = [merge EXCEPT !.batch = more \ merge.seen,
                                 !.seen = @ \cup (more \ merge.seen), !.round = @ + 1]
    BY <1>5 DEF TopUp
  <2>2. merge.round < recsTopUpRounds /\ phase = "verify" /\ phase' \in {"verify", "list"}
    BY <1>5 DEF TopUp, ToppingUp
  <2>3. merge.round + 1 <= recsTopUpRounds
    <3>1. recsTopUpRounds \in Nat
      BY RecsAssumption DEF RecsAssumption
    <3> QED
      BY <1>0, <2>2, <3>1 DEF Merges
  <2>4. /\ merge' \in Merges /\ merge'.batch \subseteq merge'.seen
        /\ merge'.round <= recsTopUpRounds
    <3> DEFINE fresh == more \ merge.seen
    <3>1. merge' = [merge EXCEPT !.batch = fresh, !.seen = merge.seen \cup fresh,
                                 !.round = merge.round + 1]
      BY <1>0, <2>1 DEF Merges
    <3>2. fresh \in SUBSET Titles /\ merge.seen \cup fresh \in SUBSET Titles
      BY <1>0 DEF Merges
    <3> HIDE DEF fresh
    <3>3. /\ merge'.batch = fresh /\ merge'.seen = merge.seen \cup fresh
          /\ merge'.round = merge.round + 1
      BY <1>0, <3>1 DEF Merges
    <3>4. merge' \in Merges
      <4>1. ASSUME NEW seen \in SUBSET Titles, NEW r \in Nat, NEW batch \in SUBSET Titles
            PROVE  [merge EXCEPT !.batch = batch, !.seen = seen, !.round = r] \in Merges
        BY <1>0 DEF Merges
      <4>2. merge.round + 1 \in Nat
        BY <1>0 DEF Merges
      <4> QED
        BY <3>1, <3>2, <4>1, <4>2
    <3> QED
      BY <2>3, <3>3, <3>4
  <2> QED
    BY <1>0, <1>5, <2>2, <2>4, MergeChanges DEF TopUp
<1> QED
  BY <1>1, <1>2, <1>3, <1>4, <1>5

\* The list comes from what was found, and the rows of the notification stay.
LEMMA ListWritten ==
  ASSUME Typed, WriteList
  PROVE  /\ StoreTyped' /\ phase \in {"verify", "list"}
         /\ recs' = balanceByGenre(merge.byTmdb)
         /\ \A i \in Ids : ledger'[RECS_JOB][i] = ledger[RECS_JOB][i]
<1>1. recs' = balanceByGenre(merge.byTmdb) /\ recs' \subseteq Ids
  BY Balanced DEF WriteList, Typed, TypeOK
<1>2. \A i \in Ids : Row("success", 1, i) \in Rows
  BY DEF Row, Rows, WorkStatus
<1>3. /\ ledger' \in LedgerOf({RECS_JOB, MERGE_JOB}, Ids)
      /\ \A i \in Ids : ledger'[RECS_JOB][i] = ledger[RECS_JOB][i]
  BY <1>2, LedgerType DEF WriteList, Typed
<1> QED
  BY <1>1, <1>3 DEF WriteList, StoreTyped, Typed, TypeOK, history

\* A digest that goes out is counted for each film it holds.
LEMMA GoesOutTyped ==
  ASSUME TypeOK, GoesOut
  PROVE  pushed' \in [Ids -> Nat]
BY DEF GoesOut, TypeOK

\* What the owner's clicks do to a row.
LEMMA ClickRows ==
  ASSUME TypeOK, NEW i \in Ids, Dismiss(i) \/ Undismiss(i)
  PROVE  /\ StoreTyped'
         /\ UNCHANGED <<stage, recs, told, pushed>>
         /\ \A k \in Ids :
              \/ ledger'[RECS_JOB][k] = ledger[RECS_JOB][k]
              \/ k = i /\ Dismiss(i) /\ ledger'[RECS_JOB][k].status = "ignored"
              \/ k = i /\ Undismiss(i) /\ ledger'[RECS_JOB][k] = NoRow
<1>1. ledger[RECS_JOB][i] \in Rows
  BY LedgerType
<1>2. NoRow \in Rows /\ AsIgnored(ledger[RECS_JOB][i]) \in Rows /\ Row("ignored", 0, i) \in Rows
  BY <1>1 DEF NoRow, AsIgnored, Row, Rows, WorkStatus
<1>3. /\ NoRow.status = "none" /\ AsIgnored(ledger[RECS_JOB][i]).status = "ignored"
      /\ Row("ignored", 0, i).status = "ignored"
  BY DEF NoRow, AsIgnored, Row
<1>4. owned' \subseteq Ids /\ recs' \subseteq Ids /\ told' \subseteq Ids /\ pushed' \in [Ids -> Nat]
  BY DEF Dismiss, Undismiss, stage, TypeOK
<1>5. CASE Dismiss(i)
  <2>1. faults' \in [Faults -> Nat]
    BY <1>5, DisturbedTyped DEF Dismiss, Faults
  <2>2. PICK r \in Rows : ledger' = markWorkItem(ledger, RECS_JOB, i, r) /\ r.status = "ignored"
    BY <1>2, <1>3, <1>5 DEF Dismiss, ignoreSurfacedItem
  <2>3. /\ ledger' \in LedgerOf({RECS_JOB, MERGE_JOB}, Ids)
        /\ \A k \in Ids : ledger'[RECS_JOB][k] = IF k = i THEN r ELSE ledger[RECS_JOB][k]
    BY <2>2, OneRow
  <2> QED
    BY <1>4, <1>5, <2>1, <2>2, <2>3 DEF Dismiss, StoreTyped
<1>6. CASE Undismiss(i)
  <2>1. faults' \in [Faults -> Nat]
    BY <1>6 DEF Undismiss, TypeOK
  <2>2. CASE Ignored(i)
    <3>1. ledger' = markWorkItem(ledger, RECS_JOB, i, NoRow)
      BY <1>6, <2>2 DEF Undismiss, unignoreSurfacedItem
    <3>2. /\ ledger' \in LedgerOf({RECS_JOB, MERGE_JOB}, Ids)
          /\ \A k \in Ids : ledger'[RECS_JOB][k] = IF k = i THEN NoRow ELSE ledger[RECS_JOB][k]
      BY <1>2, <3>1, OneRow
    <3> QED
      BY <1>4, <1>6, <2>1, <3>2 DEF Undismiss, StoreTyped
  <2>3. CASE ~Ignored(i)
    BY <1>4, <1>6, <2>1, <2>3 DEF Undismiss, unignoreSurfacedItem, StoreTyped, TypeOK
  <2> QED
    BY <2>2, <2>3
<1> QED
  BY <1>5, <1>6

\* A mark makes the row of one film of the digest a success.
LEMMA MarkRows ==
  ASSUME Typed, Mark
  PROVE  /\ StoreTyped'
         /\ \E i \in unmarked :
              /\ \A k \in Ids : ledger'[RECS_JOB][k] = IF k = i THEN Notified(i) ELSE ledger[RECS_JOB][k]
              /\ Notified(i).status = "success"
              /\ \/ unmarked = {i} /\ RunEnds
                 \/ unmarked' = unmarked \ {i} /\ UNCHANGED <<phase, attempt, pool, merge, newRecs>>
<1>1. PICK i \in unmarked :
         /\ ledger' = markWorkItem(ledger, RECS_JOB, i, Notified(i))
         /\ \/ unmarked = {i} /\ told' = told \cup newRecs /\ RunEnds
            \/ unmarked' = unmarked \ {i} /\ UNCHANGED <<told, phase, attempt, pool, merge, newRecs>>
  BY DEF Mark
<1>2. i \in Ids
  BY DEF Typed, TypeOK
<1>3. Notified(i) \in Rows /\ Notified(i).status = "success"
  BY <1>2 DEF Notified, Row, Rows, WorkStatus
<1>4. /\ ledger' \in LedgerOf({RECS_JOB, MERGE_JOB}, Ids)
      /\ \A k \in Ids : ledger'[RECS_JOB][k] = IF k = i THEN Notified(i) ELSE ledger[RECS_JOB][k]
  BY <1>1, <1>2, <1>3, OneRow DEF Typed
<1>5. StoreTyped'
  BY <1>1, <1>4 DEF Mark, StoreTyped, Typed, TypeOK
<1> QED
  BY <1>1, <1>3, <1>4, <1>5

\* Ends a stage: all the ways in which a process can be gone, but by its list or
\* its last mark.
LEMMA FaultTyped ==
  ASSUME Typed, BranchFails \/ PushFails \/ Kill \/ (AnswerLost /\ AttemptFails)
  PROVE  StoreTyped'
<1>1. faults' \in [Faults -> Nat]
  BY DisturbedTyped DEF BranchFails, PushFails, Kill, AnswerLost, Typed, Faults
<1>2. pushed' \in [Ids -> Nat]
  BY GoesOutTyped DEF BranchFails, PushFails, Kill, AnswerLost, Typed, TypeOK, history
<1> QED
  BY <1>1, <1>2 DEF BranchFails, PushFails, Kill, AnswerLost, Typed, TypeOK, StoreTyped, store

LEMMA StepTyped == Typed /\ [Next]_vars => Typed'
<1> SUFFICES ASSUME Typed, [Next]_vars PROVE Typed'
  OBVIOUS
<1>0. StoreTyped /\ pool \in SUBSET Titles /\ attempt \in Nat
  BY DEF Typed, TypeOK, StoreTyped
<1>1. CASE StartRun
  <2>1. owned' \subseteq Ids /\ faults' \in [Faults -> Nat]
    BY <1>0, <1>1, DisturbedTyped DEF StartRun, StoreTyped, Typed, Faults
  <2> QED
    BY <1>1, <2>1 DEF StartRun, Typed, TypeOK, store, history
<1>2. CASE Branches
  <2>1. StoreTyped'
    BY <1>0, <1>2 DEF Branches, StoreTyped, store, history
  <2>2. PICK files \in SUBSET Titles : Leaves("pooled", 1, files)
    BY <1>2 DEF Branches
  <2> QED
    BY <2>1, <2>2, LeavesTyped
<1>3. CASE BranchFails \/ PushFails \/ Kill \/ (AnswerLost /\ AttemptFails)
  <2>1. RunEnds \/ AttemptFails
    BY <1>3 DEF BranchFails, PushFails, Kill
  <2> QED
    BY <1>3, <2>1, FaultTyped, EndsTyped
<1>4. CASE MergeStarts \/ Verify \/ SearchFails \/ QuotaReached \/ TopUp
  BY <1>4, MergeTyped
<1>5. CASE WriteList
  <2>1. StoreTyped'
    BY <1>5, ListWritten
  <2> QED
    BY <1>0, <1>5, <2>1, LeavesTyped, EndsTyped DEF WriteList
<1>6. CASE Load
  <2>1. StoreTyped'
    BY <1>0, <1>6 DEF Load, StoreTyped, store, history
  <2>2. CASE New # {}
    <3>1. New \subseteq Ids
      BY DEF New, Typed, TypeOK
    <3> QED
      BY <1>6, <2>1, <2>2, <3>1 DEF Load, Typed, TypeOK, StoreTyped
  <2> QED
    BY <1>6, <2>1, <2>2, EndsTyped DEF Load
<1>7. CASE Push \/ (AnswerLost /\ ~AttemptFails)
  <2>1. pushed' \in [Ids -> Nat]
    BY <1>7, GoesOutTyped DEF Push, AnswerLost, Typed
  <2>2. faults' \in [Faults -> Nat]
    BY <1>0, <1>7, DisturbedTyped DEF Push, AnswerLost, Typed, StoreTyped, Faults
  <2> QED
    BY <1>7, <2>1, <2>2 DEF Push, AnswerLost, Typed, TypeOK, store
<1>8. CASE Mark
  <2>1. StoreTyped'
    BY <1>8, MarkRows
  <2>2. CASE RunEnds
    BY <2>1, <2>2, EndsTyped
  <2>3. CASE \E i \in unmarked : unmarked' = unmarked \ {i} /\ UNCHANGED <<phase, attempt, pool, merge, newRecs>>
    BY <2>1, <2>3 DEF Typed, TypeOK, StoreTyped
  <2> QED
    BY <1>8, <2>2, <2>3, MarkRows
<1>9. CASE Owner
  <2>1. PICK i \in Ids : Dismiss(i) \/ Undismiss(i)
    BY <1>9 DEF Owner
  <2>2. StoreTyped' /\ UNCHANGED <<stage, recs, told, pushed>>
    BY <2>1, ClickRows DEF Typed
  <2> QED
    BY <2>2 DEF StoreTyped, Typed, TypeOK, stage
<1>10. CASE UNCHANGED vars
  BY <1>10 DEF vars, stage, store, history, Typed, TypeOK
<1> QED
  BY <1>1, <1>2, <1>3, <1>4, <1>5, <1>6, <1>7, <1>8, <1>9, <1>10 DEF Next, Works

\* The types hold, and the merge never runs more rounds of top-ups than it may.
THEOREM TypeCorrect == Spec => []TypeOK
<1>1. Spec => []Typed
  BY InitTyped, StepTyped, PTL DEF Spec
<1>2. Typed => TypeOK
  BY DEF Typed
<1> QED
  BY <1>1, <1>2, PTL
-----------------------------------------------------------------------------
(* No film is in two digests without a cause. *)

\* While nothing happened that is a cause: what was in a digest is done in the ledger,
\* or is about to be marked, so no digest that is composed later holds it.
Told ==
  /\ phase = "push" => unmarked = newRecs
  /\ causes = {} =>
       \A i \in Ids :
         /\ pushed[i] <= 1
         /\ pushed[i] = 1 => Done(i) \/ (phase = "mark" /\ i \in unmarked)
         /\ phase = "push" /\ i \in newRecs => pushed[i] = 0

LEMMA DoneByRow ==
  ASSUME NEW i, ledger'[RECS_JOB][i] = ledger[RECS_JOB][i]
  PROVE  Done(i)' <=> Done(i)
BY DEF Done, isWorkItemDone, Exhausted

\* A step of the stages that neither sends, composes, marks nor loses marks.
LEMMA ToldQuietly ==
  ASSUME Told, causes \subseteq causes', UNCHANGED pushed,
         phase # "mark" \/ causes' # {}, phase' \notin {"push", "mark"},
         \A i \in Ids : ledger'[RECS_JOB][i] = ledger[RECS_JOB][i]
  PROVE  Told'
BY DoneByRow DEF Told

LEMMA StepTold == Typed /\ Told /\ [Next]_vars => Told'
<1> SUFFICES ASSUME Typed, Told, [Next]_vars PROVE Told'
  OBVIOUS
<1>0. /\ \A i \in Ids : pushed[i] \in Nat
      /\ Typed' /\ (RunEnds \/ AttemptFails => phase' \notin {"push", "mark"})
  <2>1. RunEnds \/ AttemptFails => phase' \notin {"push", "mark"}
    BY DEF RunEnds, AttemptFails, Leaves
  <2> QED
    BY <2>1, StepTyped DEF Typed, TypeOK
<1>1. CASE StartRun \/ Branches \/ BranchFails \/ MergeStarts \/ Verify \/ SearchFails
           \/ QuotaReached \/ TopUp
  <2>1. UNCHANGED <<ledger, pushed, causes>> /\ phase # "mark" /\ phase' \notin {"push", "mark"}
    BY <1>1, <1>0 DEF StartRun, Branches, BranchFails, MergeStarts, Verify, SearchFails,
         QuotaReached, TopUp, store, history, Leaves
  <2> QED
    BY <2>1, ToldQuietly
<1>2. CASE WriteList
  <2>1. UNCHANGED <<pushed, causes>> /\ phase # "mark" /\ phase' \notin {"push", "mark"}
    BY <1>0, <1>2 DEF WriteList, history, Leaves
  <2> QED
    BY <1>2, <2>1, ListWritten, ToldQuietly
<1>3. CASE Load
  <2>1. UNCHANGED <<ledger, pushed, causes>> /\ phase = "load"
    BY <1>3 DEF Load, store, history
  <2>2. CASE New = {}
    BY <1>0, <1>3, <2>1, <2>2, ToldQuietly DEF Load
  <2>3. CASE New # {}
    <3>1. phase' = "push" /\ newRecs' = New /\ unmarked' = newRecs'
      BY <1>3, <2>3 DEF Load
    <3>2. \A i \in New : ~Done(i)
      BY DEF New
    <3> QED
      BY <1>0, <2>1, <3>1, <3>2, DoneByRow DEF Told
  <2> QED
    BY <2>2, <2>3
<1>4. CASE Push
  <2>1. /\ UNCHANGED <<ledger, causes, newRecs, unmarked>> /\ phase = "push" /\ phase' = "mark"
        /\ \A i \in Ids : pushed'[i] = IF i \in newRecs THEN pushed[i] + 1 ELSE pushed[i]
    BY <1>4 DEF Push, GoesOut, store
  <2> QED
    BY <1>0, <2>1, DoneByRow DEF Told
<1>5. CASE AnswerLost
  <2>1. causes' # {} /\ phase = "push"
    BY <1>5 DEF AnswerLost
  <2>2. phase' = "push" => unmarked' = newRecs'
    BY <1>0, <1>5, <2>1 DEF AnswerLost, Told
  <2> QED
    BY <2>1, <2>2 DEF Told
<1>6. CASE PushFails
  <2>1. UNCHANGED <<ledger, pushed, causes>> /\ phase = "push"
    BY <1>6 DEF PushFails, store
  <2> QED
    BY <1>0, <1>6, <2>1, ToldQuietly DEF PushFails
<1>7. CASE Kill
  <2>1. /\ UNCHANGED <<ledger, pushed>> /\ causes \subseteq causes'
        /\ phase # "mark" \/ causes' # {}
    BY <1>7 DEF Kill, store
  <2> QED
    BY <1>0, <1>7, <2>1, ToldQuietly DEF Kill
<1>8. CASE Mark
  <2>1. UNCHANGED <<pushed, causes>> /\ phase = "mark"
    BY <1>8 DEF Mark
  <2>2. PICK i \in unmarked :
          /\ \A k \in Ids : ledger'[RECS_JOB][k] = IF k = i THEN Notified(i) ELSE ledger[RECS_JOB][k]
          /\ Notified(i).status = "success"
          /\ \/ unmarked = {i} /\ RunEnds
             \/ unmarked' = unmarked \ {i} /\ UNCHANGED <<phase, attempt, pool, merge, newRecs>>
    BY <1>8, MarkRows
  <2>3. i \in Ids => Done(i)'
    BY <2>2 DEF Done, isWorkItemDone
  <2>4. \A k \in Ids : Done(k) => Done(k)'
    BY <2>2, <2>3, DoneByRow
  <2>5. phase' # "push" /\ (causes' = {} => causes = {})
    BY <1>0, <2>1, <2>2
  <2>6. \A k \in unmarked : (k \in unmarked' /\ phase' = "mark") \/ k = i
    BY <2>1, <2>2
  <2> QED
    BY <2>1, <2>3, <2>4, <2>5, <2>6 DEF Told
<1>9. CASE Owner
  <2>1. PICK i \in Ids : Dismiss(i) \/ Undismiss(i)
    BY <1>9 DEF Owner
  <2>2. /\ UNCHANGED <<phase, newRecs, unmarked, pushed>>
        /\ \A k \in Ids :
             \/ ledger'[RECS_JOB][k] = ledger[RECS_JOB][k]
             \/ Dismiss(i) /\ ledger'[RECS_JOB][k].status = "ignored"
             \/ Undismiss(i)
    BY <2>1, ClickRows DEF Typed, stage
  <2>3. CASE Undismiss(i)
    BY <2>2, <2>3 DEF Undismiss, Told
  <2>4. CASE Dismiss(i) /\ ~Undismiss(i)
    <3>1. \A k \in Ids : Done(k) => Done(k)'
      <4>1. \A k \in Ids : ledger'[RECS_JOB][k].status = "ignored" => Done(k)'
        BY DEF Done, isWorkItemDone
      <4> QED
        BY <2>2, <2>4, <4>1, DoneByRow
    <3>2. UNCHANGED causes
      BY <2>4 DEF Dismiss
    <3> QED
      BY <2>2, <3>1, <3>2 DEF Told
  <2> QED
    BY <2>1, <2>3, <2>4
<1>10. CASE UNCHANGED vars
  BY <1>10, DoneByRow DEF vars, stage, store, history, Told
<1> QED
  BY <1>1, <1>2, <1>3, <1>4, <1>5, <1>6, <1>7, <1>8, <1>9, <1>10 DEF Next, Works

\* A film is in two digests only after it was un-dismissed, an answer of the service
\* was lost, or a kill came between a digest and its marks.
THEOREM ToldOnce == Spec => []TwiceHasACause
<1>1. Init => Told
  BY DEF Init, Told
<1>2. Told => TwiceHasACause
  BY DEF Told, TwiceHasACause
<1>3. Spec => [](Typed /\ Told)
  BY <1>1, InitTyped, StepTyped, StepTold, PTL DEF Spec
<1> QED
  BY <1>2, <1>3, PTL

-----------------------------------------------------------------------------
(* The list is novel, within the target, and balanced. *)

ListIsGood ==
  /\ \A i \in recs : i \notin owned /\ ~Success(i)
  /\ Cardinality(recs) <= recsTarget
  /\ \A i \in recs : Cardinality({k \in recs : Genre[k] = Genre[i]}) <= recsGenreCap

\* What the merge has found is novel all the time it is at it, and so is its list
\* until the notification has taken it.
Novel ==
  /\ phase \in {"verify", "list"} =>
       \A k \in DOMAIN merge.byTmdb :
         merge.byTmdb[k] \notin owned /\ ~Success(merge.byTmdb[k])
  /\ phase = "load" /\ attempt = 1 => ListIsGood

LEMMA SuccessByRow ==
  ASSUME NEW i, ledger'[RECS_JOB][i] = ledger[RECS_JOB][i]
  PROVE  (Success(i)' <=> Success(i)) /\ (Ignored(i)' <=> Ignored(i))
BY DEF Success, Ignored

LEMMA StepNovel == Typed /\ Novel /\ [Next]_vars => Novel'
<1> SUFFICES ASSUME Typed, Novel, [Next]_vars PROVE Novel'
  OBVIOUS
<1>0. Typed' /\ merge.byTmdb \in Seq(Ids) /\ merge \in Merges /\ attempt \in Nat
  BY StepTyped DEF Typed, TypeOK
<1>1. CASE StartRun \/ Branches
  BY <1>1 DEF StartRun, Branches, Leaves, Novel
<1>2. CASE BranchFails \/ PushFails \/ Kill \/ (AnswerLost /\ AttemptFails)
  <2>1. StoreTyped' /\ (RunEnds \/ AttemptFails)
    BY <1>2, FaultTyped DEF BranchFails, PushFails, Kill
  <2>2. BranchFails => RunEnds
    BY DEF BranchFails
  <2>3. RunEnds => phase' = "idle"
    BY DEF RunEnds, Leaves
  <2>4. ~BranchFails => phase \notin {"idle", "branches"}
    BY <1>2 DEF PushFails, Kill, AnswerLost
  <2>5. ~BranchFails => attempt # 0
    BY <2>4 DEF Typed
  <2> QED
    BY <2>1, <2>2, <2>3, <2>5, EndsTyped DEF Novel
<1>3. CASE MergeStarts
  BY <1>3 DEF MergeStarts, NoMerge, Novel
<1>4. CASE Verify
  <2>1. PICK t \in merge.batch :
          merge' = [merge EXCEPT !.batch = @ \ {t}, !.byTmdb = Found(Match[t])]
    BY <1>4 DEF Verify
  <2>2. merge'.byTmdb = Found(Match[t])
    BY <1>0, <2>1 DEF Merges
  <2>3. t \in Titles /\ phase = "verify" /\ phase' = "verify" /\ UNCHANGED <<owned, ledger>>
    BY <1>4, <2>1 DEF Verify, Typed, TypeOK, store
  <2>4. ASSUME NEW k \in DOMAIN merge'.byTmdb
        PROVE  merge'.byTmdb[k] \notin owned /\ ~Success(merge'.byTmdb[k])
    <3>1. CASE \E n \in DOMAIN merge.byTmdb : merge.byTmdb[n] = merge'.byTmdb[k]
      BY <2>3, <3>1 DEF Novel
    <3>2. CASE merge'.byTmdb[k] \in Ids \ owned /\ ~Done(merge'.byTmdb[k])
      BY <3>2 DEF Done, isWorkItemDone, Success
    <3> QED
      BY <2>2, <2>3, <2>4, <3>1, <3>2, FoundType
  <2> QED
    BY <2>3, <2>4 DEF Novel, Success
<1>5. CASE SearchFails \/ QuotaReached \/ TopUp
  <2>1. /\ merge'.byTmdb = merge.byTmdb
        /\ phase = "verify" /\ phase' \in {"verify", "list"} /\ UNCHANGED <<owned, ledger>>
    BY <1>0, <1>5 DEF SearchFails, QuotaReached, TopUp, store, Merges
  <2> QED
    BY <2>1 DEF Novel, Success
<1>6. CASE WriteList
  <2>1. /\ phase \in {"verify", "list"} /\ recs' = balanceByGenre(merge.byTmdb)
        /\ StoreTyped' /\ \A i \in Ids : ledger'[RECS_JOB][i] = ledger[RECS_JOB][i]
    BY <1>6, ListWritten
  <2>2. \A i \in recs' : i \notin owned /\ ~Success(i) /\ i \in Ids
    BY <1>0, <2>1, Balanced DEF Novel
  <2>3. UNCHANGED owned
    BY <1>6 DEF WriteList
  <2>4. \A i \in recs' : i \notin owned' /\ ~Success(i)'
    BY <2>1, <2>2, <2>3, SuccessByRow
  <2>5. ListIsGood'
    <3> DEFINE listed == balanceByGenre(merge.byTmdb)
    <3>1. /\ Cardinality(listed) <= recsTarget
          /\ \A g : Cardinality({k \in listed : Genre[k] = g}) <= recsGenreCap
      BY <1>0, Balanced
    <3> HIDE DEF listed
    <3>2. recs' = listed
      BY <2>1 DEF listed
    <3> QED
      BY <2>4, <3>1, <3>2, Zenon DEF ListIsGood
  <2>6. phase' \in {"idle", "pooled", "load"}
    BY <1>6 DEF WriteList, AttemptFails, RunEnds, Leaves
  <2> QED
    BY <2>5, <2>6 DEF Novel
<1>7. CASE Load
  <2>1. phase' \in {"idle", "push"}
    BY <1>7 DEF Load, RunEnds, Leaves
  <2> QED
    BY <2>1 DEF Novel
<1>8. CASE Push \/ (AnswerLost /\ ~AttemptFails)
  BY <1>8 DEF Push, AnswerLost, Novel
<1>9. CASE Mark
  <2>1. phase' \in {"idle", "mark"}
    BY <1>9 DEF Mark, RunEnds, Leaves
  <2> QED
    BY <2>1 DEF Novel
<1>10. CASE Owner
  <2>1. PICK i \in Ids : Dismiss(i) \/ Undismiss(i)
    BY <1>10 DEF Owner
  <2>2. /\ UNCHANGED <<phase, attempt, merge, owned, recs>>
        /\ \A k \in Ids :
             \/ ledger'[RECS_JOB][k] = ledger[RECS_JOB][k]
             \/ ledger'[RECS_JOB][k].status = "ignored"
             \/ ledger'[RECS_JOB][k] = NoRow
    BY <2>1, ClickRows DEF Typed, stage
  <2>3. \A k \in Ids : ~Success(k) => ~Success(k)'
    BY <2>2 DEF Success, NoRow
  <2>4. recs \subseteq Ids /\ \A k \in DOMAIN merge.byTmdb : merge.byTmdb[k] \in Ids
    BY <1>0 DEF Typed, TypeOK
  <2>5. ListIsGood => ListIsGood'
    BY <2>2, <2>3, <2>4 DEF ListIsGood
  <2> QED
    BY <2>2, <2>3, <2>4, <2>5 DEF Novel
<1>11. CASE UNCHANGED vars
  BY <1>11 DEF vars, stage, store, history, Novel, ListIsGood, Success
<1> QED
  BY <1>1, <1>2, <1>3, <1>4, <1>5, <1>6, <1>7, <1>8, <1>9, <1>10, <1>11 DEF Next, Works

\* The list that goes to the notification has nothing the snapshot of the library
\* holds and nothing the owner was told of, is within the target and balanced.
THEOREM Novelty == Spec => []ListIsNovel
<1>1. Init => Novel
  BY DEF Init, Novel
<1>2. Novel => ListIsNovel
  BY DEF Novel, ListIsGood, ListIsNovel
<1>3. Spec => [](Typed /\ Novel)
  BY <1>1, InitTyped, StepTyped, StepNovel, PTL DEF Spec
<1> QED
  BY <1>2, <1>3, PTL

=============================================================================
