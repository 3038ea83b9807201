-------------------------- MODULE WorkItems_proofs --------------------------
(***************************************************************************)
(* What the queries of the ledger return, for any jobs, keys and rows:     *)
(* facts that the proofs about the pipelines share.  The sums of the       *)
(* signature are recursive functions, so their laws are proved by hand, by *)
(* the least counterexample.                                               *)
(***************************************************************************)
EXTENDS WorkItems, FiniteSetTheorems, WellFoundedInduction, TLAPS

-----------------------------------------------------------------------------
(* Sums over finite sets. *)

LEMMA LeastExists ==
  ASSUME NEW T \in SUBSET Nat, T # {}
  PROVE  Min(T) \in T /\ \A n \in T : Min(T) <= n
<1>1. \E R : IsWellFoundedOn(R, Nat) /\ \A m, n \in Nat : <<n, m>> \in R <=> n < m
  <2>1. \A m, n \in Nat : <<n, m>> \in OpToRel(<, Nat) <=> n < m
    BY Zenon DEF OpToRel
  <2> QED
    BY Zenon, <2>1, NatLessThanWellFounded
<1>2. PICK R : IsWellFoundedOn(R, Nat) /\ \A m, n \in Nat : <<n, m>> \in R <=> n < m
  BY <1>1
<1>3. \E m \in T : \A n \in T : ~(<<n, m>> \in R)
  BY <1>2, WFMin
<1>4. PICK m \in T : \A n \in T : ~(<<n, m>> \in R)
  BY <1>3
<1>5. \A n \in T : ~(n < m)
  BY <1>2, <1>4
<1>6. \A n \in T : m <= n
  BY <1>5
<1> QED
  BY <1>6 DEF Min

Any(s) == CHOOSE x \in s : TRUE

LEMMA AnyOf ==
  ASSUME NEW s, s # {}
  PROVE  Any(s) \in s
BY Zenon DEF Any

\* F sums g over each of the subsets of S that has at most n elements.
SumsUpTo(F, g, S, n) ==
  /\ F \in [SUBSET S -> Nat]
  /\ \A s \in SUBSET S :
       Cardinality(s) <= n => F[s] = IF s = {} THEN 0 ELSE g[Any(s)] + F[s \ {Any(s)}]

Sums(F, g, S) ==
  /\ F \in [SUBSET S -> Nat]
  /\ \A s \in SUBSET S : F[s] = IF s = {} THEN 0 ELSE g[Any(s)] + F[s \ {Any(s)}]

LEMMA SubsetFinite ==
  ASSUME NEW S, IsFiniteSet(S), NEW s \in SUBSET S
  PROVE  /\ IsFiniteSet(s) /\ Cardinality(s) \in Nat /\ Cardinality(s) <= Cardinality(S)
         /\ Cardinality(s) = 0 <=> s = {}
         /\ \A x \in s : s \ {x} \in SUBSET S /\ Cardinality(s \ {x}) = Cardinality(s) - 1
<1>1. IsFiniteSet(s) /\ Cardinality(s) <= Cardinality(S)
  BY FS_Subset
<1> QED
  BY <1>1, FS_CardinalityType, FS_EmptySet, FS_RemoveElement

LEMMA SumsExtend ==
  ASSUME NEW S, IsFiniteSet(S), NEW g \in [S -> Nat], NEW n \in Nat,
         \E F : SumsUpTo(F, g, S, n)
  PROVE  \E F : SumsUpTo(F, g, S, n + 1)
<1>1. PICK F : SumsUpTo(F, g, S, n)
  OBVIOUS
<1> DEFINE More(s) == IF s = {} THEN 0 ELSE g[Any(s)] + F[s \ {Any(s)}]
           G == [s \in SUBSET S |-> IF Cardinality(s) <= n THEN F[s] ELSE More(s)]
<1>2. ASSUME NEW s \in SUBSET S
      PROVE  /\ More(s) \in Nat
             /\ Cardinality(s) <= n => F[s] = More(s)
             /\ s # {} => s \ {Any(s)} \in SUBSET S /\ Cardinality(s \ {Any(s)}) = Cardinality(s) - 1
  <2>1. s # {} => Any(s) \in s /\ s \ {Any(s)} \in SUBSET S
    BY AnyOf
  <2>2. F \in [SUBSET S -> Nat] /\ (Cardinality(s) <= n => F[s] = More(s))
    BY <1>1 DEF SumsUpTo
  <2>3. s # {} => Cardinality(s \ {Any(s)}) = Cardinality(s) - 1
    BY <2>1, SubsetFinite
  <2>4. s # {} => g[Any(s)] \in Nat /\ F[s \ {Any(s)}] \in Nat
    BY <2>1, <2>2
  <2> QED
    BY <2>1, <2>2, <2>3, <2>4
<1> HIDE DEF More
<1>3. F \in [SUBSET S -> Nat]
  BY <1>1 DEF SumsUpTo
<1>4. G \in [SUBSET S -> Nat] /\ \A s \in SUBSET S : G[s] = IF Cardinality(s) <= n THEN F[s] ELSE More(s)
  BY <1>2, <1>3
<1> HIDE DEF G
<1>5. ASSUME NEW s \in SUBSET S, Cardinality(s) <= n + 1
      PROVE  G[s] = IF s = {} THEN 0 ELSE g[Any(s)] + G[s \ {Any(s)}]
  <2>1. Cardinality(s) \in Nat /\ G[s] = More(s)
    BY <1>2, <1>4, SubsetFinite
  <2>2. s # {} => G[s \ {Any(s)}] = F[s \ {Any(s)}]
    BY <1>2, <1>4, <1>5, <2>1
  <2> QED
    BY <2>1, <2>2 DEF More
<1>6. SumsUpTo(G, g, S, n + 1)
  BY <1>4, <1>5 DEF SumsUpTo
<1> QED
  BY <1>6

LEMMA SumsExist ==
  ASSUME NEW S, IsFiniteSet(S), NEW g \in [S -> Nat]
  PROVE  \E F : Sums(F, g, S)
<1> DEFINE Good(n) == \E F : SumsUpTo(F, g, S, n)
           Bad == {n \in Nat : ~Good(n)}
<1>1. Good(0)
  <2> DEFINE F == [s \in SUBSET S |-> 0]
  <2>1. SumsUpTo(F, g, S, 0)
    BY SubsetFinite DEF SumsUpTo
  <2> QED
    BY <2>1
<1>2. \A n \in Nat : Good(n) => Good(n + 1)
  BY SumsExtend
<1>3. Bad = {}
  <2> SUFFICES ASSUME Bad # {} PROVE FALSE
    OBVIOUS
  <2> HIDE DEF Good
  <2>1. Min(Bad) \in Bad /\ \A n \in Bad : Min(Bad) <= n
    BY LeastExists
  <2>2. Min(Bad) # 0 /\ Min(Bad) \in Nat
    BY <1>1, <2>1
  <2>3. Min(Bad) - 1 \in Nat /\ Min(Bad) - 1 \notin Bad /\ (Min(Bad) - 1) + 1 = Min(Bad)
    BY <2>1, <2>2
  <2>4. Good(Min(Bad) - 1)
    BY <2>3
  <2>5. Good((Min(Bad) - 1) + 1)
    BY <1>2, <2>3, <2>4
  <2> QED
    BY <2>1, <2>3, <2>5
<1>4. Cardinality(S) \in Nat
  BY FS_CardinalityType
<1>5. Good(Cardinality(S))
  BY <1>3, <1>4
<1>6. PICK F : SumsUpTo(F, g, S, Cardinality(S))
  BY <1>5
<1>7. Sums(F, g, S)
  BY <1>6, SubsetFinite DEF SumsUpTo, Sums
<1> QED
  BY <1>7


\* Of some subsets of a finite set, one has the fewest elements.
LEMMA SmallestExists ==
  ASSUME NEW S, IsFiniteSet(S), NEW B \in SUBSET (SUBSET S), B # {}
  PROVE  \E s \in B : \A t \in B : Cardinality(s) <= Cardinality(t)
<1> DEFINE Sizes == {Cardinality(s) : s \in B}
<1>1. Sizes \in SUBSET Nat /\ Sizes # {}
  BY SubsetFinite
<1>2. Min(Sizes) \in Sizes /\ \A n \in Sizes : Min(Sizes) <= n
  BY <1>1, LeastExists
<1> QED
  BY <1>2

\* There is one such function, so a recursive definition of it is it.
LEMMA SumsUnique ==
  ASSUME NEW S, IsFiniteSet(S), NEW g \in [S -> Nat], NEW H,
         H = [s \in SUBSET S |-> IF s = {} THEN 0 ELSE g[Any(s)] + H[s \ {Any(s)}]]
  PROVE  Sums(H, g, S)
<1>1. PICK F : Sums(F, g, S)
  BY SumsExist
<1> DEFINE Good(s) == H[s] = F[s]
           Bad == {s \in SUBSET S : ~Good(s)}
<1>2. Bad = {}
  <2> SUFFICES ASSUME Bad # {} PROVE FALSE
    OBVIOUS
  <2> HIDE DEF Good
  <2>3. PICK s \in Bad : \A t \in Bad : Cardinality(s) <= Cardinality(t)
    BY SmallestExists
  <2>4. CASE s = {}
    BY <1>1, <2>3, <2>4 DEF Sums, Good
  <2>5. CASE s # {}
    <3>1. Any(s) \in s
      BY <2>5, AnyOf
    <3>2. s \ {Any(s)} \in SUBSET S /\ Cardinality(s \ {Any(s)}) = Cardinality(s) - 1 /\ Cardinality(s) \in Nat
      BY <3>1, SubsetFinite
    <3>3. s \ {Any(s)} \notin Bad
      BY <2>3, <3>2
    <3>4. H[s \ {Any(s)}] = F[s \ {Any(s)}]
      BY <3>2, <3>3 DEF Good
    <3>5. H[s] = g[Any(s)] + H[s \ {Any(s)}]
      BY <2>5
    <3> QED
      BY <1>1, <2>3, <2>5, <3>4, <3>5 DEF Sums, Good
  <2> QED
    BY <2>4, <2>5
<1>3. H = F
  <2>1. F \in [SUBSET S -> Nat]
    BY <1>1 DEF Sums
  <2>2. \A s \in SUBSET S : H[s] = F[s]
    BY <1>2 DEF Good
  <2> QED
    BY <2>1, <2>2
<1> QED
  BY <1>1, <1>3

\* Any element can be taken out first.
LEMMA SumTakes ==
  ASSUME NEW S, NEW g, NEW F, IsFiniteSet(S), g \in [S -> Nat], Sums(F, g, S),
         NEW u \in SUBSET S, NEW x \in u
  PROVE  F[u] = g[x] + F[u \ {x}]
<1> DEFINE Good(s) == \A y \in s : F[s] = g[y] + F[s \ {y}]
           Bad == {s \in SUBSET S : ~Good(s)}
<1>1. F \in [SUBSET S -> Nat]
      /\ \A s \in SUBSET S : F[s] = IF s = {} THEN 0 ELSE g[Any(s)] + F[s \ {Any(s)}]
  BY Zenon DEF Sums
<1>2. Bad = {}
  <2> SUFFICES ASSUME Bad # {} PROVE FALSE
    OBVIOUS
  <2> HIDE DEF Good
  <2>3. PICK s \in Bad : \A t \in Bad : Cardinality(s) <= Cardinality(t)
    BY SmallestExists
  <2>4. PICK y \in s : F[s] # g[y] + F[s \ {y}]
    BY <2>3 DEF Good
  <2> DEFINE c == Any(s)
  <2>5. c \in s /\ F[s] = g[c] + F[s \ {c}] /\ c # y
    BY <1>1, <2>4, AnyOf
  <2> HIDE DEF c
  <2>6. /\ s \ {c} \in SUBSET S /\ Cardinality(s \ {c}) = Cardinality(s) - 1
        /\ s \ {y} \in SUBSET S /\ Cardinality(s \ {y}) = Cardinality(s) - 1
        /\ Cardinality(s) \in Nat
    BY <2>5, SubsetFinite
  <2>7. Good(s \ {c}) /\ Good(s \ {y})
    BY <2>3, <2>6
  <2>8. y \in s \ {c} /\ c \in s \ {y} /\ (s \ {c}) \ {y} = (s \ {y}) \ {c} /\ (s \ {c}) \ {y} \in SUBSET S
    BY <2>5
  <2>9. F[s \ {c}] = g[y] + F[(s \ {c}) \ {y}] /\ F[s \ {y}] = g[c] + F[(s \ {c}) \ {y}]
    BY <2>7, <2>8 DEF Good
  <2>10. g[y] \in Nat /\ g[c] \in Nat /\ F[(s \ {c}) \ {y}] \in Nat
    BY <1>1, <2>5, <2>8
  <2> QED
    BY <2>4, <2>5, <2>9, <2>10
<1> QED
  BY <1>2

\* A sum over more elements of values that are no less is no less.
LEMMA SumGrows ==
  ASSUME NEW T, IsFiniteSet(T), NEW S \in SUBSET T,
         NEW g \in [S -> Nat], NEW h \in [T -> Nat], \A x \in S : g[x] <= h[x],
         NEW F, Sums(F, g, S), NEW G, Sums(G, h, T)
  PROVE  \A t \in SUBSET T : F[t \cap S] <= G[t]
<1> DEFINE Good(t) == F[t \cap S] <= G[t]
           Bad == {t \in SUBSET T : ~Good(t)}
<1>1. /\ F \in [SUBSET S -> Nat]
      /\ \A s \in SUBSET S : F[s] = IF s = {} THEN 0 ELSE g[Any(s)] + F[s \ {Any(s)}]
  BY Zenon DEF Sums
<1>2. /\ G \in [SUBSET T -> Nat]
      /\ \A s \in SUBSET T : G[s] = IF s = {} THEN 0 ELSE h[Any(s)] + G[s \ {Any(s)}]
  BY Zenon DEF Sums
<1>4. IsFiniteSet(S)
  BY FS_Subset
<1>5. \A s \in SUBSET S : \A x \in s : F[s] = g[x] + F[s \ {x}]
  <2> SUFFICES ASSUME NEW s \in SUBSET S, NEW x \in s PROVE F[s] = g[x] + F[s \ {x}]
    BY Zenon
  <2> QED
    BY <1>4, SumTakes
<1>3. SUFFICES ASSUME Bad # {} PROVE FALSE
  OBVIOUS
<1> HIDE DEF Good
<1>6. PICK t \in Bad : \A u \in Bad : Cardinality(t) <= Cardinality(u)
  BY <1>3, SmallestExists
<1> DEFINE low == F[t \cap S]
<1>9. t \in SUBSET T /\ ~(low <= G[t])
  BY Zenon, <1>6 DEF Good
<1> HIDE DEF low
<1>7. CASE t = {}
  <2>1. low = 0 /\ G[t] = 0
    BY <1>1, <1>2, <1>7 DEF low
  <2> QED
    BY <1>9, <2>1
<1>8. CASE t # {}
  <2> DEFINE x == Any(t)
  <2>1. x \in t /\ G[t] = h[x] + G[t \ {x}]
    BY <1>2, <1>6, <1>8, AnyOf
  <2> HIDE DEF x
  <2>2. t \ {x} \in SUBSET T /\ Cardinality(t \ {x}) = Cardinality(t) - 1 /\ Cardinality(t) \in Nat
    BY <2>1, SubsetFinite
  <2>3. F[(t \ {x}) \cap S] <= G[t \ {x}]
    <3>1. t \ {x} \notin Bad
      BY <1>6, <2>2
    <3> QED
      BY <2>2, <3>1 DEF Good
  <2>4. h[x] \in Nat /\ G[t \ {x}] \in Nat /\ F[(t \ {x}) \cap S] \in Nat
    BY <1>1, <1>2, <2>1, <2>2
  <2>5. CASE x \notin S
    <3>1. t \cap S = (t \ {x}) \cap S
      BY <2>5
    <3> QED
      BY <1>9, <2>1, <2>3, <2>4, <3>1 DEF low
  <2>6. CASE x \in S
    <3>1. t \cap S \in SUBSET S /\ x \in t \cap S
      BY <2>1, <2>6
    <3>4. F[t \cap S] = g[x] + F[(t \cap S) \ {x}]
      BY <1>5, <3>1
    <3>5. (t \cap S) \ {x} = (t \ {x}) \cap S
      OBVIOUS
    <3>6. g[x] \in Nat /\ g[x] <= h[x]
      BY <2>6
    <3> QED
      BY <1>9, <2>1, <2>3, <2>4, <3>4, <3>5, <3>6 DEF low
  <2> QED
    BY <2>5, <2>6
<1> QED
  BY <1>7, <1>8

-----------------------------------------------------------------------------
(* The signature. *)

LEMMA RowsFinite ==
  ASSUME NEW jobs, NEW keys, IsFiniteSet(jobs), IsFiniteSet(keys), NEW L \in LedgerOf(jobs, keys)
  PROVE  /\ IsFiniteSet(RowsIn(L, jobs)) /\ RowsIn(L, jobs) \subseteq jobs \X keys
         /\ \A jk \in jobs \X keys :
              /\ jk \in RowsIn(L, jobs) <=> L[jk[1]][jk[2]].status # "none"
              /\ L[jk[1]][jk[2]].attempts \in Nat
<1>1. \A j \in jobs : DOMAIN L[j] = keys
  BY DEF LedgerOf
<1>2. UNION {DOMAIN L[j] : j \in jobs} = IF jobs = {} THEN {} ELSE keys
  BY <1>1
<1>3. RowsIn(L, jobs) = {jk \in jobs \X keys : L[jk[1]][jk[2]].status # "none"}
  BY <1>2 DEF RowsIn
<1>4. IsFiniteSet(jobs \X keys)
  BY FS_Product
<1>5. IsFiniteSet(RowsIn(L, jobs))
  BY <1>3, <1>4, FS_Subset
<1>6. \A jk \in jobs \X keys : L[jk[1]][jk[2]].attempts \in Nat
  BY DEF LedgerOf
<1> QED
  BY <1>3, <1>5, <1>6

\* The attempts of the rows, as a function.
AttemptsIn(L, jobs) == [jk \in RowsIn(L, jobs) |-> L[jk[1]][jk[2]].attempts]

LEMMA AttemptsSummed ==
  ASSUME NEW jobs, NEW keys, IsFiniteSet(jobs), IsFiniteSet(keys), NEW L \in LedgerOf(jobs, keys),
         NEW min
  PROVE  \E F : /\ Sums(F, AttemptsIn(L, jobs), RowsIn(L, jobs))
                /\ workflowProgressSignature(L, jobs, min).attempts = F[RowsIn(L, jobs)]
<1> DEFINE R == RowsIn(L, jobs)
           g == AttemptsIn(L, jobs)
           Att(jk) == L[jk[1]][jk[2]].attempts
           Eq(F) == F = [s \in SUBSET R |-> IF s = {} THEN 0 ELSE Att(Any(s)) + F[s \ {Any(s)}]]
           H == CHOOSE F : Eq(F)
<1>1. IsFiniteSet(R) /\ g \in [R -> Nat] /\ \A jk \in R : g[jk] = Att(jk)
  BY RowsFinite DEF AttemptsIn
<1>2. workflowProgressSignature(L, jobs, min).attempts = H[R]
  BY DEF workflowProgressSignature, MapThenSumSet, MapThenFoldSet, Any
<1> HIDE DEF R, g, Att
<1>3. \A s \in SUBSET R : s # {} => g[Any(s)] = Att(Any(s))
  BY <1>1, AnyOf
<1>4. PICK F : Sums(F, g, R)
  BY <1>1, SumsExist
<1>5. Eq(F)
  BY <1>3, <1>4 DEF Sums
<1>6. Eq(H)
  BY Zenon, <1>5
<1> HIDE DEF H
<1>7. H = [s \in SUBSET R |-> IF s = {} THEN 0 ELSE g[Any(s)] + H[s \ {Any(s)}]]
  BY <1>3, <1>6
<1>8. Sums(H, g, R)
  BY <1>1, <1>7, SumsUnique
<1> QED
  BY <1>2, <1>8 DEF R, g

LEMMA SignatureTyped ==
  ASSUME NEW jobs, NEW keys, IsFiniteSet(jobs), IsFiniteSet(keys), NEW L \in LedgerOf(jobs, keys),
         NEW min
  PROVE  workflowProgressSignature(L, jobs, min) \in [items : Nat, attempts : Nat, retryable : Nat]
<1> DEFINE R == RowsIn(L, jobs)
           now == workflowProgressSignature(L, jobs, min)
           Retryable == {jk \in R : LET r == L[jk[1]][jk[2]] IN r.status = "failed" /\ ~Exhausted(r, min)}
<1>1. IsFiniteSet(R)
  BY RowsFinite
<1>2. IsFiniteSet(Retryable)
  <2>1. Retryable \in SUBSET R
    OBVIOUS
  <2> HIDE DEF Retryable
  <2> QED
    BY <1>1, <2>1, FS_Subset
<1>3. now.items = Cardinality(R) /\ now.retryable = Cardinality(Retryable)
  BY DEF workflowProgressSignature, workflowRetryableCount
<1>4. PICK F : Sums(F, AttemptsIn(L, jobs), R) /\ now.attempts = F[R]
  BY AttemptsSummed
<1>5. now.items \in Nat /\ now.retryable \in Nat /\ now.attempts \in Nat
  <2> HIDE DEF R, now, Retryable
  <2> QED
    BY <1>1, <1>2, <1>3, <1>4, FS_CardinalityType DEF Sums
<1>6. \E a, b, c : now = [items |-> a, attempts |-> b, retryable |-> c]
  BY Zenon DEF workflowProgressSignature
<1> HIDE DEF now
<1>7. PICK a, b, c : now = [items |-> a, attempts |-> b, retryable |-> c]
  BY <1>6
<1>8. a \in Nat /\ b \in Nat /\ c \in Nat
  BY <1>5, <1>7
<1>9. now \in [items : Nat, attempts : Nat, retryable : Nat]
  BY <1>7, <1>8
<1> QED
  BY <1>9 DEF now

\* A mark with more attempts than the row had moves the signature forward, so that
\* noForwardProgress does not hold.
LEMMA MarkAdvances ==
  ASSUME NEW jobs, NEW keys, IsFiniteSet(jobs), IsFiniteSet(keys), NEW L \in LedgerOf(jobs, keys),
         NEW min, NEW job \in jobs, NEW key \in keys,
         NEW r \in [status : WorkStatus, attempts : Nat, root : keys \cup {NoKey}],
         r.attempts > L[job][key].attempts
  PROVE  /\ workflowProgressSignature(L, jobs, min).items
              <= workflowProgressSignature(markWorkItem(L, job, key, r), jobs, min).items
         /\ workflowProgressSignature(L, jobs, min).attempts
              < workflowProgressSignature(markWorkItem(L, job, key, r), jobs, min).attempts
<1> DEFINE M == markWorkItem(L, job, key, r)
           S == RowsIn(L, jobs)
           T == RowsIn(M, jobs)
           x == <<job, key>>
           g == AttemptsIn(L, jobs)
           h == AttemptsIn(M, jobs)
<1>1. M \in LedgerOf(jobs, keys)
  BY DEF LedgerOf, markWorkItem
<1>2. \A j \in jobs, k \in keys : M[j][k] = IF j = job /\ k = key THEN r ELSE L[j][k]
  BY DEF LedgerOf, markWorkItem
<1>3. r.status # "none"
  BY DEF WorkStatus
<1> HIDE DEF M
<1>4. IsFiniteSet(S) /\ IsFiniteSet(T) /\ S \subseteq jobs \X keys /\ T \subseteq jobs \X keys
  BY <1>1, RowsFinite
<1>5. /\ \A jk \in jobs \X keys :
           /\ jk \in S <=> L[jk[1]][jk[2]].status # "none"
           /\ jk \in T <=> M[jk[1]][jk[2]].status # "none"
           /\ L[jk[1]][jk[2]].attempts \in Nat /\ M[jk[1]][jk[2]].attempts \in Nat
  BY <1>1, RowsFinite
<1>6. x \in T /\ S \subseteq T
  BY <1>2, <1>3, <1>4, <1>5
<1>7. g \in [S -> Nat] /\ h \in [T -> Nat]
      /\ (\A y \in S : g[y] <= h[y]) /\ h[x] = r.attempts /\ (x \in S => g[x] < h[x])
  <2>1. g \in [S -> Nat] /\ h \in [T -> Nat]
    BY <1>4, <1>5 DEF AttemptsIn
  <2>2. \A y \in S : g[y] = L[y[1]][y[2]].attempts /\ g[y] \in Nat
    BY <2>1 DEF AttemptsIn
  <2>3. \A y \in T : h[y] = M[y[1]][y[2]].attempts
    BY DEF AttemptsIn
  <2>4. \A y \in S : M[y[1]][y[2]] = IF y = x THEN r ELSE L[y[1]][y[2]]
    BY <1>2, <1>4
  <2>5. M[x[1]][x[2]] = r
    BY <1>2
  <2> HIDE DEF g, h, S, T
  <2> QED
    BY <1>6, <2>1, <2>2, <2>3, <2>4, <2>5
<1>8. PICK F : Sums(F, g, S) /\ workflowProgressSignature(L, jobs, min).attempts = F[S]
  BY AttemptsSummed
<1>9. PICK G : Sums(G, h, T) /\ workflowProgressSignature(M, jobs, min).attempts = G[T]
  BY <1>1, AttemptsSummed
<1>10. workflowProgressSignature(L, jobs, min).items <= workflowProgressSignature(M, jobs, min).items
  <2>1. Cardinality(S) <= Cardinality(T)
    <3> HIDE DEF S, T
    <3> QED
      BY <1>4, <1>6, FS_Subset
  <2> QED
    BY <2>1 DEF workflowProgressSignature
<1>12. L[job][key].attempts \in Nat /\ h[x] \in Nat /\ L[job][key].attempts < h[x]
  <2>1. L[job][key].attempts \in Nat /\ r.attempts \in Nat
    BY DEF LedgerOf
  <2>2. h[x] = r.attempts
    BY Zenon, <1>7
  <2> HIDE DEF h, x
  <2> QED
    BY <2>1, <2>2
<1> HIDE DEF S, T, g, h, x
<1>11. F[S] < G[T]
  <2>1. F[(T \ {x}) \cap S] <= G[T \ {x}]
    <3>1. S \in SUBSET T /\ T \ {x} \in SUBSET T
      BY <1>6
    <3> QED
      BY <1>4, <1>7, <1>8, <1>9, <3>1, SumGrows
  <2>2. G[T] = h[x] + G[T \ {x}]
    <3>1. IsFiniteSet(T) /\ T \in SUBSET T /\ h \in [T -> Nat] /\ Sums(G, h, T) /\ x \in T
      BY Zenon, <1>4, <1>6, <1>7, <1>9
    <3> QED
      BY <3>1, SumTakes
  <2>3. F[(T \ {x}) \cap S] \in Nat /\ G[T \ {x}] \in Nat /\ h[x] \in Nat /\ h[x] > 0
    <3>1. F \in [SUBSET S -> Nat] /\ G \in [SUBSET T -> Nat]
      BY <1>8, <1>9 DEF Sums
    <3>2. T \ {x} \in SUBSET T /\ (T \ {x}) \cap S \in SUBSET S
      OBVIOUS
    <3> QED
      BY <1>12, <3>1, <3>2
  <2>4. CASE x \notin S
    <3>1. (T \ {x}) \cap S = S
      BY <1>6, <2>4
    <3>2. F[S] <= G[T \ {x}] /\ F[S] \in Nat
      BY <2>1, <2>3, <3>1
    <3> QED
      BY <2>2, <2>3, <3>2
  <2>5. CASE x \in S
    <3>1. (T \ {x}) \cap S = S \ {x}
      BY <1>6, <2>5
    <3>4. IsFiniteSet(S) /\ S \in SUBSET S /\ g \in [S -> Nat] /\ Sums(F, g, S)
      BY Zenon, <1>4, <1>7, <1>8
    <3>2. F[S] = g[x] + F[S \ {x}]
      BY <2>5, <3>4, SumTakes
    <3>3. g[x] \in Nat /\ g[x] < h[x]
      BY <1>7, <2>5
    <3> QED
      BY <2>1, <2>2, <2>3, <3>1, <3>2, <3>3
  <2> QED
    BY <2>4, <2>5
<1> QED
  BY <1>8, <1>9, <1>10, <1>11 DEF M

-----------------------------------------------------------------------------
(* Choosing among finitely many. *)

LEMMA GreatestExists ==
  ASSUME NEW I, IsFiniteSet(I), I # {}, NEW w \in [I -> Nat]
  PROVE  \E i \in I : \A j \in I : w[i] >= w[j]
<1> DEFINE Good(s) == \E i \in s : \A j \in s : w[i] >= w[j]
           Bad == {s \in SUBSET I : s # {} /\ ~Good(s)}
<1>1. Bad = {}
  <2> SUFFICES ASSUME Bad # {} PROVE FALSE
    OBVIOUS
  <2> HIDE DEF Good
  <2>1. PICK s \in Bad : \A t \in Bad : Cardinality(s) <= Cardinality(t)
    BY SmallestExists
  <2>2. PICK x \in s : TRUE
    OBVIOUS
  <2>3. /\ s \ {x} \in SUBSET I /\ Cardinality(s \ {x}) = Cardinality(s) - 1
        /\ Cardinality(s) \in Nat /\ x \in I
    BY <2>2, SubsetFinite
  <2>4. CASE s \ {x} = {}
    <3>1. s = {x}
      BY <2>4
    <3> QED
      BY <2>3, <3>1 DEF Good
  <2>5. CASE s \ {x} # {}
    <3>1. Good(s \ {x})
      BY <2>1, <2>3, <2>5
    <3>2. PICK y \in s \ {x} : \A j \in s \ {x} : w[y] >= w[j]
      BY <3>1 DEF Good
    <3>3. \A j \in s : w[j] \in Nat
      OBVIOUS
    <3>4. CASE w[x] >= w[y]
      <4>1. \A j \in s : w[x] >= w[j]
        BY <3>2, <3>3, <3>4
      <4> QED
        BY <4>1 DEF Good
    <3>5. CASE ~(w[x] >= w[y])
      <4>1. \A j \in s : w[y] >= w[j]
        BY <3>2, <3>3, <3>5
      <4> QED
        BY <4>1 DEF Good
    <3> QED
      BY <3>4, <3>5
  <2> QED
    BY <2>4, <2>5
<1> QED
  BY <1>1

\* The limit of a run is kept.
LEMMA FirstOnesBounded ==
  ASSUME NEW m \in Nat, NEW s, DOMAIN s = 1 .. m, NEW S, NEW n \in Nat
  PROVE  /\ FirstOnes(s, S, n) \subseteq S
         /\ IsFiniteSet(FirstOnes(s, S, n)) /\ Cardinality(FirstOnes(s, S, n)) <= n
<1> DEFINE Upto(i) == {j \in 1 .. i : s[j] \in S}
           I == {i \in 1 .. m : s[i] \in S /\ Cardinality(Upto(i)) <= n}
<1>1. FirstOnes(s, S, n) = {s[i] : i \in I}
  BY DEF FirstOnes
<1>2. IsFiniteSet(I)
  <2>1. IsFiniteSet(1 .. m) /\ I \subseteq 1 .. m
    BY FS_Interval
  <2> QED
    BY <2>1, FS_Subset
<1>3. /\ IsFiniteSet({s[i] : i \in I})
      /\ Cardinality({s[i] : i \in I}) \in Nat /\ Cardinality(I) \in Nat
      /\ Cardinality({s[i] : i \in I}) <= Cardinality(I)
  <2> DEFINE f == [i \in I |-> s[i]]
             T == {s[i] : i \in I}
  <2>1. f \in Surjection(I, T)
    BY DEF Surjection
  <2> HIDE DEF f, T
  <2>2. IsFiniteSet(T) /\ Cardinality(T) <= Cardinality(I)
    BY <1>2, <2>1, FS_Surjection
  <2>3. Cardinality(T) \in Nat /\ Cardinality(I) \in Nat
    BY <1>2, <2>2, FS_CardinalityType
  <2> QED
    BY <2>2, <2>3 DEF T
<1>4. Cardinality(I) <= n
  <2>1. CASE I = {}
    <3>1. Cardinality(I) = 0
      BY Zenon, <2>1, FS_EmptySet
    <3> QED
      BY <3>1
  <2>2. CASE I # {}
    <3>1. [j \in I |-> j] \in [I -> Nat]
      OBVIOUS
    <3>2. PICK i \in I : \A j \in I : [l \in I |-> l][i] >= [l \in I |-> l][j]
      BY <1>2, <2>2, <3>1, GreatestExists
    <3>3. I \subseteq Upto(i)
      BY <3>2
    <3>4. IsFiniteSet(Upto(i))
      <4>1. IsFiniteSet(1 .. i) /\ Upto(i) \subseteq 1 .. i
        BY FS_Interval
      <4> QED
        BY <4>1, FS_Subset
    <3>5. Cardinality(I) <= Cardinality(Upto(i)) /\ Cardinality(Upto(i)) \in Nat
      BY <3>3, <3>4, FS_Subset, FS_CardinalityType
    <3> QED
      BY <1>3, <3>5
  <2> QED
    BY <2>1, <2>2
<1>5. {s[i] : i \in I} \subseteq S
  OBVIOUS
<1> HIDE DEF I
<1> QED
  BY <1>1, <1>3, <1>4, <1>5
=============================================================================
