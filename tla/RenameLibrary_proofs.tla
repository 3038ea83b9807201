------------------------ MODULE RenameLibrary_proofs ------------------------
(***************************************************************************)
(* What holds of plex-rename over any library, for any number of runs,     *)
(* limits, corrections by the owner, new keys, failures and kills.         *)
(***************************************************************************)
EXTENDS RenameLibrary, WorkItems_proofs

-----------------------------------------------------------------------------
(* Keys, homes and decisions. *)

LEMMA KeysFinite ==
  /\ IsFiniteSet(KeySet)
  /\ \E m \in Nat : DOMAIN Keys = 1 .. m
  /\ \E m \in Nat : DOMAIN Roots = 1 .. m
<1>1. PICK m \in Nat : DOMAIN Keys = 1 .. m
  BY LibraryAssumption DEF LibraryAssumption
<1>2. PICK n \in Nat : DOMAIN Roots = 1 .. n
  BY LibraryAssumption DEF LibraryAssumption
<1>3. IsFiniteSet(1 .. m)
  BY FS_Interval
<1>4. Keys \in Surjection(1 .. m, KeySet)
  BY <1>1, LibraryAssumption DEF Surjection, KeySet, LibraryAssumption
<1> QED
  BY <1>1, <1>2, <1>3, <1>4, FS_Surjection

LEMMA FirstIn ==
  ASSUME NEW S \in SUBSET KeySet, S # {}
  PROVE  First(S) \in S
<1> DEFINE Places == {i \in DOMAIN Keys : Keys[i] \in S}
<1>1. Places \in SUBSET Nat /\ Places # {}
  BY KeysFinite DEF KeySet
<1> HIDE DEF Places
<1>2. Min(Places) \in Places
  BY <1>1, LeastExists
<1> QED
  BY <1>2 DEF First, Places

\* Rows of discover, or what Plex has.
Listing(rows) == DOMAIN rows \subseteq KeySet /\ \A k \in DOMAIN rows : rows[k] \in Items

WeightOf(rows, R) == MapThenSumSet(LAMBDA k : Bytes[rows[k].file] + 1, R)

LEMMA Weighed ==
  ASSUME NEW rows, Listing(rows), NEW R \in SUBSET (DOMAIN rows)
  PROVE  WeightOf(rows, R) \in Nat
<1> DEFINE Weight(k) == Bytes[rows[k].file] + 1
           g == [k \in R |-> Weight(k)]
           Eq(F) == F = [s \in SUBSET R |-> IF s = {} THEN 0 ELSE Weight(Any(s)) + F[s \ {Any(s)}]]
           H == CHOOSE F : Eq(F)
<1>1. IsFiniteSet(R)
  BY KeysFinite, FS_Subset DEF Listing
<1>2. \A k \in R : rows[k].file \in Files /\ Bytes[rows[k].file] \in Nat
  BY LibraryAssumption DEF Listing, Items, LibraryAssumption
<1>3. g \in [R -> Nat] /\ \A k \in R : g[k] = Weight(k)
  BY <1>2
<1>4. WeightOf(rows, R) = H[R]
  BY DEF WeightOf, MapThenSumSet, MapThenFoldSet, Any
<1> HIDE DEF g, Weight
<1>5. \A s \in SUBSET R : s # {} => g[Any(s)] = Weight(Any(s))
  BY <1>3, AnyOf
<1>6. PICK F : Sums(F, g, R)
  BY <1>1, <1>3, SumsExist
<1>7. Eq(F)
  BY <1>5, <1>6 DEF Sums
<1>8. Eq(H)
  BY Zenon, <1>7
<1> HIDE DEF H
<1>9. H = [s \in SUBSET R |-> IF s = {} THEN 0 ELSE g[Any(s)] + H[s \ {Any(s)}]]
  BY <1>5, <1>8
<1>10. Sums(H, g, R)
  BY <1>1, <1>3, <1>9, SumsUnique
<1>11. H[R] \in Nat
  BY <1>10 DEF Sums
<1> QED
  BY <1>4, <1>11 DEF H

\* Every show has a home.
LEMMA HomeIn ==
  ASSUME NEW rows, Listing(rows), NEW sh, RootSet # {}
  PROVE  chooseShowHomeRoots(rows, sh) \in RootSet
<1> DEFINE On(r) == {k \in DOMAIN rows : ShowOf[rows[k].title] = sh /\ rows[k].path.root = r}
           weight == [i \in DOMAIN Roots |-> WeightOf(rows, On(Roots[i]))]
           heaviest == {i \in DOMAIN Roots : \A j \in DOMAIN Roots : weight[i] >= weight[j]}
<1>1. PICK m \in Nat : DOMAIN Roots = 1 .. m
  BY KeysFinite
<1>2. IsFiniteSet(DOMAIN Roots) /\ DOMAIN Roots \subseteq Nat /\ DOMAIN Roots # {}
  BY <1>1, FS_Interval DEF RootSet
<1>3. weight \in [DOMAIN Roots -> Nat]
  <2>1. \A r : On(r) \in SUBSET (DOMAIN rows)
    OBVIOUS
  <2> HIDE DEF On
  <2>2. \A i \in DOMAIN Roots : WeightOf(rows, On(Roots[i])) \in Nat
    BY <2>1, Weighed
  <2> QED
    BY Zenon, <2>2
<1>4. chooseShowHomeRoots(rows, sh) = Roots[Min(heaviest)]
  BY DEF chooseShowHomeRoots, WeightOf
<1> HIDE DEF weight
<1>5. heaviest \in SUBSET Nat /\ heaviest # {}
  BY <1>2, <1>3, GreatestExists
<1> HIDE DEF heaviest
<1>6. Min(heaviest) \in heaviest
  BY <1>5, LeastExists
<1>7. Min(heaviest) \in DOMAIN Roots
  BY <1>6 DEF heaviest
<1> QED
  BY <1>4, <1>7 DEF RootSet

LEMMA TargetIn ==
  ASSUME NEW rows, Listing(rows), NEW k \in DOMAIN rows, rows[k].title # Unfit
  PROVE  Target(rows, k) \in Paths
<1>1. rows[k] \in Items
  BY DEF Listing
<1>2. rows[k].path.root \in RootSet /\ rows[k].title \in Names
  BY <1>1 DEF Items, Paths, Names
<1>3. chooseShowHomeRoots(rows, ShowOf[rows[k].title]) \in RootSet
  BY <1>2, HomeIn
<1> QED
  BY <1>2, <1>3 DEF Target, Paths

PlanRows == [decision : {"rename", "already-canonical", "skip"}, from : Paths, to : Paths]

\* A rename goes to the target of a named item.
LEMMA DecisionIn ==
  ASSUME NEW rows, Listing(rows), NEW k \in DOMAIN rows
  PROVE  /\ decideRename(rows, k) \in PlanRows
         /\ decideRename(rows, k).from = rows[k].path
         /\ decideRename(rows, k).decision = "rename" =>
              rows[k].title # Unfit /\ decideRename(rows, k).to = Target(rows, k)
         /\ (rows[k].title # Unfit /\ decideRename(rows, k).decision # "rename") =>
              Target(rows, k) = rows[k].path
<1>1. rows[k].path \in Paths
  BY DEF Listing, Items
<1>2. rows[k].title # Unfit => Target(rows, k) \in Paths
  BY TargetIn
<1> QED
  BY <1>1, <1>2 DEF decideRename, Decision, PlanRows

LEMMA FinalIn ==
  ASSUME NEW rows, Listing(rows), NEW entries, DOMAIN entries \subseteq DOMAIN rows,
         \A k \in DOMAIN entries : entries[k] = decideRename(rows, k)
  PROVE  /\ DOMAIN finalizePlan(entries, rows) = DOMAIN entries
         /\ \A k \in DOMAIN entries :
              /\ finalizePlan(entries, rows)[k] \in PlanRows
              /\ finalizePlan(entries, rows)[k].decision = "rename" =>
                   finalizePlan(entries, rows)[k] = entries[k] /\ ~Collides(entries, rows, k)
<1>1. DOMAIN finalizePlan(entries, rows) = DOMAIN entries
  BY DEF finalizePlan
<1> SUFFICES ASSUME NEW k \in DOMAIN entries
             PROVE  /\ finalizePlan(entries, rows)[k] \in PlanRows
                    /\ finalizePlan(entries, rows)[k].decision = "rename" =>
                         finalizePlan(entries, rows)[k] = entries[k] /\ ~Collides(entries, rows, k)
  BY <1>1
<1>2. finalizePlan(entries, rows)[k] =
        IF entries[k].decision = "rename" /\ Collides(entries, rows, k)
        THEN Decision("skip", entries[k].from, entries[k].from)
        ELSE entries[k]
  BY DEF finalizePlan
<1>3. entries[k] \in PlanRows
  BY DecisionIn
<1> QED
  BY <1>2, <1>3 DEF Decision, PlanRows

-----------------------------------------------------------------------------
(* What the steps touch. *)

LEMMA Frames ==
  ASSUME [Next]_vars
  PROVE  /\ \/ UNCHANGED world
            \/ Move \/ \E k \in KeySet : Rescan(k) \/ Rekey(k) \/ Rematch(k)
            \/ \E f \in Files : Edit(f)
         /\ UNCHANGED snapshots \/ Discover \/ Plan \/ VerifyItem \/ VerifyEnds
         /\ \/ UNCHANGED <<ledger, appliedTo, usedToday>>
            \/ Scheduled \/ Reconcile \/ SoftSkip \/ MarkApplied \/ MoveFails \/ ConfirmItem
         /\ UNCHANGED moves \/ Move
         /\ UNCHANGED journal \/ Reconcile \/ Intend \/ Move \/ Complete \/ MarkApplied \/ MoveFails \/ Kill
         /\ UNCHANGED run \/ Scheduled \/ Asked \/ Works \/ Kill
         /\ UNCHANGED rekeyed \/ \E k \in KeySet : Rekey(k)
<1> USE DEF world, snapshots, done, journal, run
<1>1. CASE Scheduled
  BY <1>1 DEF Scheduled
<1>2. CASE Asked
  BY <1>2 DEF Asked
<1>3. CASE Discover \/ Plan \/ Gate
  BY <1>3 DEF Works, Discover, Plan, Gate
<1>4. CASE VerifyItem \/ VerifyEnds \/ ApplySelects \/ ApplyEnds
  BY <1>4 DEF Works, VerifyItem, VerifyEnds, ApplySelects, ApplyEnds
<1>5. CASE Reconcile \/ SoftSkip \/ Intend \/ Move
  BY <1>5 DEF Works, Reconcile, SoftSkip, Intend, Move
<1>5a. CASE Complete \/ MarkApplied \/ MoveFails
  BY <1>5a DEF Works, Complete, MarkApplied, MoveFails
<1>6. CASE ConfirmSelects \/ ConfirmItem \/ ConfirmEnds
  BY <1>6 DEF Works, ConfirmSelects, ConfirmItem, ConfirmEnds
<1>7. CASE Kill
  BY <1>7 DEF Kill
<1>8. ASSUME NEW k \in KeySet, Rescan(k) \/ Rekey(k) \/ Rematch(k)
      PROVE  UNCHANGED <<snapshots, done, journal, run>> /\ (UNCHANGED rekeyed \/ Rekey(k))
  BY <1>8 DEF Rescan, Rekey, Rematch
<1>9. ASSUME NEW f \in Files, Edit(f)
      PROVE  UNCHANGED <<snapshots, done, journal, run, rekeyed>>
  BY <1>9 DEF Edit
<1>10. CASE UNCHANGED vars
  BY <1>10 DEF vars
<1> QED
  BY <1>1, <1>2, <1>3, <1>4, <1>5, <1>5a, <1>6, <1>7, <1>8, <1>9, <1>10 DEF Next, Works

\* The queues of verify and of apply, the room the day leaves for the latter, and for the
\* item that is open; a file is only under way at an item.
Left == IF open = {} THEN 0 ELSE 1

Queued ==
  /\ phase = "verify" => todo \subseteq ToRename
  /\ phase \in {"reconcile", "apply"} => \A k \in todo : k \in DOMAIN verify /\ verify[k].eligible
  /\ phase = "reconcile" => usedToday + Cardinality(todo) + Left <= maxPerDay + 1
  /\ phase = "apply" => usedToday + Cardinality(todo) <= maxPerDay + 1
  /\ usedToday + Left <= maxPerDay + 1
  /\ moving # {} => phase = "apply" /\ todo # {}

Typed == TypeOK /\ Queued

\* The item that apply works on.
LEMMA AtItem ==
  ASSUME Typed, phase = "apply", todo # {}
  PROVE  /\ First(todo) \in todo /\ First(todo) \in KeySet
         /\ First(todo) \in DOMAIN verify /\ verify[First(todo)].eligible
BY FirstIn DEF Typed, TypeOK, Queued

\* A move is of the file that is where verify saw one of this size.
LEMMA Moved ==
  ASSUME Typed, Move
  PROVE  \E f \in Files :
           /\ disk[f] = verify[First(todo)].from /\ Bytes[f] = verify[First(todo)].bytes
           /\ ~Occupied(verify[First(todo)].to)
           /\ disk' = [disk EXCEPT ![f] = verify[First(todo)].to]
           /\ moves' = [moves EXCEPT ![f] = @ + 1]
           /\ moving = {} /\ moving' = {f}
<1> DEFINE v == verify[First(todo)]
           f == CHOOSE f \in Files : disk[f] = v.from
<1>1. /\ disk' = [disk EXCEPT ![f] = v.to] /\ moves' = [moves EXCEPT ![f] = @ + 1]
      /\ Present(v.from, v.bytes) /\ ~Occupied(v.to) /\ moving = {} /\ moving' = {f}
  BY DEF Move, MayMove
<1>2. PICK g \in Files : disk[g] = v.from /\ Bytes[g] = v.bytes
  BY <1>1 DEF Present
<1> HIDE DEF v
<1>3. f \in Files /\ disk[f] = v.from
  BY Zenon, <1>2
<1>4. f = g
  BY <1>2, <1>3 DEF Typed, TypeOK
<1> HIDE DEF f
<1> QED
  BY <1>1, <1>2, <1>3, <1>4 DEF v

\* The rows that apply marks: that of its item, or of the one that was open.
LEMMA Marks ==
  ASSUME Typed, Reconcile \/ SoftSkip \/ MarkApplied \/ MoveFails
  PROVE  \/ Reconcile /\ UNCHANGED <<ledger, appliedTo, usedToday>>
         \/ \E k \in KeySet, st \in {"success", "skipped", "failed"} :
              /\ \E to : MarkApply(k, st, to)
              /\ IF Reconcile THEN \E o \in open : k = o.key
                 ELSE k = First(todo) /\ k \in todo /\ todo' = todo \ {k} /\ phase = "apply"
              /\ MarkApplied <=> ~Reconcile /\ st = "success"
<1>1. CASE Reconcile
  <2>1. phase = "reconcile" /\ open \subseteq [key : KeySet, from : Paths, to : Paths]
    BY <1>1 DEF Reconcile, Typed, TypeOK
  <2>2. PICK o \in open :
          \/ UNCHANGED <<ledger, appliedTo, usedToday>>
          \/ MarkApply(o.key, "success", o.to)
          \/ MarkApply(o.key, "failed", o.to)
    BY <1>1 DEF Reconcile
  <2>3. o.key \in KeySet /\ ~MarkApplied
    BY <2>1, <2>2 DEF MarkApplied
  <2> QED
    BY <1>1, <2>2, <2>3
<1>2. CASE ~Reconcile
  <2>1. First(todo) \in todo /\ First(todo) \in KeySet /\ phase = "apply"
    BY <1>2, AtItem DEF SoftSkip, Idle, MarkApplied, MoveFails
  <2>2. CASE SoftSkip
    BY <1>2, <2>1, <2>2 DEF SoftSkip, Idle, MarkApplied, Handled
  <2>3. CASE MarkApplied
    BY <1>2, <2>1, <2>3 DEF MarkApplied, Handled
  <2>4. CASE MoveFails
    BY <1>2, <2>1, <2>4 DEF MoveFails, MarkApplied, Handled
  <2> QED
    BY <1>2, <2>2, <2>3, <2>4
<1> QED
  BY <1>1, <1>2

-----------------------------------------------------------------------------
(* Types. *)

LEMMA Disturbs ==
  ASSUME TypeOK, NEW f \in Faults, Disturbed(f)
  PROVE  faults' \in [Faults -> Nat]
BY DEF TypeOK, Disturbed

LEMMA FaultsTyped ==
  ASSUME TypeOK, [Next]_vars
  PROVE  faults' \in [Faults -> Nat]
<1>1. faults \in [Faults -> Nat]
  BY DEF TypeOK
<1>2. \/ UNCHANGED faults
      \/ \E f \in {"ask", "walk", "io", "health", "fetch", "late", "kill", "rekey", "rematch", "edit"} :
           Disturbed(f)
  <2>1. CASE Scheduled \/ Asked \/ Discover \/ Plan \/ Gate \/ VerifyItem \/ VerifyEnds \/ UNCHANGED vars
    BY <2>1 DEF Scheduled, Asked, Discover, Plan, Gate, VerifyItem, VerifyEnds, vars
  <2>2. CASE ApplySelects \/ Reconcile \/ SoftSkip \/ Intend \/ Move
    BY <2>2 DEF ApplySelects, Reconcile, SoftSkip, Intend, Move
  <2>2a. CASE Complete \/ MarkApplied \/ MoveFails \/ ApplyEnds
    BY <2>2a DEF Complete, MarkApplied, MoveFails, ApplyEnds
  <2>3. CASE ConfirmSelects \/ ConfirmItem \/ ConfirmEnds \/ Kill
    BY <2>3 DEF ConfirmSelects, ConfirmItem, ConfirmEnds, Kill
  <2>4. ASSUME NEW k \in KeySet, Rescan(k) \/ Rekey(k) \/ Rematch(k)
        PROVE  UNCHANGED faults \/ Disturbed("rekey") \/ Disturbed("rematch")
    BY <2>4 DEF Rescan, Rekey, Rematch
  <2>5. ASSUME NEW f \in Files, Edit(f)
        PROVE  Disturbed("edit")
    BY <2>5 DEF Edit
  <2> QED
    BY <2>1, <2>2, <2>2a, <2>3, <2>4, <2>5 DEF Next, Works
<1> QED
  BY <1>1, <1>2, Disturbs DEF Faults

WorldTyped ==
  /\ disk \in [Files -> Paths] /\ \A f, g \in Files : disk[f] = disk[g] => f = g
  /\ Listing(plex)
  /\ \A k, l \in DOMAIN plex : plex[k].file = plex[l].file => k = l
  /\ rekeyed \subseteq Files

\* What a new key does to Plex.
LEMMA Rekeyed ==
  ASSUME TypeOK, NEW k \in KeySet, Rekey(k)
  PROVE  \E new \in KeySet \ (DOMAIN plex \cup DOMAIN discover \cup DOMAIN verify) :
           /\ ledger[APPLY_JOB][new] = NoRow /\ \A o \in open : o.key # new
           /\ k \in DOMAIN plex /\ plex[k].file \in Files
           /\ rekeyed' = rekeyed \cup {plex[k].file}
           /\ DOMAIN plex' = (DOMAIN plex \ {k}) \cup {new}
           /\ \A l \in DOMAIN plex \ {k} : plex'[l] = plex[l]
           /\ plex'[new] = [plex[k] EXCEPT !.path = disk[plex[k].file]]
<1>1. Fresh \in SUBSET KeySet /\ Fresh # {}
  BY DEF Rekey, Fresh
<1>2. First(Fresh) \in Fresh
  BY <1>1, FirstIn
<1>3. k \in DOMAIN plex /\ plex[k] \in Items
  BY DEF Rekey, TypeOK
<1>4. plex[k].file \in Files
  BY <1>3 DEF Items
<1> QED
  BY <1>2, <1>3, <1>4 DEF Rekey, Fresh

LEMMA StepWorld ==
  ASSUME Typed, [Next]_vars
  PROVE  WorldTyped'
<1>0. WorldTyped
  BY DEF Typed, TypeOK, WorldTyped, Listing
<1>1. CASE UNCHANGED <<world, rekeyed>>
  BY <1>0, <1>1 DEF world, WorldTyped, Listing
<1>2. CASE Move
  <2> DEFINE k == First(todo)
  <2>1. PICK f \in Files : ~Occupied(verify[k].to) /\ disk' = [disk EXCEPT ![f] = verify[k].to]
    BY <1>2, Moved
  <2>2. verify[k].to \in Paths
    BY <1>2, AtItem DEF Move, Typed, TypeOK
  <2> HIDE DEF k
  <2>3. UNCHANGED <<plex, rekeyed>>
    BY <1>2 DEF Move
  <2>4. disk' \in [Files -> Paths] /\ \A g, h \in Files : disk'[g] = disk'[h] => g = h
    BY <1>0, <2>1, <2>2 DEF WorldTyped, Occupied
  <2> QED
    BY <1>0, <2>3, <2>4 DEF WorldTyped, Listing
<1>3. ASSUME NEW k \in KeySet, Rescan(k) \/ Rematch(k)
      PROVE  WorldTyped'
  <2>1. k \in DOMAIN plex /\ UNCHANGED <<disk, rekeyed>>
    BY <1>3 DEF Rescan, Rematch
  <2>2. plex[k] \in Items
    BY <1>0, <2>1 DEF WorldTyped, Listing
  <2>3. CASE Rescan(k)
    <3>1. plex' = [plex EXCEPT ![k].path = disk[plex[k].file]]
      BY <2>3 DEF Rescan
    <3>2. disk[plex[k].file] \in Paths
      BY <1>0, <2>2 DEF WorldTyped, Items
    <3> QED
      BY <1>0, <2>1, <2>2, <3>1, <3>2 DEF WorldTyped, Listing, Items
  <2>4. CASE Rematch(k)
    <3>1. PICK t \in Titles \cup {Unfit} : plex' = [plex EXCEPT ![k].title = t]
      BY <2>4 DEF Rematch
    <3> QED
      BY <1>0, <2>1, <2>2, <3>1 DEF WorldTyped, Listing, Items
  <2> QED
    BY <1>3, <2>3, <2>4
<1>4. ASSUME NEW k \in KeySet, Rekey(k)
      PROVE  WorldTyped'
  <2>1. PICK new \in KeySet \ (DOMAIN plex \cup DOMAIN discover) :
           /\ k \in DOMAIN plex /\ plex[k].file \in Files
           /\ rekeyed' = rekeyed \cup {plex[k].file}
           /\ DOMAIN plex' = (DOMAIN plex \ {k}) \cup {new}
           /\ \A l \in DOMAIN plex \ {k} : plex'[l] = plex[l]
           /\ plex'[new] = [plex[k] EXCEPT !.path = disk[plex[k].file]]
    BY <1>4, Rekeyed DEF Typed
  <2>2. plex[k] \in Items /\ disk[plex[k].file] \in Paths
    BY <1>0, <2>1 DEF WorldTyped, Listing
  <2>3. plex'[new] \in Items /\ plex'[new].file = plex[k].file
    BY <2>1, <2>2 DEF Items
  <2>4. UNCHANGED disk
    BY <1>4 DEF Rekey
  <2> QED
    BY <1>0, <2>1, <2>3, <2>4 DEF WorldTyped, Listing
<1>5. ASSUME NEW f \in Files, Edit(f)
      PROVE  WorldTyped'
  <2>1. PICK p \in Paths : ~Occupied(p) /\ disk' = [disk EXCEPT ![f] = p]
    BY <1>5 DEF Edit
  <2>2. UNCHANGED <<plex, rekeyed>>
    BY <1>5 DEF Edit
  <2>3. disk' \in [Files -> Paths] /\ \A e, g \in Files : disk'[e] = disk'[g] => e = g
    BY <1>0, <2>1 DEF WorldTyped, Occupied
  <2> QED
    BY <1>0, <2>2, <2>3 DEF WorldTyped, Listing
<1> QED
  BY <1>1, <1>2, <1>3, <1>4, <1>5, Frames

SnapshotsTyped ==
  /\ Listing(discover)
  /\ DOMAIN plan \subseteq KeySet /\ \A k \in DOMAIN plan : plan[k] \in PlanRows
  /\ DOMAIN verify \subseteq KeySet
  /\ \A k \in DOMAIN verify :
       verify[k] \in [eligible : BOOLEAN, from : Paths, to : Paths, bytes : Nat]

\* What discover keeps under a key is a row it had or one that Plex has.
LEMMA Discovered ==
  ASSUME Typed, Discover
  PROVE  \A k \in DOMAIN discover' :
           \/ k \in DOMAIN discover /\ discover'[k] = discover[k]
           \/ k \in DOMAIN plex /\ discover'[k] = plex[k]
<1>1. PICK lost : discover' =
        LET walked == walkLibraryParts(lost)
            allowed == [k \in DOMAIN walked \cap roots |-> walked[k]]
        IN IF limited THEN Over(discover, allowed)
           ELSE pruneSnapshotRows(Over(discover, allowed), DOMAIN walked)
  BY DEF Discover
<1> DEFINE walked == walkLibraryParts(lost)
           allowed == [k \in DOMAIN walked \cap roots |-> walked[k]]
<1>2. \A k \in DOMAIN allowed : k \in DOMAIN plex /\ allowed[k] = plex[k]
  BY DEF walkLibraryParts
<1>3. discover' = IF limited THEN Over(discover, allowed)
                  ELSE pruneSnapshotRows(Over(discover, allowed), DOMAIN walked)
  BY <1>1
<1> HIDE DEF walked, allowed
<1> QED
  BY <1>2, <1>3 DEF Over, pruneSnapshotRows

\* What plan writes, and what it leaves of its rows.
Decided(keys) == finalizePlan([k \in keys |-> decideRename(discover, k)], discover)

LEMMA Planned ==
  ASSUME Typed, Plan
  PROVE  /\ plan' = Recorded(plan, Decided(DOMAIN discover \cap roots))
         /\ phase' = "gate" /\ UNCHANGED <<discover, limited, roots>>
BY DEF Plan, Decided, Begins

LEMMA DecidedIn ==
  ASSUME Listing(discover), NEW keys \in SUBSET (DOMAIN discover)
  PROVE  /\ DOMAIN Decided(keys) = keys
         /\ \A k \in keys :
              /\ Decided(keys)[k] \in PlanRows
              /\ Decided(keys)[k].decision = "rename" =>
                   /\ Decided(keys)[k] = decideRename(discover, k)
                   /\ ~Collides([l \in keys |-> decideRename(discover, l)], discover, k)
<1> DEFINE entries == [k \in keys |-> decideRename(discover, k)]
<1>1. DOMAIN entries = keys /\ \A k \in DOMAIN entries : entries[k] = decideRename(discover, k)
  OBVIOUS
<1>2. Decided(keys) = finalizePlan(entries, discover)
  BY DEF Decided
<1> HIDE DEF entries
<1>3. /\ DOMAIN finalizePlan(entries, discover) = DOMAIN entries
      /\ \A k \in DOMAIN entries :
           /\ finalizePlan(entries, discover)[k] \in PlanRows
           /\ finalizePlan(entries, discover)[k].decision = "rename" =>
                finalizePlan(entries, discover)[k] = entries[k] /\ ~Collides(entries, discover, k)
  BY <1>1, FinalIn
<1> QED
  BY <1>1, <1>2, <1>3 DEF entries

LEMMA VerifiesItem ==
  ASSUME Typed, VerifyItem
  PROVE  \E k \in todo :
           /\ k \in ToRename /\ todo' = todo \ {k}
           /\ UNCHANGED <<discover, plan, limited, roots, phase, attempt, failing>>
           /\ DOMAIN verify' = DOMAIN verify \cup {k}
           /\ \A l \in DOMAIN verify \ {k} : verify'[l] = verify[l]
           /\ verify'[k] \in [eligible : BOOLEAN, from : Paths, to : Paths, bytes : Nat]
           /\ verify'[k].from = plan[k].from /\ verify'[k].to = plan[k].to
           /\ verify'[k].eligible => k \in DOMAIN discover /\ verify'[k].bytes = Bytes[discover[k].file]
<1> DEFINE k == First(todo)
           size == IF k \in DOMAIN discover THEN Bytes[discover[k].file] ELSE 0
           eligible == k \in DOMAIN discover /\ Present(plan[k].from, size) /\ ~Occupied(plan[k].to)
           verdict == [eligible |-> eligible, from |-> plan[k].from, to |-> plan[k].to, bytes |-> size]
<1>1. k \in todo /\ todo \subseteq ToRename
  BY FirstIn DEF VerifyItem, Typed, TypeOK, Queued
<1>2. plan[k].from \in Paths /\ plan[k].to \in Paths
  BY <1>1 DEF Typed, TypeOK, ToRename
<1>3. size \in Nat
  <2>1. k \in DOMAIN discover => discover[k].file \in Files
    BY DEF Typed, TypeOK, Items
  <2> QED
    BY <2>1, LibraryAssumption DEF LibraryAssumption
<1>4. eligible \in BOOLEAN
  BY DEF Present, Occupied
<1>5. verify' = Over(verify, [l \in {k} |-> verdict]) /\ todo' = todo \ {k}
  BY DEF VerifyItem
<1>6. UNCHANGED <<discover, plan, limited, roots, phase, attempt, failing>>
  BY DEF VerifyItem
<1> HIDE DEF k, size, eligible
<1>7. verdict \in [eligible : BOOLEAN, from : Paths, to : Paths, bytes : Nat]
  BY <1>2, <1>3, <1>4
<1>8. verify'[k] = verdict /\ DOMAIN verify' = DOMAIN verify \cup {k}
      /\ \A l \in DOMAIN verify \ {k} : verify'[l] = verify[l]
  BY <1>5 DEF Over
<1>9. verdict.from = plan[k].from /\ verdict.to = plan[k].to /\ verdict.bytes = size
      /\ verdict.eligible = eligible
  OBVIOUS
<1>10. eligible => k \in DOMAIN discover /\ size = Bytes[discover[k].file]
  BY DEF eligible, size
<1> HIDE DEF verdict
<1>11. k \in ToRename
  BY <1>1
<1> QED
  BY <1>1, <1>5, <1>6, <1>7, <1>8, <1>9, <1>10, <1>11

LEMMA StepSnapshots ==
  ASSUME Typed, [Next]_vars
  PROVE  SnapshotsTyped'
<1>0. SnapshotsTyped /\ Listing(plex)
  BY DEF Typed, TypeOK, SnapshotsTyped, Listing, PlanRows
<1>1. CASE UNCHANGED snapshots
  BY <1>0, <1>1 DEF snapshots, SnapshotsTyped, Listing
<1>2. CASE Discover
  <2>1. Listing(discover')
    BY <1>0, <1>2, Discovered DEF Listing, SnapshotsTyped
  <2>2. UNCHANGED <<plan, verify>>
    BY <1>2 DEF Discover
  <2> QED
    BY <1>0, <2>1, <2>2 DEF SnapshotsTyped, Listing
<1>3. CASE Plan
  <2>1. UNCHANGED <<discover, verify>>
    BY <1>3 DEF Plan
  <2>2. plan' = Recorded(plan, Decided(DOMAIN discover \cap roots))
    BY <1>3, Planned
  <2>3. /\ DOMAIN Decided(DOMAIN discover \cap roots) \subseteq KeySet
        /\ \A k \in DOMAIN Decided(DOMAIN discover \cap roots) :
             Decided(DOMAIN discover \cap roots)[k] \in PlanRows
    BY <1>0, DecidedIn DEF SnapshotsTyped, Listing
  <2>4. DOMAIN plan' \subseteq KeySet /\ \A k \in DOMAIN plan' : plan'[k] \in PlanRows
    BY <1>0, <2>2, <2>3 DEF SnapshotsTyped, Recorded, Over, pruneSnapshotRows
  <2> QED
    BY <1>0, <2>1, <2>4 DEF SnapshotsTyped, Listing
<1>4. CASE VerifyItem
  <2>1. PICK k \in todo :
           /\ UNCHANGED <<discover, plan>>
           /\ DOMAIN verify' = DOMAIN verify \cup {k}
           /\ \A l \in DOMAIN verify \ {k} : verify'[l] = verify[l]
           /\ verify'[k] \in [eligible : BOOLEAN, from : Paths, to : Paths, bytes : Nat]
    BY <1>4, VerifiesItem
  <2>2. k \in KeySet
    BY DEF Typed, TypeOK
  <2> QED
    BY <1>0, <2>1, <2>2 DEF SnapshotsTyped, Listing
<1>5. CASE VerifyEnds
  <2>1. UNCHANGED <<discover, plan>>
    BY <1>5 DEF VerifyEnds
  <2>2. DOMAIN verify' \subseteq DOMAIN verify /\ \A k \in DOMAIN verify' : verify'[k] = verify[k]
    BY <1>5 DEF VerifyEnds, pruneSnapshotRows
  <2> QED
    BY <1>0, <2>1, <2>2 DEF SnapshotsTyped, Listing
<1> QED
  BY <1>1, <1>2, <1>3, <1>4, <1>5, Frames

LEMMA Marked ==
  ASSUME Typed, NEW job \in {APPLY_JOB, CONFIRM_JOB}, NEW k \in KeySet,
         NEW st \in {"success", "skipped", "failed"},
         ledger' = markWorkItem(ledger, job, k, Row(st, 1, k))
  PROVE  /\ ledger' \in LedgerOf({APPLY_JOB, CONFIRM_JOB}, KeySet)
         /\ \A j \in {APPLY_JOB, CONFIRM_JOB}, l \in KeySet :
              ledger'[j][l] = IF j = job /\ l = k THEN Row(st, 1, k) ELSE ledger[j][l]
<1>1. ledger \in LedgerOf({APPLY_JOB, CONFIRM_JOB}, KeySet)
  BY DEF Typed, TypeOK
<1>2. Row(st, 1, k) \in [status : WorkStatus \cup {"none"}, attempts : Nat, root : KeySet \cup {NoKey}]
  BY DEF Row, WorkStatus
<1> QED
  BY <1>1, <1>2 DEF LedgerOf, markWorkItem

\* What a mark of apply does to the rows, to their targets and to the day.
LEMMA MarkedApply ==
  ASSUME Typed, NEW k \in KeySet, NEW st \in {"success", "skipped", "failed"}, NEW to,
         MarkApply(k, st, to)
  PROVE  /\ ledger' \in LedgerOf({APPLY_JOB, CONFIRM_JOB}, KeySet)
         /\ \A l \in KeySet : Applied(l)' <=> IF l = k THEN st = "success" ELSE Applied(l)
         /\ DOMAIN appliedTo' = {l \in KeySet : Applied(l)'}
         /\ usedToday' = IF st = "success" THEN usedToday + 1 ELSE usedToday
<1>1. /\ ledger' \in LedgerOf({APPLY_JOB, CONFIRM_JOB}, KeySet)
      /\ \A l \in KeySet : ledger'[APPLY_JOB][l] = IF l = k THEN Row(st, 1, k) ELSE ledger[APPLY_JOB][l]
  BY Marked DEF MarkApply, APPLY_JOB, CONFIRM_JOB
<1>2. \A l \in KeySet : Applied(l)' <=> IF l = k THEN st = "success" ELSE Applied(l)
  BY <1>1 DEF Applied, Row
<1>3. DOMAIN appliedTo = {l \in KeySet : Applied(l)}
  BY DEF Typed, TypeOK
<1>4. DOMAIN appliedTo' = IF st = "success" THEN DOMAIN appliedTo \cup {k} ELSE DOMAIN appliedTo \ {k}
  BY DEF MarkApply, Over
<1> QED
  BY <1>1, <1>2, <1>3, <1>4 DEF MarkApply

DoneTyped ==
  /\ ledger \in LedgerOf({APPLY_JOB, CONFIRM_JOB}, KeySet)
  /\ DOMAIN appliedTo = {k \in KeySet : Applied(k)}
  /\ moves \in [Files -> Nat]

LEMMA StepDone ==
  ASSUME Typed, [Next]_vars
  PROVE  DoneTyped'
<1> USE DEF APPLY_JOB, CONFIRM_JOB
<1>0. DoneTyped
  BY DEF Typed, TypeOK, DoneTyped
<1>0a. moves' \in [Files -> Nat]
  <2>1. CASE Move
    BY <1>0, <2>1, Moved DEF DoneTyped
  <2> QED
    BY <1>0, <2>1, Frames DEF DoneTyped
<1>1. CASE UNCHANGED <<ledger, appliedTo, usedToday>>
  BY <1>0, <1>0a, <1>1 DEF DoneTyped, Applied
<1>2. CASE Scheduled
  BY <1>0, <1>0a, <1>2 DEF Scheduled, DoneTyped, Applied
<1>3. CASE Reconcile \/ SoftSkip \/ MarkApplied \/ MoveFails
  <2>1. CASE UNCHANGED <<ledger, appliedTo, usedToday>>
    BY <1>1, <2>1
  <2>2. CASE ~UNCHANGED <<ledger, appliedTo, usedToday>>
    <3>1. PICK k \in KeySet, st \in {"success", "skipped", "failed"} : \E to : MarkApply(k, st, to)
      BY <1>3, <2>2, Marks
    <3> QED
      BY <1>0a, <3>1, MarkedApply DEF DoneTyped
  <2> QED
    BY <2>1, <2>2
<1>4. CASE ConfirmItem
  <2>1. UNCHANGED <<appliedTo, usedToday>>
    BY <1>4 DEF ConfirmItem
  <2>2. First(todo) \in KeySet
    BY <1>4, FirstIn DEF ConfirmItem, Typed, TypeOK
  <2>3. PICK st \in {"success", "skipped", "failed"} :
          ledger' = markWorkItem(ledger, CONFIRM_JOB, First(todo), Row(st, 1, First(todo)))
    BY <1>4 DEF ConfirmItem, Confirms
  <2>4. /\ ledger' \in LedgerOf({APPLY_JOB, CONFIRM_JOB}, KeySet)
        /\ \A l \in KeySet : ledger'[APPLY_JOB][l] = ledger[APPLY_JOB][l]
    BY <2>2, <2>3, Marked
  <2>5. \A l \in KeySet : Applied(l)' <=> Applied(l)
    BY <2>4 DEF Applied
  <2> QED
    BY <1>0, <1>0a, <2>1, <2>4, <2>5 DEF DoneTyped
<1> QED
  BY <1>1, <1>2, <1>3, <1>4, Frames

JournalTyped ==
  /\ open \subseteq [key : KeySet, from : Paths, to : Paths] /\ \A o, p \in open : o = p
  /\ moving \cup unmarked \subseteq Files /\ \A f, g \in moving : f = g

LEMMA StepJournal ==
  ASSUME Typed, [Next]_vars
  PROVE  JournalTyped'
<1>0. JournalTyped
  BY DEF Typed, TypeOK, JournalTyped
<1> USE DEF JournalTyped
<1>1. CASE UNCHANGED journal
  BY <1>0, <1>1 DEF journal
<1>2. CASE Intend
  <2>1. First(todo) \in KeySet /\ First(todo) \in DOMAIN verify
    BY <1>2, AtItem DEF Intend, Idle
  <2>2. verify[First(todo)].from \in Paths /\ verify[First(todo)].to \in Paths
    BY <2>1 DEF Typed, TypeOK
  <2> QED
    BY <1>0, <1>2, <2>1, <2>2 DEF Intend
<1>3. CASE Move
  <2>1. UNCHANGED <<open, unmarked>>
    BY <1>3 DEF Move
  <2> QED
    BY <1>0, <1>3, <2>1, Moved
<1>4. CASE Complete \/ MarkApplied
  BY <1>0, <1>4 DEF Complete, MarkApplied
<1>5. CASE Reconcile \/ MoveFails \/ Kill
  BY <1>0, <1>5 DEF Reconcile, MoveFails, Kill
<1> QED
  BY <1>1, <1>2, <1>3, <1>4, <1>5, Frames

RunTyped ==
  /\ roots \cup todo \subseteq KeySet
  /\ phase \in {"idle", "discover", "plan", "gate", "verify", "select", "reconcile", "apply",
              "pending", "confirm"}
  /\ limited \in BOOLEAN /\ failing \in BOOLEAN /\ attempt \in 0 .. Retries + 1

\* The batch keeps to the limits of the day and of the run.
LEMMA BatchIn ==
  ASSUME Typed
  PROVE  /\ Batch \subseteq Eligible /\ Eligible \subseteq KeySet
         /\ IsFiniteSet(Batch)
         /\ Batch # {} => usedToday + Cardinality(Batch) <= maxPerDay
<1> DEFINE n == Least(maxPerDay - usedToday, maxPerRun)
<1>1. /\ maxPerDay \in Nat /\ maxPerRun \in Nat /\ usedToday \in 0 .. maxPerDay + 1
      /\ roots \subseteq KeySet
  BY LibraryAssumption DEF Typed, TypeOK, LibraryAssumption
<1>2. n \in Int /\ (n >= 0 => n \in Nat /\ usedToday + n <= maxPerDay)
  BY <1>1 DEF Least
<1>3. PICK m \in Nat : DOMAIN Keys = 1 .. m
  BY KeysFinite
<1> HIDE DEF n
<1>4. Batch = FirstOnes(Keys, Eligible, n)
  BY DEF Batch, n
<1>5. Eligible \subseteq KeySet
  BY <1>1 DEF Eligible
<1>6. CASE n >= 0
  <2>1. /\ FirstOnes(Keys, Eligible, n) \subseteq Eligible
        /\ IsFiniteSet(FirstOnes(Keys, Eligible, n)) /\ Cardinality(FirstOnes(Keys, Eligible, n)) <= n
    BY <1>2, <1>3, <1>6, FirstOnesBounded
  <2>2. Cardinality(FirstOnes(Keys, Eligible, n)) \in Nat
    BY <2>1, FS_CardinalityType
  <2> QED
    BY <1>1, <1>2, <1>4, <1>5, <1>6, <2>1, <2>2
<1>7. CASE ~(n >= 0)
  <2>1. ASSUME NEW i \in DOMAIN Keys
        PROVE  ~(Cardinality({j \in 1 .. i : Keys[j] \in Eligible}) <= n)
    <3>1. IsFiniteSet(1 .. i)
      BY <1>3, FS_Interval
    <3>2. IsFiniteSet({j \in 1 .. i : Keys[j] \in Eligible})
      BY <3>1, FS_Subset
    <3>3. Cardinality({j \in 1 .. i : Keys[j] \in Eligible}) \in Nat
      BY <3>2, FS_CardinalityType
    <3> QED
      BY <1>2, <1>7, <3>3
  <2>2. Batch = {}
    BY <1>4, <2>1 DEF FirstOnes
  <2> QED
    BY <1>5, <2>2, FS_EmptySet
<1> QED
  BY <1>6, <1>7

LEMMA StepRun ==
  ASSUME Typed, [Next]_vars
  PROVE  RunTyped'
<1>0. RunTyped /\ Retries \in Nat
  BY LibraryAssumption DEF Typed, TypeOK, RunTyped, LibraryAssumption
<1> USE DEF RunTyped
<1>1. CASE UNCHANGED run
  BY <1>0, <1>1 DEF run
<1>2. CASE Scheduled
  BY <1>0, <1>2 DEF Scheduled
<1>3. CASE Asked
  <2>1. PICK n \in Limits :
          roots' = IF n = 0 THEN KeySet
                   ELSE selectPendingRoots(AllRows, DOMAIN AllRows, {CONFIRM_JOB},
                                           Keys, DOMAIN plex, n, MAX_ATTEMPTS)
    BY <1>3 DEF Asked
  <2>2. roots' \subseteq KeySet
    BY <2>1 DEF selectPendingRoots, FirstOnes, KeySet
  <2> QED
    BY <1>0, <1>3, <2>2 DEF Asked
<1>4. ASSUME RunEnds
      PROVE  RunTyped'
  <2>1. 0 \in 0 .. Retries + 1
    BY <1>0
  <2>2. /\ phase' = "idle" /\ todo' = {} /\ attempt' = 0 /\ failing' = FALSE
        /\ limited' = FALSE /\ roots' = {}
    BY <1>4 DEF RunEnds
  <2> QED
    BY <2>1, <2>2
<1>5. ASSUME NEW st \in {"plan", "gate", "verify", "select", "reconcile", "apply", "pending", "confirm"},
             NEW keys \in SUBSET KeySet, NEW n \in 0 .. Retries + 1, Begins(st, keys, n)
      PROVE  RunTyped'
  BY <1>0, <1>5 DEF Begins
<1>6. CASE Discover \/ Plan \/ VerifyEnds
  BY <1>0, <1>5, <1>6 DEF Discover, Plan, VerifyEnds
<1>7. CASE Gate
  <2>1. ToRename \cap roots \in SUBSET KeySet
    BY <1>0
  <2> QED
    BY <1>0, <1>4, <1>5, <1>7, <2>1 DEF Gate
<1>8. CASE ApplySelects
  <2>1. Batch \in SUBSET KeySet
    BY BatchIn
  <2> QED
    BY <1>0, <1>5, <1>8, <2>1 DEF ApplySelects
<1>8a. CASE Reconcile
  <2>1. failing' \in BOOLEAN
    BY <1>0, <1>8a DEF Reconcile
  <2> QED
    BY <1>0, <1>8a, <2>1 DEF Reconcile
<1>9. CASE VerifyItem
  <2>1. todo' \subseteq todo
    BY <1>9 DEF VerifyItem
  <2> QED
    BY <1>0, <1>9, <2>1 DEF VerifyItem
<1>10. CASE SoftSkip \/ MarkApplied \/ MoveFails
  BY <1>0, <1>10 DEF SoftSkip, MarkApplied, MoveFails, Handled
<1>10a. CASE Intend \/ Move \/ Complete
  BY <1>1, <1>10a DEF Intend, Move, Complete
<1>11. CASE ConfirmItem
  <2>1. Handled(First(todo)) /\ failing' \in BOOLEAN
    BY <1>0, <1>11 DEF ConfirmItem, Confirms
  <2> QED
    BY <1>0, <2>1 DEF Handled
<1>12. CASE ConfirmSelects
  <2>1. {k \in roots : Applied(k) /\ ~isWorkItemDone(ledger, CONFIRM_JOB, k, MAX_ATTEMPTS)}
          \in SUBSET KeySet
    BY <1>0
  <2> QED
    BY <1>0, <1>5, <1>12, <2>1 DEF ConfirmSelects
<1>13. CASE ApplyEnds \/ ConfirmEnds
  <2>1. /\ attempt <= Retries => attempt + 1 \in 0 .. Retries + 1
        /\ 1 \in 0 .. Retries + 1
    BY <1>0
  <2> QED
    BY <1>4, <1>5, <1>13, <2>1 DEF ApplyEnds, ConfirmEnds, StageEnds
<1>14. CASE Kill
  BY <1>4, <1>14 DEF Kill
<1> QED
  BY <1>1, <1>2, <1>3, <1>6, <1>7, <1>8, <1>8a, <1>9, <1>10, <1>10a, <1>11, <1>12, <1>13,
     <1>14, Frames DEF Works

LEMMA StepQueued ==
  ASSUME Typed, [Next]_vars
  PROVE  Queued'
<1> USE DEF Queued
<1>0. /\ usedToday \in Nat /\ maxPerDay \in Nat
      /\ Left = 0 \/ Left = 1
      /\ Left' = 0 \/ Left' = 1
      /\ usedToday + Left <= maxPerDay + 1
  BY LibraryAssumption DEF Typed, TypeOK, LibraryAssumption, Left
<1>0a. IsFiniteSet(todo) /\ Cardinality(todo) \in Nat
  <2>1. todo \subseteq KeySet
    BY DEF Typed, TypeOK
  <2> QED
    BY <2>1, KeysFinite, FS_Subset, FS_CardinalityType
<1>1. CASE UNCHANGED <<snapshots, done, journal, run>>
  BY <1>1 DEF snapshots, done, journal, run, Typed, ToRename, Left
<1>2. CASE /\ phase' \notin {"verify", "reconcile", "apply"} /\ phase # "apply"
           /\ UNCHANGED <<usedToday, journal>>
  BY <1>2 DEF Typed, journal, Left
<1>3. CASE Gate
  BY <1>3 DEF Gate, Begins, RunEnds, snapshots, ToRename, Typed, done, journal, Left
<1>4. CASE VerifyItem
  <2>1. PICK k \in todo : todo' = todo \ {k} /\ UNCHANGED <<plan, phase>>
    BY <1>4, VerifiesItem
  <2>2. phase = "verify" /\ UNCHANGED <<usedToday, open, moving>>
    BY <1>4 DEF VerifyItem, done, journal
  <2> QED
    BY <2>1, <2>2 DEF Typed, ToRename, Left
<1>5. CASE ApplySelects
  <2>1. UNCHANGED <<verify, usedToday, open, moving>> /\ moving = {} /\ Left' = Left
    BY <1>5 DEF ApplySelects, snapshots, done, journal, Typed, Left
  <2>2. CASE Begins("apply", {}, attempt)
    <3>1. todo' = {} /\ phase' = "apply"
      BY <2>2 DEF Begins
    <3>2. Cardinality(todo') = 0
      BY Zenon, <3>1, FS_EmptySet
    <3> QED
      BY <1>0, <2>1, <3>1, <3>2
  <2>3. CASE Begins(IF open = {} THEN "apply" ELSE "reconcile", Batch, attempt)
    <3>1. /\ todo' = Batch
          /\ phase' = IF open = {} THEN "apply" ELSE "reconcile"
      BY <2>3 DEF Begins
    <3>2. \A k \in Batch : k \in DOMAIN verify /\ verify[k].eligible
      BY BatchIn DEF Eligible
    <3>3. usedToday + Cardinality(Batch) + Left <= maxPerDay + 1
      <4>1. CASE Batch = {}
        <5>1. Cardinality(Batch) = 0
          BY Zenon, <4>1, FS_EmptySet
        <5> QED
          BY <1>0, <5>1
      <4>2. CASE Batch # {}
        <5>1. Cardinality(Batch) \in Nat /\ usedToday + Cardinality(Batch) <= maxPerDay
          BY <4>2, BatchIn, FS_CardinalityType
        <5> QED
          BY <1>0, <5>1
      <4> QED
        BY <4>1, <4>2
    <3>4. Cardinality(Batch) \in Nat
      BY BatchIn, FS_CardinalityType
    <3>5. usedToday + Cardinality(Batch) <= maxPerDay + 1
      BY <1>0, <3>3, <3>4
    <3> QED
      BY <1>0, <2>1, <3>1, <3>2, <3>3, <3>5
  <2> QED
    BY <1>5, <2>2, <2>3 DEF ApplySelects
<1>6. CASE Reconcile
  <2>1. /\ phase = "reconcile" /\ phase' = "apply" /\ open # {} /\ open' = {}
        /\ UNCHANGED <<verify, moving, todo>>
    BY <1>6 DEF Reconcile, snapshots
  <2>2. usedToday' \in {usedToday, usedToday + 1}
    <3>1. CASE UNCHANGED usedToday
      BY <3>1
    <3>2. CASE ~UNCHANGED usedToday
      <4>1. PICK k \in KeySet, st \in {"success", "skipped", "failed"} : \E to : MarkApply(k, st, to)
        BY <1>6, <3>2, Marks
      <4> QED
        BY <4>1 DEF MarkApply
    <3> QED
      BY <3>1, <3>2
  <2>3. usedToday + Cardinality(todo) <= maxPerDay /\ moving = {}
    BY <1>0, <1>0a, <2>1 DEF Typed, Left
  <2>4. usedToday' \in Nat /\ usedToday' <= usedToday + 1
    BY <1>0, <2>2
  <2>5. usedToday' + Cardinality(todo) <= maxPerDay + 1 /\ usedToday' <= maxPerDay + 1
    BY <1>0, <1>0a, <2>3, <2>4
  <2> QED
    BY <2>1, <2>3, <2>4, <2>5 DEF Typed, Left
<1>7. CASE SoftSkip \/ MarkApplied \/ MoveFails
  <2>0. ~Reconcile /\ UNCHANGED <<verify, phase>> /\ open' = {} /\ moving' = {}
    BY <1>7 DEF Reconcile, SoftSkip, Idle, MarkApplied, MoveFails, Handled, snapshots, journal
  <2>1. PICK k \in KeySet, st \in {"success", "skipped", "failed"} :
          /\ \E to : MarkApply(k, st, to)
          /\ k \in todo /\ todo' = todo \ {k} /\ phase = "apply"
    BY <1>7, <2>0, Marks
  <2>2. usedToday' \in {usedToday, usedToday + 1}
    BY <2>1 DEF MarkApply
  <2>3. Cardinality(todo') = Cardinality(todo) - 1 /\ Cardinality(todo') \in Nat
    <3>1. IsFiniteSet(todo')
      BY <1>0a, <2>1, FS_Subset
    <3> QED
      BY <1>0a, <2>1, <3>1, FS_RemoveElement, FS_CardinalityType
  <2>4. usedToday + Cardinality(todo) <= maxPerDay + 1
    BY <2>1 DEF Typed
  <2>6. usedToday' \in Nat /\ usedToday' <= usedToday + 1
    BY <1>0, <2>2
  <2>7. usedToday' + Cardinality(todo') <= maxPerDay + 1 /\ usedToday' <= maxPerDay + 1
    BY <1>0, <1>0a, <2>3, <2>4, <2>6
  <2> QED
    BY <2>0, <2>1, <2>6, <2>7 DEF Typed, Left
<1>8. CASE Intend \/ Move \/ Complete
  <2>1. /\ UNCHANGED <<verify, phase, todo, usedToday>> /\ phase = "apply"
        /\ (moving' # {} => todo # {}) /\ (Left' = 1 => Left = 1 \/ todo # {})
    BY <1>8 DEF Intend, Idle, Move, Complete, snapshots, done, run, Left, Typed
  <2>2. todo # {} => Cardinality(todo) # 0
    BY <1>0a, FS_EmptySet
  <2>3. usedToday + Cardinality(todo) <= maxPerDay + 1
    BY <2>1 DEF Typed
  <2>4. usedToday + Left' <= maxPerDay + 1
    BY <1>0, <1>0a, <2>1, <2>2, <2>3
  <2> QED
    BY <2>1, <2>3, <2>4 DEF Typed
<1>9. CASE Scheduled
  <2>1. phase' = "discover" /\ usedToday' = 0 /\ UNCHANGED <<open, moving>> /\ phase = "idle"
    BY <1>9 DEF Scheduled, journal
  <2> QED
    BY <1>0, <2>1 DEF Typed
<1>10. CASE Asked \/ Discover \/ Plan \/ VerifyEnds
  BY <1>2, <1>10 DEF Asked, Discover, Plan, VerifyEnds, Begins, done
<1>11. CASE Kill
  <2>1. phase' = "idle" /\ UNCHANGED usedToday /\ (open' = open \/ open' = {}) /\ moving' = {}
    BY <1>11 DEF Kill, RunEnds, done
  <2> QED
    BY <1>0, <2>1 DEF Typed, Left
<1>12. CASE ApplyEnds
  <2>1. phase' \in {"select", "pending", "idle"} /\ UNCHANGED <<usedToday, open, moving>> /\ todo = {}
    BY <1>12 DEF ApplyEnds, StageEnds, Begins, RunEnds, done, journal
  <2> QED
    BY <2>1 DEF Typed, Left
<1>13. CASE ConfirmSelects \/ ConfirmEnds
  BY <1>2, <1>13 DEF ConfirmSelects, ConfirmEnds, StageEnds, Begins, RunEnds, done
<1>14. CASE ConfirmItem
  BY <1>2, <1>14 DEF ConfirmItem, Confirms, Handled
<1>15. ASSUME NEW k \in KeySet, Rescan(k) \/ Rekey(k) \/ Rematch(k)
       PROVE  Queued'
  BY <1>1, <1>15 DEF Rescan, Rekey, Rematch
<1>16. ASSUME NEW f \in Files, Edit(f)
       PROVE  Queued'
  BY <1>1, <1>16 DEF Edit
<1>17. CASE UNCHANGED vars
  BY <1>1, <1>17 DEF vars
<1> QED
  BY <1>3, <1>4, <1>5, <1>6, <1>7, <1>8, <1>9, <1>10, <1>11, <1>12, <1>13, <1>14, <1>15, <1>16,
     <1>17 DEF Next, Works

LEMMA StepDay ==
  ASSUME Typed, [Next]_vars, Queued'
  PROVE  usedToday' \in 0 .. maxPerDay + 1
<1>1. usedToday \in Nat /\ maxPerDay \in Nat
  BY LibraryAssumption DEF Typed, TypeOK, LibraryAssumption
<1>2. usedToday' \in Nat
  <2>1. CASE Reconcile \/ SoftSkip \/ MarkApplied \/ MoveFails
    <3>1. CASE UNCHANGED usedToday
      BY <1>1, <3>1
    <3>2. CASE ~UNCHANGED usedToday
      <4>1. PICK k \in KeySet, st \in {"success", "skipped", "failed"} : \E to : MarkApply(k, st, to)
        BY <2>1, <3>2, Marks
      <4> QED
        BY <1>1, <4>1 DEF MarkApply
    <3> QED
      BY <3>1, <3>2
  <2> QED
    <3>1. ConfirmItem => UNCHANGED usedToday
      BY DEF ConfirmItem
    <3>2. Scheduled => usedToday' = 0
      BY DEF Scheduled
    <3> QED
      BY <1>1, <2>1, <3>1, <3>2, Frames
<1>3. (Left' = 0 \/ Left' = 1) /\ usedToday' + Left' <= maxPerDay + 1
  BY DEF Queued, Left
<1> QED
  BY <1>1, <1>2, <1>3

LEMMA InitTyped == Init => Typed
<1> USE LibraryAssumption DEF LibraryAssumption
<1> SUFFICES ASSUME Init PROVE Typed
  OBVIOUS
<1>1. IsLibrary(plex)
  BY DEF Init
<1>2. /\ DOMAIN plex \subseteq KeySet /\ \A k \in DOMAIN plex : plex[k] \in Items
      /\ \A k, l \in DOMAIN plex : plex[k].file = plex[l].file => k = l
  BY <1>1 DEF IsLibrary
<1>3. ASSUME NEW f \in Files
      PROVE  \E k \in DOMAIN plex : plex[k].file = f /\ disk[f] = plex[k].path
  <2> DEFINE k == CHOOSE k \in DOMAIN plex : plex[k].file = f
  <2>1. \E l \in DOMAIN plex : plex[l].file = f
    BY <1>1 DEF IsLibrary
  <2>2. k \in DOMAIN plex /\ plex[k].file = f
    BY Zenon, <2>1
  <2>3. disk[f] = plex[k].path
    BY DEF Init
  <2> QED
    BY <2>2, <2>3
<1>4. disk \in [Files -> Paths]
  <2>1. \A f \in Files : disk[f] \in Paths
    BY <1>2, <1>3 DEF Items
  <2> QED
    BY <2>1 DEF Init
<1>5. \A f, g \in Files : disk[f] = disk[g] => f = g
  <2> SUFFICES ASSUME NEW f \in Files, NEW g \in Files, disk[f] = disk[g] PROVE f = g
    BY Zenon
  <2>1. PICK k \in DOMAIN plex : plex[k].file = f /\ disk[f] = plex[k].path
    BY <1>3
  <2>2. PICK l \in DOMAIN plex : plex[l].file = g /\ disk[g] = plex[l].path
    BY <1>3
  <2> QED
    BY <1>1, <2>1, <2>2 DEF IsLibrary
<1>6. /\ DOMAIN discover = {} /\ DOMAIN plan = {} /\ DOMAIN verify = {} /\ DOMAIN appliedTo = {}
  BY DEF Init, NoRows
<1>7. /\ ledger \in LedgerOf({APPLY_JOB, CONFIRM_JOB}, KeySet)
      /\ {k \in KeySet : Applied(k)} = {}
  BY DEF Init, LedgerOf, NoRow, Applied, APPLY_JOB, CONFIRM_JOB
<1>8. moves \in [Files -> Nat] /\ usedToday \in 0 .. maxPerDay + 1 /\ attempt \in 0 .. Retries + 1
  BY DEF Init
<1>9. Typed
  <2>1. TypeOK
    BY <1>2, <1>4, <1>5, <1>6, <1>7, <1>8 DEF Init, TypeOK
  <2>2. Queued
    BY DEF Init, Queued, Left
  <2> QED
    BY <2>1, <2>2 DEF Typed
<1> QED
  BY <1>9

LEMMA StepTyped == Typed /\ [Next]_vars => Typed'
<1> SUFFICES ASSUME Typed, [Next]_vars PROVE Typed'
  OBVIOUS
<1>1. WorldTyped' /\ SnapshotsTyped' /\ DoneTyped' /\ JournalTyped' /\ RunTyped' /\ Queued'
  BY StepWorld, StepSnapshots, StepDone, StepJournal, StepRun, StepQueued
<1>2. faults' \in [Faults -> Nat]
  BY FaultsTyped DEF Typed
<1>3. usedToday' \in 0 .. maxPerDay + 1
  BY <1>1, StepDay
<1> QED
  BY <1>1, <1>2, <1>3 DEF Typed, TypeOK, WorldTyped, SnapshotsTyped, DoneTyped, JournalTyped, RunTyped,
     Listing, PlanRows

\* The state stays of its type, and the moves of a day within the limit, or one beyond it.
THEOREM TypeCorrect == Spec => []TypeOK
<1>1. Typed => TypeOK
  BY DEF Typed
<1> QED
  BY <1>1, InitTyped, StepTyped, PTL DEF Spec

-----------------------------------------------------------------------------
(* One move per key, and the files of keys. *)

KeyOf(k, f) == k \in DOMAIN plex /\ plex[k].file = f

\* The snapshot has a file under the key that Plex has it under, unless Plex has given
\* the file another one.
Kept == \A k \in DOMAIN discover : discover[k].file \in rekeyed \/ KeyOf(k, discover[k].file)

\* What is eligible was checked for the file of its key.
Vouched ==
  \A k \in DOMAIN verify : verify[k].eligible =>
    \E f \in Files : verify[k].bytes = Bytes[f] /\ (f \in rekeyed \/ KeyOf(k, f))

\* Whatever becomes of the row of k: its file was not moved, or is excused.
Held(k) ==
  \A f \in Files : KeyOf(k, f) => f \in unmarked \cup rekeyed \cup moving \/ moves[f] = 0

\* The file under way is that of the item at work.
UnderWay == \A f \in moving : f \in rekeyed \/ KeyOf(First(todo), f)

\* An item whose row may lose its success: of the batch, or open in the journal.
Replaceable ==
  /\ \A o \in open : Held(o.key)
  /\ phase \in {"reconcile", "apply"} => \A k \in todo : Held(k)

\* A file that was moved is under way, or has a key that was applied.
OneMove ==
  \A f \in Files \ (rekeyed \cup unmarked) :
    /\ moves[f] <= 1
    /\ moves[f] = 1 => f \in moving \/ \E k \in KeySet : KeyOf(k, f) /\ Applied(k)

Once == SizesTell => UnderWay /\ Replaceable /\ OneMove

\* Keys keep their files, but for those of rekeyed files.
LEMMA KeysStay ==
  ASSUME Typed, [Next]_vars
  PROVE  /\ rekeyed \subseteq rekeyed'
         /\ \A f \in Files \ rekeyed', k \in KeySet : KeyOf(k, f) <=> KeyOf(k, f)'
<1>1. CASE UNCHANGED <<plex, rekeyed>>
  BY <1>1 DEF KeyOf
<1>2. ASSUME NEW k \in KeySet, Rescan(k) \/ Rematch(k)
      PROVE  UNCHANGED rekeyed /\ \A f \in Files, l \in KeySet : KeyOf(l, f) <=> KeyOf(l, f)'
  <2>1. k \in DOMAIN plex /\ plex[k] \in Items /\ UNCHANGED rekeyed
    BY <1>2 DEF Rescan, Rematch, Typed, TypeOK
  <2>2. DOMAIN plex' = DOMAIN plex /\ \A l \in DOMAIN plex : plex'[l].file = plex[l].file
    <3>1. CASE Rescan(k)
      BY <2>1, <3>1 DEF Rescan, Items
    <3>2. CASE Rematch(k)
      <4>1. PICK t \in Titles \cup {Unfit} : plex' = [plex EXCEPT ![k].title = t]
        BY <3>2 DEF Rematch
      <4> QED
        BY <2>1, <4>1 DEF Items
    <3> QED
      BY <1>2, <3>1, <3>2
  <2> QED
    BY <2>1, <2>2 DEF KeyOf
<1>3. ASSUME NEW k \in KeySet, Rekey(k)
      PROVE  /\ rekeyed \subseteq rekeyed'
             /\ \A f \in Files \ rekeyed', l \in KeySet : KeyOf(l, f) <=> KeyOf(l, f)'
  <2>1. PICK new \in KeySet \ (DOMAIN plex \cup DOMAIN discover) :
           /\ k \in DOMAIN plex /\ rekeyed' = rekeyed \cup {plex[k].file}
           /\ DOMAIN plex' = (DOMAIN plex \ {k}) \cup {new}
           /\ \A l \in DOMAIN plex \ {k} : plex'[l] = plex[l]
           /\ plex'[new].file = plex[k].file
    <3>1. k \in DOMAIN plex => plex[k] \in Items
      BY DEF Typed, TypeOK
    <3> QED
      BY <1>3, <3>1, Rekeyed DEF Typed, Items
  <2> QED
    BY <2>1 DEF KeyOf
<1>4. Move => UNCHANGED <<plex, rekeyed>>
  BY DEF Move
<1>5. ASSUME NEW f \in Files, Edit(f)
      PROVE  UNCHANGED <<plex, rekeyed>>
  BY <1>5 DEF Edit
<1>6. CASE UNCHANGED world
  <2>1. \A k \in KeySet : ~Rekey(k) \/ UNCHANGED rekeyed \/ rekeyed \subseteq rekeyed'
    BY DEF Rekey
  <2> QED
    BY <1>3, <1>6, <2>1, Frames DEF world, KeyOf
<1> QED
  BY <1>1, <1>2, <1>3, <1>4, <1>5, <1>6, Frames

LEMMA StepKept ==
  ASSUME Typed, Kept, [Next]_vars
  PROVE  Kept'
<1>0. DOMAIN discover \subseteq KeySet /\ \A k \in DOMAIN discover : discover[k].file \in Files
  BY DEF Typed, TypeOK, Items
<1>1. CASE UNCHANGED discover
  BY <1>0, <1>1, KeysStay DEF Kept
<1>2. CASE Discover
  <2>1. UNCHANGED <<plex, rekeyed>>
    BY <1>2 DEF Discover, world
  <2> QED
    BY <1>2, <2>1, Discovered DEF Kept, KeyOf
<1> QED
  BY <1>1, <1>2, Frames DEF snapshots, Plan, VerifyItem, VerifyEnds

LEMMA StepVouched ==
  ASSUME Typed, Kept, Vouched, [Next]_vars
  PROVE  Vouched'
<1>0. DOMAIN verify \subseteq KeySet
  BY DEF Typed, TypeOK
<1>1. CASE UNCHANGED verify
  <2> SUFFICES ASSUME NEW k \in DOMAIN verify, verify[k].eligible
               PROVE  \E f \in Files : verify[k].bytes = Bytes[f] /\ (f \in rekeyed' \/ KeyOf(k, f)')
    BY <1>1 DEF Vouched
  <2>1. PICK f \in Files : verify[k].bytes = Bytes[f] /\ (f \in rekeyed \/ KeyOf(k, f))
    BY DEF Vouched
  <2> QED
    BY <1>0, <2>1, KeysStay
<1>2. CASE VerifyItem
  <2>1. PICK k \in todo :
           /\ DOMAIN verify' = DOMAIN verify \cup {k}
           /\ \A l \in DOMAIN verify \ {k} : verify'[l] = verify[l]
           /\ verify'[k].eligible => k \in DOMAIN discover /\ verify'[k].bytes = Bytes[discover[k].file]
    BY <1>2, VerifiesItem
  <2>2. UNCHANGED <<plex, rekeyed>>
    BY <1>2 DEF VerifyItem, world
  <2>3. verify'[k].eligible =>
          \E f \in Files : verify'[k].bytes = Bytes[f] /\ (f \in rekeyed \/ KeyOf(k, f))
    BY <2>1 DEF Kept, Typed, TypeOK, Items
  <2> QED
    BY <2>1, <2>2, <2>3 DEF Vouched, KeyOf
<1>3. CASE VerifyEnds
  <2>1. UNCHANGED <<plex, rekeyed>>
    BY <1>3 DEF VerifyEnds, world
  <2>2. DOMAIN verify' \subseteq DOMAIN verify /\ \A k \in DOMAIN verify' : verify'[k] = verify[k]
    BY <1>3 DEF VerifyEnds, pruneSnapshotRows
  <2> QED
    BY <2>1, <2>2 DEF Vouched, KeyOf
<1> QED
  BY <1>1, <1>2, <1>3, Frames DEF snapshots, Discover, Plan

\* Confirm and the start of a run leave the rows of apply alone.
LEMMA AppliedStays ==
  ASSUME Typed, [Next]_vars, ~Reconcile, ~SoftSkip, ~MarkApplied, ~MoveFails
  PROVE  \A k \in KeySet : Applied(k) <=> Applied(k)'
<1> USE DEF Applied, APPLY_JOB, CONFIRM_JOB
<1>1. CASE UNCHANGED ledger
  BY <1>1
<1>2. CASE ConfirmItem
  <2>1. First(todo) \in KeySet
    BY <1>2, FirstIn DEF ConfirmItem, Typed, TypeOK
  <2>2. PICK st \in {"success", "skipped", "failed"} :
          ledger' = markWorkItem(ledger, CONFIRM_JOB, First(todo), Row(st, 1, First(todo)))
    BY <1>2 DEF ConfirmItem, Confirms
  <2>3. \A l \in KeySet : ledger'[APPLY_JOB][l] = ledger[APPLY_JOB][l]
    BY <2>1, <2>2, Marked
  <2> QED
    BY <2>3
<1>3. Scheduled => UNCHANGED ledger
  BY DEF Scheduled
<1> QED
  BY <1>1, <1>2, <1>3, Frames

LEMMA HeldStays ==
  ASSUME Typed, [Next]_vars, UNCHANGED moves, unmarked \cup moving \subseteq unmarked' \cup moving',
         NEW k \in KeySet, Held(k)
  PROVE  Held(k)'
BY KeysStay DEF Held

\* A key that was not applied, or is replaceable, has no file that was moved for good.
LEMMA NotMovedYet ==
  ASSUME Typed, OneMove, NEW k \in KeySet, ~Applied(k)
  PROVE  Held(k)
<1> SUFFICES ASSUME NEW f \in Files, KeyOf(k, f), f \notin unmarked \cup rekeyed \cup moving
             PROVE  moves[f] = 0
  BY DEF Held
<1>1. moves[f] \in Nat /\ \A l, m \in DOMAIN plex : plex[l].file = plex[m].file => l = m
  BY DEF Typed, TypeOK
<1>2. moves[f] <= 1 /\ moves[f] # 1
  BY <1>1 DEF OneMove, KeyOf
<1> QED
  BY <1>1, <1>2

\* A row that loses its success was that of a replaceable item.
LEMMA OneMoveStays ==
  ASSUME Typed, OneMove, [Next]_vars, UNCHANGED moves,
         unmarked \subseteq unmarked', moving \subseteq unmarked' \cup moving',
         \A l \in KeySet : Applied(l) => Applied(l)' \/ (Held(l) /\ Held(l)')
  PROVE  OneMove'
<1> SUFFICES ASSUME NEW f \in Files, f \notin rekeyed' \cup unmarked'
             PROVE  /\ moves[f] <= 1
                    /\ moves[f] = 1 => f \in moving' \/ \E k \in KeySet : KeyOf(k, f)' /\ Applied(k)'
  BY DEF OneMove
<1>1. f \notin rekeyed \cup unmarked /\ \A k \in KeySet : KeyOf(k, f) <=> KeyOf(k, f)'
  BY KeysStay
<1>2. moves[f] <= 1 /\ (moves[f] = 1 => f \in moving \/ \E k \in KeySet : KeyOf(k, f) /\ Applied(k))
  BY <1>1 DEF OneMove
<1>3. ASSUME NEW k \in KeySet, KeyOf(k, f), Applied(k), moves[f] = 1, f \notin moving'
      PROVE  KeyOf(k, f)' /\ Applied(k)'
  <2>1. KeyOf(k, f)'
    BY <1>1, <1>3
  <2>2. ~Held(k)'
    BY <1>3, <2>1 DEF Held
  <2> QED
    BY <1>3, <2>1, <2>2
<1> QED
  BY <1>2, <1>3

LEMMA StepOnce ==
  ASSUME Typed, Vouched, Once, [Next]_vars
  PROVE  Once'
<1> SUFFICES ASSUME SizesTell
             PROVE  UnderWay' /\ Replaceable' /\ OneMove'
  BY DEF Once
<1>0. UnderWay /\ Replaceable /\ OneMove
  BY DEF Once
<1>0a. /\ todo \subseteq KeySet /\ \A o \in open : o.key \in KeySet
       /\ moving \subseteq Files /\ rekeyed \subseteq Files
       /\ \A k, l \in KeySet, f \in Files : KeyOf(k, f) /\ KeyOf(l, f) => k = l
  BY DEF Typed, TypeOK, KeyOf
<1>1. ASSUME UNCHANGED <<moves, journal>>, todo' = todo \/ moving = {},
             phase' \in {"reconcile", "apply"} =>
               todo' \subseteq todo /\ (phase \in {"reconcile", "apply"} \/ todo' = {}),
             \A k \in KeySet : Applied(k) => Applied(k)' \/ Held(k)
      PROVE  UnderWay' /\ Replaceable' /\ OneMove'
  <2>1. UNCHANGED <<moves, open, moving, unmarked>>
    BY <1>1 DEF journal
  <2>2. \A k \in KeySet : Held(k) => Held(k)'
    BY <2>1, HeldStays
  <2>3. Replaceable'
    BY <1>0, <1>0a, <1>1, <2>1, <2>2 DEF Replaceable
  <2>4. UnderWay'
    <3>1. CASE moving = {}
      BY <2>1, <3>1 DEF UnderWay
    <3>2. CASE todo' = todo /\ moving # {}
      <4>1. First(todo) \in KeySet
        BY <3>2, AtItem DEF Typed, Queued
      <4>2. First(todo)' = First(todo)
        BY <3>2 DEF First
      <4> QED
        BY <1>0, <1>0a, <2>1, <4>1, <4>2, KeysStay DEF UnderWay
    <3> QED
      BY <1>1, <3>1, <3>2
  <2>5. OneMove'
    BY <1>0, <1>1, <2>1, <2>2, OneMoveStays
  <2> QED
    BY <2>3, <2>4, <2>5
<1>2. CASE ApplySelects
  <2>1. /\ UNCHANGED <<moves, open, moving, unmarked, rekeyed, plex, ledger>> /\ phase = "select"
        /\ todo' = {} \/ todo' = Batch
    BY <1>2 DEF ApplySelects, Begins, done, journal, world
  <2>2. moving = {}
    BY <2>1 DEF Typed, Queued
  <2>3. \A k \in Batch : k \in KeySet /\ ~Applied(k)
    BY BatchIn DEF Eligible, NotApplied, isWorkItemDone, Applied
  <2>4. \A k \in KeySet : Held(k) => Held(k)'
    BY <2>1, HeldStays
  <2>5. \A k \in Batch : Held(k)'
    BY <1>0, <2>3, <2>4, NotMovedYet
  <2>6. Replaceable'
    BY <1>0, <1>0a, <2>1, <2>4, <2>5 DEF Replaceable
  <2>7. OneMove'
    BY <1>0, <2>1, OneMoveStays DEF Applied
  <2> QED
    BY <2>1, <2>2, <2>6, <2>7 DEF UnderWay
<1>3. CASE Reconcile
  <2>1. /\ UNCHANGED <<moves, moving, unmarked, todo, rekeyed, plex>> /\ open' = {}
        /\ phase = "reconcile" /\ phase' = "apply"
    BY <1>3 DEF Reconcile, world
  <2>2. moving = {}
    BY <2>1 DEF Typed, Queued
  <2>3. \A k \in KeySet : Held(k) => Held(k)'
    BY <2>1, HeldStays
  <2>4. Replaceable'
    BY <1>0, <1>0a, <2>1, <2>3 DEF Replaceable
  <2>5. \A k \in KeySet : Applied(k) => Applied(k)' \/ (Held(k) /\ Held(k)')
    <3>1. CASE UNCHANGED ledger
      BY <3>1 DEF Applied
    <3>2. CASE ~UNCHANGED ledger
      <4>1. PICK l \in KeySet, st \in {"success", "skipped", "failed"} :
              (\E to : MarkApply(l, st, to)) /\ \E o \in open : l = o.key
        BY <1>3, <3>2, Marks
      <4>2. \A k \in KeySet \ {l} : Applied(k)' <=> Applied(k)
        BY <4>1, MarkedApply
      <4>3. Held(l) /\ Held(l)'
        BY <1>0, <2>3, <4>1 DEF Replaceable
      <4> QED
        BY <4>2, <4>3
    <3> QED
      BY <3>1, <3>2
  <2>6. OneMove'
    BY <1>0, <2>1, <2>5, OneMoveStays
  <2> QED
    BY <2>1, <2>2, <2>4, <2>6 DEF UnderWay
<1>4. CASE SoftSkip
  <2>1. /\ UNCHANGED <<moves, journal>> /\ moving = {}
        /\ phase = "apply" /\ todo # {}
    BY <1>4 DEF SoftSkip, Idle
  <2>2. PICK l \in KeySet, st \in {"success", "skipped", "failed"} :
          (\E to : MarkApply(l, st, to)) /\ l \in todo /\ todo' = todo \ {l}
    BY <1>4, <2>1, Marks DEF Reconcile
  <2>3. \A k \in KeySet \ {l} : Applied(k)' <=> Applied(k)
    BY <2>2, MarkedApply
  <2>4. Held(l)
    BY <1>0, <2>1, <2>2 DEF Replaceable
  <2> QED
    BY <1>1, <2>1, <2>2, <2>3, <2>4
<1>5. CASE Intend
  <2>1. /\ UNCHANGED <<moves, moving, unmarked, todo, rekeyed, plex, phase, ledger>>
        /\ phase = "apply" /\ moving = {} /\ \A o \in open' : o.key = First(todo)
    BY <1>5 DEF Intend, Idle, done, run, world
  <2>2. First(todo) \in todo
    BY <1>5, <2>1, AtItem DEF Intend, Idle
  <2>3. \A k \in KeySet : Held(k) => Held(k)'
    BY <2>1, HeldStays
  <2>4. Replaceable'
    BY <1>0, <1>0a, <2>1, <2>2, <2>3 DEF Replaceable
  <2>5. OneMove'
    BY <1>0, <2>1, OneMoveStays DEF Applied
  <2> QED
    BY <2>1, <2>4, <2>5 DEF UnderWay
<1>6. CASE Move
  <2> DEFINE k == First(todo)
  <2>1. PICK f \in Files :
           /\ Bytes[f] = verify[k].bytes /\ moves' = [moves EXCEPT ![f] = @ + 1]
           /\ moving = {} /\ moving' = {f}
    BY <1>6, Moved
  <2>2. /\ UNCHANGED <<plex, rekeyed, ledger, open, unmarked, todo, phase>>
        /\ phase = "apply" /\ todo # {}
    BY <1>6 DEF Move, run
  <2>3. k \in todo /\ k \in KeySet /\ k \in DOMAIN verify /\ verify[k].eligible
    BY <2>2, AtItem
  <2>4. First(todo)' = First(todo)
    BY <2>2 DEF First
  <2> HIDE DEF k
  <2>5. PICK g \in Files : verify[k].bytes = Bytes[g] /\ (g \in rekeyed \/ KeyOf(k, g))
    BY <2>3 DEF Vouched
  <2>6. f = g
    BY <2>1, <2>5 DEF SizesTell
  <2>7. moves \in [Files -> Nat]
    BY DEF Typed, TypeOK
  <2>8. \A e \in Files : moves'[e] = IF e = f THEN moves[f] + 1 ELSE moves[e]
    BY <2>1, <2>7
  <2>9. \A l \in KeySet : Held(l) => Held(l)'
    BY <2>1, <2>2, <2>8 DEF Held, KeyOf
  <2>10. Replaceable'
    BY <1>0, <1>0a, <2>2, <2>9 DEF Replaceable
  <2>11. UnderWay'
    BY <2>1, <2>2, <2>4, <2>5, <2>6 DEF UnderWay, KeyOf, k
  <2>12. f \notin rekeyed \cup unmarked => moves[f] = 0
    <3>1. Held(k)
      BY <1>0, <2>2, <2>3 DEF Replaceable
    <3> QED
      BY <2>1, <2>5, <2>6, <3>1 DEF Held
  <2>13. OneMove'
    <3> SUFFICES ASSUME NEW e \in Files, e \notin rekeyed \cup unmarked
                 PROVE  /\ moves'[e] <= 1
                        /\ moves'[e] = 1 => e \in moving' \/ \E l \in KeySet : KeyOf(l, e)' /\ Applied(l)'
      BY <2>2 DEF OneMove
    <3>1. CASE e = f
      BY <2>1, <2>8, <2>12, <3>1
    <3>2. CASE e # f
      <4>1. /\ moves[e] <= 1
            /\ moves[e] = 1 => \E l \in KeySet : KeyOf(l, e) /\ Applied(l)
        BY <1>0, <2>1 DEF OneMove
      <4> QED
        BY <2>2, <2>8, <3>2, <4>1 DEF KeyOf, Applied
    <3> QED
      BY <3>1, <3>2
  <2> QED
    BY <2>10, <2>11, <2>13
<1>7. CASE Complete
  <2>1. UNCHANGED <<moves, moving, unmarked, todo, rekeyed, plex, phase, ledger>> /\ open' = {}
    BY <1>7 DEF Complete, done, run, world
  <2>2. \A k \in KeySet : Held(k) => Held(k)'
    BY <2>1, HeldStays
  <2>3. Replaceable'
    BY <1>0, <1>0a, <2>1, <2>2 DEF Replaceable
  <2>4. First(todo)' = First(todo)
    BY <2>1 DEF First
  <2>5. UnderWay'
    BY <1>0, <2>1, <2>4 DEF UnderWay, KeyOf
  <2>6. OneMove'
    BY <1>0, <2>1, OneMoveStays DEF Applied
  <2> QED
    BY <2>3, <2>5, <2>6
<1>8. CASE MarkApplied
  <2> DEFINE k == First(todo)
  <2>1. /\ UNCHANGED <<moves, unmarked, rekeyed, plex, phase>> /\ open' = {} /\ moving' = {}
        /\ todo' = todo \ {k} /\ phase = "apply" /\ todo # {}
    BY <1>8 DEF MarkApplied, Handled, world
  <2>2. k \in KeySet
    BY <2>1, AtItem
  <2>3. \A l \in KeySet : Applied(l)' <=> l = k \/ Applied(l)
    BY <1>8, <2>2, MarkedApply DEF MarkApplied
  <2> HIDE DEF k
  <2>4. \A f \in moving : f \in rekeyed \/ KeyOf(k, f)
    BY <1>0 DEF UnderWay, k
  <2>5. \A l \in KeySet \ {k} : Held(l) => Held(l)'
    BY <1>0a, <2>1, <2>2, <2>4 DEF Held, KeyOf
  <2>6. Replaceable'
    BY <1>0, <1>0a, <2>1, <2>5 DEF Replaceable
  <2>7. OneMove'
    BY <1>0, <2>1, <2>2, <2>3, <2>4 DEF OneMove, KeyOf
  <2> QED
    BY <2>1, <2>6, <2>7 DEF UnderWay
<1>9. CASE MoveFails
  <2>1. /\ UNCHANGED <<moves, rekeyed, plex, phase>> /\ open' = {} /\ moving' = {}
        /\ unmarked' = unmarked \cup moving /\ phase = "apply" /\ todo # {}
    BY <1>9 DEF MoveFails, Handled, world
  <2>2. PICK l \in KeySet, st \in {"success", "skipped", "failed"} :
          (\E to : MarkApply(l, st, to)) /\ l \in todo /\ todo' = todo \ {l}
    BY <1>9, <2>1, Marks DEF Reconcile
  <2>3. \A k \in KeySet \ {l} : Applied(k)' <=> Applied(k)
    BY <2>2, MarkedApply
  <2>4. \A k \in KeySet : Held(k) => Held(k)'
    BY <2>1, HeldStays
  <2>5. Held(l) /\ Held(l)'
    BY <1>0, <2>1, <2>2, <2>4 DEF Replaceable
  <2>6. Replaceable'
    BY <1>0, <1>0a, <2>1, <2>2, <2>4 DEF Replaceable
  <2>7. OneMove'
    BY <1>0, <2>1, <2>3, <2>5, OneMoveStays
  <2> QED
    BY <2>1, <2>6, <2>7 DEF UnderWay
<1>10. CASE Kill
  <2>1. /\ UNCHANGED <<moves, rekeyed, plex, ledger>> /\ (open' = open \/ open' = {}) /\ moving' = {}
        /\ unmarked' = unmarked \cup moving /\ phase' = "idle"
    BY <1>10 DEF Kill, RunEnds, done, world
  <2>2. \A k \in KeySet : Held(k) => Held(k)'
    BY <2>1, HeldStays
  <2>3. Replaceable'
    BY <1>0, <1>0a, <2>1, <2>2 DEF Replaceable
  <2>4. OneMove'
    BY <1>0, <2>1, OneMoveStays DEF Applied
  <2> QED
    BY <2>1, <2>3, <2>4 DEF UnderWay
<1>11. ASSUME ~Reconcile, ~SoftSkip, ~MarkApplied, ~MoveFails
       PROVE  \A k \in KeySet : Applied(k) => Applied(k)' \/ Held(k)
  BY <1>11, AppliedStays
<1> DEFINE Quiet == /\ UNCHANGED <<moves, journal>> /\ (todo' = todo \/ moving = {})
                    /\ phase' \in {"reconcile", "apply"} =>
                         todo' \subseteq todo /\ (phase \in {"reconcile", "apply"} \/ todo' = {})
<1>12. CASE Scheduled \/ Asked \/ Discover \/ Plan \/ Gate \/ VerifyItem \/ VerifyEnds
  <2>1. phase # "apply" /\ moving = {}
    BY <1>12 DEF Scheduled, Asked, Discover, Plan, Gate, VerifyItem, VerifyEnds, Typed, Queued
  <2>2. Quiet
    BY <1>12, <2>1 DEF Scheduled, Asked, Discover, Plan, Gate, VerifyItem, VerifyEnds, Begins, RunEnds,
       done
  <2>3. ~Reconcile /\ ~SoftSkip /\ ~MarkApplied /\ ~MoveFails
    BY <1>12, <2>1 DEF Scheduled, Asked, Discover, Plan, Gate, VerifyItem, VerifyEnds, Begins, RunEnds,
       Reconcile, SoftSkip, Idle, MarkApplied, MoveFails
  <2> QED
    BY <1>1, <1>11, <2>2, <2>3
<1>13. CASE ApplyEnds \/ ConfirmSelects \/ ConfirmItem \/ ConfirmEnds
  <2>1. moving = {} /\ phase # "reconcile" /\ phase' # "reconcile"
    BY <1>13 DEF ApplyEnds, ConfirmSelects, ConfirmItem, ConfirmEnds, Typed, Queued, StageEnds, Begins,
       RunEnds, Confirms, Handled
  <2>2. Quiet /\ phase' # "apply"
    BY <1>13, <2>1 DEF ApplyEnds, ConfirmSelects, ConfirmItem, ConfirmEnds, StageEnds, Begins, RunEnds,
       Confirms, Handled, done
  <2>3. ~Reconcile /\ ~SoftSkip /\ ~MarkApplied /\ ~MoveFails
    BY <2>1, <2>2 DEF Reconcile, SoftSkip, Idle, MarkApplied, MoveFails, Handled
  <2> QED
    BY <1>1, <1>11, <2>2, <2>3
<1>14. ASSUME UNCHANGED <<done, journal, run>>
       PROVE  UnderWay' /\ Replaceable' /\ OneMove'
  <2>1. UNCHANGED <<moves, todo, phase, ledger>>
    BY <1>14 DEF done, run
  <2> QED
    BY <1>1, <1>14, <2>1 DEF Applied
<1>15. ASSUME NEW k \in KeySet, Rescan(k) \/ Rekey(k) \/ Rematch(k)
       PROVE  UNCHANGED <<done, journal, run>>
  BY <1>15 DEF Rescan, Rekey, Rematch
<1>16. ASSUME NEW f \in Files, Edit(f)
       PROVE  UNCHANGED <<done, journal, run>>
  BY <1>16 DEF Edit
<1>17. CASE UNCHANGED vars
  BY <1>14, <1>17 DEF vars
<1> QED
  BY <1>2, <1>3, <1>4, <1>5, <1>6, <1>7, <1>8, <1>9, <1>10, <1>12, <1>13, <1>14, <1>15, <1>16, <1>17
     DEF Next, Works

LEMMA InitOnce == Init => Kept /\ Vouched /\ Once
BY DEF Init, NoRows, Kept, Vouched, Once, UnderWay, Replaceable, OneMove

\* A file is moved by apply at most once under the key it has, if the moves of it were
\* marked as they ended.
THEOREM MovedUnderOneKey == Spec => []MovedAgainHasACause
<1> DEFINE Inv == Typed /\ Kept /\ Vouched /\ Once
<1>1. Init => Inv
  BY InitTyped, InitOnce
<1>2. Inv /\ [Next]_vars => Inv'
  BY StepTyped, StepKept, StepVouched, StepOnce
<1>3. Inv => MovedAgainHasACause
  BY DEF Once, OneMove, MovedAgainHasACause
<1> QED
  BY <1>1, <1>2, <1>3, PTL DEF Spec

-----------------------------------------------------------------------------
(* A run moves what its own plan says. *)

\* Unless it is limited, a run takes every key; its plan is that of its snapshot, and
\* what is eligible after verify, or was verified so far, is as planned.
Follows(k) == k \in ToRename /\ verify[k].from = plan[k].from /\ verify[k].to = plan[k].to

AsPlanned ==
  ~limited =>
    /\ phase # "idle" => roots = KeySet
    /\ phase \in {"gate", "verify", "select", "reconcile", "apply"} => plan = Decided(DOMAIN discover)
    /\ phase = "verify" => \A k \in ToRename \ todo : k \in DOMAIN verify /\ Follows(k)
    /\ phase \in {"select", "reconcile", "apply"} => \A k \in DOMAIN verify : Follows(k)

\* The plan of a full run is that of its snapshot, whatever was planned before.
LEMMA FullPlan ==
  ASSUME Typed, Plan, ~limited, roots = KeySet
  PROVE  plan' = Decided(DOMAIN discover) /\ UNCHANGED <<discover, limited, roots>> /\ phase' = "gate"
<1>1. DOMAIN discover \subseteq KeySet /\ DOMAIN discover \cap roots = DOMAIN discover
  BY DEF Typed, TypeOK
<1>2. /\ plan' = Recorded(plan, Decided(DOMAIN discover))
      /\ phase' = "gate" /\ UNCHANGED <<discover, limited, roots>>
  BY <1>1, Planned
<1>3. Decided(DOMAIN discover) = [k \in DOMAIN Decided(DOMAIN discover) |-> Decided(DOMAIN discover)[k]]
  BY DEF Decided, finalizePlan
<1>4. \A new : new = [k \in DOMAIN new |-> new[k]] => pruneSnapshotRows(Over(plan, new), DOMAIN new) = new
  BY DEF pruneSnapshotRows, Over
<1> QED
  BY <1>2, <1>3, <1>4 DEF Recorded

LEMMA StepAsPlanned ==
  ASSUME Typed, AsPlanned, [Next]_vars
  PROVE  AsPlanned'
<1>1. CASE UNCHANGED <<snapshots, phase, limited, roots, todo>>
  BY <1>1 DEF AsPlanned, snapshots, Decided, Follows, ToRename
<1>2. CASE phase' = "idle" \/ limited'
  BY <1>2 DEF AsPlanned
<1>3. CASE /\ phase' \in {"discover", "plan", "pending", "confirm"} /\ UNCHANGED <<limited, roots>>
           /\ phase # "idle"
  BY <1>3 DEF AsPlanned
<1>4. CASE Scheduled \/ Asked
  <2>1. phase' = "discover" /\ (limited' \/ roots' = KeySet)
    <3>1. CASE Scheduled
      BY <3>1 DEF Scheduled
    <3>2. CASE Asked
      <4>1. \E n \in Limits : phase' = "discover" /\ limited' = (n > 0)
                                      /\ (n = 0 => roots' = KeySet)
        BY <3>2 DEF Asked
      <4>2. PICK n \in Limits : phase' = "discover" /\ limited' = (n > 0) /\ (n = 0 => roots' = KeySet)
        BY <4>1
      <4>3. n \in Nat
        BY LibraryAssumption DEF LibraryAssumption
      <4>4. n = 0 \/ n > 0
        BY <4>3
      <4>5. CASE n > 0
        BY <4>2, <4>5, Zenon
      <4> QED
        BY <4>2, <4>4, <4>5, Zenon
    <3> QED
      BY <1>4, <3>1, <3>2
  <2> QED
    BY <2>1 DEF AsPlanned
<1>5. CASE Plan
  <2>1. CASE limited
    BY <1>2, <1>5, <2>1, Planned
  <2>2. CASE ~limited
    <3>1. roots = KeySet
      BY <1>5, <2>2 DEF Plan, AsPlanned
    <3>2. plan' = Decided(DOMAIN discover) /\ UNCHANGED <<discover, limited, roots>> /\ phase' = "gate"
      BY <1>5, <2>2, <3>1, FullPlan
    <3>3. Decided(DOMAIN discover)' = Decided(DOMAIN discover)
      BY <3>2 DEF Decided
    <3> QED
      BY <2>2, <3>1, <3>2, <3>3 DEF AsPlanned
  <2> QED
    BY <2>1, <2>2
<1>6. CASE Gate
  <2>1. CASE RunEnds
    BY <1>2, <2>1 DEF RunEnds
  <2>2. CASE Begins("verify", ToRename \cap roots, 0)
    <3>1. /\ phase' = "verify" /\ todo' = ToRename \cap roots /\ UNCHANGED <<limited, roots, snapshots>>
          /\ phase = "gate"
      BY <1>6, <2>2 DEF Gate, Begins
    <3>2. ToRename \subseteq KeySet
      BY DEF Typed, TypeOK, ToRename
    <3> QED
      BY <3>1, <3>2 DEF AsPlanned, snapshots, Decided, ToRename
  <2> QED
    BY <1>6, <2>1, <2>2 DEF Gate
<1>7. CASE VerifyItem
  <2>1. PICK k \in todo :
           /\ k \in ToRename /\ todo' = todo \ {k} /\ UNCHANGED <<discover, plan, limited, roots, phase>>
           /\ DOMAIN verify' = DOMAIN verify \cup {k}
           /\ \A l \in DOMAIN verify \ {k} : verify'[l] = verify[l]
           /\ verify'[k].from = plan[k].from /\ verify'[k].to = plan[k].to
    BY <1>7, VerifiesItem
  <2>2. phase = "verify"
    BY <1>7 DEF VerifyItem
  <2>3. Decided(DOMAIN discover)' = Decided(DOMAIN discover) /\ ToRename' = ToRename
    BY <2>1 DEF Decided, ToRename
  <2>4. ASSUME ~limited, NEW l \in ToRename \ todo'
        PROVE  l \in DOMAIN verify' /\ verify'[l].from = plan[l].from /\ verify'[l].to = plan[l].to
    <3>1. CASE l = k
      BY <2>1, <3>1
    <3>2. CASE l # k
      BY <2>1, <2>2, <2>4, <3>2 DEF AsPlanned, Follows
    <3> QED
      BY <3>1, <3>2
  <2> QED
    BY <2>1, <2>2, <2>3, <2>4 DEF AsPlanned, Follows
<1>8. CASE VerifyEnds
  <2>1. CASE limited
    BY <1>2, <1>8, <2>1 DEF VerifyEnds, Begins
  <2>2. CASE ~limited
    <3>1. /\ verify' = pruneSnapshotRows(verify, ToRename) /\ todo = {} /\ phase = "verify"
          /\ phase' = "select" /\ UNCHANGED <<limited, roots, discover, plan>>
      BY <1>8, <2>2 DEF VerifyEnds, Begins
    <3>2. \A k \in DOMAIN verify' : k \in ToRename /\ verify'[k] = verify[k]
      BY <3>1 DEF pruneSnapshotRows
    <3>3. Decided(DOMAIN discover)' = Decided(DOMAIN discover) /\ ToRename' = ToRename
      BY <3>1 DEF Decided, ToRename
    <3> QED
      BY <2>2, <3>1, <3>2, <3>3 DEF AsPlanned, Follows
  <2> QED
    BY <2>1, <2>2
<1>9. CASE /\ UNCHANGED <<snapshots, limited, roots>>
           /\ {phase, phase'} \subseteq {"select", "reconcile", "apply"}
  BY <1>9 DEF AsPlanned, snapshots, Decided, Follows, ToRename
<1>10. CASE ApplySelects \/ Reconcile \/ SoftSkip \/ Intend \/ Move
  BY <1>9, <1>10 DEF ApplySelects, Reconcile, SoftSkip, Idle, Intend, Move, Handled, Begins, run
<1>10a. CASE Complete \/ MarkApplied \/ MoveFails
  BY <1>9, <1>10a DEF Complete, MarkApplied, MoveFails, Handled, run
<1>11. CASE ApplyEnds
  BY <1>2, <1>3, <1>9, <1>11 DEF ApplyEnds, StageEnds, Begins, RunEnds
<1>12. CASE ConfirmSelects \/ ConfirmEnds
  BY <1>2, <1>3, <1>12 DEF ConfirmSelects, ConfirmEnds, StageEnds, Begins, RunEnds
<1>13. CASE ConfirmItem
  BY <1>3, <1>13 DEF ConfirmItem, Confirms, Handled
<1>14. CASE Kill
  BY <1>2, <1>14 DEF Kill, RunEnds
<1>15. CASE Discover
  BY <1>3, <1>15 DEF Discover, Begins
<1>16. ASSUME NEW k \in KeySet, Rescan(k) \/ Rekey(k) \/ Rematch(k)
       PROVE  AsPlanned'
  BY <1>1, <1>16 DEF Rescan, Rekey, Rematch, run
<1>17. ASSUME NEW f \in Files, Edit(f)
       PROVE  AsPlanned'
  BY <1>1, <1>17 DEF Edit, run
<1>18. CASE UNCHANGED vars
  BY <1>1, <1>18 DEF vars, run
<1> QED
  BY <1>4, <1>5, <1>6, <1>7, <1>8, <1>10, <1>10a, <1>11, <1>12, <1>13, <1>14, <1>15, <1>16, <1>17,
     <1>18 DEF Next, Works

\* A key is moved by apply only.
LEMMA MovesByApply ==
  ASSUME Typed, NEW k \in KeySet, MovesNow(k), [Next]_vars
  PROVE  Move /\ phase = "apply" /\ k \in DOMAIN verify
<1>1. moves' # moves /\ k = First(todo)
  BY DEF MovesNow
<1>2. Move
  BY <1>1, Frames
<1>3. phase = "apply" /\ todo # {}
  BY <1>2 DEF Move
<1> QED
  BY <1>1, <1>2, <1>3, AtItem

LEMMA PlannedStep ==
  ASSUME Typed, AsPlanned, [Next]_vars, NEW k \in KeySet, MovesNow(k), ~limited
  PROVE  /\ k \in DOMAIN discover \cap ToRename
         /\ <<plan[k].from, plan[k].to>> = <<verify[k].from, verify[k].to>>
         /\ discover[k].path = verify[k].from /\ verify[k].to = Target(discover, k)
         /\ \A l \in DOMAIN discover \ {k} :
              verify[k].to \notin {discover[l].path}
              /\ (discover[l].title # Unfit => verify[k].to # Target(discover, l))
<1> DEFINE entries == [l \in DOMAIN discover |-> decideRename(discover, l)]
<1>1. phase = "apply" /\ k \in DOMAIN verify
  BY MovesByApply
<1>2. plan = Decided(DOMAIN discover) /\ Follows(k)
  BY <1>1 DEF AsPlanned
<1>3. Listing(discover)
  BY DEF Typed, TypeOK, Listing
<1>4. k \in DOMAIN discover /\ plan[k].decision = "rename"
  BY <1>2, <1>3, DecidedIn DEF Follows, ToRename
<1>5. plan[k] = decideRename(discover, k) /\ ~Collides(entries, discover, k)
  BY <1>2, <1>3, <1>4, DecidedIn
<1>6. plan[k].from = discover[k].path /\ plan[k].to = Target(discover, k)
  BY <1>3, <1>4, <1>5, DecisionIn
<1>7. entries[k] = plan[k]
  BY <1>4, <1>5
<1>8. ASSUME NEW l \in DOMAIN discover \ {k}
      PROVE  /\ plan[k].to # discover[l].path
             /\ discover[l].title # Unfit => plan[k].to # Target(discover, l)
  <2>1. plan[k].to # discover[l].path
    BY <1>5, <1>7, <1>8 DEF Collides
  <2>2. entries[l] = decideRename(discover, l)
    OBVIOUS
  <2>3. ~(entries[l].decision = "rename" /\ entries[l].to = plan[k].to)
    BY <1>5, <1>7, <1>8 DEF Collides
  <2> HIDE DEF entries
  <2>4. discover[l].title # Unfit =>
          IF entries[l].decision = "rename" THEN entries[l].to = Target(discover, l)
          ELSE Target(discover, l) = discover[l].path
    BY <1>3, <2>2, DecisionIn
  <2> QED
    BY <2>1, <2>3, <2>4
<1> QED
  BY <1>2, <1>4, <1>6, <1>8 DEF Follows

LEMMA InitAsPlanned == Init => AsPlanned
BY DEF Init, AsPlanned

\* What a full run moves is what its own plan says, to a target nobody else has.
THEOREM PlannedMoves == Spec => MovesArePlanned
<1>1. Init => Typed /\ AsPlanned
  BY InitTyped, InitAsPlanned
<1>2. Typed /\ AsPlanned /\ [Next]_vars => (Typed /\ AsPlanned)'
  BY StepTyped, StepAsPlanned
<1>3. Typed /\ AsPlanned /\ [Next]_vars =>
        [\A k \in KeySet : MovesNow(k) /\ ~limited =>
           /\ k \in DOMAIN discover \cap ToRename
           /\ <<plan[k].from, plan[k].to>> = <<verify[k].from, verify[k].to>>
           /\ discover[k].path = verify[k].from /\ verify[k].to = Target(discover, k)
           /\ \A l \in DOMAIN discover \ {k} :
                verify[k].to \notin {discover[l].path}
                /\ (discover[l].title # Unfit => verify[k].to # Target(discover, l))]_vars
  BY PlannedStep
<1> QED
  BY <1>1, <1>2, <1>3, PTL DEF Spec, MovesArePlanned
=============================================================================
