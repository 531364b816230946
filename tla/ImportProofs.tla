----------------------------- MODULE ImportProofs ----------------------------
(***************************************************************************)
(* What holds of the import of a profile and of the evidence it collects,  *)
(* for all constants, after the lemmas on numbers, finite sets and         *)
(* recursion that this module and those that extend it use.                *)
(***************************************************************************)
EXTENDS ResumeFacts, SkillYears, GitHubEvidence, ImportJobs, GitHubImport, FiniteSetTheorems,
        SequenceTheorems, TLAPS

\* A non-empty set of numbers has a least one.
LEMMA SmallestOf ==
  ASSUME NEW T, T \subseteq Nat, T # {}
  PROVE  \E x \in T : \A y \in T : x <= y
<1>1. IsWellFoundedOn(OpToRel(<, Nat), Nat)
  BY NatLessThanWellFounded
<1>2. \E x \in T : \A y \in T : ~ (<<y, x>> \in OpToRel(<, Nat))
  BY <1>1, WFMin
<1>3. \A x, y \in Nat : y < x => <<y, x>> \in OpToRel(<, Nat)
  <2> SUFFICES ASSUME NEW x \in Nat, NEW y \in Nat, y < x
               PROVE  <<y, x>> \in {p \in Nat \X Nat : p[1] < p[2]}
    BY DEF OpToRel
  <2> QED OBVIOUS
<1>4. PICK x \in T : \A y \in T : ~ (<<y, x>> \in OpToRel(<, Nat))
  BY <1>2, Zenon
<1>5. \A y \in T : ~ (y < x)
  BY <1>3, <1>4, Zenon
<1> QED BY <1>5

\* Induction, for a set of numbers.
LEMMA AllNaturals ==
  ASSUME NEW T, 0 \in T, \A n \in Nat : n \in T => n + 1 \in T
  PROVE  Nat \subseteq T
<1> SUFFICES ASSUME Nat \ T # {} PROVE FALSE
  OBVIOUS
<1>1. PICK x \in Nat \ T : \A y \in Nat \ T : x <= y
  BY SmallestOf
<1>2. x # 0 /\ x - 1 \in T /\ x - 1 \in Nat
  BY <1>1
<1> QED BY <1>1, <1>2

LEMMA ImageIsFinite ==
  ASSUME NEW S, IsFiniteSet(S), NEW f
  PROVE  IsFiniteSet({f[e] : e \in S}) /\ Cardinality({f[e] : e \in S}) <= Cardinality(S)
<1> DEFINE g == [e \in S |-> f[e]]
           T == {f[e] : e \in S}
<1>1. g \in Surjection(S, T)
  BY DEF Surjection
<1> HIDE DEF g
<1> QED BY <1>1, FS_Surjection

LEMMA LargestOf ==
  ASSUME NEW T, T \subseteq Nat, IsFiniteSet(T), T # {}
  PROVE  \E x \in T : \A y \in T : y <= x
<1> DEFINE HasLargest(U) == \E x \in U : \A y \in U : y <= x
           Good(n) == \A U \in SUBSET Nat : IsFiniteSet(U) /\ Cardinality(U) = n + 1 => HasLargest(U)
           good == {n \in Nat : Good(n)}
<1>1. Good(0)
  <2> SUFFICES ASSUME NEW U \in SUBSET Nat, IsFiniteSet(U), Cardinality(U) = 1
               PROVE  HasLargest(U)
    OBVIOUS
  <2>1. PICK x : U = {x}
    BY FS_Singleton
  <2>2. x \in Nat
    BY <2>1
  <2> QED BY <2>1, <2>2
<1>2. ASSUME NEW n \in Nat, Good(n)
      PROVE  Good(n + 1)
  <2> SUFFICES ASSUME NEW U \in SUBSET Nat, IsFiniteSet(U), Cardinality(U) = n + 1 + 1
               PROVE  HasLargest(U)
    OBVIOUS
  <2>1. U # {}
    BY FS_EmptySet
  <2>2. PICK u \in U : TRUE
    BY <2>1
  <2> DEFINE V == U \ {u}
  <2>3. IsFiniteSet(V) /\ Cardinality(V) = n + 1 /\ V \in SUBSET Nat
    BY <2>2, FS_RemoveElement
  <2>4. PICK v \in V : \A y \in V : y <= v
    BY <1>2, <2>3
  <2>5. u \in Nat /\ v \in Nat /\ v \in U
    BY <2>2, <2>4
  <2>6. CASE u <= v
    BY <2>4, <2>5, <2>6
  <2>7. CASE v <= u
    <3>1. \A y \in U : y <= u
      BY <2>4, <2>5, <2>7
    <3> QED BY <2>2, <3>1
  <2> QED BY <2>5, <2>6, <2>7
<1>3. Nat \subseteq good
  <2> HIDE DEF Good
  <2>1. 0 \in good
    BY <1>1
  <2>2. \A n \in Nat : n \in good => n + 1 \in good
    BY <1>2
  <2> HIDE DEF good
  <2> QED BY <2>1, <2>2, AllNaturals
<1>4. Cardinality(T) \in Nat /\ Cardinality(T) # 0
  BY FS_CardinalityType, FS_EmptySet
<1>5. Cardinality(T) - 1 \in Nat /\ Cardinality(T) = Cardinality(T) - 1 + 1
  BY <1>4
<1>6. Good(Cardinality(T) - 1)
  <2> HIDE DEF Good
  <2> QED BY <1>3, <1>5
<1> QED BY <1>5, <1>6

\* Recursions over the positions of a sequence: each position has a step.
Steps(S, n) == [1 .. n -> [S -> S]]
Runs(S, n, base, step) ==
  {f \in [0 .. n -> S] : f[0] = base /\ \A i \in 1 .. n : f[i] = step[i][f[i - 1]]}

\* There is such a recursion, and it stays in the set its steps stay in.
LEMMA StepsReach ==
  ASSUME NEW S, NEW n \in Nat, NEW base \in S, NEW step \in Steps(S, n)
  PROVE  Runs(S, n, base, step) # {}
<1>0. step \in [1 .. n -> [S -> S]]
  BY DEF Steps
<1> DEFINE Good(k, f) == f \in [0 .. k -> S] /\ f[0] = base /\ \A i \in 1 .. k : f[i] = step[i][f[i - 1]]
           Reached(k) == k <= n => \E f : Good(k, f)
           reached == {k \in Nat : Reached(k)}
<1>1. Reached(0)
  <2>1. Good(0, [i \in 0 .. 0 |-> base])
    OBVIOUS
  <2> QED BY <2>1
<1>2. ASSUME NEW k \in Nat, Reached(k)
      PROVE  Reached(k + 1)
  <2> SUFFICES ASSUME k + 1 <= n PROVE \E f : Good(k + 1, f)
    OBVIOUS
  <2>0. k <= n
    OBVIOUS
  <2>a. PICK f : Good(k, f)
    BY <1>2, <2>0
  <2>1. f \in [0 .. k -> S] /\ f[0] = base /\ \A i \in 1 .. k : f[i] = step[i][f[i - 1]]
    BY <2>a
  <2> SUFFICES \E g \in [0 .. k + 1 -> S] : g[0] = base /\ \A i \in 1 .. k + 1 : g[i] = step[i][g[i - 1]]
    OBVIOUS
  <2> HIDE DEF Good, Reached, reached
  <2> DEFINE next == step[k + 1][f[k]]
             g == [i \in 0 .. k + 1 |-> IF i <= k THEN f[i] ELSE next]
  <2>2. next \in S
    <3>1. k \in 0 .. k
      OBVIOUS
    <3>2. f[k] \in S
      BY <3>1, <2>1
    <3>3. k + 1 \in 1 .. n
      BY <2>0
    <3>4. step[k + 1] \in [S -> S]
      BY <3>3, <1>0
    <3> QED BY <3>2, <3>4
  <2> HIDE DEF next
  <2>b. f \in [0 .. k -> S]
    BY <2>1
  <2>3. g \in [0 .. k + 1 -> S]
    <3> SUFFICES ASSUME NEW i \in 0 .. k + 1 PROVE (IF i <= k THEN f[i] ELSE next) \in S
      OBVIOUS
    <3>1. CASE i <= k
      <4>1. i \in 0 .. k
        BY <3>1
      <4> QED BY <3>1, <4>1, <2>b
    <3>2. CASE ~ (i <= k)
      BY <3>2, <2>2
    <3> QED BY <3>1, <3>2
  <2>4. \A i \in 0 .. k + 1 : g[i] = IF i <= k THEN f[i] ELSE next
    OBVIOUS
  <2> HIDE DEF g
  <2>5. g[0] = base
    <3>1. 0 \in 0 .. k + 1 /\ 0 <= k
      OBVIOUS
    <3>2. g[0] = f[0]
      BY <2>4, <3>1
    <3> QED BY <2>1, <3>2
  <2>6. ASSUME NEW i \in 1 .. k + 1 PROVE g[i] = step[i][g[i - 1]]
    <3>0. i - 1 \in 0 .. k + 1 /\ i - 1 <= k /\ i \in 0 .. k + 1
      OBVIOUS
    <3>1. g[i - 1] = f[i - 1]
      BY <2>4, <3>0
    <3>2. CASE i \in 1 .. k
      <4>1. g[i] = f[i]
        BY <2>4, <3>0, <3>2
      <4>2. f[i] = step[i][f[i - 1]]
        BY <2>1, <3>2, Zenon
      <4> QED BY <3>1, <4>1, <4>2
    <3>3. CASE i = k + 1
      <4>1. g[i] = next /\ i - 1 = k
        BY <2>4, <3>0, <3>3
      <4>2. g[i - 1] = f[k]
        BY <3>1, <4>1
      <4> QED BY <4>1, <4>2, <3>3 DEF next
    <3>4. i \in 1 .. k \/ i = k + 1
      OBVIOUS
    <3> QED BY <3>2, <3>3, <3>4
  <2> QED BY <2>3, <2>5, <2>6
<1>3. n \in reached
  <2>1. 0 \in reached
    BY <1>1
  <2>2. ASSUME NEW k \in Nat, k \in reached PROVE k + 1 \in reached
    <3> HIDE DEF Reached
    <3> QED BY <1>2, <2>2
  <2> HIDE DEF reached
  <2> QED BY <2>1, <2>2, AllNaturals
<1>4. Reached(n)
  BY <1>3
<1>5. n <= n
  OBVIOUS
<1>6. PICK f : Good(n, f)
  BY <1>4, <1>5, Zenon
<1>7. f \in [0 .. n -> S] /\ f[0] = base /\ \A i \in 1 .. n : f[i] = step[i][f[i - 1]]
  BY <1>6, Zenon
<1> QED BY <1>7 DEF Runs

-----------------------------------------------------------------------------
(* What an accepted review stores                                          *)

Distinct(stored) ==
  \A e, f \in stored : e.key = f.key \/ (e.link = f.link /\ e.link # NoLink) => e = f

DistinctEntries == {stored \in SUBSET ResumeEntries : Distinct(stored)}

\* One accepted entry never makes two of one.
LEMMA ApplyEntryDistinct ==
  ASSUME NEW stored \in DistinctEntries, NEW new \in Accepted
  PROVE  ApplyEntry(stored, new) \in DistinctEntries
<1> DEFINE found == FindExisting(stored, new)
           linked == {e \in stored : new.link # NoLink /\ e.link = new.link}
           old == CHOOSE e \in found : TRUE
           fresh == [key |-> new.key, link |-> new.link, text |-> new.text,
                     source |-> IF new.edited THEN "user" ELSE "imported"]
<1>0. stored \subseteq ResumeEntries /\ Distinct(stored)
  BY DEF DistinctEntries
<1>1. CASE found = {}
  <2>1. ApplyEntry(stored, new) = stored \cup {fresh}
    BY <1>1 DEF ApplyEntry
  <2>2. fresh \in ResumeEntries
    BY DEF ResumeEntries, Accepted
  <2>3. \A e \in stored : e.key # new.key /\ (new.link = NoLink \/ e.link # new.link)
    BY <1>1 DEF FindExisting
  <2>4. fresh.key = new.key /\ fresh.link = new.link
    OBVIOUS
  <2> HIDE DEF fresh
  <2> QED BY <1>0, <2>1, <2>2, <2>3, <2>4 DEF DistinctEntries, Distinct
<1>2. CASE found # {} /\ Kept(old)
  BY <1>2 DEF ApplyEntry
<1>3. CASE found # {} /\ ~Kept(old)
  <2> DEFINE again == Refreshed(old, new)
  <2>1. ApplyEntry(stored, new) = (stored \ {old}) \cup {again}
    BY <1>3 DEF ApplyEntry
  <2>2. old \in found
    BY <1>3
  <2>3. old \in stored /\ (old \in linked \/ (linked = {} /\ old.key = new.key))
    BY <2>2 DEF FindExisting
  <2>4. again \in ResumeEntries /\ again.key = old.key /\ again.link = new.link
    <3>1. old \in ResumeEntries
      BY <1>0, <2>3
    <3> HIDE DEF old
    <3> QED BY <3>1 DEF Refreshed, ResumeEntries, Accepted
  <2>5. \A e \in stored \ {old} : e.key # again.key /\ (again.link = NoLink \/ e.link # again.link)
    <3> SUFFICES ASSUME NEW e \in stored \ {old}
                 PROVE  e.key # again.key /\ (again.link = NoLink \/ e.link # again.link)
      OBVIOUS
    <3>1. e.key # old.key
      BY <1>0, <2>3 DEF Distinct
    <3>2. new.link # NoLink => e.link # new.link
      <4>1. CASE old \in linked
        BY <4>1, <1>0, <2>3 DEF Distinct
      <4>2. CASE linked = {}
        BY <4>2
      <4> QED BY <4>1, <4>2, <2>3
    <3> QED BY <3>1, <3>2, <2>4
  <2> HIDE DEF again, old, found
  <2> QED BY <1>0, <2>1, <2>3, <2>4, <2>5 DEF DistinctEntries, Distinct
<1> QED BY <1>1, <1>2, <1>3

LEMMA ApplyEntriesDistinct ==
  ASSUME NEW stored \in DistinctEntries, NEW proposals \in Seq(Accepted)
  PROVE  ApplyEntries(stored, proposals) \in DistinctEntries
<1> DEFINE n == Len(proposals)
           Next1(before, i) == IF Offered(stored, proposals[i]) THEN ApplyEntry(before, proposals[i]) ELSE before
           step == [i \in 1 .. n |-> [before \in DistinctEntries |-> Next1(before, i)]]
           Upto(f) == [i \in 0 .. n |-> IF i = 0 THEN stored
                         ELSE IF Offered(stored, proposals[i]) THEN ApplyEntry(f[i - 1], proposals[i])
                         ELSE f[i - 1]]
<1>0. n \in Nat /\ \A i \in 1 .. n : proposals[i] \in Accepted
  OBVIOUS
<1>1. step \in Steps(DistinctEntries, n)
  <2> SUFFICES ASSUME NEW before \in DistinctEntries, NEW i \in 1 .. n
               PROVE  Next1(before, i) \in DistinctEntries
    BY DEF Steps
  <2> QED BY <1>0, ApplyEntryDistinct
<1>2. PICK f \in [0 .. n -> DistinctEntries] :
        f[0] = stored /\ \A i \in 1 .. n : f[i] = step[i][f[i - 1]]
  <2> HIDE DEF step, n
  <2>1. Runs(DistinctEntries, n, stored, step) # {}
    BY <1>0, <1>1, StepsReach
  <2> QED BY <2>1 DEF Runs
<1>3. \A i \in 1 .. n : f[i] = Next1(f[i - 1], i)
  <2> SUFFICES ASSUME NEW i \in 1 .. n PROVE step[i][f[i - 1]] = Next1(f[i - 1], i)
    BY <1>2
  <2>1. f[i - 1] \in DistinctEntries
    BY <1>0
  <2> QED BY <2>1
<1>4. f = Upto(f)
  <2> SUFFICES \A i \in 0 .. n : f[i] = Upto(f)[i]
    OBVIOUS
  <2>1. f[0] = Upto(f)[0]
    <3>1. 0 \in 0 .. n
      BY <1>0
    <3>2. Upto(f)[0] = stored
      BY <3>1, Zenon
    <3> QED BY <3>2, <1>2, Zenon
  <2>2. \A i \in 1 .. n : f[i] = Upto(f)[i]
    BY <1>0, <1>3
  <2>3. \A i \in 0 .. n : i = 0 \/ i \in 1 .. n
    BY <1>0
  <2> HIDE DEF Upto, n
  <2> QED BY <2>1, <2>2, <2>3
<1>5. ASSUME NEW g, g = Upto(g)
      PROVE  g[n] \in DistinctEntries
  <2> DEFINE good == {k \in Nat : k <= n => g[k] \in DistinctEntries}
  <2>1. 0 \in good
    BY <1>5
  <2>2. ASSUME NEW k \in Nat, k \in good PROVE k + 1 \in good
    <3> SUFFICES ASSUME k + 1 <= n PROVE g[k + 1] \in DistinctEntries
      OBVIOUS
    <3>1. g[k] \in DistinctEntries /\ k + 1 \in 1 .. n
      BY <1>0, <2>2
    <3>2. g[k + 1] = Next1(g[k], k + 1)
      BY <1>5, <3>1
    <3> QED BY <3>1, <3>2, <1>0, ApplyEntryDistinct
  <2>3. n \in good
    <3> HIDE DEF good
    <3> QED BY <1>0, <2>1, <2>2, AllNaturals
  <2> QED BY <2>3, <1>0
<1>6. ApplyEntries(stored, proposals) = (CHOOSE g : g = Upto(g))[n]
  BY DEF ApplyEntries
<1>7. (CHOOSE g : g = Upto(g)) = Upto(CHOOSE g : g = Upto(g))
  <2> HIDE DEF Upto
  <2> QED BY <1>4
<1> HIDE DEF Upto, n
<1> QED BY <1>5, <1>6, <1>7

\* The richer of two proofs, over the months of both.
LEMMA MergedIsBest ==
  ASSUME NEW old \in Evidence, NEW new \in Evidence,
         NEW proofs \in SUBSET Evidence, BestOf(old, proofs)
  PROVE  /\ MergeEvidence(old, new) \in Evidence
         /\ BestOf(MergeEvidence(old, new), {new} \cup proofs)
<1> DEFINE best == IF Richer(new, old) THEN new ELSE old
           from == Least(old.first, new.first)
           to == Greatest(old.last, new.last)
           merged == MergeEvidence(old, new)
<1>1. \A e \in Evidence : /\ e.count \in ScopeSize \ {0} /\ e.size \in ScopeSize
                          /\ e.first \in Months /\ e.last \in Months
                          /\ e.count \in Nat /\ e.size \in Nat /\ e.first \in Nat /\ e.last \in Nat
                          /\ e.count <= e.size /\ e.first <= e.last
                          /\ e = [count |-> e.count, size |-> e.size, first |-> e.first, last |-> e.last]
  <2> SUFFICES ASSUME NEW e \in Evidence
               PROVE  /\ e.count \in ScopeSize \ {0} /\ e.size \in ScopeSize
                      /\ e.first \in Months /\ e.last \in Months
                      /\ e.count \in Nat /\ e.size \in Nat /\ e.first \in Nat /\ e.last \in Nat
                      /\ e.count <= e.size /\ e.first <= e.last
                      /\ e = [count |-> e.count, size |-> e.size, first |-> e.first, last |-> e.last]
    OBVIOUS
  <2>1. e \in [count : ScopeSize \ {0}, size : ScopeSize, first : Months, last : Months]
    BY DEF Evidence
  <2>2. e = [count |-> e.count, size |-> e.size, first |-> e.first, last |-> e.last]
    BY <2>1, Zenon
  <2>3. /\ e.count \in ScopeSize \ {0} /\ e.size \in ScopeSize
        /\ e.first \in Months /\ e.last \in Months
    BY <2>1
  <2>4. e.count <= e.size /\ e.first <= e.last
    BY DEF Evidence
  <2> QED BY <2>2, <2>3, <2>4, FactsAssumption
<1>2. best \in {old, new} /\ Richer(best, old) /\ Richer(best, new)
  <2>1. Richer(old, old) /\ Richer(new, new) /\ (Richer(new, old) \/ Richer(old, new))
    BY <1>1 DEF Richer
  <2> QED BY <2>1
<1>3. /\ from \in {old.first, new.first} /\ to \in {old.last, new.last}
      /\ from <= old.first /\ from <= new.first /\ to >= old.last /\ to >= new.last
  BY <1>1 DEF Least, Greatest
<1>4. merged = [best EXCEPT !.first = from, !.last = to]
  BY DEF MergeEvidence
<1> HIDE DEF best, from, to, merged
<1>5. merged = [count |-> best.count, size |-> best.size, first |-> from, last |-> to]
  <2>1. best \in [count : ScopeSize \ {0}, size : ScopeSize, first : Months, last : Months]
    BY <1>2 DEF Evidence
  <2> QED BY <2>1, <1>4
<1>6. merged \in Evidence
  <2>1. from \in Months /\ to \in Months /\ from <= to
    BY <1>1, <1>3
  <2>2. best.count \in ScopeSize \ {0} /\ best.size \in ScopeSize /\ best.count <= best.size
    BY <1>1, <1>2
  <2> QED BY <1>5, <2>1, <2>2 DEF Evidence
<1>7. merged.count = best.count /\ merged.size = best.size /\ merged.first = from /\ merged.last = to
  BY <1>5
<1>8. ASSUME NEW e \in {new} \cup proofs
      PROVE  Richer(merged, e) /\ merged.first <= e.first /\ e.last <= merged.last
  <2>1. CASE e = new
    <3>1. Richer(merged, new)
      BY <1>2, <1>7 DEF Richer
    <3> QED BY <2>1, <3>1, <1>3, <1>7
  <2>2. CASE e \in proofs
    <3>1. e \in Evidence /\ Richer(old, e) /\ old.first <= e.first /\ e.last <= old.last
      BY <2>2 DEF BestOf
    <3>2. Richer(best, e)
      BY <1>1, <1>2, <3>1 DEF Richer
    <3>3. Richer(merged, e)
      BY <1>7, <3>2 DEF Richer
    <3>4. from <= e.first /\ e.last <= to
      BY <1>1, <1>3, <3>1
    <3> QED BY <3>3, <3>4, <1>7
  <2> QED BY <2>1, <2>2
<1>9. /\ \E e \in {new} \cup proofs : merged.count = e.count /\ merged.size = e.size
      /\ \E e \in {new} \cup proofs : merged.first = e.first
      /\ \E e \in {new} \cup proofs : merged.last = e.last
  <2>1. /\ \E e \in proofs : old.count = e.count /\ old.size = e.size
        /\ \E e \in proofs : old.first = e.first
        /\ \E e \in proofs : old.last = e.last
    BY DEF BestOf
  <2> QED BY <1>2, <1>3, <1>7, <2>1
<1>10. BestOf(merged, {new} \cup proofs)
  BY <1>8, <1>9 DEF BestOf
<1> QED BY <1>6, <1>10 DEF merged

LEMMA OneIsBest ==
  ASSUME NEW new \in Evidence
  PROVE  BestOf(new, {new})
<1>1. new.count \in Nat /\ new.size \in Nat /\ new.first \in Nat /\ new.last \in Nat
  <2>1. new \in [count : ScopeSize \ {0}, size : ScopeSize, first : Months, last : Months]
    BY DEF Evidence
  <2> QED BY <2>1, FactsAssumption
<1> QED BY <1>1 DEF BestOf, Richer

FactsInv ==
  /\ FactsTypeOK /\ EntriesAreDistinct
  /\ PartialRunsKeepProof /\ (skill = NoSkill => shown = {})

LEMMA FactsInvariant == FactsSpec => []FactsInv
<1>1. FactsInit => FactsInv
  BY DEF FactsInit, FactsInv, FactsTypeOK, EntriesAreDistinct, PartialRunsKeepProof
<1>2. FactsInv /\ [FactsNext]_factVars => FactsInv'
  <2> SUFFICES ASSUME FactsInv, [FactsNext]_factVars PROVE FactsInv'
    OBVIOUS
  <2>1. ASSUME NEW n \in 1 .. MaxAccepted, NEW proposals \in [1 .. n -> Accepted], AcceptEntries(proposals)
        PROVE  FactsInv'
    <3>1. proposals \in Seq(Accepted)
      OBVIOUS
    <3>2. entries \in DistinctEntries
      BY DEF FactsInv, FactsTypeOK, EntriesAreDistinct, DistinctEntries, Distinct
    <3>3. entries' \in DistinctEntries
      BY <2>1, <3>1, <3>2, ApplyEntriesDistinct DEF AcceptEntries
    <3>4. FactsTypeOK' /\ EntriesAreDistinct'
      BY <2>1, <3>3 DEF AcceptEntries, FactsInv, FactsTypeOK, EntriesAreDistinct, DistinctEntries, Distinct
    <3> QED BY <2>1, <3>4 DEF AcceptEntries, FactsInv, PartialRunsKeepProof
  <2>2. ASSUME NEW e \in entries, DeleteEntry(e)
        PROVE  FactsInv'
    BY <2>2 DEF DeleteEntry, FactsInv, FactsTypeOK, EntriesAreDistinct, PartialRunsKeepProof
  <2>3. ASSUME NEW mode \in {"full", "light", "partial"}, NEW new \in Evidence, AcceptSkill(mode, new)
        PROVE  FactsInv'
    <3> DEFINE evidence == IF skill = NoSkill \/ mode = "full" THEN new ELSE MergeEvidence(skill.evidence, new)
    <3>1. skill # NoSkill => skill.evidence \in Evidence /\ BestOf(skill.evidence, shown)
      BY DEF FactsInv, FactsTypeOK, Skills, PartialRunsKeepProof
    <3>2. shown' = {new} \cup (IF mode = "full" THEN {} ELSE shown) /\ shown \in SUBSET Evidence
      BY <2>3 DEF AcceptSkill, FactsInv, FactsTypeOK
    <3>3. evidence \in Evidence /\ BestOf(evidence, shown')
      <4>1. CASE skill = NoSkill \/ mode = "full"
        <5>1. shown' = {new}
          BY <3>2, <4>1 DEF FactsInv
        <5> QED BY <4>1, <5>1, OneIsBest
      <4>2. CASE ~(skill = NoSkill \/ mode = "full")
        BY <3>1, <3>2, <4>2, MergedIsBest
      <4> QED BY <4>1, <4>2
    <3>4. skill' = [evidence |-> evidence, dismissed |-> FALSE]
      BY <2>3 DEF AcceptSkill
    <3> HIDE DEF evidence
    <3>5. skill' \in Skills /\ skill'.evidence = evidence /\ skill' # NoSkill
      <4>1. PICK no \in BOOLEAN : no = FALSE
        OBVIOUS
      <4>2. skill' = [evidence |-> evidence, dismissed |-> no]
        BY <3>4, <4>1, Zenon
      <4>3. skill' \in Skills /\ skill'.evidence = evidence
        BY <3>3, <4>2 DEF Skills
      <4>4. DOMAIN skill' # DOMAIN NoSkill
        BY <4>2 DEF NoSkill
      <4> QED BY <4>3, <4>4
    <3> QED BY <2>3, <3>2, <3>3, <3>5
            DEF AcceptSkill, FactsInv, FactsTypeOK, EntriesAreDistinct, PartialRunsKeepProof
  <2>4. CASE DismissSkill
    <3>1. PICK yes \in BOOLEAN : yes = TRUE
      OBVIOUS
    <3>2. /\ skill # NoSkill /\ skill' = [skill EXCEPT !.dismissed = yes]
          /\ UNCHANGED <<entries, shown>>
      BY <2>4, <3>1, Zenon DEF DismissSkill
    <3>3. skill \in Skills
      BY <3>2 DEF FactsInv, FactsTypeOK
    <3>4. skill' \in Skills /\ skill'.evidence = skill.evidence
      BY <3>2, <3>3 DEF Skills
    <3>5. skill' # NoSkill
      <4>1. DOMAIN skill' # DOMAIN NoSkill
        BY <3>4 DEF NoSkill, Skills
      <4> QED BY <4>1
    <3> QED BY <3>2, <3>4, <3>5 DEF FactsInv, FactsTypeOK, EntriesAreDistinct, PartialRunsKeepProof
  <2>5. CASE UNCHANGED factVars
    BY <2>5 DEF factVars, FactsInv, FactsTypeOK, EntriesAreDistinct, PartialRunsKeepProof
  <2> QED BY <2>1, <2>2, <2>3, <2>4, <2>5 DEF FactsNext, EntryStep, SkillStep
<1> QED BY <1>1, <1>2, PTL DEF FactsSpec

(* However many reviews and profile pages write them, and with which       *)
(* proposals, no two stored entries are one by the match of the review.    *)
THEOREM EntriesStayDistinct == FactsSpec => []EntriesAreDistinct
  BY FactsInvariant, PTL DEF FactsInv

(* In whichever order full, light and partial runs are accepted, and       *)
(* whatever they saw, the stored evidence of a skill is the best that was  *)
(* shown since the last full one, and nothing that was not shown.          *)
THEOREM ProofIsKept == FactsSpec => []PartialRunsKeepProof
  BY FactsInvariant, PTL DEF FactsInv

(***************************************************************************)
(* The evidence of a skill.                                                *)
(***************************************************************************)
LEMMA SpanInOrder ==
  ASSUME NEW first \in Nat, NEW last \in Nat
  PROVE  LastNotBefore(first, last) \in Nat /\ first <= LastNotBefore(first, last)
  BY DEF LastNotBefore

(* build_skills counts a skill over the repositories it was looked for in, *)
(* for any number of repositories and whatever could be read of them.      *)
THEOREM EvidenceAddsUp ==
  \A scan \in [Repo -> RepoFacts] : EvidenceIsSound(scan)
<1> SUFFICES ASSUME NEW scan \in [Repo -> RepoFacts]
             PROVE  EvidenceIsSound(scan)
  OBVIOUS
<1> DEFINE eligible == EligibleRepos(scan)
           showing == {r \in eligible : Shows(scan, r)}
           broad == \E r \in showing : scan[r].broad
           population == IF broad THEN eligible ELSE {r \in eligible : scan[r].read}
           members == Members(scan, showing, broad)
           first == Min({scan[r].created : r \in members})
           latest == Max({scan[r].pushed : r \in members})
           size == Max({Cardinality(population), Cardinality(members)})
           e == BuildEvidence(scan)
<1>1. \A r \in Repo : scan[r].created \in Nat /\ scan[r].pushed \in Nat
  BY EvidenceAssumption DEF RepoFacts
<1>2. eligible \subseteq Repo /\ members \subseteq population /\ population \subseteq eligible
  BY DEF EligibleRepos, Members
<1>3. \A r \in Repo : ProjectSpan(scan[r]).start <= ProjectSpan(scan[r]).end
  BY <1>1, SpanInOrder DEF ProjectSpan
<1>4. CASE members = {} \/ population = {}
  <2>1. e = NoEvidence
    BY <1>4 DEF BuildEvidence
  <2> QED BY <2>1 DEF EvidenceIsSound
<1>5. CASE ~ (members = {} \/ population = {})
  <2>1. e = [scope |-> IF broad THEN "recent" ELSE "top",
             count |-> Cardinality(members),
             size |-> size,
             first |-> first,
             last |-> LastNotBefore(first, latest),
             repos |-> members]
    BY <1>5 DEF BuildEvidence
  <2>2. /\ IsFiniteSet(population) /\ IsFiniteSet(members)
        /\ Cardinality(population) \in Nat /\ Cardinality(members) \in Nat
        /\ Cardinality(members) <= Cardinality(population) /\ Cardinality(members) # 0
    <3> HIDE DEF members, population, eligible
    <3>1. IsFiniteSet(population)
      <4>1. population \in SUBSET Repo
        BY <1>2
      <4> QED BY <4>1, EvidenceAssumption, FS_Subset
    <3>2. IsFiniteSet(members) /\ Cardinality(members) <= Cardinality(population)
      BY <1>2, <3>1, FS_Subset
    <3> QED BY <1>5, <3>1, <3>2, FS_CardinalityType, FS_EmptySet
  <2>3. size = Cardinality(population)
    <3> HIDE DEF members, population
    <3> DEFINE sizes == {Cardinality(population), Cardinality(members)}
    <3>1. \E n \in sizes : \A m \in sizes : n >= m
      BY <2>2
    <3>2. size \in sizes /\ \A m \in sizes : size >= m
      BY <3>1 DEF Max
    <3> QED BY <2>2, <3>2
  <2>4. first \in Nat
    <3> HIDE DEF members
    <3> DEFINE months == {scan[r].created : r \in members}
    <3>1. months \subseteq Nat /\ months # {}
      BY <1>1, <1>2, <1>5
    <3> HIDE DEF months
    <3>2. Min(months) \in months
      BY <3>1, SmallestOf DEF Min
    <3> QED BY <3>1, <3>2 DEF months
  <2>5. latest \in Nat
    <3> HIDE DEF members
    <3> DEFINE months == {scan[r].pushed : r \in members}
    <3>1. months \subseteq Nat /\ months # {}
      BY <1>1, <1>2, <1>5
    <3>2. IsFiniteSet(months)
      <4> DEFINE pushed == [r \in Repo |-> scan[r].pushed]
      <4>1. months = {pushed[r] : r \in members}
        BY <1>2
      <4> HIDE DEF pushed, months
      <4> QED BY <2>2, <4>1, ImageIsFinite
    <3> HIDE DEF months
    <3>3. \E n \in months : \A m \in months : n >= m
      <4>1. PICK n \in months : \A m \in months : m <= n
        BY <3>1, <3>2, LargestOf
      <4> QED BY <3>1, <4>1
    <3>4. Max(months) \in months
      BY <3>3 DEF Max
    <3> QED BY <3>1, <3>4 DEF months
  <2> HIDE DEF first, latest, size, members, population, eligible, e
  <2>6. e.count = Cardinality(members) /\ e.size = size /\ e.repos = members
        /\ e.first = first /\ e.last = LastNotBefore(first, latest)
        /\ e.scope = IF broad THEN "recent" ELSE "top"
    BY <2>1
  <2>7. population = IF e.scope = "recent" THEN EligibleRepos(scan)
                     ELSE {r \in EligibleRepos(scan) : scan[r].read}
    BY <2>6 DEF population, eligible
  <2>8. 1 <= e.count /\ e.count <= e.size /\ e.first <= e.last
    <3>1. first <= LastNotBefore(first, latest)
      BY <2>4, <2>5, SpanInOrder
    <3>2. e.count \in Nat /\ e.count # 0 /\ e.count <= e.size
      BY <2>2, <2>3, <2>6
    <3> HIDE DEF broad
    <3> QED BY <2>6, <3>1, <3>2
  <2> QED BY <1>2, <1>3, <2>3, <2>6, <2>7, <2>8 DEF EvidenceIsSound, e
<1> QED BY <1>4, <1>5

(***************************************************************************)
(* Months of experience.                                                   *)
(***************************************************************************)
Span == {s \in Nat \X Nat : s[1] <= s[2]}

LEMMA EarlierIsOrder ==
  /\ \A a, b \in Span : a # b => Earlier(a, b) \/ Earlier(b, a)
  /\ \A a \in Span : ~Earlier(a, a)
  /\ \A a, b, c \in Span : Earlier(a, b) /\ Earlier(b, c) => Earlier(a, c)
<1> SUFFICES ASSUME NEW a \in Span, NEW b \in Span, NEW c \in Span
             PROVE  /\ a # b => Earlier(a, b) \/ Earlier(b, a)
                    /\ ~Earlier(a, a)
                    /\ Earlier(a, b) /\ Earlier(b, c) => Earlier(a, c)
  OBVIOUS
<1>1. \A s \in Span : s[1] \in Nat /\ s[2] \in Nat /\ s = <<s[1], s[2]>>
  BY DEF Span
<1>2. a # b => a[1] # b[1] \/ a[2] # b[2]
  BY <1>1
<1>3. a[1] \in Nat /\ a[2] \in Nat /\ b[1] \in Nat /\ b[2] \in Nat /\ c[1] \in Nat /\ c[2] \in Nat
  BY <1>1
<1> QED BY <1>2, <1>3 DEF Earlier

\* Of finitely many spans, one is the last.
LEMMA LastSpan ==
  ASSUME NEW spans \in SUBSET Span, IsFiniteSet(spans), spans # {}
  PROVE  \E last \in spans : \A s \in spans \ {last} : Earlier(s, last)
<1>0. \A s \in Span : s[1] \in Nat /\ s[2] \in Nat /\ s = <<s[1], s[2]>>
  BY DEF Span
<1> DEFINE starts == {s[1] : s \in spans}
<1>1. PICK m \in starts : \A k \in starts : k <= m
  <2> DEFINE f == [s \in spans |-> s[1]]
  <2>1. starts = {f[s] : s \in spans}
    OBVIOUS
  <2>2. starts \subseteq Nat /\ starts # {}
    BY <1>0
  <2> HIDE DEF f, starts
  <2>3. IsFiniteSet(starts)
    BY <2>1, ImageIsFinite
  <2> QED BY <2>2, <2>3, LargestOf
<1> DEFINE latest == {s \in spans : s[1] = m}
           ends == {s[2] : s \in latest}
<1>2. PICK e \in ends : \A k \in ends : k <= e
  <2> DEFINE f == [s \in spans |-> s[2]]
  <2>1. ends = {f[s] : s \in latest}
    OBVIOUS
  <2>2. ends \subseteq Nat /\ ends # {}
    BY <1>0, <1>1
  <2>3. IsFiniteSet(latest)
    BY FS_Subset
  <2> HIDE DEF f, ends, latest
  <2>4. IsFiniteSet(ends)
    BY <2>1, <2>3, ImageIsFinite
  <2> QED BY <2>2, <2>4, LargestOf
<1>3. PICK last \in spans : last[1] = m /\ last[2] = e
  BY <1>2
<1>4. ASSUME NEW s \in spans \ {last}
      PROVE  Earlier(s, last)
  <2>1. s[1] <= m /\ (s[1] = m => s[2] <= e)
    BY <1>1, <1>2
  <2>2. s[1] # last[1] \/ s[2] # last[2]
    BY <1>0
  <2>3. s[1] \in Nat /\ s[2] \in Nat /\ m \in Nat /\ e \in Nat
    BY <1>0, <1>3
  <2> QED BY <1>3, <2>1, <2>2, <2>3 DEF Earlier
<1> QED BY <1>4

Ordered(spans, s) ==
  /\ s \in [1 .. Cardinality(spans) -> spans]
  /\ \A i, j \in 1 .. Cardinality(spans) : i < j => Earlier(s[i], s[j])

\* Finitely many spans can be put in order.
LEMMA OrderExists ==
  ASSUME NEW spans \in SUBSET Span, IsFiniteSet(spans)
  PROVE  \E s : Ordered(spans, s)
<1> DEFINE Good(n) == \A some \in SUBSET Span : IsFiniteSet(some) /\ Cardinality(some) = n => \E s : Ordered(some, s)
           good == {n \in Nat : Good(n)}
<1>1. Good(0)
  <2> SUFFICES ASSUME NEW some \in SUBSET Span, Cardinality(some) = 0
               PROVE  \E s : Ordered(some, s)
    OBVIOUS
  <2>1. Ordered(some, [i \in 1 .. 0 |-> i])
    BY DEF Ordered
  <2> QED BY <2>1
<1>2. ASSUME NEW n \in Nat, Good(n)
      PROVE  Good(n + 1)
  <2> SUFFICES ASSUME NEW some \in SUBSET Span, IsFiniteSet(some), Cardinality(some) = n + 1
               PROVE  \E s : Ordered(some, s)
    OBVIOUS
  <2>1. some # {}
    BY FS_EmptySet
  <2>2. PICK last \in some : \A s \in some \ {last} : Earlier(s, last)
    BY <2>1, LastSpan
  <2> DEFINE rest == some \ {last}
  <2>3. IsFiniteSet(rest) /\ Cardinality(rest) = n /\ rest \in SUBSET Span
    <3>1. IsFiniteSet(rest) /\ Cardinality(rest) = Cardinality(some) - 1
      BY FS_RemoveElement
    <3>2. rest \in SUBSET Span
      OBVIOUS
    <3> HIDE DEF rest
    <3> QED BY <3>1, <3>2
  <2>4. PICK s : Ordered(rest, s)
    BY <1>2, <2>3
  <2>5. s \in [1 .. n -> rest] /\ \A i, j \in 1 .. n : i < j => Earlier(s[i], s[j])
    BY <2>3, <2>4 DEF Ordered
  <2> DEFINE t == [i \in 1 .. n + 1 |-> IF i <= n THEN s[i] ELSE last]
  <2> HIDE DEF Good, good
  <2>6. \A i \in 1 .. n + 1 : (i <= n /\ i \in 1 .. n /\ t[i] = s[i] /\ s[i] \in rest) \/ (i = n + 1 /\ t[i] = last)
    BY <2>5
  <2>7. t \in [1 .. n + 1 -> some]
    BY <2>6
  <2> HIDE DEF t
  <2>8. ASSUME NEW i \in 1 .. n + 1, NEW j \in 1 .. n + 1, i < j
        PROVE  Earlier(t[i], t[j])
    <3>1. i <= n /\ i \in 1 .. n /\ t[i] = s[i] /\ s[i] \in rest
      BY <2>6, <2>8
    <3>2. CASE j \in 1 .. n
      <4>1. t[j] = s[j]
        BY <2>6, <3>2
      <4> QED BY <2>5, <2>8, <3>1, <3>2, <4>1
    <3>3. CASE t[j] = last
      BY <2>2, <3>1, <3>3
    <3> QED BY <2>6, <3>2, <3>3
  <2>9. Ordered(some, t)
    BY <2>7, <2>8 DEF Ordered
  <2> QED BY <2>9
<1>3. Nat \subseteq good
  <2> HIDE DEF Good
  <2>1. 0 \in good
    BY <1>1
  <2>2. \A n \in Nat : n \in good => n + 1 \in good
    BY <1>2
  <2> HIDE DEF good
  <2> QED BY <2>1, <2>2, AllNaturals
<1>4. Cardinality(spans) \in Nat
  BY FS_CardinalityType
<1>5. Good(Cardinality(spans))
  <2> HIDE DEF Good
  <2> QED BY <1>3, <1>4
<1> QED BY <1>5

\* The order goes through all of them.
LEMMA InOrderIsOrdered ==
  ASSUME NEW spans \in SUBSET Span, IsFiniteSet(spans)
  PROVE  /\ Ordered(spans, InOrder(spans))
         /\ \A s \in spans : \E i \in 1 .. Cardinality(spans) : InOrder(spans)[i] = s
<1> DEFINE n == Cardinality(spans)
           order == InOrder(spans)
<1>1. Ordered(spans, order)
  <2>1. \E s \in [1 .. n -> spans] : \A i, j \in 1 .. n : i < j => Earlier(s[i], s[j])
    BY OrderExists DEF Ordered
  <2> QED BY <2>1 DEF InOrder, Ordered
<1>2. n \in Nat /\ IsFiniteSet(1 .. n) /\ Cardinality(1 .. n) = n
  BY FS_CardinalityType, FS_Interval
<1> HIDE DEF n, order
<1>3. order \in [1 .. n -> spans] /\ \A i, j \in 1 .. n : i < j => Earlier(order[i], order[j])
  BY <1>1 DEF Ordered, n
<1>4. order \in Injection(1 .. n, spans)
  <2> SUFFICES ASSUME NEW i \in 1 .. n, NEW j \in 1 .. n, order[i] = order[j], i # j
               PROVE  FALSE
    BY <1>3 DEF Injection, IsInjective
  <2>1. order[i] \in Span /\ (i < j \/ j < i)
    BY <1>2, <1>3
  <2> QED BY <1>3, <2>1, EarlierIsOrder
<1>5. order \in Surjection(1 .. n, spans)
  BY <1>2, <1>4, FS_Injection DEF n
<1> QED BY <1>1, <1>5 DEF Surjection, n, order

\* What is merged so far: the months of the finished spans lie before the one
\* being merged.
Merging == {acc \in [total : Nat, start : Nat, end : Nat] : acc.start <= acc.end}

MonthsUpTo(order, k) == UNION {order[i][1] .. order[i][2] : i \in 1 .. k}

LEMMA MergeSpanTyped ==
  ASSUME NEW acc \in Merging, NEW span \in Span
  PROVE  MergeSpan(acc, span) \in Merging
<1>1. span[1] \in Nat /\ span[2] \in Nat /\ span[1] <= span[2]
  BY DEF Span
<1>2. acc.total \in Nat /\ acc.start \in Nat /\ acc.end \in Nat /\ acc.start <= acc.end
  BY DEF Merging
<1>3. acc.total + acc.end - acc.start + 1 \in Nat
  BY <1>2
<1>4. FurthestEnd(acc.end, span) \in Nat /\ acc.start <= FurthestEnd(acc.end, span)
  BY <1>1, <1>2 DEF FurthestEnd
<1> QED BY <1>1, <1>3, <1>4 DEF MergeSpan, Merging

Counted(order, k, acc) ==
  LET done == {m \in MonthsUpTo(order, k) : m < acc.start} IN
  /\ acc \in Merging /\ acc.start <= order[k][1]
  /\ MonthsUpTo(order, k) = done \cup (acc.start .. acc.end)
  /\ IsFiniteSet(done) /\ Cardinality(done) = acc.total

LEMMA FirstSpanCounts ==
  ASSUME NEW order, order[1] \in Span
  PROVE  Counted(order, 1, [total |-> 0, start |-> order[1][1], end |-> order[1][2]])
<1> DEFINE acc == [total |-> 0, start |-> order[1][1], end |-> order[1][2]]
<1>1. MonthsUpTo(order, 1) = order[1][1] .. order[1][2]
  <2>1. 1 .. 1 = {1}
    OBVIOUS
  <2> QED BY <2>1 DEF MonthsUpTo
<1>2. order[1][1] \in Nat /\ order[1][2] \in Nat /\ order[1][1] <= order[1][2]
  BY DEF Span
<1>3. acc \in Merging /\ acc.start = order[1][1] /\ acc.end = order[1][2] /\ acc.total = 0
  BY <1>2 DEF Merging
<1> HIDE DEF acc
<1>4. {m \in MonthsUpTo(order, 1) : m < acc.start} = {}
  BY <1>1, <1>2, <1>3
<1>5. IsFiniteSet({}) /\ Cardinality({}) = 0
  BY FS_EmptySet
<1>6. Counted(order, 1, acc)
  <2>1. acc.start <= order[1][1]
    BY <1>2, <1>3
  <2>2. MonthsUpTo(order, 1) = {} \cup (acc.start .. acc.end)
    BY <1>1, <1>3
  <2> QED BY <1>3, <1>4, <1>5, <2>1, <2>2, Zenon DEF Counted
<1> QED BY <1>6 DEF acc

\* The months so far are the finished ones and those being merged.
LEMMA MonthsCounted ==
  ASSUME NEW done \in SUBSET Nat, IsFiniteSet(done),
         NEW start \in Nat, NEW end \in Nat, start <= end, \A m \in done : m < start
  PROVE  /\ IsFiniteSet(done \cup (start .. end))
         /\ Cardinality(done \cup (start .. end)) = Cardinality(done) + end - start + 1
<1>1. IsFiniteSet(start .. end) /\ Cardinality(start .. end) = end - start + 1
  BY FS_Interval
<1>2. done \cap (start .. end) = {}
  OBVIOUS
<1>3. Cardinality(done \cap (start .. end)) = 0
  BY <1>2, FS_EmptySet
<1>4. Cardinality(done) \in Nat
  BY FS_CardinalityType
<1>5. /\ IsFiniteSet(done \cup (start .. end))
      /\ Cardinality(done \cup (start .. end))
           = Cardinality(done) + Cardinality(start .. end) - Cardinality(done \cap (start .. end))
  BY <1>1, FS_Union
<1> QED BY <1>1, <1>3, <1>4, <1>5

\* One more span in order.
LEMMA MergeSpanCounts ==
  ASSUME NEW n \in Nat, NEW order \in [1 .. n -> Span], NEW k \in 1 .. n, k + 1 \in 1 .. n,
         order[k][1] <= order[k + 1][1],
         NEW acc, Counted(order, k, acc)
  PROVE  Counted(order, k + 1, MergeSpan(acc, order[k + 1]))
<1> DEFINE span == order[k + 1]
           new == MergeSpan(acc, span)
           done == {m \in MonthsUpTo(order, k) : m < acc.start}
           doneNow == {m \in MonthsUpTo(order, k + 1) : m < new.start}
<1>1. span \in Span /\ order[k] \in Span
  OBVIOUS
<1>2. span[1] \in Nat /\ span[2] \in Nat /\ span[1] <= span[2] /\ order[k][1] \in Nat
  BY <1>1 DEF Span
<1>3. /\ acc \in Merging /\ acc.start <= order[k][1]
      /\ MonthsUpTo(order, k) = done \cup (acc.start .. acc.end)
      /\ IsFiniteSet(done) /\ Cardinality(done) = acc.total
  BY DEF Counted
<1>4. acc.total \in Nat /\ acc.start \in Nat /\ acc.end \in Nat /\ acc.start <= acc.end
  BY <1>3 DEF Merging
<1>5. MonthsUpTo(order, k + 1) = MonthsUpTo(order, k) \cup (span[1] .. span[2])
  <2>1. 1 .. k + 1 = (1 .. k) \cup {k + 1}
    OBVIOUS
  <2> QED BY <2>1 DEF MonthsUpTo
<1>6. new \in Merging
  BY <1>1, <1>3, MergeSpanTyped
<1>7. done \in SUBSET Nat /\ \A m \in done : m < acc.start
  <2>1. \A i \in 1 .. k : order[i] \in Span
    OBVIOUS
  <2>2. \A i \in 1 .. k : order[i][1] .. order[i][2] \subseteq Nat
    BY <2>1 DEF Span
  <2> QED BY <2>2 DEF MonthsUpTo
<1>8. acc.start <= span[1]
  BY <1>2, <1>3, <1>4
<1>9. CASE span[1] <= acc.end
  <2> DEFINE end == FurthestEnd(acc.end, span)
  <2>1. end \in Nat /\ end >= acc.end /\ end >= span[2] /\ (end = acc.end \/ end = span[2])
    BY <1>2, <1>4 DEF FurthestEnd
  <2>2. new.total = acc.total /\ new.start = acc.start /\ new.end = end
    <3>1. new = [acc EXCEPT !.end = end]
      BY <1>9 DEF MergeSpan
    <3> HIDE DEF new, end
    <3> QED BY <1>3, <3>1 DEF Merging
  <2> HIDE DEF new, end, span, done
  <2>3. (acc.start .. acc.end) \cup (span[1] .. span[2]) = acc.start .. end
    BY <1>2, <1>4, <1>8, <1>9, <2>1
  <2>4. MonthsUpTo(order, k + 1) = done \cup (acc.start .. end)
    BY <1>3, <1>5, <2>3
  <2>5. doneNow = done
    <3>1. \A m \in acc.start .. end : ~(m < acc.start)
      BY <1>4, <2>1
    <3> QED BY <1>7, <2>2, <2>4, <3>1
  <2> QED BY <1>3, <1>6, <1>8, <2>2, <2>4, <2>5 DEF Counted, new, span
<1>10. CASE ~ (span[1] <= acc.end)
  <2>1. new = [total |-> acc.total + acc.end - acc.start + 1, start |-> span[1], end |-> span[2]]
    BY <1>10 DEF MergeSpan
  <2> HIDE DEF new, span, done
  <2>2. new.total = acc.total + acc.end - acc.start + 1 /\ new.start = span[1] /\ new.end = span[2]
    BY <2>1
  <2>3. doneNow = done \cup (acc.start .. acc.end)
    <3>1. \A m \in done \cup (acc.start .. acc.end) : m \in Nat /\ m < span[1]
      BY <1>2, <1>4, <1>7, <1>8, <1>10
    <3>2. \A m \in span[1] .. span[2] : ~(m < span[1])
      BY <1>2
    <3> QED BY <1>3, <1>5, <2>2, <3>1, <3>2
  <2>4. IsFiniteSet(doneNow) /\ Cardinality(doneNow) = new.total
    BY <1>3, <1>4, <1>7, <2>2, <2>3, MonthsCounted
  <2>5. MonthsUpTo(order, k + 1) = doneNow \cup (new.start .. new.end)
    BY <1>3, <1>5, <2>2, <2>3
  <2>6. new.start <= span[1]
    BY <1>2, <2>2
  <2> QED BY <1>6, <2>4, <2>5, <2>6 DEF Counted, new, span
<1> QED BY <1>9, <1>10

LEMMA SpansOfRoles ==
  ASSUME NEW roles \in SUBSET Roles
  PROVE  Spans(roles) \in SUBSET Span /\ IsFiniteSet(Spans(roles))
<1>1. \A r \in roles : RoleEnd(r) # NoEnd => RoleEnd(r) \in RoleMonth
  <2> SUFFICES ASSUME NEW r \in roles, RoleEnd(r) # NoEnd PROVE RoleEnd(r) \in RoleMonth
    OBVIOUS
  <2>1. r.start \in RoleMonth /\ r.end \in RoleMonth \cup {NoEnd}
    BY DEF Roles
  <2>2. Today \in RoleMonth
    <3>1. \E m \in RoleMonth : \A n \in RoleMonth : n <= m
      BY <2>1, YearsAssumption, LargestOf
    <3> QED BY <3>1 DEF Today
  <2> QED BY <2>1, <2>2 DEF RoleEnd
<1>2. Spans(roles) \in SUBSET (RoleMonth \X RoleMonth)
  BY <1>1 DEF Spans, Roles
<1>3. IsFiniteSet(RoleMonth \X RoleMonth)
  BY YearsAssumption, FS_Product
<1>4. IsFiniteSet(Spans(roles))
  BY <1>2, <1>3, FS_Subset
<1>5. \A s \in Spans(roles) : s[1] <= s[2]
  BY DEF Spans
<1> QED BY <1>2, <1>4, <1>5, YearsAssumption DEF Span

\* Only finitely many months are touched, and so their number is one.
LEMMA FinitelyManyMonths ==
  ASSUME NEW roles \in SUBSET Roles
  PROVE  IsFiniteSet(UNION {span[1] .. span[2] : span \in Spans(roles)})
<1> DEFINE months == UNION {span[1] .. span[2] : span \in Spans(roles)}
<1>1. \A span \in Spans(roles) : span[1] \in Nat /\ span[2] \in RoleMonth
  <2>1. \A r \in roles : r.start \in RoleMonth /\ (RoleEnd(r) # NoEnd => RoleEnd(r) \in RoleMonth)
    <3> SUFFICES ASSUME NEW r \in roles
                 PROVE  r.start \in RoleMonth /\ (RoleEnd(r) # NoEnd => RoleEnd(r) \in RoleMonth)
      OBVIOUS
    <3>1. r.start \in RoleMonth /\ r.end \in RoleMonth \cup {NoEnd}
      BY DEF Roles
    <3>2. \E m \in RoleMonth : \A n \in RoleMonth : n <= m
      BY <3>1, YearsAssumption, LargestOf
    <3>3. Today \in RoleMonth
      BY <3>2 DEF Today
    <3> QED BY <3>1, <3>3 DEF RoleEnd
  <2> SUFFICES ASSUME NEW span \in Spans(roles)
               PROVE  span[1] \in Nat /\ span[2] \in RoleMonth
    OBVIOUS
  <2>2. PICK r \in roles : RoleEnd(r) # NoEnd /\ span = <<r.start, RoleEnd(r)>>
    BY DEF Spans
  <2>3. span[1] \in RoleMonth /\ span[2] \in RoleMonth
    BY <2>1, <2>2
  <2> QED BY <2>3, YearsAssumption
<1>2. CASE RoleMonth = {}
  <2>1. months = {}
    BY <1>1, <1>2
  <2> QED BY <2>1, FS_EmptySet
<1>3. CASE RoleMonth # {}
  <2>1. PICK last \in RoleMonth : \A m \in RoleMonth : m <= last
    BY <1>3, YearsAssumption, LargestOf
  <2>2. last \in Nat
    BY <2>1, YearsAssumption
  <2>3. \A span \in Spans(roles) : span[1] .. span[2] \subseteq 0 .. last
    <3> SUFFICES ASSUME NEW span \in Spans(roles)
                 PROVE  span[1] .. span[2] \subseteq 0 .. last
      OBVIOUS
    <3>1. span[1] \in Nat /\ span[2] \in Nat /\ span[2] <= last
      BY <1>1, <2>1, YearsAssumption
    <3> QED BY <2>2, <3>1
  <2>4. months \subseteq 0 .. last
    BY <2>3
  <2>5. IsFiniteSet(0 .. last)
    BY <2>2, FS_Interval
  <2> HIDE DEF months
  <2>6. IsFiniteSet(months)
    BY <2>4, <2>5, FS_Subset
  <2> QED BY <2>6 DEF months
<1> QED BY <1>2, <1>3

(* Each month of experience is counted once, whatever the roles.           *)
THEOREM MonthsCountOnce == \A roles \in SUBSET Roles : MonthsAreCountedOnce(roles)
<1> SUFFICES ASSUME NEW roles \in SUBSET Roles
             PROVE  MonthsAreCountedOnce(roles)
  OBVIOUS
<1> DEFINE spans == Spans(roles)
           n == Cardinality(spans)
           order == InOrder(spans)
           months == UNION {span[1] .. span[2] : span \in spans}
           base == [total |-> 0, start |-> order[1][1], end |-> order[1][2]]
           step == [k \in 1 .. n - 1 |-> [acc \in Merging |-> MergeSpan(acc, order[k + 1])]]
           Upto(f) == [k \in 0 .. n - 1 |-> IF k = 0 THEN base ELSE MergeSpan(f[k - 1], order[k + 1])]
           merged == CHOOSE f : f = Upto(f)
<1>1. spans \in SUBSET Span /\ IsFiniteSet(spans) /\ n \in Nat
  BY SpansOfRoles, FS_CardinalityType
<1>2. /\ order \in [1 .. n -> Span]
      /\ \A i, j \in 1 .. n : i < j => Earlier(order[i], order[j])
      /\ spans = {order[i] : i \in 1 .. n}
  <2>1. /\ Ordered(spans, order)
        /\ \A s \in spans : \E i \in 1 .. n : order[i] = s
    BY <1>1, InOrderIsOrdered
  <2>2. order \in [1 .. n -> spans] /\ \A i, j \in 1 .. n : i < j => Earlier(order[i], order[j])
    BY <2>1 DEF Ordered
  <2> HIDE DEF spans, n, order
  <2> QED BY <1>1, <2>1, <2>2
<1>3. months = MonthsUpTo(order, n)
  <2> HIDE DEF spans, n, order
  <2> QED BY <1>2 DEF MonthsUpTo
<1>4. CASE n = 0
  <2>1. MonthsOf(roles) = 0
    BY <1>4 DEF MonthsOf
  <2>2. spans = {}
    BY <1>1, <1>4, FS_EmptySet
  <2>3. months = {}
    BY <2>2
  <2>4. Cardinality(months) = 0
    BY <2>3, FS_EmptySet
  <2> QED BY <2>1, <2>4 DEF MonthsAreCountedOnce
<1>5. CASE n # 0
  <2>0. n - 1 \in Nat /\ 1 \in 1 .. n /\ 0 \in 0 .. n - 1
    BY <1>1, <1>5
  <2>1. MonthsOf(roles) = merged[n - 1].total + merged[n - 1].end - merged[n - 1].start + 1
    BY <1>5, Zenon DEF MonthsOf
  <2> HIDE DEF spans, n, order, months
  <2>2. base \in Merging
    <3>1. order[1] \in Span
      BY <1>2, <2>0
    <3> QED BY <3>1 DEF Merging, Span
  <2> HIDE DEF base
  <2>3. step \in Steps(Merging, n - 1)
    <3> SUFFICES ASSUME NEW k \in 1 .. n - 1, NEW acc \in Merging
                 PROVE  MergeSpan(acc, order[k + 1]) \in Merging
      BY DEF Steps
    <3>1. k + 1 \in 1 .. n
      BY <1>1
    <3> QED BY <1>2, <3>1, MergeSpanTyped
  <2>4. PICK f \in [0 .. n - 1 -> Merging] :
          f[0] = base /\ \A k \in 1 .. n - 1 : f[k] = step[k][f[k - 1]]
    <3> HIDE DEF step
    <3>1. Runs(Merging, n - 1, base, step) # {}
      BY <2>0, <2>2, <2>3, StepsReach
    <3> QED BY <3>1 DEF Runs
  <2>5. \A k \in 1 .. n - 1 : f[k] = MergeSpan(f[k - 1], order[k + 1])
    <3> SUFFICES ASSUME NEW k \in 1 .. n - 1
                 PROVE  step[k][f[k - 1]] = MergeSpan(f[k - 1], order[k + 1])
      BY <2>4
    <3>1. f[k - 1] \in Merging
      BY <2>0
    <3> QED BY <3>1
  <2>6. f = Upto(f)
    <3> SUFFICES \A k \in 0 .. n - 1 : f[k] = Upto(f)[k]
      OBVIOUS
    <3>1. Upto(f)[0] = base
      BY <2>0, Zenon
    <3>2. \A k \in 1 .. n - 1 : f[k] = Upto(f)[k]
      BY <2>0, <2>5
    <3>3. \A k \in 0 .. n - 1 : k = 0 \/ k \in 1 .. n - 1
      BY <2>0
    <3> HIDE DEF Upto
    <3> QED BY <2>4, <3>1, <3>2, <3>3
  <2>7. merged = Upto(merged)
    <3> HIDE DEF Upto
    <3> QED BY <2>6
  <2> HIDE DEF merged
  <2>8. merged[0] = base
    BY <2>0, <2>7, Zenon
  <2>9. ASSUME NEW k \in 1 .. n - 1 PROVE merged[k] = MergeSpan(merged[k - 1], order[k + 1])
    <3>1. k \in 0 .. n - 1 /\ k # 0
      OBVIOUS
    <3>2. Upto(merged)[k] = MergeSpan(merged[k - 1], order[k + 1])
      BY <3>1, Zenon
    <3> HIDE DEF Upto
    <3> QED BY <2>7, <3>2
  <2> HIDE DEF Upto, step
  <2> DEFINE Good(k) == k <= n - 1 => Counted(order, k + 1, merged[k])
             good == {k \in Nat : Good(k)}
  <2>10. Good(0)
    <3> SUFFICES Counted(order, 1, base)
      BY <2>8
    <3>1. order[1] \in Span
      BY <1>2, <2>0
    <3> QED BY <3>1, FirstSpanCounts DEF base
  <2>11. ASSUME NEW k \in Nat, Good(k)
         PROVE  Good(k + 1)
    <3> SUFFICES ASSUME k + 1 <= n - 1 PROVE Counted(order, k + 1 + 1, merged[k + 1])
      OBVIOUS
    <3>1. k + 1 \in 1 .. n /\ k + 1 + 1 \in 1 .. n /\ k + 1 \in 1 .. n - 1 /\ k <= n - 1
      BY <1>1
    <3>2. Counted(order, k + 1, merged[k])
      BY <2>11, <3>1
    <3>3. Earlier(order[k + 1], order[k + 1 + 1])
      BY <1>2, <3>1
    <3>4. order[k + 1][1] <= order[k + 1 + 1][1]
      <4>1. order[k + 1] \in Span /\ order[k + 1 + 1] \in Span
        BY <1>2, <3>1
      <4>2. order[k + 1][1] \in Nat /\ order[k + 1 + 1][1] \in Nat
        BY <4>1 DEF Span
      <4> QED BY <3>3, <4>2 DEF Earlier
    <3>5. merged[k + 1] = MergeSpan(merged[k], order[k + 1 + 1])
      <4>1. k + 1 - 1 = k
        OBVIOUS
      <4> QED BY <2>9, <3>1, <4>1
    <3> HIDE DEF Good, good
    <3> QED BY <1>1, <1>2, <3>1, <3>2, <3>4, <3>5, MergeSpanCounts
  <2>12. Counted(order, n, merged[n - 1])
    <3>1. Nat \subseteq good
      <4> HIDE DEF Good
      <4>1. 0 \in good
        BY <2>10
      <4>2. \A k \in Nat : k \in good => k + 1 \in good
        BY <2>11
      <4> HIDE DEF good
      <4> QED BY <4>1, <4>2, AllNaturals
    <3>2. n - 1 <= n - 1 /\ n - 1 + 1 = n
      BY <1>1
    <3>3. Good(n - 1)
      <4> HIDE DEF Good
      <4> QED BY <2>0, <3>1
    <3> QED BY <3>2, <3>3
  <2>13. Cardinality(months) = merged[n - 1].total + merged[n - 1].end - merged[n - 1].start + 1
    <3> DEFINE acc == merged[n - 1]
               done == {m \in MonthsUpTo(order, n) : m < acc.start}
    <3>1. /\ acc \in Merging /\ MonthsUpTo(order, n) = done \cup (acc.start .. acc.end)
          /\ IsFiniteSet(done) /\ Cardinality(done) = acc.total
      BY <2>12 DEF Counted
    <3>2. done \in SUBSET Nat
      <4>1. \A i \in 1 .. n : order[i] \in Span
        BY <1>2
      <4>2. \A i \in 1 .. n : order[i][1] .. order[i][2] \subseteq Nat
        BY <4>1 DEF Span
      <4> QED BY <4>2 DEF MonthsUpTo
    <3>3. acc.start \in Nat /\ acc.end \in Nat /\ acc.start <= acc.end /\ \A m \in done : m < acc.start
      BY <3>1 DEF Merging
    <3> HIDE DEF acc, done
    <3>4. Cardinality(done \cup (acc.start .. acc.end)) = Cardinality(done) + acc.end - acc.start + 1
      BY <3>1, <3>2, <3>3, MonthsCounted
    <3> QED BY <1>3, <3>1, <3>4 DEF acc
  <2> QED BY <2>1, <2>13 DEF MonthsAreCountedOnce, months, spans
<1> QED BY <1>4, <1>5

LEMMA MonthsAreNumbers ==
  ASSUME NEW roles \in SUBSET Roles
  PROVE  MonthsOf(roles) \in Nat
<1>1. MonthsOf(roles) = Cardinality(UNION {span[1] .. span[2] : span \in Spans(roles)})
  BY MonthsCountOnce DEF MonthsAreCountedOnce
<1>2. IsFiniteSet(UNION {span[1] .. span[2] : span \in Spans(roles)})
  BY FinitelyManyMonths
<1> QED BY <1>1, <1>2, FS_CardinalityType

(* More experience is never shown as less.                                 *)
THEOREM YearsRound == \A months \in Nat : YearsAreRounded(months)
  BY DEF YearsAreRounded, HalfYears

(***************************************************************************)
(* Import jobs.                                                            *)
(***************************************************************************)
\* A row in the list is never the mark of a free slot.
LEMMA RowsAreNamed ==
  /\ NoRow \notin ImportRows
  /\ \A row \in ImportRows \cup {NoRow} : row # NoRow => row \in ImportRows
<1>1. \A row \in ImportRows : row.status # "none"
  BY DEF ImportRows, InFlight, Settled
<1> QED BY <1>1 DEF NoRow

\* A row that is saved is typed.
LEMMA FinishTyped ==
  ASSUME ImportTypeOK, NEW j \in ImportSlot, NEW file, NEW status \in {"ready"} \cup Settled,
         Finish(j, file, status)
  PROVE  /\ importRow' \in [ImportSlot -> ImportRows \cup {NoRow}]
         /\ importFiles' \subseteq ImportSlot
<1> DEFINE row == [status |-> status, late |-> FALSE, file |-> FALSE, proposals |-> status = "ready"]
<1>1. row \in ImportRows
  <2>1. PICK no \in BOOLEAN : no = FALSE
    OBVIOUS
  <2>2. PICK ready \in BOOLEAN : ready = (status = "ready")
    OBVIOUS
  <2>3. [status |-> status, late |-> no, file |-> no, proposals |-> ready] \in ImportRows
    BY DEF ImportRows
  <2> QED BY <2>1, <2>2, <2>3, Zenon
<1>2. importRow' = [importRow EXCEPT ![j] = row]
  BY DEF Finish
<1> HIDE DEF row
<1>3. importRow' \in [ImportSlot -> ImportRows \cup {NoRow}]
  BY <1>1, <1>2 DEF ImportTypeOK
<1>4. importFiles' \subseteq ImportSlot
  BY DEF Finish, ImportTypeOK
<1> QED BY <1>3, <1>4

\* A row in flight or ready is a row.
LEMMA StatusesOfRows ==
  ASSUME ImportTypeOK, NEW j \in ImportSlot
  PROVE  /\ importRow[j].status \in InFlight \cup {"ready"} => importRow[j] \in ImportRows
         /\ Exists(j) <=> importRow[j] \in ImportRows
<1>1. NoRow.status = "none"
  BY DEF NoRow
<1>2. importRow[j] \in ImportRows \cup {NoRow}
  BY DEF ImportTypeOK
<1>3. "none" \notin InFlight \cup {"ready"}
  BY DEF InFlight
<1> QED BY <1>1, <1>2, <1>3, RowsAreNamed DEF Exists

\* The steps of the request, the tasks, the user and the sweep.
LEMMA ImportStepTyped ==
  ASSUME ImportTypeOK, [ImportNext]_importVars
  PROVE  ImportTypeOK'
<1> USE DEF ImportTypeOK
<1>1. PICK yes \in BOOLEAN : yes = TRUE
  OBVIOUS
<1>2. PICK no \in BOOLEAN : no = FALSE
  OBVIOUS
<1>3. IdleTask.step = "idle"
  BY DEF IdleTask
<1>4. \A w \in ImportWorker :
        /\ importWorker[w].step = "claimed" =>
             importWorker[w] \in [step : {"claimed"}, job : ImportSlot, file : BOOLEAN, text : BOOLEAN]
        /\ importWorker[w].step = "extracted" =>
             importWorker[w] \in [step : {"extracted"}, job : ImportSlot, file : BOOLEAN, found : BOOLEAN]
        /\ importWorker[w] # IdleTask =>
             importWorker[w] \in [step : {"claimed"}, job : ImportSlot, file : BOOLEAN, text : BOOLEAN] \/
             importWorker[w] \in [step : {"extracted"}, job : ImportSlot, file : BOOLEAN, found : BOOLEAN]
  BY <1>3 DEF ImportWorkers
<1>5. importRequest # IdleTask => importRequest \in [step : {"created", "stored"}, job : ImportSlot]
  OBVIOUS
<1>6. importSweep # IdleTask => importSweep \in
        [step : {"expire", "fail"}, left : SUBSET ImportSlot, withFile : SUBSET ImportSlot]
  OBVIOUS
<1>7. ASSUME NEW j \in ImportSlot, StartImport(j)
      PROVE  ImportTypeOK'
  <2>1. [status |-> "pending", proposals |-> no, file |-> no, late |-> no] \in ImportRows
    BY DEF ImportRows, InFlight
  <2>2. [status |-> "pending", proposals |-> FALSE, file |-> FALSE, late |-> FALSE] \in ImportRows
    BY <2>1, <1>2, Zenon
  <2>3. importRow' \in [ImportSlot -> ImportRows \cup {NoRow}]
    BY <1>7, <2>2 DEF StartImport
  <2> QED BY <1>7, <2>3 DEF StartImport
<1>8. CASE StoreUpload
  <2>1. importRequest # IdleTask
    BY <1>3, <1>8 DEF StoreUpload
  <2>2. importRequest' \in [step : {"created", "stored"}, job : ImportSlot]
    BY <1>5, <1>8, <2>1 DEF StoreUpload
  <2> QED BY <1>5, <1>8, <2>1, <2>2 DEF StoreUpload
<1>9. CASE PublishImport
  <2>1. importRequest.job \in ImportSlot
    BY <1>5, <1>9 DEF PublishImport
  <2>2. PICK stored \in BOOLEAN : stored = (importRequest.step = "stored")
    OBVIOUS
  <2>3. importRow' = [importRow EXCEPT ![importRequest.job].file = stored]
    BY <1>9, <2>2 DEF PublishImport
  <2>4. importRow' \in [ImportSlot -> ImportRows \cup {NoRow}]
    BY <2>1, <2>3 DEF ImportRows, NoRow
  <2> QED BY <1>9, <2>1, <2>4 DEF PublishImport
<1>10. ASSUME NEW j \in ImportSlot, SkipImport(j)
       PROVE  ImportTypeOK'
  BY <1>10 DEF SkipImport
<1>11. ASSUME NEW w \in ImportWorker, NEW j \in ImportSlot, ClaimImport(w, j)
       PROVE  ImportTypeOK'
  <2>1. importRow[j] \in ImportRows
    BY <1>11, StatusesOfRows DEF ClaimImport, InFlight
  <2>2. importRow' = [importRow EXCEPT ![j].status = "running", ![j].late = no]
    BY <1>2, <1>11 DEF ClaimImport
  <2>3. importRow' \in [ImportSlot -> ImportRows \cup {NoRow}]
    BY <2>1, <2>2 DEF ImportRows, InFlight
  <2>4. PICK text \in BOOLEAN : text = (importRow[j].file => j \in importFiles)
    OBVIOUS
  <2>5. importRow[j].file \in BOOLEAN
    BY <2>1 DEF ImportRows
  <2>6. importWorker' = [importWorker EXCEPT ![w] =
          [step |-> "claimed", job |-> j, file |-> importRow[j].file, text |-> text]]
    BY <1>11, <2>4 DEF ClaimImport
  <2>7. importWorker' \in [ImportWorker -> ImportWorkers]
    BY <2>5, <2>6 DEF ImportWorkers
  <2> QED BY <1>11, <2>3, <2>7 DEF ClaimImport
<1>12. ASSUME NEW w \in ImportWorker, Extract(w)
       PROVE  ImportTypeOK'
  <2>1. importWorker[w] \in [step : {"claimed"}, job : ImportSlot, file : BOOLEAN, text : BOOLEAN]
    BY <1>4, <1>12 DEF Extract
  <2>2. PICK found \in {FALSE, importWorker[w].text} :
          importWorker' = [importWorker EXCEPT ![w] =
            [step |-> "extracted", job |-> importWorker[w].job, file |-> importWorker[w].file,
             found |-> found]]
    BY <1>12 DEF Extract
  <2>3. found \in BOOLEAN
    BY <2>1
  <2>4. importWorker' \in [ImportWorker -> ImportWorkers]
    BY <2>1, <2>2, <2>3 DEF ImportWorkers
  <2> QED BY <1>12, <2>4 DEF Extract
<1>13. ASSUME NEW w \in ImportWorker, FinishImport(w)
       PROVE  ImportTypeOK'
  <2>1. importWorker[w].job \in ImportSlot
    BY <1>4, <1>13 DEF FinishImport
  <2>2. Finish(importWorker[w].job, importWorker[w].file,
               IF importWorker[w].found THEN "ready" ELSE "failed")
    BY <1>13 DEF FinishImport
  <2>3. /\ importRow' \in [ImportSlot -> ImportRows \cup {NoRow}]
        /\ importFiles' \subseteq ImportSlot
    BY <2>1, <2>2, FinishTyped DEF Settled
  <2>4. importWorker' \in [ImportWorker -> ImportWorkers]
    BY <1>13 DEF FinishImport, ImportWorkers
  <2> QED BY <1>13, <2>3, <2>4 DEF FinishImport
<1>14. ASSUME NEW j \in ImportSlot, ApplyJob(j) \/ DiscardJob(j)
       PROVE  ImportTypeOK'
  <2>1. importRow[j] \in ImportRows
    BY <1>14, StatusesOfRows DEF ApplyJob, DiscardJob
  <2>2. \/ importRow' = [importRow EXCEPT ![j].status = "applied", ![j].proposals = no]
        \/ importRow' = [importRow EXCEPT ![j].status = "discarded", ![j].proposals = no, ![j].late = no]
    BY <1>2, <1>14 DEF ApplyJob, DiscardJob
  <2>3. importRow' \in [ImportSlot -> ImportRows \cup {NoRow}]
    BY <2>1, <2>2 DEF ImportRows, Settled
  <2> QED BY <1>14, <2>3 DEF ApplyJob, DiscardJob
<1>15. CASE BeginSweep
  <2>1. importSweep' \in [step : {"expire", "fail"}, left : SUBSET ImportSlot,
                          withFile : SUBSET ImportSlot]
    BY <1>15 DEF BeginSweep, WithFile
  <2> QED BY <1>15, <2>1 DEF BeginSweep
<1>16. ASSUME NEW j \in ImportSlot, SweepRow(j)
       PROVE  ImportTypeOK'
  <2>1. /\ importRow' \in [ImportSlot -> ImportRows \cup {NoRow}]
        /\ importFiles' \subseteq ImportSlot
    BY <1>16, FinishTyped DEF SweepRow, Settled
  <2>2. importSweep' \in [step : {"expire", "fail"}, left : SUBSET ImportSlot,
                          withFile : SUBSET ImportSlot]
    BY <1>6, <1>16 DEF SweepRow
  <2> QED BY <1>16, <2>1, <2>2 DEF SweepRow
<1>17. CASE SweepStuck
  <2>1. importSweep' \in [step : {"expire", "fail"}, left : SUBSET ImportSlot,
                          withFile : SUBSET ImportSlot]
    BY <1>17 DEF SweepStuck, WithFile
  <2> QED BY <1>17, <2>1 DEF SweepStuck
<1>18. CASE EndSweep
  <2> DEFINE closed == {j \in ImportSlot : Exists(j) /\ ~Active(j)}
  <2>1. PICK outdated \in SUBSET closed :
          importRow' = [j \in ImportSlot |->
            IF j \in outdated THEN NoRow
            ELSE IF j \in WithFile(closed) THEN [importRow[j] EXCEPT !.file = FALSE]
            ELSE importRow[j]]
    BY <1>18, Zenon DEF EndSweep
  <2>2. ASSUME NEW j \in WithFile(closed)
        PROVE  [importRow[j] EXCEPT !.file = FALSE] \in ImportRows
    <3>1. importRow[j] \in ImportRows
      BY <2>2, StatusesOfRows DEF WithFile
    <3>2. [importRow[j] EXCEPT !.file = no] \in ImportRows
      BY <3>1 DEF ImportRows
    <3> QED BY <3>2, <1>2, Zenon
  <2>3. importRow' \in [ImportSlot -> ImportRows \cup {NoRow}]
    <3> HIDE DEF closed
    <3> QED BY <2>1, <2>2, Zenon
  <2> QED BY <1>18, <2>3 DEF EndSweep
<1>19. ASSUME NEW j \in ImportSlot, GrowLate(j)
       PROVE  ImportTypeOK'
  <2>1. importRow[j] \in ImportRows
    BY <1>19, StatusesOfRows DEF GrowLate
  <2>2. importRow' = [importRow EXCEPT ![j].late = yes]
    BY <1>1, <1>19 DEF GrowLate
  <2>3. importRow' \in [ImportSlot -> ImportRows \cup {NoRow}]
    BY <2>1, <2>2 DEF ImportRows
  <2> QED BY <1>19, <2>3 DEF GrowLate
<1>20. ASSUME NEW j \in ImportSlot, LoseImportMessage(j)
       PROVE  ImportTypeOK'
  BY <1>20 DEF LoseImportMessage
<1>21. ASSUME NEW w \in ImportWorker, KillImportWorker(w)
       PROVE  ImportTypeOK'
  <2>1. importWorker' \in [ImportWorker -> ImportWorkers]
    BY <1>21 DEF KillImportWorker, ImportWorkers
  <2>2. importFiles' \subseteq ImportSlot
    BY <1>21 DEF KillImportWorker
  <2> QED BY <1>21, <2>1, <2>2 DEF KillImportWorker
<1>22. CASE KillImportRequest
  BY <1>22 DEF KillImportRequest
<1>23. CASE UNCHANGED importVars
  BY <1>23 DEF importVars
<1> QED
  BY <1>7, <1>8, <1>9, <1>10, <1>11, <1>12, <1>13, <1>14, <1>15, <1>16, <1>17, <1>18, <1>19, <1>20,
     <1>21, <1>22, <1>23, Zenon DEF ImportNext, SweepStep

LEMMA ImportInitTyped == ImportInit => ImportTypeOK
  BY DEF ImportInit, ImportTypeOK, ImportWorkers

(* Every row, message, worker and sweep of the imports keeps its form.     *)
THEOREM ImportsTyped == ImportSpec => []ImportTypeOK
  BY ImportInitTyped, ImportStepTyped, PTL DEF ImportSpec

(***************************************************************************)
(* Imports from GitHub.  The pages leave calls for the rest; what is       *)
(* remembered has time left.                                               *)
(***************************************************************************)
GitHubTasks == {IdleImport} \cup FetchSteps \cup ReadySteps \cup FailedSteps

CallsFit(task) ==
  /\ task.step = "user" => task.calls = 0
  /\ task.step = "pages" => task.calls \in 1 .. MaxPages

GitHubInv ==
  /\ GitHubTypeOK
  /\ quotaMemory # NotKnown => memoryTime > 0
  /\ \A t \in GitHubTask : CallsFit(gitHubTask[t])

\* A task that may make one more call.
Callable(task) ==
  \/ task \in FailedSteps
  \/ /\ task \in FetchSteps \cup ReadySteps
     /\ task.calls < MaxCalls /\ task.step # "user"
     /\ task.step = "pages" => task.calls < MaxPages

LEMMA HeardInQuota ==
  ASSUME GitHubTypeOK
  PROVE  Heard \in 0 .. Quota
BY GitHubAssumption DEF GitHubTypeOK, Heard

LEMMA StepsOfTasks ==
  \A task \in GitHubTasks :
    /\ task.step = "idle" <=> task = IdleImport
    /\ task.step = "failed" <=> task \in FailedSteps
    /\ task.step = "ready" <=> task \in ReadySteps
    /\ task.step \in {"user", "pages", "pinned", "look"} <=> task \in FetchSteps
BY DEF GitHubTasks, IdleImport, FetchSteps, ReadySteps, FailedSteps

LEMMA CallableCalled ==
  ASSUME GitHubTypeOK, NEW task, Callable(task)
  PROVE  /\ task.step = "failed" => task \in GitHubTasks /\ CallsFit(task)
         /\ task.step # "failed" =>
              /\ [task EXCEPT !.calls = @ + 1, !.heard = Heard] \in GitHubTasks
              /\ CallsFit([task EXCEPT !.calls = @ + 1, !.heard = Heard])
              /\ [task EXCEPT !.calls = @ + 1] \in GitHubTasks
              /\ CallsFit([task EXCEPT !.calls = @ + 1])
         /\ task.step # "idle"
<1> USE GitHubAssumption
<1>1. Heard \in 0 .. Quota
  BY HeardInQuota
<1>2. CASE task \in FailedSteps
  BY <1>2 DEF FailedSteps, GitHubTasks, CallsFit
<1>3. CASE task \in FetchSteps /\ task.calls < MaxCalls /\ task.step # "user"
           /\ (task.step = "pages" => task.calls < MaxPages)
  <2>1. task.calls + 1 \in 0 .. MaxCalls /\ (task.step = "pages" => task.calls + 1 \in 1 .. MaxPages)
    BY <1>3 DEF FetchSteps
  <2>2. /\ [task EXCEPT !.calls = @ + 1, !.heard = Heard] \in FetchSteps
        /\ [task EXCEPT !.calls = @ + 1] \in FetchSteps
    BY <1>1, <1>3, <2>1 DEF FetchSteps
  <2>3. /\ CallsFit([task EXCEPT !.calls = @ + 1, !.heard = Heard])
        /\ CallsFit([task EXCEPT !.calls = @ + 1])
    BY <1>3, <2>1 DEF FetchSteps, CallsFit
  <2>4. task.step \notin {"failed", "idle"}
    BY <1>3 DEF FetchSteps
  <2> QED BY <2>2, <2>3, <2>4 DEF GitHubTasks
<1>4. CASE task \in ReadySteps /\ task.calls < MaxCalls
  <2>1. task.calls + 1 \in 0 .. MaxCalls
    BY <1>4 DEF ReadySteps
  <2>2. /\ [task EXCEPT !.calls = @ + 1, !.heard = Heard] \in ReadySteps
        /\ [task EXCEPT !.calls = @ + 1] \in ReadySteps
    BY <1>1, <1>4, <2>1 DEF ReadySteps
  <2>3. /\ CallsFit([task EXCEPT !.calls = @ + 1, !.heard = Heard])
        /\ CallsFit([task EXCEPT !.calls = @ + 1])
    BY <1>4 DEF ReadySteps, CallsFit
  <2>4. task.step \notin {"failed", "idle"}
    BY <1>4 DEF ReadySteps
  <2> QED BY <2>2, <2>3, <2>4 DEF GitHubTasks
<1> QED BY <1>2, <1>3, <1>4 DEF Callable

\* A task that is set to one that is typed.
LEMMA TaskSet ==
  ASSUME GitHubInv, NEW t \in GitHubTask, NEW task \in GitHubTasks, CallsFit(task), SetTask(t, task)
  PROVE  /\ gitHubTask' \in [GitHubTask -> GitHubTasks]
         /\ \A s \in GitHubTask : CallsFit(gitHubTask'[s])
<1>1. gitHubTask \in [GitHubTask -> GitHubTasks] /\ \A s \in GitHubTask : CallsFit(gitHubTask[s])
  BY DEF GitHubInv, GitHubTypeOK, GitHubTasks
<1> QED BY <1>1 DEF SetTask

LEMMA CallTyped ==
  ASSUME GitHubInv, NEW t \in GitHubTask,
         NEW next, Callable(next), NEW limited, Callable(limited), NEW lost, Callable(lost),
         Call(t, next, limited, lost), UNCHANGED <<quotaMemory, memoryTime>>
  PROVE  GitHubInv'
<1>1. quotaLeft' \in 0 .. Quota
  BY HeardInQuota DEF Call, GitHubInv, GitHubTypeOK
<1>2. \E task \in GitHubTasks : CallsFit(task) /\ SetTask(t, task)
  <2>1. GitHubTypeOK
    BY DEF GitHubInv
  <2>2. ASSUME NEW status \in Status, NEW told \in BOOLEAN
        PROVE  Callable(Outcome(status, told, next, limited, lost))
    BY DEF Outcome
  <2>3. ASSUME NEW task, Callable(task), NEW told \in BOOLEAN
        PROVE  Called(task, told) \in GitHubTasks /\ CallsFit(Called(task, told))
    <3> DEFINE heard == [task EXCEPT !.calls = @ + 1, !.heard = Heard]
               deaf == [task EXCEPT !.calls = @ + 1]
    <3>1. Called(task, told) = IF task.step = "failed" THEN task ELSE IF told THEN heard ELSE deaf
      <4>1. task.step # "idle"
        BY <2>1, <2>3, CallableCalled
      <4>2. task.step \in {"idle", "failed"} <=> task.step = "failed"
        BY <4>1
      <4> QED BY <4>2, Zenon DEF Called
    <3>2. /\ task.step = "failed" => task \in GitHubTasks /\ CallsFit(task)
          /\ task.step # "failed" =>
               heard \in GitHubTasks /\ CallsFit(heard) /\ deaf \in GitHubTasks /\ CallsFit(deaf)
      BY <2>1, <2>3, CallableCalled
    <3> HIDE DEF heard, deaf
    <3> QED BY <3>1, <3>2
  <2>4. CASE \E status \in Status, told \in BOOLEAN :
               SetTask(t, Called(Outcome(status, told, next, limited, lost), told))
    BY <2>2, <2>3, <2>4
  <2>5. CASE SetTask(t, Called(lost, FALSE))
    BY <2>3, <2>5
  <2> QED BY <2>4, <2>5, Zenon DEF Call
<1>3. /\ gitHubTask' \in [GitHubTask -> GitHubTasks]
      /\ \A s \in GitHubTask : CallsFit(gitHubTask'[s])
  BY <1>2, TaskSet
<1> QED BY <1>1, <1>3 DEF GitHubInv, GitHubTypeOK, GitHubTasks

LEMMA FailedTyped ==
  ASSUME NEW code \in {"rate_limited", "other"}, NEW local \in BOOLEAN
  PROVE  /\ Failed(code, local) \in FailedSteps /\ Failed(code, local) \in GitHubTasks
         /\ CallsFit(Failed(code, local)) /\ Callable(Failed(code, local))
<1>1. Failed(code, local) \in FailedSteps
  BY DEF Failed, FailedSteps
<1>2. Failed(code, local).step = "failed"
  BY DEF Failed
<1> QED BY <1>1, <1>2 DEF GitHubTasks, CallsFit, Callable

LEMMA FailuresCallable ==
  Callable(Failed("rate_limited", FALSE)) /\ Callable(Failed("other", FALSE))
<1>1. PICK no \in BOOLEAN : no = FALSE
  OBVIOUS
<1>2. Callable(Failed("rate_limited", no)) /\ Callable(Failed("other", no))
  BY FailedTyped
<1> QED BY <1>1, <1>2, Zenon

LEMMA ReadyTyped ==
  ASSUME NEW task \in FetchSteps, NEW mode \in {"full", "partial", "light"}
  PROVE  /\ Ready(task, mode) \in ReadySteps /\ Ready(task, mode).step = "ready"
         /\ Ready(task, mode).calls = task.calls
         /\ Ready(task, mode) \in GitHubTasks /\ CallsFit(Ready(task, mode))
<1>1. Ready(task, mode) \in ReadySteps
  BY DEF Ready, ReadySteps, FetchSteps
<1>2. Ready(task, mode).step = "ready" /\ Ready(task, mode).calls = task.calls
  BY DEF Ready
<1> QED BY <1>1, <1>2 DEF GitHubTasks, CallsFit

LEMMA ReadySet ==
  ASSUME GitHubInv, NEW t \in GitHubTask, gitHubTask[t] \in FetchSteps,
         NEW mode \in {"full", "partial", "light"}, SetTask(t, Ready(gitHubTask[t], mode)),
         UNCHANGED <<quotaLeft, quotaMemory, memoryTime>>
  PROVE  GitHubInv'
<1>1. Ready(gitHubTask[t], mode) \in GitHubTasks /\ CallsFit(Ready(gitHubTask[t], mode))
  BY ReadyTyped
<1>2. /\ gitHubTask' \in [GitHubTask -> GitHubTasks]
      /\ \A s \in GitHubTask : CallsFit(gitHubTask'[s])
  BY <1>1, TaskSet
<1> QED BY <1>2 DEF GitHubInv, GitHubTypeOK, GitHubTasks

LEMMA StartGitHubTyped ==
  ASSUME GitHubInv, NEW t \in GitHubTask, NEW token \in BOOLEAN, NEW looks \in 0 .. MaxLooks,
         StartGitHub(t, token, looks)
  PROVE  GitHubInv'
<1>1. \E task \in GitHubTasks : CallsFit(task) /\ SetTask(t, task)
  <2>1. CASE quotaMemory # NotKnown /\ quotaMemory < QuotaLow
    <3>1. PICK yes \in BOOLEAN : yes = TRUE
      OBVIOUS
    <3>2. SetTask(t, Failed("rate_limited", yes))
      BY <2>1, <3>1, Zenon DEF StartGitHub
    <3> QED BY <3>2, FailedTyped
  <2>2. CASE ~(quotaMemory # NotKnown /\ quotaMemory < QuotaLow)
    <3> DEFINE fresh(d) == [step |-> "user", calls |-> 0, looks |-> looks, heard |-> NotKnown, deep |-> d]
    <3>1. PICK deep \in BOOLEAN :
            deep = (token /\ (quotaMemory = NotKnown \/ quotaMemory >= QuotaShallow))
      OBVIOUS
    <3>2. SetTask(t, fresh(deep))
      BY <2>2, <3>1, Zenon DEF StartGitHub
    <3>3. fresh(deep) \in FetchSteps
      BY GitHubAssumption DEF FetchSteps
    <3>4. CallsFit(fresh(deep))
      BY DEF CallsFit
    <3> HIDE DEF fresh
    <3> QED BY <3>2, <3>3, <3>4 DEF GitHubTasks
  <2> QED BY <2>1, <2>2
<1>2. /\ gitHubTask' \in [GitHubTask -> GitHubTasks]
      /\ \A s \in GitHubTask : CallsFit(gitHubTask'[s])
  BY <1>1, TaskSet
<1> QED BY <1>2 DEF GitHubInv, GitHubTypeOK, GitHubTasks, StartGitHub

LEMMA CallsOfTasks ==
  ASSUME GitHubInv, NEW t \in GitHubTask
  PROVE  /\ gitHubTask[t] \in GitHubTasks /\ CallsFit(gitHubTask[t])
         /\ gitHubTask[t].step \in {"user", "pages", "pinned", "look"} => gitHubTask[t] \in FetchSteps
<1>1. gitHubTask[t] \in GitHubTasks /\ CallsFit(gitHubTask[t])
  BY DEF GitHubInv, GitHubTypeOK, GitHubTasks
<1> QED BY <1>1, StepsOfTasks

LEMMA FetchUserTyped ==
  ASSUME GitHubInv, NEW t \in GitHubTask, FetchUser(t)
  PROVE  GitHubInv'
<1> DEFINE task == gitHubTask[t]
           next == [task EXCEPT !.step = "pages"]
<1>1. task.step = "user" /\ task \in FetchSteps /\ task.calls = 0
  BY CallsOfTasks DEF FetchUser, CallsFit
<1>2. Callable(next)
  BY <1>1, GitHubAssumption DEF Callable, FetchSteps
<1>3. /\ Call(t, next, Failed("rate_limited", FALSE), Failed("other", FALSE))
      /\ UNCHANGED <<quotaMemory, memoryTime>>
  BY DEF FetchUser
<1> HIDE DEF next
<1> QED BY <1>2, <1>3, CallTyped, FailuresCallable

LEMMA FetchPageTyped ==
  ASSUME GitHubInv, NEW t \in GitHubTask, NEW short \in BOOLEAN, FetchPage(t, short)
  PROVE  GitHubInv'
<1> DEFINE task == gitHubTask[t]
           last == short \/ task.calls = MaxPages
           next == IF ~last THEN task
                   ELSE IF task.deep THEN [task EXCEPT !.step = "pinned"] ELSE Ready(task, "light")
<1>1. task.step = "pages" /\ task \in FetchSteps /\ task.calls \in 1 .. MaxPages
  BY CallsOfTasks DEF FetchPage, CallsFit
<1>2. Callable(next)
  <2>1. ~last => Callable(task)
    BY <1>1, GitHubAssumption DEF Callable, FetchSteps
  <2>2. Callable([task EXCEPT !.step = "pinned"])
    BY <1>1, GitHubAssumption DEF Callable, FetchSteps
  <2>3. Callable(Ready(task, "light"))
    <3>1. /\ Ready(task, "light") \in ReadySteps /\ Ready(task, "light").step = "ready"
          /\ Ready(task, "light").calls = task.calls
      BY <1>1, ReadyTyped
    <3> QED BY <1>1, <3>1, GitHubAssumption DEF Callable
  <2> HIDE DEF task
  <2> QED BY <2>1, <2>2, <2>3
<1>3. /\ Call(t, next, Failed("rate_limited", FALSE), Failed("other", FALSE))
      /\ UNCHANGED <<quotaMemory, memoryTime>>
  BY Zenon DEF FetchPage
<1> HIDE DEF next
<1> QED BY <1>2, <1>3, CallTyped, FailuresCallable

\* The in-depth look, within its budget.
LEMMA LookTyped ==
  ASSUME GitHubInv, NEW t \in GitHubTask, FetchPinned(t) \/ LookDeeper(t)
  PROVE  GitHubInv'
<1> DEFINE task == gitHubTask[t]
           looking == [task EXCEPT !.step = "look"]
           nothing == [task EXCEPT !.looks = @ - 1]
<1>1. task.step \in {"pinned", "look"} /\ task \in FetchSteps /\ task.calls < MaxCalls
  <2>1. task.step \in {"pinned", "look"} /\ ~OutOfBudget(task)
    BY DEF FetchPinned, LookDeeper
  <2>2. task \in FetchSteps
    BY <2>1, CallsOfTasks
  <2> QED BY <2>1, <2>2, GitHubAssumption DEF OutOfBudget, FetchSteps
<1>2. Callable(looking)
  BY <1>1 DEF Callable, FetchSteps
<1>3. Callable(Ready(task, "partial"))
  <2>1. /\ Ready(task, "partial") \in ReadySteps /\ Ready(task, "partial").step = "ready"
        /\ Ready(task, "partial").calls = task.calls
    BY <1>1, ReadyTyped
  <2> QED BY <1>1, <2>1 DEF Callable
<1>4. task.looks > 0 => Callable(nothing)
  BY <1>1, GitHubAssumption DEF Callable, FetchSteps
<1>5. /\ \/ Call(t, looking, Ready(task, "partial"), looking)
         \/ task.looks > 0 /\ Call(t, nothing, Ready(task, "partial"), nothing)
      /\ UNCHANGED <<quotaMemory, memoryTime>>
  BY Zenon DEF FetchPinned, LookDeeper
<1> HIDE DEF looking, nothing
<1> QED BY <1>2, <1>3, <1>4, <1>5, CallTyped

LEMMA EndTyped ==
  ASSUME GitHubInv, NEW t \in GitHubTask, FinishGitHub(t) \/ FailGitHub(t)
  PROVE  GitHubInv'
<1>1. SetTask(t, IdleImport) /\ UNCHANGED quotaLeft
  BY DEF FinishGitHub, FailGitHub
<1>2. IdleImport \in GitHubTasks /\ CallsFit(IdleImport)
  BY DEF GitHubTasks, IdleImport, CallsFit
<1>3. /\ gitHubTask' \in [GitHubTask -> GitHubTasks]
      /\ \A s \in GitHubTask : CallsFit(gitHubTask'[s])
  BY <1>1, <1>2, TaskSet
<1>4. \/ UNCHANGED <<quotaMemory, memoryTime>>
      \/ quotaMemory' \in 0 .. Quota /\ memoryTime' \in 1 .. KeepTime
  <2>1. CASE FinishGitHub(t)
    <3>1. gitHubTask[t] \in ReadySteps
      BY <2>1, CallsOfTasks, StepsOfTasks DEF FinishGitHub
    <3> QED BY <2>1, <3>1, GitHubAssumption DEF FinishGitHub, Remember, ReadySteps
  <2>2. CASE FailGitHub(t)
    BY <2>2, GitHubAssumption DEF FailGitHub, Remember
  <2> QED BY <2>1, <2>2
<1> QED BY <1>1, <1>3, <1>4, GitHubAssumption DEF GitHubInv, GitHubTypeOK, GitHubTasks

LEMMA GitHubNextInv == GitHubInv /\ [GitHubNext]_gitHubVars => GitHubInv'
<1> SUFFICES ASSUME GitHubInv, [GitHubNext]_gitHubVars
             PROVE  GitHubInv'
  OBVIOUS
<1>1. ASSUME NEW t \in GitHubTask, BudgetIsSpent(t) \/ GitHubTimeIsUp(t)
      PROVE  GitHubInv'
  <2>1. gitHubTask[t] \in FetchSteps
    BY <1>1, CallsOfTasks DEF BudgetIsSpent, GitHubTimeIsUp, StopLooking
  <2>2. SetTask(t, Ready(gitHubTask[t], "partial")) /\ UNCHANGED <<quotaLeft, quotaMemory, memoryTime>>
    BY <1>1 DEF BudgetIsSpent, GitHubTimeIsUp, StopLooking
  <2> QED BY <2>1, <2>2, ReadySet
<1>2. ASSUME NEW t \in GitHubTask, LookedAtAll(t)
      PROVE  GitHubInv'
  <2>1. gitHubTask[t] \in FetchSteps
    BY <1>2, CallsOfTasks DEF LookedAtAll
  <2> QED BY <1>2, <2>1, ReadySet DEF LookedAtAll
<1>3. CASE ResetQuota
  BY <1>3, GitHubAssumption DEF ResetQuota, GitHubInv, GitHubTypeOK
<1>4. CASE TickMemory
  <2>1. memoryTime \in 0 .. KeepTime /\ memoryTime > 0 /\ memoryTime' = memoryTime - 1
    BY <1>4 DEF TickMemory, GitHubInv, GitHubTypeOK
  <2>2. memoryTime' \in 0 .. KeepTime /\ (memoryTime # 1 => memoryTime' > 0)
    BY <2>1, GitHubAssumption
  <2>3. quotaMemory' = IF memoryTime = 1 THEN NotKnown ELSE quotaMemory
    BY <1>4 DEF TickMemory
  <2> QED BY <1>4, <2>2, <2>3 DEF TickMemory, GitHubInv, GitHubTypeOK
<1>5. CASE UNCHANGED gitHubVars
  BY <1>5 DEF gitHubVars, GitHubInv, GitHubTypeOK
<1> QED
  BY <1>1, <1>2, <1>3, <1>4, <1>5, StartGitHubTyped, FetchUserTyped, FetchPageTyped, LookTyped, EndTyped
  DEF GitHubNext, FetchStep

LEMMA GitHubInitInv == GitHubInit => GitHubInv
  BY GitHubAssumption DEF GitHubInit, GitHubInv, GitHubTypeOK, CallsFit, IdleImport

(* No import makes more calls than it is allowed, and what is remembered   *)
(* of GitHub's quota is forgotten in time, whatever the limits are.        *)
THEOREM GitHubKeepsItsBudget == GitHubSpec => []GitHubTypeOK
<1>1. GitHubInv => GitHubTypeOK
  BY DEF GitHubInv
<1> QED BY <1>1, GitHubInitInv, GitHubNextInv, PTL DEF GitHubSpec
=============================================================================
