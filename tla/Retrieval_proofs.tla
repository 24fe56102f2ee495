--------------------------- MODULE Retrieval_proofs ---------------------------
(***************************************************************************)
(* Proofs about memory_context: that the scope follows the reference and   *)
(* the answer keeps to one tier and loses nothing without a reason         *)
(* (Recall), and that a session remembers only what it was given           *)
(* (RetrievalSessions).  Both rest on walks through a list: the            *)
(* deduplication of the titles and the compilation of the answer.          *)
(***************************************************************************)
EXTENDS Recall, RetrievalSessions, FoldLemmas
-----------------------------------------------------------------------------
(***************************************************************************)
(* Recall: the two tiers and the scope                                     *)
(***************************************************************************)

\* The candidates of a project, and any choice among them, are finitely many.
LEMMA RanksFinite ==
  /\ Ranks \in SUBSET Nat /\ IsFiniteSet(Ranks)
  /\ \A T \in SUBSET Ranks : IsFiniteSet(T) /\ Cardinality(T) \in Nat
<1>1. Candidates \in Nat
  BY RecallAssumption
<1>2. Ranks \in SUBSET Nat /\ IsFiniteSet(Ranks)
  BY <1>1, FS_Interval DEF Ranks
<1> QED  BY <1>2, FS_Subset, FS_CardinalityType

\* What _deduplicate returns of a list: different titles only, and for each
\* candidate it left out a better one with a like title.
Distinct(l, T, kept) ==
  /\ kept \subseteq T
  /\ \A i, j \in kept : {i, j} \notin l.like
  /\ \A i \in T \ kept : \E j \in kept : j < i /\ {i, j} \in l.like

\* One more candidate, with a worse rank than all before.
LEMMA AddDistinctKeeps ==
  ASSUME NEW l \in Listing, NEW T \in SUBSET Ranks, NEW i \in Ranks,
         \A j \in T : j < i, NEW kept, Distinct(l, T, kept)
  PROVE  Distinct(l, T \cup {i}, AddDistinct(l, i, kept))
<1>1. {i} \notin l.like
  <2>1. Cardinality({i}) = 1
    BY FS_Singleton
  <2> QED  BY <2>1 DEF Listing
<1>2. \A j : {i, j} = {j, i} /\ {i, i} = {i}
  OBVIOUS
<1>3. CASE \E j \in kept : {i, j} \in l.like
  <2>1. AddDistinct(l, i, kept) = kept
    BY <1>3 DEF AddDistinct
  <2>2. \E j \in kept : j < i /\ {i, j} \in l.like
    BY <1>3 DEF Distinct
  <2> QED  BY <2>1, <2>2 DEF Distinct
<1>4. CASE ~ \E j \in kept : {i, j} \in l.like
  <2>1. AddDistinct(l, i, kept) = kept \cup {i}
    BY <1>4 DEF AddDistinct
  <2>2. \A j, k \in kept \cup {i} : {j, k} \notin l.like
    BY <1>1, <1>2, <1>4 DEF Distinct
  <2> QED  BY <2>1, <2>2 DEF Distinct
<1> QED  BY <1>3, <1>4

\* The whole list, by induction from the best rank to the worst.
LEMMA DeduplicateIsDistinct ==
  ASSUME NEW l \in Listing, NEW T \in SUBSET Ranks
  PROVE  Distinct(l, T, Deduplicate(l, T))
<1> DEFINE Eq(g) == g = [s \in SUBSET T |->
                           IF s = {} THEN {}
                           ELSE AddDistinct(l, Max(s), g[s \ {Max(s)}])]
           iter == CHOOSE g : Eq(g)
           step == [i \in T |-> [k \in SUBSET Ranks |-> AddDistinct(l, i, k)]]
<1>1. T \in SUBSET Nat /\ IsFiniteSet(T)
  BY RanksFinite
<1>2. step \in StepFunctions(T, SUBSET Ranks)
  BY DEF StepFunctions, AddDistinct
<1>3. \A s \in SUBSET T : s # {} => Max(s) \in s /\ \A j \in s : Max(s) >= j
  BY <1>1, FS_Subset, HasMax
<1> HIDE DEF step
<1>4. PICK f : Folds(f, T, SUBSET Ranks, {}, step)
  BY <1>1, <1>2, FoldExists
<1>5. Eq(f)
  <2>1. ASSUME NEW s \in SUBSET T
        PROVE  f[s] = IF s = {} THEN {} ELSE AddDistinct(l, Max(s), f[s \ {Max(s)}])
    BY <1>3, <1>4 DEF Folds, step
  <2> QED  BY <1>4, <2>1 DEF Folds
<1>6. Eq(iter)
  <2> HIDE DEF Eq
  <2> QED  BY <1>5
<1>7. Deduplicate(l, T) = iter[T]
  BY DEF Deduplicate, MapThenFoldSet
<1> HIDE DEF iter
<1> DEFINE P == {s \in SUBSET T : Distinct(l, s, iter[s])}
<1>8. {} \in P
  BY <1>6 DEF Distinct
<1>9. ASSUME NEW s \in SUBSET T, s # {}, s \ {Max(s)} \in P PROVE s \in P
  <2> DEFINE i == Max(s)
             r == s \ {i}
  <2>1. i \in s /\ \A j \in r : j < i
    <3>1. i \in s /\ (\A j \in s : i >= j) /\ i \in Nat /\ \A j \in s : j \in Nat
      BY <1>1, <1>3, <1>9
    <3> HIDE DEF i
    <3> QED  BY <3>1
  <2>2. r \cup {i} = s
    BY <2>1
  <2>3. iter[s] = AddDistinct(l, i, iter[r])
    BY <1>6, <1>9
  <2>4. Distinct(l, r, iter[r])
    BY <1>9
  <2> HIDE DEF i
  <2>5. Distinct(l, r \cup {i}, AddDistinct(l, i, iter[r]))
    BY <2>1, <2>4, AddDistinctKeeps
  <2> QED  BY <2>2, <2>3, <2>5
<1> HIDE DEF P
<1>10. T \in P
  BY <1>1, <1>8, <1>9, SubsetInduction
<1> QED  BY <1>7, <1>10 DEF P

\* A tier that is not empty has a best rank.
LEMMA BestIsLeast ==
  ASSUME NEW T \in SUBSET Ranks, T # {}
  PROVE  Best(T) \in T /\ \A j \in T : Best(T) <= j
<1>1. \E i \in T : \A j \in T : i <= j
  BY RanksFinite, Least
<1> QED  BY <1>1 DEF Best

\* The cut-off never empties a tier that has a relevant memory: it is set by
\* a memory that passes it.
LEMMA RelevantStay ==
  ASSUME NEW l \in Listing, NEW T \in SUBSET Ranks
  PROVE  /\ SelectRelevant(l, T) \subseteq {i \in T : Relevant(l, i)}
         /\ (\E i \in T : Relevant(l, i)) => SelectRelevant(l, T) # {}
         /\ \A i \in T : Relevant(l, i) /\ (\A j \in Ranks : l.hits[i] >= l.hits[j])
              => i \in SelectRelevant(l, T)
<1> DEFINE signaled == {i \in T : l.hits[i] > 0}
<1>0. /\ RatioInverse \in Nat \ {0} /\ MinHits \in Nat \ {0}
      /\ \A i \in T : l.hits[i] \in Nat
  BY RecallAssumption DEF Listing
<1>1. \A n \in Nat : n * RatioInverse >= n
  BY <1>0
<1>2. SelectRelevant(l, T) = {i \in signaled : /\ l.hits[i] >= MinHits
                               /\ l.hits[i] * RatioInverse >= l.hits[Best(signaled)]}
  BY DEF SelectRelevant
<1>3. signaled \in SUBSET Ranks /\ \A i \in T : Relevant(l, i) => i \in signaled
  BY <1>0 DEF Relevant
<1>4. signaled # {} => Best(signaled) \in signaled
  BY <1>3, BestIsLeast
<1> HIDE DEF signaled
<1>5. ASSUME NEW i \in T, Relevant(l, i) PROVE SelectRelevant(l, T) # {}
  <2> DEFINE b == Best(signaled)
  <2>1. b \in signaled /\ b \in T /\ i \in signaled
    BY <1>3, <1>4, <1>5 DEF signaled
  <2> HIDE DEF b
  <2>2. CASE l.hits[b] >= MinHits
    <3>1. b \in SelectRelevant(l, T)
      BY <1>0, <1>1, <1>2, <2>1, <2>2 DEF b
    <3> QED  BY <3>1
  <2>3. CASE ~(l.hits[b] >= MinHits)
    <3>1. l.hits[i] >= l.hits[b] /\ l.hits[i] * RatioInverse >= l.hits[i]
      BY <1>0, <1>1, <1>5, <2>1, <2>3 DEF Relevant
    <3>2. l.hits[i] * RatioInverse \in Nat
      BY <1>0
    <3>3. l.hits[i] * RatioInverse >= l.hits[b]
      BY <1>0, <2>1, <3>1, <3>2
    <3>4. i \in SelectRelevant(l, T)
      BY <1>2, <1>5, <2>1, <3>3 DEF b, Relevant
    <3> QED  BY <3>4
  <2> QED  BY <2>2, <2>3
<1>6. ASSUME NEW i \in T, Relevant(l, i), \A j \in Ranks : l.hits[i] >= l.hits[j]
      PROVE  i \in SelectRelevant(l, T)
  <2> DEFINE b == Best(signaled)
  <2>1. b \in T /\ i \in signaled
    BY <1>3, <1>4, <1>6 DEF signaled
  <2> HIDE DEF b
  <2>2. l.hits[i] >= l.hits[b] /\ l.hits[i] * RatioInverse >= l.hits[i]
    BY <1>0, <1>1, <1>6, <2>1
  <2>3. l.hits[i] * RatioInverse \in Nat
    BY <1>0
  <2>4. l.hits[i] * RatioInverse >= l.hits[b]
    BY <1>0, <2>1, <2>2, <2>3
  <2> QED  BY <1>2, <1>6, <2>1, <2>4 DEF b, Relevant
<1> QED  BY <1>2, <1>5, <1>6 DEF Relevant, signaled

\* A cut leaves the first of what it cuts, and all of it unless it is full.
LEMMA CutToKeeps ==
  ASSUME NEW T \in SUBSET Ranks, NEW n \in Nat \ {0}
  PROVE  /\ CutTo(T, n) \subseteq T
         /\ T # {} => CutTo(T, n) # {}
         /\ Cardinality(CutTo(T, n)) < n => CutTo(T, n) = T
<1> DEFINE C == CutTo(T, n)
           before(i) == {j \in T : j < i}
<1>1. \A i : i \in C <=> i \in T /\ Cardinality(before(i)) < n
  BY DEF CutTo
<1>2. ASSUME T # {} PROVE C # {}
  <2>1. PICK i \in T : \A j \in T : i <= j
    BY <1>2, RanksFinite, Least
  <2>2. before(i) = {}
    <3> SUFFICES ASSUME NEW j \in T, j < i PROVE FALSE
      OBVIOUS
    <3>1. i <= j /\ i \in Nat /\ j \in Nat
      BY <2>1, RanksFinite
    <3> QED  BY <3>1
  <2>3. Cardinality(before(i)) = 0
    BY <2>2, FS_EmptySet
  <2> QED  BY <1>1, <2>1, <2>3
<1>3. ASSUME T # C PROVE ~(Cardinality(C) < n)
  <2>1. C \subseteq T /\ T \ C # {} /\ T \ C \in SUBSET Nat
    BY <1>1, <1>3, RanksFinite
  <2>2. PICK i \in T \ C : \A j \in T \ C : i <= j
    BY <2>1, Least
  <2>3. before(i) \in SUBSET C
    <3> SUFFICES ASSUME NEW j \in T, j < i, j \notin C PROVE FALSE
      OBVIOUS
    <3>1. i <= j /\ i \in Nat /\ j \in Nat
      BY <2>2, RanksFinite
    <3> QED  BY <3>1
  <2>4. ~(Cardinality(before(i)) < n)
    BY <1>1, <2>2
  <2>5. IsFiniteSet(C) /\ Cardinality(C) \in Nat /\ Cardinality(before(i)) \in Nat
    BY <2>1, <2>3, RanksFinite
  <2>6. Cardinality(before(i)) <= Cardinality(C)
    BY <2>3, <2>5, FS_Subset
  <2> QED  BY <2>4, <2>5, <2>6
<1> QED  BY <1>1, <1>2, <1>3

\* The memories of a tier that go into the pool.
LEMMA ShortlistedFacts ==
  ASSUME NEW l \in Listing, NEW status \in {"active", "tentative"}
  PROVE  LET S == Shortlisted(l, status)
         IN  /\ S \subseteq {i \in Tier(l, status) : Relevant(l, i)}
             /\ \A i, j \in S : {i, j} \notin l.like
             /\ (\E i \in Tier(l, status) : Relevant(l, i)) => S # {}
             /\ Cardinality(S) < PoolSize =>
                  \A i \in Tier(l, status) \ S :
                    Relevant(l, i) /\ (\A j \in Ranks : l.hits[i] >= l.hits[j])
                    => \E j \in S : j < i /\ {i, j} \in l.like
<1> DEFINE T == Tier(l, status)
           R == SelectRelevant(l, T)
           D == Deduplicate(l, R)
           S == CutTo(D, PoolSize)
<1>1. T \in SUBSET Ranks /\ PoolSize \in Nat \ {0}
  BY RecallAssumption DEF Tier
<1>2. S = Shortlisted(l, status)
  BY DEF Shortlisted
<1> HIDE DEF T
<1>3. /\ R \subseteq {i \in T : Relevant(l, i)}
      /\ (\E i \in T : Relevant(l, i)) => R # {}
      /\ \A i \in T : Relevant(l, i) /\ (\A j \in Ranks : l.hits[i] >= l.hits[j])
           => i \in R
  BY <1>1, RelevantStay
<1> HIDE DEF R
<1>4. R \in SUBSET Ranks
  BY <1>1, <1>3
<1>5. Distinct(l, R, D)
  BY <1>4, DeduplicateIsDistinct
<1>6. D \in SUBSET Ranks /\ (R # {} => D # {})
  BY <1>4, <1>5 DEF Distinct
<1> HIDE DEF D
<1>7. /\ S \subseteq D /\ (D # {} => S # {})
      /\ Cardinality(S) < PoolSize => S = D
  BY <1>1, <1>6, CutToKeeps
<1> HIDE DEF S
<1>8. S \subseteq {i \in T : Relevant(l, i)} /\ \A i, j \in S : {i, j} \notin l.like
  BY <1>3, <1>5, <1>7 DEF Distinct
<1>9. Cardinality(S) < PoolSize =>
        \A i \in T \ S : Relevant(l, i) /\ (\A j \in Ranks : l.hits[i] >= l.hits[j])
          => \E j \in S : j < i /\ {i, j} \in l.like
  BY <1>3, <1>5, <1>7 DEF Distinct
<1> QED  BY <1>2, <1>3, <1>6, <1>7, <1>8, <1>9 DEF T
\* Re-ranking keeps what it is given; the cut leaves different memories, some
\* if there were any, and all of them unless it is full.
LEMMA AnswerFacts ==
  ASSUME NEW T \in SUBSET Ranks, NEW s \in Reranked(T), NEW n \in Nat \ {0}
  PROVE  LET r == FirstOf(s, n)
         IN  /\ r \in Seq(Ranks) /\ Len(r) <= n
             /\ \A i, j \in DOMAIN r : r[i] = r[j] => i = j
             /\ ToSet(r) \subseteq T
             /\ T # {} => r # <<>> /\ r[1] \in T
             /\ Len(r) < n => Cardinality(T) = Len(r) /\ ToSet(r) = T
<1> DEFINE m == IF Len(s) < n THEN Len(s) ELSE n
           r == SubSeq(s, 1, m)
<1>1. IsFiniteSet(T) /\ Cardinality(T) \in Nat
  BY RanksFinite
<1>2. /\ s \in [1..Cardinality(T) -> T] /\ IsInjective(s)
      /\ s \in Seq(T) /\ Len(s) = Cardinality(T) /\ DOMAIN s = 1..Cardinality(T)
  BY <1>1 DEF Reranked
<1>3. m \in Nat /\ m <= n /\ m <= Len(s) /\ (m < n => m = Len(s))
  BY <1>1, <1>2
<1> HIDE DEF m
<1>4. /\ r \in Seq(T) /\ Len(r) = m /\ DOMAIN r = 1..m
      /\ \A i \in 1..m : r[i] = s[i] /\ i \in DOMAIN s
  BY <1>1, <1>2, <1>3
<1> HIDE DEF r
<1>5. \A i, j \in DOMAIN r : r[i] = r[j] => i = j
  BY <1>2, <1>4 DEF IsInjective
<1>6. ToSet(r) \subseteq T
  BY <1>4 DEF ToSet
<1>7. ASSUME T # {} PROVE r # <<>> /\ r[1] \in T
  <2>1. Cardinality(T) # 0
    BY <1>1, <1>7, FS_EmptySet
  <2>2. m >= 1
    BY <1>1, <1>2, <1>3, <2>1
  <2>3. 1 \in 1..m /\ Len(r) # 0
    BY <1>3, <1>4, <2>2
  <2>4. r # <<>>
    BY <2>3
  <2> QED  BY <1>4, <2>3, <2>4
<1>8. ASSUME Len(r) < n PROVE Cardinality(T) = Len(r) /\ ToSet(r) = T
  <2>1. m = Cardinality(T)
    BY <1>2, <1>3, <1>4, <1>8
  <2>2. s \in Injection(1..Cardinality(T), T)
    BY <1>2 DEF Injection
  <2>3. Cardinality(1..Cardinality(T)) = Cardinality(T)
    BY <1>1, FS_Interval
  <2>4. s \in Surjection(1..Cardinality(T), T)
    BY <1>1, <2>2, <2>3, FS_Injection
  <2>5. \A t \in T : \E i \in 1..Cardinality(T) : s[i] = t
    BY <2>4 DEF Surjection
  <2>6. T \subseteq ToSet(r)
    BY <1>4, <2>1, <2>5 DEF ToSet
  <2> QED  BY <1>4, <1>6, <2>1, <2>6
<1>9. r \in Seq(Ranks)
  BY <1>4
<1> QED  BY <1>3, <1>4, <1>5, <1>6, <1>7, <1>8, <1>9 DEF FirstOf, r, m

\* What holds of the answer to a question the memories look like l to.
LEMMA RecalledFacts ==
  ASSUME NEW l \in Listing, NEW r \in Recalled(l)
  PROVE  /\ r \in Seq(Ranks) /\ Len(r) <= TopK
         /\ \A i, j \in DOMAIN r : r[i] = r[j] => i = j
         /\ \E status \in {"active", "tentative"} :
              /\ ToSet(r) \subseteq Shortlisted(l, status)
              /\ status = "tentative" => Shortlisted(l, "active") = {}
              /\ Len(r) < TopK => ToSet(r) = Shortlisted(l, status)
                                  /\ Cardinality(Shortlisted(l, status)) = Len(r)
              /\ r # <<>> => r[1] \in Shortlisted(l, status)
         /\ r = <<>> => \A status \in {"active", "tentative"} :
                          Shortlisted(l, status) = {}
<1> DEFINE A == Shortlisted(l, "active")
           B == Shortlisted(l, "tentative")
           T == IF A = {} THEN B ELSE A
<1>0. TopK \in Nat \ {0}
  BY RecallAssumption
<1>1. PICK s \in Reranked(T) : r = FirstOf(s, TopK)
  BY DEF Recalled
<1>2. A \in SUBSET Ranks /\ B \in SUBSET Ranks
  BY ShortlistedFacts DEF Tier
<1> HIDE DEF A, B
<1>3. T \in SUBSET Ranks
  BY <1>2
<1>4. PICK status \in {"active", "tentative"} :
        T = Shortlisted(l, status) /\ (status = "tentative" => A = {})
  <2>1. CASE A = {}
    BY <2>1 DEF B
  <2>2. CASE A # {}
    BY <2>2 DEF A
  <2> QED  BY <2>1, <2>2
<1>5. T = {} => A = {} /\ B = {}
  OBVIOUS
<1> HIDE DEF T
<1>6. /\ r \in Seq(Ranks) /\ Len(r) <= TopK
      /\ \A i, j \in DOMAIN r : r[i] = r[j] => i = j
      /\ ToSet(r) \subseteq T
      /\ T # {} => r # <<>> /\ r[1] \in T
      /\ Len(r) < TopK => Cardinality(T) = Len(r) /\ ToSet(r) = T
  BY <1>0, <1>1, <1>3, AnswerFacts
<1>7. r # <<>> => r[1] \in T
  <2>1. ASSUME r # <<>> PROVE T # {}
    <3>1. Len(r) \in Nat /\ Len(r) # 0 /\ 1 \in DOMAIN r
      BY <1>6, <2>1
    <3>2. r[1] \in ToSet(r)
      BY <3>1 DEF ToSet
    <3> QED  BY <1>6, <3>2
  <2> QED  BY <1>6, <2>1
<1>8. r = <<>> => \A st \in {"active", "tentative"} : Shortlisted(l, st) = {}
  BY <1>5, <1>6 DEF A, B
<1> QED  BY <1>4, <1>6, <1>7, <1>8 DEF A

-----------------------------------------------------------------------------
\* _hinted_repository finds at most one repository of a project, since names
\* are unique there, and one if the reference names one there.
LEMMA HintedFacts ==
  ASSUME NEW p \in Projects, NEW q \in Question
  PROVE  LET H == Hinted(p, q.repository)
         IN  /\ H \subseteq Of(p) \cap Named(q.repository)
             /\ \A r, s \in H : r = s
             /\ Of(p) \cap Named(q.repository) # {} => H # {}
<1>1. \A r, s \in Repositories :
        OwnerOf[r] = OwnerOf[s] /\ NameOf[r] = NameOf[s] => r = s
  BY RecallAssumption
<1> QED  BY <1>1 DEF Hinted, Of, Named

\* The primary repository is one of the project's, and the one the caller
\* named if there is one and hints are kept.
LEMMA PrimaryFacts ==
  ASSUME NEW p \in Projects, NEW q \in Question, Of(p) # {}
  PROVE  /\ Primary(q, p) \in Of(p)
         /\ q.keep /\ Hinted(p, q.repository) # {} =>
              Hinted(p, q.repository) = {Primary(q, p)}
<1> DEFINE H == Hinted(p, q.repository)
           A(r) == Affinity(q, p, r)
           none == \A r \in Of(p) : A(r) = 0
<1>1. H \subseteq Of(p) /\ \A r, s \in H : r = s
  BY HintedFacts
<1>2. Of(p) \in SUBSET Repositories /\ Of(p) \in SUBSET Nat /\ IsFiniteSet(Of(p))
  <2>1. Repositories \subseteq Nat \ {0} /\ IsFiniteSet(Repositories)
    BY RecallAssumption
  <2>2. Of(p) \in SUBSET Repositories
    BY DEF Of
  <2>3. IsFiniteSet(Of(p))
    BY <2>1, <2>2, FS_Subset
  <2> QED  BY <2>1, <2>2, <2>3
<1>3. Lowest(p) \in Of(p)
  <2>1. \E r \in Of(p) : \A s \in Of(p) : r <= s
    BY <1>2, Least
  <2> QED  BY <2>1 DEF Lowest
<1>4. BestFit(q, p) \in Of(p)
  <2> DEFINE top == {r \in Of(p) : \A s \in Of(p) : A(s) <= A(r)}
             hint == top \cap H
             best == IF hint = {} THEN top ELSE hint
             levels == {A(r) : r \in Of(p)}
  <2>1. \A r \in Of(p) : A(r) \in Nat
    <3>1. HintFloor \in Nat /\ Affinities \subseteq Nat
      BY RecallAssumption
    <3>2. \A r \in Of(p) : q.affinity[r] \in Nat
      BY <1>2, <3>1 DEF Question
    <3> QED  BY <3>1, <3>2 DEF Affinity
  <2> HIDE DEF A
  <2>2. IsFiniteSet(levels)
    <3> DEFINE a == [r \in Of(p) |-> A(r)]
    <3>1. IsFiniteSet({a[r] : r \in Of(p)})
      BY <1>2, ImageFinite
    <3>2. levels = {a[r] : r \in Of(p)}
      OBVIOUS
    <3> QED  BY <3>1, <3>2
  <2>3. levels \in SUBSET Nat /\ levels # {}
    BY <2>1
  <2>4. Max(levels) \in levels /\ \A n \in levels : Max(levels) >= n
    BY <2>2, <2>3, HasMax
  <2>5. PICK r \in Of(p) : A(r) = Max(levels)
    BY <2>4
  <2>6. r \in top
    <3>1. ASSUME NEW s \in Of(p) PROVE A(s) <= A(r)
      <4>1. Max(levels) >= A(s)
        BY <2>4
      <4> HIDE DEF levels
      <4> QED  BY <2>1, <2>5, <4>1
    <3> QED  BY <3>1
  <2>7. top \subseteq Of(p) /\ top # {}
    BY <2>6
  <2> HIDE DEF top
  <2>8. best \in SUBSET Nat /\ best # {} /\ best \subseteq Of(p)
    BY <1>2, <2>7
  <2> HIDE DEF best
  <2>9. \E b \in best : \A s \in best : b <= s
    BY <2>8, Least
  <2>10. BestFit(q, p) = CHOOSE b \in best : \A s \in best : b <= s
    BY DEF BestFit, best, top, A
  <2> QED  BY <2>8, <2>9, <2>10
<1> HIDE DEF A
<1>5. CASE H # {} /\ (q.keep \/ none)
  <2>1. Primary(q, p) = CHOOSE r \in H : TRUE
    BY <1>5 DEF Primary, A
  <2>2. Primary(q, p) \in H
    BY <1>5, <2>1
  <2> QED  BY <1>1, <2>2
<1>6. CASE H = {} /\ none
  <2>1. Primary(q, p) = Lowest(p)
    BY <1>6 DEF Primary, A
  <2> QED  BY <1>3, <1>6, <2>1
<1>7. CASE ~(H # {} /\ (q.keep \/ none)) /\ ~(H = {} /\ none)
  <2>1. Primary(q, p) = BestFit(q, p)
    BY <1>7 DEF Primary, A
  <2> QED  BY <1>4, <1>7, <2>1
<1> QED  BY <1>5, <1>6, <1>7

\* The question decides the scope the way ScopeFollowsReference has it.
LEMMA InferScopeFollows ==
  ASSUME NEW q \in Question
  PROVE  /\ InferScope(q) \subseteq Scope
         /\ \A s \in InferScope(q) :
              /\ OwnerOf[s.primary] = s.project
              /\ s.switched => ~q.keep
              /\ Cardinality(Named(q.repository)) = 1 =>
                   /\ s.project \in Owners(Named(q.repository))
                   /\ q.keep => s.primary \in Named(q.repository)
              /\ Cardinality(Named(q.repository)) > 1 => s.project = q.project
         /\ Cardinality(Named(q.repository)) = 1 => InferScope(q) # {}
<1> DEFINE named == Named(q.repository)
           H(p) == Hinted(p, q.repository)
           S(p) == [project |-> p, primary |-> Primary(q, p),
                    switched |-> H(p) \notin {{}, {Primary(q, p)}}]
<1>1. IsFiniteSet(named) /\ named \in SUBSET Repositories /\ Cardinality(named) \in Nat
  <2>1. IsFiniteSet(Repositories) /\ named \in SUBSET Repositories
    BY RecallAssumption DEF Named
  <2> QED  BY <2>1, FS_Subset, FS_CardinalityType
<1>2. OwnerOf \in [Repositories -> Projects]
  BY RecallAssumption
<1>3. InferProject(q) \subseteq Projects
  BY <1>1, <1>2 DEF InferProject, Owners, ClearWinner
<1>4. ASSUME Cardinality(named) = 1
      PROVE  /\ InferProject(q) = Owners(named)
             /\ \E p \in InferProject(q) : Of(p) # {}
             /\ \A p \in Owners(named) : H(p) # {}
  <2>1. PICK r : named = {r}
    BY <1>1, <1>4, FS_Singleton
  <2>2. InferProject(q) = Owners(named) /\ Owners(named) = {OwnerOf[r]}
    BY <1>4, <2>1 DEF InferProject, Owners
  <2>3. r \in Of(OwnerOf[r]) /\ OwnerOf[r] \in Projects
    BY <1>1, <1>2, <2>1 DEF Of
  <2>4. H(OwnerOf[r]) # {}
    BY <2>1, <2>3, HintedFacts
  <2> QED  BY <2>2, <2>3, <2>4
<1>5. ASSUME Cardinality(named) > 1, NEW p \in InferProject(q) PROVE p = q.project
  <2>1. Cardinality(named) # 1 /\ named # {}
    BY <1>1, <1>5, FS_EmptySet
  <2> QED  BY <1>5, <2>1 DEF InferProject
<1>6. ASSUME NEW p \in InferProject(q), Of(p) # {}
      PROVE  /\ S(p) \in Scope
             /\ OwnerOf[S(p).primary] = S(p).project
             /\ S(p).switched => ~q.keep
             /\ Cardinality(named) = 1 => /\ S(p).project \in Owners(named)
                                          /\ q.keep => S(p).primary \in named
             /\ Cardinality(named) > 1 => S(p).project = q.project
  <2>1. p \in Projects
    BY <1>3, <1>6
  <2>2. /\ Primary(q, p) \in Of(p)
        /\ q.keep /\ H(p) # {} => H(p) = {Primary(q, p)}
    BY <1>6, <2>1, PrimaryFacts
  <2>3. Primary(q, p) \in Repositories /\ OwnerOf[Primary(q, p)] = p
    BY <2>2 DEF Of
  <2>4. H(p) \subseteq named
    BY <2>1, HintedFacts
  <2>5. S(p).switched \in BOOLEAN /\ S(p) \in Scope
    BY <2>1, <2>3 DEF Scope
  <2>6. q.keep => ~S(p).switched
    BY <2>2
  <2>7. Cardinality(named) = 1 => p \in Owners(named) /\ (q.keep => Primary(q, p) \in named)
    BY <1>4, <1>6, <2>2, <2>4
  <2>8. Cardinality(named) > 1 => p = q.project
    BY <1>5, <1>6
  <2> QED  BY <2>3, <2>5, <2>6, <2>7, <2>8
<1>7. InferScope(q) = {S(p) : p \in {p \in InferProject(q) : Of(p) # {}}}
  BY DEF InferScope
<1> HIDE DEF S, H, named
<1>8. Cardinality(named) = 1 => InferScope(q) # {}
  BY <1>4, <1>7
<1>9. \A s \in InferScope(q) : \E p \in InferProject(q) : Of(p) # {} /\ s = S(p)
  BY <1>7
<1> QED  BY <1>6, <1>8, <1>9 DEF named

-----------------------------------------------------------------------------
\* The properties are inductive: the scope and the listing are settled in one
\* step each.
RecallInv ==
  /\ RecallTypeOK /\ ScopeFollowsReference
  /\ TiersNeverMix /\ NothingLostToLikeness

\* Nothing is asked at first.
LEMMA RecallInitInv == RecallInit => RecallInv
<1> SUFFICES ASSUME RecallInit PROVE RecallInv
  OBVIOUS
<1>1. <<>> \in Seq(Ranks) /\ Len(<<>>) = 0 /\ DOMAIN <<>> = {} /\ TopK \in Nat
  BY RecallAssumption
<1> QED  BY <1>1 DEF RecallInit, RecallInv, RecallTypeOK, ScopeFollowsReference,
                    TiersNeverMix, NothingLostToLikeness

\* _infer_scope and the cut of the two tiers establish the properties.
LEMMA RecallNextInv == RecallInv /\ [RecallNext]_recallVars => RecallInv'
<1> SUFFICES ASSUME RecallInv, [RecallNext]_recallVars PROVE RecallInv'
  OBVIOUS
<1>1. CASE Ask
  <2>1. PICK q \in Question : question' = {q} /\ scope' = InferScope(q)
    BY <1>1 DEF Ask
  <2>2. UNCHANGED <<listing, shortlist>> /\ listing = {}
    BY <1>1 DEF Ask
  <2>3. RecallTypeOK'
    BY <2>1, <2>2, InferScopeFollows DEF RecallInv, RecallTypeOK
  <2>4. ScopeFollowsReference'
    BY <2>1, InferScopeFollows DEF ScopeFollowsReference
  <2> QED  BY <2>2, <2>3, <2>4 DEF RecallInv, TiersNeverMix, NothingLostToLikeness
<1>2. CASE RankMemories
  <2>1. PICK l \in Listing : listing' = {l} /\ shortlist' \in Recalled(l)
    BY <1>2 DEF RankMemories
  <2>2. UNCHANGED <<question, scope>> /\ question = {}
    BY <1>2 DEF RankMemories
  <2> DEFINE r == shortlist'
             R == ToSet(r)
             SL(status) == Shortlisted(l, status)
  <2>3. /\ r \in Seq(Ranks) /\ Len(r) <= TopK
        /\ \A i, j \in DOMAIN r : r[i] = r[j] => i = j
    BY <2>1, RecalledFacts
  <2>4. PICK status \in {"active", "tentative"} :
              /\ R \subseteq SL(status)
              /\ status = "tentative" => SL("active") = {}
              /\ Len(r) < TopK => R = SL(status)
                                  /\ Cardinality(SL(status)) = Len(r)
              /\ r # <<>> => r[1] \in SL(status)
    BY <2>1, RecalledFacts
  <2>5. r = <<>> => \A st \in {"active", "tentative"} : SL(st) = {}
    BY <2>1, RecalledFacts
  <2>6. ASSUME NEW st \in {"active", "tentative"}
        PROVE  /\ SL(st) \subseteq {i \in Tier(l, st) : Relevant(l, i)}
               /\ \A i, j \in SL(st) : {i, j} \notin l.like
               /\ (\E i \in Tier(l, st) : Relevant(l, i)) => SL(st) # {}
               /\ Cardinality(SL(st)) < PoolSize =>
                  \A i \in Tier(l, st) \ SL(st) :
                    Relevant(l, i) /\ (\A j \in Ranks : l.hits[i] >= l.hits[j])
                    => \E j \in SL(st) : j < i /\ {i, j} \in l.like
    BY ShortlistedFacts
  <2> HIDE DEF SL, r
  <2>7. \A i \in Ranks : l.status[i] \in {"active", "tentative"}
    BY DEF Listing
  <2>8. \A i \in R : l.status[i] = status /\ i \in Ranks
    BY <2>4, <2>6 DEF Tier
  <2>9. RecallTypeOK'
    BY <2>1, <2>2, <2>3 DEF RecallInv, RecallTypeOK, r
  <2>10. TiersNeverMix'
    <3>1. Cardinality({l.status[i] : i \in R}) <= 1
      <4>1. CASE R = {}
        <5>1. {l.status[i] : i \in R} = {}
          BY <4>1
        <5> QED  BY <5>1, FS_EmptySet
      <4>2. CASE R # {}
        <5>1. {l.status[i] : i \in R} = {status}
          BY <2>8, <4>2
        <5>2. Cardinality({status}) = 1
          BY FS_Singleton
        <5> QED  BY <5>1, <5>2
      <4> QED  BY <4>1, <4>2
    <3>2. ASSUME NEW i \in R, l.status[i] = "tentative",
                 NEW j \in Ranks, Relevant(l, j)
          PROVE  l.status[j] = "tentative"
      <4>1. status = "tentative" /\ SL("active") = {}
        BY <2>4, <2>8, <3>2
      <4>2. ~(j \in Tier(l, "active"))
        BY <2>6, <3>2, <4>1
      <4> QED  BY <2>7, <4>2 DEF Tier
    <3>3. ASSUME NEW i \in Ranks, Relevant(l, i) PROVE r # <<>>
      <4>1. i \in Tier(l, l.status[i])
        BY DEF Tier
      <4> QED  BY <2>5, <2>6, <2>7, <3>3, <4>1
    <3> QED  BY <2>1, <3>1, <3>2, <3>3 DEF TiersNeverMix, Relevant, r
  <2>11. NothingLostToLikeness'
    <3>1. \A i, j \in R : {i, j} \notin l.like
      BY <2>4, <2>6
    <3>2. ASSUME R # {}, Len(r) < TopK, Len(r) < PoolSize,
                 NEW i \in Ranks \ R, l.status[i] = l.status[r[1]],
                 \A j \in Ranks : l.hits[i] >= l.hits[j], Relevant(l, i)
          PROVE  \E j \in R : j < i /\ {i, j} \in l.like
      <4>1. R = SL(status) /\ Cardinality(SL(status)) < PoolSize
        BY <2>4, <3>2
      <4>2. r # <<>>
        BY <3>2 DEF ToSet
      <4>3. l.status[i] = status
        BY <2>4, <2>6, <3>2, <4>2 DEF Tier
      <4>4. i \in Tier(l, status) \ SL(status)
        BY <3>2, <4>1, <4>3 DEF Tier
      <4>5. \E j \in SL(status) : j < i /\ {i, j} \in l.like
        BY <2>6, <3>2, <4>1, <4>4
      <4> QED  BY <4>1, <4>5
    <3> QED  BY <2>1, <3>1, <3>2 DEF NothingLostToLikeness, Relevant, r
  <2>12. ScopeFollowsReference'
    BY <2>2 DEF RecallInv, ScopeFollowsReference
  <2> QED  BY <2>9, <2>10, <2>11, <2>12 DEF RecallInv
<1>3. CASE UNCHANGED recallVars
  BY <1>3 DEF recallVars, RecallInv, RecallTypeOK, ScopeFollowsReference,
              TiersNeverMix, NothingLostToLikeness, Relevant
<1> QED  BY <1>1, <1>2, <1>3 DEF RecallNext

\* RecallAnswers: whatever is asked and whatever the memories look like, the
\* scope follows the reference, and the answer keeps to one tier and loses
\* no best match but to a better memory with a like title or to a full list.
THEOREM RecallAnswers ==
  RecallSpec => [](RecallTypeOK /\ ScopeFollowsReference
                   /\ TiersNeverMix /\ NothingLostToLikeness)
<1> QED  BY RecallInitInv, RecallNextInv, PTL DEF RecallSpec, RecallInv
-----------------------------------------------------------------------------
(***************************************************************************)
(* RetrievalSessions                                                       *)
(***************************************************************************)

Item == [note : Notes, form : {"full", "seen", "capped"}]

NotesOf(items) == {i.note : i \in ToSet(items)}

\* Answers that may be under way for a call that began with this copy.
Answers(seen) ==
  {a \in [items : Seq(Item), tokens : Nat, capped : BOOLEAN, seen : Seq(Notes)] :
     /\ Len(a.seen) <= SeenLimit
     /\ ToSet(a.seen) \subseteq ToSet(seen) \cup NotesOf(a.items)}

\* The elements of a list that grew by one.
LEMMA ToSetOfAppend ==
  ASSUME NEW T, NEW s \in Seq(T), NEW x \in T
  PROVE  ToSet(Append(s, x)) = ToSet(s) \cup {x}
<1>1. ASSUME NEW y \in ToSet(Append(s, x)) PROVE y \in ToSet(s) \cup {x}
  BY <1>1 DEF ToSet
<1>2. ASSUME NEW y \in ToSet(s) PROVE y \in ToSet(Append(s, x))
  BY <1>2 DEF ToSet
<1>3. x \in ToSet(Append(s, x))
  <2>1. Len(s) + 1 \in DOMAIN Append(s, x) /\ Append(s, x)[Len(s) + 1] = x
    OBVIOUS
  <2> QED  BY <2>1 DEF ToSet
<1> QED  BY <1>1, <1>2, <1>3

\* _compile: seen_memories gains at most the memory given, and is cut to its limit.
LEMMA RememberKeeps ==
  ASSUME NEW s \in Seq(Notes), Len(s) <= SeenLimit, NEW n \in Notes
  PROVE  /\ Remember(s, n) \in Seq(Notes)
         /\ Len(Remember(s, n)) <= SeenLimit
         /\ ToSet(Remember(s, n)) \subseteq ToSet(s) \cup {n}
<1>1. CASE n \in ToSet(s)
  BY <1>1 DEF Remember
<1>2. CASE n \notin ToSet(s)
  <2> DEFINE t == Append(s, n)
             m == IF Len(t) > SeenLimit THEN Len(t) - SeenLimit + 1 ELSE 1
             l == SubSeq(t, m, Len(t))
  <2>1. t \in Seq(Notes) /\ Len(t) = Len(s) + 1 /\ SeenLimit \in Nat \ {0}
    BY SessionsAssumption
  <2>2. m \in 1..Len(t) /\ Len(t) - m + 1 <= SeenLimit
    BY <2>1
  <2>3. Remember(s, n) = l
    BY <1>2 DEF Remember, LastOf
  <2> HIDE DEF t, m
  <2>4. l \in Seq(Notes) /\ Len(l) = Len(t) - m + 1
    BY <2>1, <2>2
  <2>5. \A i \in DOMAIN l : l[i] = t[m + i - 1] /\ m + i - 1 \in DOMAIN t
    BY <2>1, <2>2, <2>4
  <2>6. ToSet(l) \subseteq ToSet(t)
    BY <2>5 DEF ToSet
  <2>7. ToSet(t) = ToSet(s) \cup {n}
    BY ToSetOfAppend DEF t
  <2> QED  BY <2>2, <2>3, <2>4, <2>6, <2>7
<1> QED  BY <1>1, <1>2

\* One more memory of the shortlist: what the session is to remember was in
\* its row or is in the answer.
LEMMA AddItemKeeps ==
  ASSUME NEW seen \in Seq(Notes), NEW a \in Answers(seen), NEW n \in Notes,
         NEW budget \in Nat
  PROVE  AddItem(a, n, budget) \in Answers(seen)
<1> DEFINE form == IF n \in ToSet(a.seen) THEN "seen" ELSE "full"
           fits(f) == a.tokens + Size(f) <= budget
           shown == IF ~fits(form) /\ a.items # <<>> THEN "capped" ELSE form
<1>1. CASE a.capped \/ ~fits(shown)
  <2>1. AddItem(a, n, budget) = [a EXCEPT !.capped = TRUE]
    BY <1>1 DEF AddItem
  <2> QED  BY <2>1 DEF Answers
<1>2. CASE ~(a.capped \/ ~fits(shown))
  <2> DEFINE i == [note |-> n, form |-> shown]
             b == [a EXCEPT !.items = Append(@, i), !.tokens = @ + Size(shown),
                            !.seen = Remember(@, n)]
  <2>1. AddItem(a, n, budget) = b
    BY <1>2 DEF AddItem
  <2>2. i \in Item /\ i.note = n
    BY DEF Item
  <2>3. Size(shown) \in Nat
    BY SessionsAssumption DEF Size
  <2> HIDE DEF i, shown
  <2>4. b.items = Append(a.items, i) /\ b.seen = Remember(a.seen, n)
    BY DEF Answers
  <2>5. ToSet(b.items) = ToSet(a.items) \cup {i}
    BY <2>2, <2>4, ToSetOfAppend DEF Answers
  <2>6. NotesOf(b.items) = NotesOf(a.items) \cup {n}
    BY <2>2, <2>5 DEF NotesOf
  <2>7. /\ Remember(a.seen, n) \in Seq(Notes)
        /\ Len(Remember(a.seen, n)) <= SeenLimit
        /\ ToSet(Remember(a.seen, n)) \subseteq ToSet(a.seen) \cup {n}
    BY RememberKeeps DEF Answers
  <2>8. b \in [items : Seq(Item), tokens : Nat, capped : BOOLEAN, seen : Seq(Notes)]
    <3>1. Append(a.items, i) \in Seq(Item)
      BY <2>2 DEF Answers
    <3>2. a.tokens + Size(shown) \in Nat
      BY <2>3 DEF Answers
    <3> QED  BY <2>7, <3>1, <3>2 DEF Answers
  <2>9. ToSet(b.seen) \subseteq ToSet(seen) \cup NotesOf(b.items)
    BY <2>4, <2>6, <2>7 DEF Answers
  <2> QED  BY <2>1, <2>4, <2>7, <2>8, <2>9 DEF Answers
<1> QED  BY <1>1, <1>2

\* The same of the whole shortlist, by induction over the places of the list.
LEMMA CompiledIsAnswer ==
  ASSUME NEW seen \in Seq(Notes), Len(seen) <= SeenLimit,
         NEW list \in Seq(Notes), NEW budget \in Nat
  PROVE  Compiled(seen, list, budget) \in Answers(seen)
<1> DEFINE D == DOMAIN list
           b == StartAnswer(seen)
           Eq(g) == g = [s \in SUBSET D |->
                           IF s = {} THEN b
                           ELSE AddItem(g[s \ {Max(s)}], list[Max(s)], budget)]
           iter == CHOOSE g : Eq(g)
           step == [i \in D |-> [a \in Answers(seen) |-> AddItem(a, list[i], budget)]]
<1>1. D \in SUBSET Nat /\ IsFiniteSet(D) /\ \A i \in D : list[i] \in Notes
  <2>1. D = 1..Len(list) /\ Len(list) \in Nat
    OBVIOUS
  <2>2. IsFiniteSet(1..Len(list))
    BY <2>1, FS_Interval
  <2> QED  BY <2>1, <2>2
<1>2. b \in Answers(seen)
  BY DEF StartAnswer, Answers
<1>3. step \in StepFunctions(D, Answers(seen))
  BY <1>1, AddItemKeeps DEF StepFunctions
<1>4. \A s \in SUBSET D : s # {} => Max(s) \in s
  BY <1>1, FS_Subset, HasMax
<1> HIDE DEF D, b, step
<1>5. PICK f : Folds(f, D, Answers(seen), b, step)
  BY <1>1, <1>2, <1>3, FoldExists
<1>6. Eq(f)
  <2>1. ASSUME NEW s \in SUBSET D
        PROVE  f[s] = IF s = {} THEN b
                      ELSE AddItem(f[s \ {Max(s)}], list[Max(s)], budget)
    BY <1>4, <1>5 DEF Folds, step
  <2> QED  BY <1>5, <2>1 DEF Folds
<1>7. Eq(iter)
  <2> HIDE DEF Eq
  <2> QED  BY <1>6
<1>8. Compiled(seen, list, budget) = iter[D]
  BY DEF Compiled, FoldLeft, MapThenFoldSet, D, b
<1> HIDE DEF iter
<1> DEFINE P == {s \in SUBSET D : iter[s] \in Answers(seen)}
<1>9. {} \in P
  BY <1>2, <1>7
<1>10. ASSUME NEW s \in SUBSET D, s # {}, s \ {Max(s)} \in P PROVE s \in P
  <2>1. iter[s \ {Max(s)}] \in Answers(seen) /\ list[Max(s)] \in Notes
    BY <1>1, <1>4, <1>10
  <2>2. iter[s] = AddItem(iter[s \ {Max(s)}], list[Max(s)], budget)
    BY <1>7, <1>10
  <2> QED  BY <2>1, <2>2, AddItemKeeps
<1> HIDE DEF P
<1>11. D \in P
  BY <1>1, <1>9, <1>10, SubsetInduction
<1> QED  BY <1>8, <1>11 DEF P

-----------------------------------------------------------------------------
\* A call in progress has a key, and a copy no longer than a row.
CallersOK ==
  \A c \in Callers :
    /\ caller[c].at # "idle" => caller[c].key \in SessionKeys
    /\ Len(caller[c].seen) <= SeenLimit

SessionsInv == SessionsTypeOK /\ CallersOK /\ SeenWasReturned

\* A call that is over holds no copy of a row.
LEMMA NoCallFacts ==
  /\ NoCall \in Caller
  /\ NoCall.at = "idle"
  /\ Len(NoCall.seen) <= SeenLimit
  /\ ToSet(NoCall.seen) = {}
<1>1. <<>> \in Seq(Notes) /\ Len(<<>>) = 0 /\ ToSet(<<>>) = {} /\ SeenLimit \in Nat
  BY SessionsAssumption DEF ToSet
<1> QED  BY <1>1 DEF NoCall, Caller

\* There is no session, no call and no answer at first.
LEMMA SessionsInitInv == SessionsInit => SessionsInv
<1> SUFFICES ASSUME SessionsInit PROVE SessionsInv
  OBVIOUS
<1>1. <<>> \in Seq(Notes) /\ Len(<<>>) = 0 /\ ToSet(<<>>) = {} /\ SeenLimit \in Nat
      /\ MaxCalls \in Nat
  BY SessionsAssumption DEF ToSet
<1>2. SessionsTypeOK
  BY <1>1 DEF SessionsInit, SessionsTypeOK, Session, NoSession, Caller, NoCall
<1>3. CallersOK
  BY <1>1 DEF SessionsInit, CallersOK, NoCall
<1>4. SeenWasReturned
  BY NoCallFacts DEF SessionsInit, SeenWasReturned, Exists, NoSession
<1> QED  BY <1>2, <1>3, <1>4 DEF SessionsInv

\* A step that writes only a call keeps the invariant if it leaves the call in order.
LEMMA CallerStep ==
  ASSUME SessionsInv, NEW c \in Callers, NEW call \in Caller,
         caller' = [caller EXCEPT ![c] = call],
         call.at # "idle" => call.key \in SessionKeys,
         Len(call.seen) <= SeenLimit,
         call.key \in SessionKeys => ToSet(call.seen) \subseteq returned[call.key],
         UNCHANGED <<agent_sessions, returned>>, calls' \in 0..MaxCalls
  PROVE  SessionsInv'
<1> USE DEF SessionsInv
<1>1. caller' \in [Callers -> Caller] /\ caller'[c] = call
      /\ \A d \in Callers \ {c} : caller'[d] = caller[d]
  BY DEF SessionsTypeOK
<1>2. SessionsTypeOK'
  BY <1>1 DEF SessionsTypeOK
<1>3. CallersOK'
  BY <1>1 DEF CallersOK
<1>4. SeenWasReturned'
  BY <1>1 DEF SeenWasReturned, Exists
<1> QED  BY <1>2, <1>3, <1>4

\* A call starts with a list of memories.
LEMMA ShortlistIsList ==
  ASSUME NEW place \in Places, NEW s \in Shortlists(place)
  PROVE  s \in Seq(Notes)
<1>1. PICK n \in 0..ListLimit : s \in [1..n -> Notes]
  BY DEF Shortlists
<1> QED  BY <1>1, SessionsAssumption

\* Every step of memory_context keeps what a session remembers inside what it
\* was given: a copy of the row is taken from the row, and Answer adds to both.
LEMMA SessionsNextInv == SessionsInv /\ [SessionsNext]_sessionVars => SessionsInv'
<1> SUFFICES ASSUME SessionsInv, [SessionsNext]_sessionVars PROVE SessionsInv'
  OBVIOUS
<1>0. MaxCalls \in Nat
  BY SessionsAssumption
<1> USE NoCallFacts
<1>1. ASSUME NEW c \in Callers, NEW id \in Known, NEW place \in Places,
             StartCall(c, id, place)
      PROVE  SessionsInv'
  <2>1. PICK s \in Shortlists(place) : caller' = [caller EXCEPT ![c] =
          [NoCall EXCEPT !.at = "find", !.key = SessionKey(id, place), !.list = s]]
    BY <1>1 DEF StartCall
  <2> DEFINE call == [NoCall EXCEPT !.at = "find", !.key = SessionKey(id, place),
                                    !.list = s]
  <2>2. SessionKey(id, place) \in SessionKeys
    BY DEF SessionKeys
  <2>3. s \in Seq(Notes)
    BY ShortlistIsList
  <2>4. call \in Caller /\ call.key = SessionKey(id, place) /\ call.seen = NoCall.seen
    BY <2>2, <2>3 DEF Caller
  <2>6. calls' \in 0..MaxCalls /\ UNCHANGED <<agent_sessions, returned>>
    BY <1>0, <1>1 DEF StartCall, SessionsInv, SessionsTypeOK
  <2> HIDE DEF call
  <2> QED  BY <2>1, <2>2, <2>4, <2>6, CallerStep DEF call
<1>2. ASSUME NEW c \in Callers, FindSession(c) \/ InsertSession(c) PROVE SessionsInv'
  <2> DEFINE k == caller[c].key
  <2>0. k \in SessionKeys /\ caller[c] \in Caller /\ calls \in 0..MaxCalls
        /\ caller \in [Callers -> Caller]
        /\ UNCHANGED <<agent_sessions, returned, calls>>
    BY <1>2 DEF FindSession, InsertSession, SessionsInv, SessionsTypeOK, CallersOK
  <2>1. ASSUME NEW seen \in Seq(Notes), NEW owns \in BOOLEAN, Hold(c, seen, owns),
               Len(seen) <= SeenLimit, ToSet(seen) \subseteq returned[k]
        PROVE  SessionsInv'
    <3> DEFINE call == [caller[c] EXCEPT !.at = "compile", !.seen = seen, !.owns = owns]
    <3>1. caller' = [caller EXCEPT ![c] = call]
      BY <2>0, <2>1 DEF Hold
    <3>2. call \in Caller /\ call.key = k /\ call.seen = seen
      BY <2>0 DEF Caller
    <3> HIDE DEF call
    <3> QED  BY <2>0, <2>1, <3>1, <3>2, CallerStep
  <2>2. CASE Exists(k) /\ Hold(c, agent_sessions[k].seen, FALSE)
    <3>1. /\ agent_sessions[k].seen \in Seq(Notes)
          /\ Len(agent_sessions[k].seen) <= SeenLimit
          /\ ToSet(agent_sessions[k].seen) \subseteq returned[k]
      BY <2>0, <2>2 DEF SessionsInv, SessionsTypeOK, Session, SeenWasReturned
    <3> QED  BY <2>1, <2>2, <3>1
  <2>3. CASE Hold(c, <<>>, TRUE)
    <3>1. <<>> \in Seq(Notes) /\ Len(<<>>) <= SeenLimit /\ ToSet(<<>>) = {}
      BY SessionsAssumption DEF ToSet
    <3> QED  BY <2>1, <2>3, <3>1
  <2>4. CASE caller' = [caller EXCEPT ![c].at = "insert"]
    <3> DEFINE call == [caller[c] EXCEPT !.at = "insert"]
    <3>1. caller' = [caller EXCEPT ![c] = call]
      BY <2>0, <2>4
    <3>2. call \in Caller /\ call.key = k /\ call.seen = caller[c].seen
      BY <2>0 DEF Caller
    <3>3. Len(caller[c].seen) <= SeenLimit /\ ToSet(caller[c].seen) \subseteq returned[k]
      BY <2>0 DEF SessionsInv, CallersOK, SeenWasReturned
    <3> HIDE DEF call
    <3> QED  BY <2>0, <3>1, <3>2, <3>3, CallerStep
  <2> QED  BY <1>2, <2>2, <2>3, <2>4 DEF FindSession, InsertSession
<1>3. ASSUME NEW c \in Callers, FailCall(c) PROVE SessionsInv'
  <2>1. caller' = [caller EXCEPT ![c] = NoCall] /\ calls' \in 0..MaxCalls
        /\ UNCHANGED <<agent_sessions, returned>>
    BY <1>3 DEF FailCall, SessionsInv, SessionsTypeOK
  <2> QED  BY <2>1, CallerStep
<1>4. ASSUME NEW c \in Callers, NEW budget \in Budgets, Answer(c, budget)
      PROVE  SessionsInv'
  <2> DEFINE k == caller[c].key
             a == Compiled(caller[c].seen, caller[c].list, budget)
  <2>0. k \in SessionKeys /\ caller[c] \in Caller /\ budget \in Nat
        /\ Len(caller[c].seen) <= SeenLimit
        /\ ToSet(caller[c].seen) \subseteq returned[k]
    BY <1>4, SessionsAssumption
    DEF Answer, SessionsInv, SessionsTypeOK, CallersOK, SeenWasReturned
  <2>1. a \in Answers(caller[c].seen)
    BY <2>0, CompiledIsAnswer DEF Caller
  <2>2. /\ a.seen \in Seq(Notes) /\ Len(a.seen) <= SeenLimit
        /\ ToSet(a.seen) \subseteq ToSet(caller[c].seen) \cup NotesOf(a.items)
        /\ a.items \in Seq(Item)
    BY <2>1 DEF Answers
  <2>3. NotesOf(a.items) \subseteq Notes
    <3>1. \A i \in ToSet(a.items) : i \in Item
      BY <2>2 DEF ToSet
    <3> QED  BY <3>1 DEF NotesOf, Item
  <2> HIDE DEF a
  <2>4. /\ returned' = [returned EXCEPT ![k] = @ \cup NotesOf(a.items)]
        /\ caller' = [caller EXCEPT ![c] = NoCall]
        /\ calls' = calls
        /\ \/ agent_sessions' = agent_sessions
           \/ agent_sessions' = [agent_sessions EXCEPT ![k] = [made |-> TRUE, seen |-> a.seen]]
    BY <1>4 DEF Answer, NotesOf, a
  <2>5. /\ returned' \in [SessionKeys -> SUBSET Notes]
        /\ \A l \in SessionKeys : returned[l] \subseteq returned'[l]
        /\ ToSet(a.seen) \subseteq returned'[k]
    BY <2>0, <2>2, <2>3, <2>4 DEF SessionsInv, SessionsTypeOK
  <2>6. \A l \in SessionKeys :
          \/ agent_sessions'[l] = agent_sessions[l]
          \/ l = k /\ agent_sessions'[l] = [made |-> TRUE, seen |-> a.seen]
    BY <2>0, <2>4 DEF SessionsInv, SessionsTypeOK
  <2>7. agent_sessions' \in [SessionKeys -> Session]
    <3>1. [made |-> TRUE, seen |-> a.seen] \in Session
      BY <2>2 DEF Session
    <3> QED  BY <2>0, <2>4, <3>1 DEF SessionsInv, SessionsTypeOK
  <2>8. /\ caller' \in [Callers -> Caller] /\ caller'[c] = NoCall
        /\ \A d \in Callers \ {c} : caller'[d] = caller[d]
    BY <2>4 DEF SessionsInv, SessionsTypeOK
  <2>9. SessionsTypeOK'
    BY <2>2, <2>4, <2>5, <2>6, <2>7, <2>8 DEF SessionsInv, SessionsTypeOK
  <2>10. CallersOK'
    BY <2>8 DEF SessionsInv, CallersOK
  <2>11. SeenWasReturned'
    <3>1. ASSUME NEW l \in SessionKeys, Exists(l)'
          PROVE  ToSet(agent_sessions'[l].seen) \subseteq returned'[l]
      BY <2>5, <2>6, <3>1 DEF SessionsInv, SeenWasReturned, Exists
    <3>2. ASSUME NEW l \in SessionKeys, NEW d \in Callers, caller'[d].key = l
          PROVE  ToSet(caller'[d].seen) \subseteq returned'[l]
      BY <2>5, <2>8, <3>2 DEF SessionsInv, SeenWasReturned
    <3> QED  BY <3>1, <3>2 DEF SeenWasReturned
  <2> QED  BY <2>9, <2>10, <2>11 DEF SessionsInv
<1>5. CASE UNCHANGED sessionVars
  BY <1>5 DEF sessionVars, SessionsInv, SessionsTypeOK, CallersOK, SeenWasReturned, Exists
<1> QED  BY <1>1, <1>2, <1>3, <1>4, <1>5 DEF SessionsNext

\* SeenWasReturned: however calls of a session overlap, fail or overwrite each
\* other's seen_memories, a memory is taken for seen only if the session got it.
THEOREM SeenIsReturned == SessionsSpec => [](SessionsTypeOK /\ SeenWasReturned)
<1>1. SessionsInv => SessionsTypeOK /\ SeenWasReturned
  BY DEF SessionsInv
<1> QED  BY <1>1, SessionsInitInv, SessionsNextInv, PTL DEF SessionsSpec
===============================================================================
