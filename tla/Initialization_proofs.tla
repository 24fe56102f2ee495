----------------------- MODULE Initialization_proofs -----------------------
(***************************************************************************)
(* Proofs about what an initialization does outside the job table: the     *)
(* memories it takes from the history of a repository, EvidenceExtraction, *)
(* and its step rows and progress, InitializationSteps.                    *)
(***************************************************************************)
EXTENDS EvidenceExtraction, InitializationSteps, FoldLemmas, FunctionTheorems

-----------------------------------------------------------------------------
(***************************************************************************)
(* Proofs about EvidenceExtraction, for every history and any number of    *)
(* workers, batches and labels: an evidence yields one memory unless two   *)
(* workers extract it at once, no item is given the answer about another   *)
(* one, and of two clusters that share a commit one has grown into the     *)
(* other.                                                                  *)
(*                                                                         *)
(* The first rests on EInv: an evidence that was never contested is held by*)
(* at most one worker past the test for a memory, and a worker holding it  *)
(* means that it has no memory yet.  The second rests on the indexes of a  *)
(* batch being different, ItemOfIndex; the third on the ranks of commits,  *)
(* which do not change when others follow.                                 *)
(***************************************************************************)
\* Every set of commits but the empty one has a latest commit.
LEMMA LatestIn ==
  ASSUME NEW K \in SUBSET Commits, K # {}
  PROVE  Latest(K) \in K
<1> DEFINE T == {MaxCommits - c : c \in K}
           R == OpToRel(<, Nat)
<1>1. MaxCommits \in Nat
  BY ExtractionAssumption
<1>2. T \subseteq Nat /\ T # {}
  <2>1. ASSUME NEW c \in K PROVE MaxCommits - c \in Nat
    BY <1>1 DEF Commits
  <2> QED  BY <2>1
<1>3. \A x, y \in Nat : <<x, y>> \in R <=> x < y
  BY DEF OpToRel
<1> HIDE DEF R
<1>4. \E x \in T : \A y \in T : ~(<<y, x>> \in R)
  BY <1>2, NatLessThanWellFounded, WFMin, Zenon DEF R
<1>5. PICK c \in K : \A y \in T : ~(<<y, MaxCommits - c>> \in R)
  BY <1>4
<1>6. \A d \in K : d <= c
  <2>1. ASSUME NEW d \in K PROVE d <= c
    <3>1. MaxCommits - d \in T /\ MaxCommits - d \in Nat /\ MaxCommits - c \in Nat
      BY <1>2
    <3>2. ~(MaxCommits - d < MaxCommits - c)
      BY <1>3, <1>5, <3>1
    <3> QED  BY <1>1, <3>2 DEF Commits
  <2> QED  BY <2>1
<1> QED  BY <1>6 DEF Latest

\* Sources are finitely many numbers.
LEMMA BatchFinite ==
  ASSUME NEW B \in SUBSET Sources
  PROVE  B \subseteq Int /\ IsFiniteSet(B)
<1>1. MaxCommits \in Nat /\ Releases \subseteq Commits
  BY ExtractionAssumption
<1>2. Sources \subseteq (-MaxCommits)..MaxCommits
  <2>1. ASSUME NEW c \in Commits PROVE {c, -c} \subseteq (-MaxCommits)..MaxCommits
    BY <1>1 DEF Commits
  <2> QED  BY <1>1, <2>1 DEF Sources
<1>3. IsFiniteSet((-MaxCommits)..MaxCommits)
  BY <1>1, FS_Interval
<1>4. B \in SUBSET ((-MaxCommits)..MaxCommits)
  BY <1>2
<1>5. B \subseteq Int
  BY <1>4
<1>6. IsFiniteSet(B)
  BY <1>3, <1>4, FS_Subset
<1> QED  BY <1>5, <1>6

\* Two items of a batch have different indexes.
LEMMA ItemOfIndex ==
  ASSUME NEW B \in SUBSET Sources, NEW e \in B
  PROVE  ItemAt(B, IndexIn(B, e)) = e
<1>1. B \subseteq Int /\ IsFiniteSet(B)
  BY BatchFinite
<1>2. ASSUME NEW f \in B, NEW g \in B, f < g
      PROVE  IndexIn(B, f) # IndexIn(B, g)
  <2> DEFINE F == {h \in B : h < f}
             G == {h \in B : h < g}
  <2>1. F \subseteq G /\ f \in G /\ f \notin F
    <3>1. ASSUME NEW h \in B, h < f PROVE h < g
      BY <1>1, <1>2, <3>1
    <3>2. f \in Int /\ ~(f < f)
      BY <1>1
    <3> QED  BY <1>2, <3>1, <3>2
  <2>2. IsFiniteSet(G)
    BY <1>1, FS_Subset
  <2>3. Cardinality(F) # Cardinality(G)
    BY <2>1, <2>2, FS_Subset
  <2> QED  BY <2>3 DEF IndexIn
<1>3. \A f \in B : IndexIn(B, f) = IndexIn(B, e) => f = e
  BY <1>1, <1>2
<1> QED  BY <1>3 DEF ItemAt

\* What is kept for a batch is, for each item, about that item.
LEMMA DraftsMatch ==
  ASSUME NEW B \in SUBSET Sources, NEW r
  PROVE  /\ DraftsFor(B, r) \in SUBSET (Sources \X Sources)
         /\ \A d \in DraftsFor(B, r) : d[1] = d[2]
<1>1. DraftsFor(B, r) = {<<e, e>> : e \in B}
  BY ItemOfIndex DEF DraftsFor, ByIndex
<1> QED  BY <1>1

-----------------------------------------------------------------------------
Holds(s, e) == s.at \in {"extract", "analyse"} /\ e \in s.pending

\* The state of one worker.
StateOK(s) == /\ s \in ExtractorState /\ {} \notin s.todo
              /\ \A d \in s.drafts : d[1] = d[2]

Uncontested(e) ==
  /\ extracted[e] <= 1
  /\ \A x \in Extractors : Holds(extractor[x], e) =>
       /\ extracted[e] = 0
       /\ \A y \in Extractors : Holds(extractor[y], e) => x = y

EInv ==
  /\ pushed \in 0..MaxCommits
  /\ extracted \in [Sources -> Nat]
  /\ extractor \in [Extractors -> ExtractorState]
  /\ \A x \in Extractors : StateOK(extractor[x])
  /\ \A e \in Sources : e \notin contested => Uncontested(e)

\* A worker that does nothing.
LEMMA NoImportOK == StateOK(NoImport) /\ NoImport.at = "idle"
  BY DEF StateOK, NoImport, ExtractorState

\* Nothing has begun.
LEMMA InitEInv == ExtractionInit => EInv
  BY NoImportOK, ExtractionAssumption
  DEF ExtractionInit, EInv, StateOK, Uncontested, Holds

\* A worker comes to hold an evidence only if it has no memory, and is
\* contested when another one holds it.
LEMMA WorkerMoves ==
  ASSUME EInv, NEW x \in Extractors, NEW s, StateOK(s),
         extractor' = [extractor EXCEPT ![x] = s], extracted' = extracted,
         pushed' = pushed, contested \subseteq contested',
         \A e \in Sources : Holds(s, e) =>
            \/ Holds(extractor[x], e)
            \/ /\ extracted[e] = 0
               /\ \/ e \in contested'
                  \/ \A y \in Extractors \ {x} : ~Holds(extractor[y], e)
  PROVE  EInv'
<1>1. /\ extractor' \in [Extractors -> ExtractorState]
      /\ extractor'[x] = s /\ \A y \in Extractors \ {x} : extractor'[y] = extractor[y]
      /\ \A y \in Extractors : StateOK(extractor'[y])
  BY DEF EInv, StateOK
<1>2. ASSUME NEW e \in Sources, e \notin contested' PROVE Uncontested(e)'
  <2>1. Uncontested(e)
    BY <1>2 DEF EInv
  <2> QED  BY <1>1, <1>2, <2>1 DEF Uncontested
<1>3. \A y \in Extractors : StateOK(extractor[y])'
  BY <1>1 DEF StateOK
<1> QED  BY <1>1, <1>2, <1>3 DEF EInv

\* A worker stores memories of what it holds and is done.
LEMMA WorkerStores ==
  ASSUME EInv, NEW x \in Extractors, extractor[x].at \in {"extract", "analyse"},
         NEW kept \in SUBSET extractor[x].pending,
         extracted' = [e \in Sources |-> IF e \in kept THEN extracted[e] + 1 ELSE extracted[e]],
         extractor' = [extractor EXCEPT ![x] = NoImport],
         pushed' = pushed, contested' = contested
  PROVE  EInv'
<1>1. /\ extractor' \in [Extractors -> ExtractorState]
      /\ extractor'[x].at = "idle" /\ \A y \in Extractors \ {x} : extractor'[y] = extractor[y]
      /\ \A y \in Extractors : StateOK(extractor'[y])
  BY NoImportOK DEF EInv, StateOK
<1>2. extracted' \in [Sources -> Nat]
  BY DEF EInv
<1>3. ASSUME NEW e \in Sources, e \notin contested' PROVE Uncontested(e)'
  <2>1. Uncontested(e) /\ extracted[e] \in Nat
    BY <1>3 DEF EInv
  <2>2. CASE e \in kept
    <3>1. Holds(extractor[x], e) /\ extracted[e] = 0 /\ extracted'[e] = 1
      BY <2>1, <2>2 DEF Uncontested, Holds
    <3>2. \A y \in Extractors : ~Holds(extractor'[y], e)
      BY <1>1, <2>1, <3>1 DEF Uncontested, Holds
    <3> QED  BY <3>1, <3>2 DEF Uncontested, Holds
  <2>3. CASE e \notin kept
    <3>1. extracted'[e] = extracted[e]
      BY <2>3
    <3>2. \A y \in Extractors : Holds(extractor'[y], e) => Holds(extractor[y], e)
      BY <1>1 DEF Holds
    <3> QED  BY <2>1, <3>1, <3>2 DEF Uncontested, Holds
  <2> QED  BY <2>2, <2>3
<1>4. \A y \in Extractors : StateOK(extractor[y])'
  BY <1>1 DEF StateOK
<1> QED  BY <1>1, <1>2, <1>3, <1>4 DEF EInv

-----------------------------------------------------------------------------
\* Clusters are sets of commits with a latest one.
LEMMA ClustersTyped ==
  ASSUME pushed \in 0..MaxCommits, NEW limit \in Limits
  PROVE  /\ Clusters(Window(limit)) \in SUBSET SUBSET Commits
         /\ {} \notin Clusters(Window(limit))
<1>1. Window(limit) \subseteq Commits
  BY ExtractionAssumption DEF Window, Commits
<1>2. ASSUME NEW c \in Window(limit)
      PROVE  c \in ClusterOf(c, Window(limit)) /\ ClusterOf(c, Window(limit)) \subseteq Commits
  BY <1>1, <1>2 DEF ClusterOf
<1> QED  BY <1>2 DEF Clusters

\* Imports up to the test for memories.
LEMMA CollectsKeep ==
  ASSUME EInv, NEW x \in Extractors,
         \/ \E limit \in Limits : StartImport(x, limit)
         \/ \E K \in extractor[x].todo : Collect(x, K) \/ SkipCluster(x, K)
  PROVE  EInv'
<1> DEFINE w == extractor[x]
<1>0. /\ w \in ExtractorState /\ StateOK(w) /\ pushed \in 0..MaxCommits
      /\ extractor \in [Extractors -> ExtractorState]
      /\ w.pending \subseteq Sources /\ w.todo \subseteq SUBSET Commits
  BY DEF EInv, ExtractorState
<1>1. ASSUME NEW limit \in Limits, StartImport(x, limit) PROVE EInv'
  <2> DEFINE full == Window(limit) = 1..pushed
             todo == Clusters(Window(limit))
             s == [NoImport EXCEPT !.at = "collect", !.full = full, !.todo = todo]
  <2>1. todo \in SUBSET SUBSET Commits /\ {} \notin todo /\ full \in BOOLEAN
    BY <1>0, ClustersTyped
  <2>2. /\ extractor' = [extractor EXCEPT ![x] = s]
        /\ UNCHANGED <<pushed, extracted, contested>>
    BY <1>1 DEF StartImport
  <2> HIDE DEF full, todo
  <2>3. s \in ExtractorState /\ s.at = "collect" /\ s.todo = todo /\ s.drafts = NoImport.drafts
    BY <2>1, NoImportOK DEF StateOK, ExtractorState
  <2> HIDE DEF s
  <2>4. StateOK(s) /\ \A e \in Sources : ~Holds(s, e)
    BY <2>1, <2>3, NoImportOK DEF StateOK, Holds
  <2> QED  BY <2>2, <2>4, WorkerMoves
<1>2. ASSUME NEW K \in w.todo, Collect(x, K) PROVE EInv'
  <2> DEFINE s == [w EXCEPT !.todo = w.todo \ {K}, !.pending = w.pending \cup {Latest(K)}]
  <2>1. /\ w.at = "collect" /\ UNCHANGED <<pushed, extracted, contested>>
        /\ extractor' = [extractor EXCEPT ![x] = s]
    BY <1>0, <1>2 DEF Collect, ExtractorState
  <2>2. Latest(K) \in Sources
    <3>1. K \in SUBSET Commits /\ K # {}
      BY <1>0 DEF StateOK
    <3> QED  BY <3>1, LatestIn DEF Sources
  <2>3. s \in ExtractorState /\ s.at = "collect" /\ s.todo \subseteq w.todo /\ s.drafts = w.drafts
    BY <1>0, <2>1, <2>2 DEF ExtractorState
  <2> HIDE DEF s
  <2>4. StateOK(s) /\ \A e \in Sources : ~Holds(s, e)
    BY <1>0, <2>3 DEF StateOK, Holds
  <2> QED  BY <2>1, <2>4, WorkerMoves
<1>3. ASSUME NEW K \in w.todo, SkipCluster(x, K) PROVE EInv'
  <2> DEFINE s == [w EXCEPT !.todo = w.todo \ {K}]
  <2>1. /\ w.at = "collect" /\ UNCHANGED <<pushed, extracted, contested>>
        /\ extractor' = [extractor EXCEPT ![x] = s]
    BY <1>0, <1>3 DEF SkipCluster, ExtractorState
  <2>2. s \in ExtractorState /\ s.at = "collect" /\ s.todo \subseteq w.todo /\ s.drafts = w.drafts
    BY <1>0, <2>1 DEF ExtractorState
  <2> HIDE DEF s
  <2>3. StateOK(s) /\ \A e \in Sources : ~Holds(s, e)
    BY <1>0, <2>2 DEF StateOK, Holds
  <2> QED  BY <2>1, <2>3, WorkerMoves
<1> QED  BY <1>1, <1>2, <1>3

\* The test for memories, after which an evidence is held.
LEMMA TestsKeep ==
  ASSUME EInv, NEW x \in Extractors,
         Filter(x) \/ \E c \in Releases : StartAnalysis(x, c)
  PROVE  EInv'
<1> DEFINE w == extractor[x]
<1>0. /\ w \in ExtractorState /\ StateOK(w)
      /\ extractor \in [Extractors -> ExtractorState]
      /\ w.pending \subseteq Sources
  BY DEF EInv, ExtractorState
<1>1. ASSUME NEW e, e \notin ExtractedByOthers(x)
      PROVE  \A y \in Extractors \ {x} : ~Holds(extractor[y], e)
  BY <1>1 DEF ExtractedByOthers, Holds
<1>2. CASE Filter(x)
  <2> DEFINE pending == {e \in w.pending : NotYetExtracted(e)}
             s == [w EXCEPT !.at = "extract", !.pending = pending, !.left = pending]
  <2>1. /\ extractor' = [extractor EXCEPT ![x] = s]
        /\ contested' = contested \cup (pending \cap ExtractedByOthers(x))
        /\ UNCHANGED <<pushed, extracted>>
    BY <1>0, <1>2 DEF Filter, ExtractorState
  <2>2. pending \subseteq Sources /\ \A e \in pending : extracted[e] = 0
    BY <1>0 DEF NotYetExtracted
  <2> HIDE DEF pending
  <2>3. /\ s \in ExtractorState /\ s.pending = pending /\ s.todo = w.todo
        /\ s.drafts = w.drafts
    BY <1>0, <2>2 DEF ExtractorState
  <2> HIDE DEF s
  <2>4. StateOK(s)
    BY <1>0, <2>3 DEF StateOK
  <2>5. \A e \in Sources : Holds(s, e) =>
          /\ extracted[e] = 0
          /\ \/ e \in contested'
             \/ \A y \in Extractors \ {x} : ~Holds(extractor[y], e)
    BY <1>1, <2>1, <2>2, <2>3 DEF Holds
  <2>6. contested \subseteq contested'
    BY <2>1
  <2> QED  BY <2>1, <2>4, <2>5, <2>6, WorkerMoves
<1>3. ASSUME NEW c \in Releases, StartAnalysis(x, c) PROVE EInv'
  <2> DEFINE left == IF Stored(-c) THEN {} ELSE {-c}
             s == [NoImport EXCEPT !.at = "analyse", !.pending = {-c}, !.left = left]
  <2>1. /\ extractor' = [extractor EXCEPT ![x] = s]
        /\ contested' = contested \cup ({-c} \cap ExtractedByOthers(x))
        /\ UNCHANGED <<pushed, extracted>> /\ extracted[-c] = 0
    BY <1>3 DEF StartAnalysis, NotYetExtracted
  <2>2. -c \in Sources /\ left \subseteq Sources
    BY DEF Sources
  <2> HIDE DEF left
  <2>3. /\ s \in ExtractorState /\ s.pending = {-c} /\ s.todo = NoImport.todo
        /\ s.drafts = NoImport.drafts
    BY <2>2, NoImportOK DEF StateOK, ExtractorState
  <2> HIDE DEF s
  <2>4. StateOK(s)
    BY <2>3, NoImportOK DEF StateOK
  <2>5. \A e \in Sources : Holds(s, e) =>
          /\ extracted[e] = 0
          /\ \/ e \in contested'
             \/ \A y \in Extractors \ {x} : ~Holds(extractor[y], e)
    BY <1>1, <2>1, <2>3 DEF Holds
  <2>6. contested \subseteq contested'
    BY <2>1
  <2> QED  BY <2>1, <2>4, <2>5, <2>6, WorkerMoves
<1> QED  BY <1>2, <1>3

\* A batch, and giving up.
LEMMA BatchesKeep ==
  ASSUME EInv, NEW x \in Extractors,
         GiveUp(x) \/ \E B \in SUBSET extractor[x].left : Batch(x, B)
  PROVE  EInv'
<1> DEFINE w == extractor[x]
<1>0. /\ w \in ExtractorState /\ StateOK(w) /\ w.left \subseteq Sources
      /\ extractor \in [Extractors -> ExtractorState]
  BY DEF EInv, ExtractorState
<1>1. CASE GiveUp(x)
  <2>1. \A e \in Sources : ~Holds(NoImport, e)
    BY NoImportOK DEF Holds
  <2> QED  BY <1>1, <2>1, NoImportOK, WorkerMoves DEF GiveUp
<1>2. ASSUME NEW B \in SUBSET w.left, Batch(x, B) PROVE EInv'
  <2>1. PICK r : extractor' = [extractor EXCEPT ![x].left = @ \ B, ![x].drafts = DraftsFor(B, r)]
    BY <1>2 DEF Batch
  <2> DEFINE D == DraftsFor(B, r)
             s == [w EXCEPT !.left = w.left \ B, !.drafts = D]
  <2>2. D \in SUBSET (Sources \X Sources) /\ \A d \in D : d[1] = d[2]
    BY <1>0, DraftsMatch
  <2> HIDE DEF D
  <2>3. UNCHANGED <<pushed, extracted, contested>> /\ extractor' = [extractor EXCEPT ![x] = s]
    BY <1>0, <1>2, <2>1 DEF Batch, ExtractorState, D
  <2>4. /\ s \in ExtractorState /\ s.at = w.at /\ s.pending = w.pending /\ s.todo = w.todo
        /\ s.drafts = D
    BY <1>0, <2>2 DEF ExtractorState
  <2> HIDE DEF s
  <2>5. StateOK(s) /\ \A e \in Sources : Holds(s, e) => Holds(w, e)
    BY <1>0, <2>2, <2>4 DEF StateOK, Holds
  <2> QED  BY <2>3, <2>5, WorkerMoves
<1> QED  BY <1>1, <1>2

\* The invariant of the workers is inductive.
LEMMA EInvInductive == EInv /\ [ExtractionNext]_extractionVars => EInv'
<1> SUFFICES ASSUME EInv, [ExtractionNext]_extractionVars PROVE EInv'
  OBVIOUS
<1>1. CASE Push
  <2>1. pushed' \in 0..MaxCommits /\ UNCHANGED <<evidence, extracted, extractor, contested, attempts>>
    BY <1>1, ExtractionAssumption DEF Push, EInv
  <2> QED  BY <2>1 DEF EInv, StateOK, Uncontested, Holds
<1>2. ASSUME NEW x \in Extractors, StoreDrafts(x) \/ StoreAnalysis(x) PROVE EInv'
  BY <1>2, WorkerStores DEF StoreDrafts, StoreAnalysis
<1>3. CASE UNCHANGED extractionVars
  BY <1>3 DEF extractionVars, EInv, StateOK, Uncontested, Holds
<1> QED  BY <1>1, <1>2, <1>3, CollectsKeep, TestsKeep, BatchesKeep DEF ExtractionNext

\* The invariant of the workers holds in every reachable state.
THEOREM AlwaysEInv == ExtractionSpec => []EInv
  BY InitEInv, EInvInductive, PTL DEF ExtractionSpec

\* evidence/service.py:151 and :174: an evidence has at most one memory, unless two
\* workers were extracting it at the same time.
THEOREM OneMemoryEach == ExtractionSpec => []OneMemoryPerEvidence
<1>1. EInv => OneMemoryPerEvidence
  BY DEF EInv, Uncontested, OneMemoryPerEvidence
<1> QED  BY <1>1, AlwaysEInv, PTL

\* provider.py:279: whatever labels an LLM uses, every item of a batch is given what was
\* said about that item.
THEOREM AnswersAreAboutTheItem == ExtractionSpec => []AnswersMatch
<1>1. EInv => AnswersMatch
  BY DEF EInv, StateOK, AnswersMatch
<1> QED  BY <1>1, AlwaysEInv, PTL

-----------------------------------------------------------------------------
(***************************************************************************)
(* Clusters of a growing history                                           *)
(***************************************************************************)
\* Two numbers of one block are close.
LEMMA BlocksAreShort ==
  ASSUME NEW a \in Nat, NEW b \in Nat, NEW n \in Nat \ {0}, a \div n = b \div n
  PROVE  b - a < n
OBVIOUS

\* The rank of a commit in its bucket stays as it is when commits follow, and
\* grows with the commit.
LEMMA RanksStay ==
  ASSUME NEW k \in Commits, NEW l \in Commits, k <= l, NEW c \in 1..k
  PROVE  Rank(c, 1..k) = Rank(c, 1..l) /\ Rank(c, 1..k) \in Nat
<1>1. k \in Nat /\ l \in Nat /\ 1..k \subseteq 1..l /\ c \in Nat
  BY ExtractionAssumption DEF Commits
<1>2. {d \in 1..k : d < c /\ Bucket[d] = Bucket[c]} = {d \in 1..l : d < c /\ Bucket[d] = Bucket[c]}
  BY <1>1
<1>3. Cardinality({d \in 1..k : d < c /\ Bucket[d] = Bucket[c]}) \in Nat
  <2> DEFINE T == {d \in 1..k : d < c /\ Bucket[d] = Bucket[c]}
  <2>1. T \in SUBSET (1..k) /\ IsFiniteSet(1..k)
    BY <1>1, FS_Interval
  <2> HIDE DEF T
  <2>2. Cardinality(T) \in Nat
    BY <2>1, FS_Subset, FS_CardinalityType
  <2> QED  BY <2>2 DEF T
<1> QED  BY <1>2, <1>3 DEF Rank

\* Of two commits of a bucket the later one has the higher rank.
LEMMA RanksGrow ==
  ASSUME NEW k \in Commits, NEW c \in 1..k, NEW d \in 1..k, c < d, Bucket[c] = Bucket[d]
  PROVE  Rank(c, 1..k) < Rank(d, 1..k)
<1> DEFINE before(e) == {f \in 1..k : f < e /\ Bucket[f] = Bucket[e]}
<1>1. k \in Nat /\ c \in Nat /\ d \in Nat
  BY ExtractionAssumption DEF Commits
<1>2. before(c) \in SUBSET before(d) /\ c \in before(d) /\ c \notin before(c)
  BY <1>1
<1>3. IsFiniteSet(before(d)) /\ IsFiniteSet(before(c))
  <2>1. before(c) \in SUBSET (1..k) /\ before(d) \in SUBSET (1..k)
    OBVIOUS
  <2>2. IsFiniteSet(1..k)
    BY <1>1, FS_Interval
  <2> HIDE DEF before
  <2> QED  BY <2>1, <2>2, FS_Subset
<1>4. Rank(c, 1..k) = Cardinality(before(c)) /\ Rank(d, 1..k) = Cardinality(before(d))
  BY DEF Rank
<1> HIDE DEF before
<1>5. Cardinality(before(c)) \in Nat /\ Cardinality(before(d)) \in Nat
  BY <1>3, FS_CardinalityType
<1>6. Cardinality(before(c)) <= Cardinality(before(d))
      /\ Cardinality(before(c)) # Cardinality(before(d))
  BY <1>2, <1>3, FS_Subset
<1> QED  BY <1>4, <1>5, <1>6

\* The cluster of a commit has a first commit and is not larger than allowed:
\* its ranks are different numbers of one block.
LEMMA ClusterBounds ==
  ASSUME NEW k \in Commits, NEW c \in 1..k
  PROVE  LET K == ClusterOf(c, 1..k)
         IN  /\ c \in K /\ K \in SUBSET (1..k) /\ IsFiniteSet(K)
             /\ Cardinality(K) <= ClusterSize
             /\ \E m \in K : \A d \in K : m <= d
<1> DEFINE K == ClusterOf(c, 1..k)
           R(d) == Rank(d, 1..k)
<1>1. k \in Nat /\ ClusterSize \in Nat \ {0} /\ \A d \in 1..k : d \in Nat /\ R(d) \in Nat
  BY ExtractionAssumption, RanksStay DEF Commits
<1>2. c \in K /\ K \in SUBSET (1..k) /\ IsFiniteSet(1..k)
  BY <1>1, FS_Interval DEF ClusterOf
<1>3. IsFiniteSet(K)
  BY <1>2, FS_Subset
<1>4. K \in SUBSET Nat /\ K # {}
  BY <1>1, <1>2
<1>5. PICK m \in K : \A d \in K : m <= d
  BY <1>4, Least
<1>6. \A d \in K : Bucket[d] = Bucket[c] /\ R(d) \div ClusterSize = R(c) \div ClusterSize
  BY DEF ClusterOf
<1>7. \A d \in K, e \in K : d < e => R(d) < R(e)
  BY <1>2, <1>6, RanksGrow
<1> DEFINE f == [d \in K |-> R(d) - R(m)]
<1> HIDE DEF K, R
<1>8. ASSUME NEW d \in K PROVE f[d] \in 0..(ClusterSize - 1)
  <2>1. R(d) \in Nat /\ R(m) \in Nat /\ m <= d /\ d \in Nat /\ m \in Nat
    BY <1>1, <1>2, <1>5
  <2>2. R(d) - R(m) < ClusterSize
    BY <1>1, <1>5, <1>6, <2>1, BlocksAreShort
  <2>3. R(m) <= R(d)
    BY <1>5, <1>7, <2>1
  <2> QED  BY <1>1, <2>1, <2>2, <2>3
<1>9. ASSUME NEW d \in K, NEW e \in K, f[d] = f[e] PROVE d = e
  <2>1. R(d) \in Nat /\ R(e) \in Nat /\ R(m) \in Nat /\ d \in Nat /\ e \in Nat
    BY <1>1, <1>2, <1>5
  <2>2. R(d) = R(e)
    BY <1>9, <2>1
  <2> QED  BY <1>7, <2>1, <2>2
<1>10. f \in Injection(K, 0..(ClusterSize - 1))
  <2>1. f \in [K -> 0..(ClusterSize - 1)]
    BY <1>8
  <2> HIDE DEF f
  <2> QED  BY <1>9, <2>1, Fun_IsInj
<1>11. /\ IsFiniteSet(0..(ClusterSize - 1))
       /\ Cardinality(0..(ClusterSize - 1)) = ClusterSize
  BY <1>1, FS_Interval
<1>12. Cardinality(K) <= ClusterSize
  BY <1>10, <1>11, FS_Injection
<1> QED  BY <1>2, <1>3, <1>5, <1>12 DEF K

\* The clusters of a commit in two histories, one of which continues the
\* other: the earlier one is what the later one has of the earlier history.
LEMMA ClustersGrow ==
  ASSUME NEW k \in Commits, NEW l \in Commits, k <= l, NEW c \in 1..k
  PROVE  ClusterOf(c, 1..k) = ClusterOf(c, 1..l) \cap 1..k
<1>1. k \in Nat /\ l \in Nat /\ 1..k \subseteq 1..l
  BY ExtractionAssumption DEF Commits
<1>2. \A d \in 1..k : Rank(d, 1..k) = Rank(d, 1..l)
  BY RanksStay
<1> QED  BY <1>1, <1>2 DEF ClusterOf

\* A set is the cluster of a history that was read whole.
FullCluster(K) == \E k \in Commits : \E c \in 1..k : K = ClusterOf(c, 1..k)

\* Two such clusters of one commit, the history of the second continuing that
\* of the first.
LEMMA Continued ==
  ASSUME NEW k \in Commits, NEW l \in Commits, k <= l, NEW c \in 1..k
  PROVE  LET K == ClusterOf(c, 1..k)
             L == ClusterOf(c, 1..l)
         IN  /\ First(K) = First(L)
             /\ K # L => Cardinality(K) < ClusterSize
<1> DEFINE K == ClusterOf(c, 1..k)
           L == ClusterOf(c, 1..l)
<1>1. k \in Nat /\ l \in Nat /\ c \in 1..l /\ ClusterSize \in Nat
  BY ExtractionAssumption DEF Commits
<1>2. K = L \cap 1..k
  BY ClustersGrow
<1>3. /\ c \in K /\ K \in SUBSET (1..k) /\ IsFiniteSet(K)
      /\ L \in SUBSET (1..l) /\ IsFiniteSet(L) /\ Cardinality(L) <= ClusterSize
  BY <1>1, ClusterBounds
<1>4. PICK m \in K : \A d \in K : m <= d
  BY ClusterBounds
<1> HIDE DEF K, L
<1>5. m \in L /\ \A d \in L : m <= d
  BY <1>1, <1>2, <1>3, <1>4
<1>6. First(K) = m /\ First(L) = m
  <2>1. \A d \in L : d \in Int
    BY <1>3
  <2>2. \A d \in K : (\A e \in K : d <= e) => d = m
    BY <1>2, <1>4, <2>1
  <2>3. \A d \in L : (\A e \in L : d <= e) => d = m
    BY <1>5, <2>1
  <2> QED  BY <1>4, <1>5, <2>2, <2>3 DEF First
<1>7. ASSUME K # L PROVE Cardinality(K) < ClusterSize
  <2>1. K \in SUBSET L
    BY <1>2
  <2>2. Cardinality(K) <= Cardinality(L) /\ Cardinality(K) # Cardinality(L)
    BY <1>3, <1>7, <2>1, FS_Subset
  <2>3. Cardinality(K) \in Nat /\ Cardinality(L) \in Nat
    BY <1>3, FS_CardinalityType
  <2> QED  BY <1>1, <1>3, <2>2, <2>3
<1> QED  BY <1>6, <1>7 DEF K, L

\* So two clusters that share a commit are the same, or one has grown into the
\* other.
LEMMA FullClustersAgree ==
  ASSUME NEW K, NEW L, FullCluster(K), FullCluster(L), K \cap L # {}, K # L
  PROVE  /\ First(K) = First(L)
         /\ Cardinality(K) < ClusterSize \/ Cardinality(L) < ClusterSize
<1>1. PICK k \in Commits : \E c \in 1..k : K = ClusterOf(c, 1..k)
  BY DEF FullCluster
<1>2. PICK l \in Commits : \E c \in 1..l : L = ClusterOf(c, 1..l)
  BY DEF FullCluster
<1>3. PICK e : e \in K /\ e \in L
  OBVIOUS
<1>4. e \in 1..k /\ K = ClusterOf(e, 1..k) /\ e \in 1..l /\ L = ClusterOf(e, 1..l)
  BY <1>1, <1>2, <1>3 DEF ClusterOf
<1>5. k <= l \/ l <= k
  BY ExtractionAssumption DEF Commits
<1> QED  BY <1>4, <1>5, Continued

\* What full imports have stored, or have still to store, are clusters of the
\* history as it was read; an evidence is known by its last commit; and what an
\* analysis is to insert belongs to a release change.
GrowInv ==
  /\ ExtractionTypeOK
  /\ \A row \in evidence : row.full => FullCluster(row.shas) /\ row.source = Latest(row.shas)
  /\ \A x \in Extractors : extractor[x].full =>
       \A K \in extractor[x].todo : FullCluster(K)
  /\ \A x \in Extractors : extractor[x].at = "analyse" =>
       extractor[x].left \subseteq {-c : c \in Releases}

\* Nothing has begun.
LEMMA GrowInitInv == ExtractionInit => GrowInv
BY NoImportOK, ExtractionAssumption
DEF ExtractionInit, GrowInv, StateOK, NoImport, ExtractionTypeOK

\* A row that an import or an analysis may insert.
RowOK(row) == /\ row \in EvidenceRow
              /\ row.full => FullCluster(row.shas) /\ row.source = Latest(row.shas)

\* A worker moves on, and may insert a row.
LEMMA WorkerGoesOn ==
  ASSUME GrowInv, NEW x \in Extractors, NEW s \in ExtractorState,
         extractor' = [extractor EXCEPT ![x] = s], UNCHANGED pushed,
         attempts' \in 0..MaxAttempts, extracted' \in [Sources -> Nat],
         contested' \subseteq Sources,
         s.full => \A K \in s.todo : FullCluster(K),
         s.at = "analyse" => s.left \subseteq {-c : c \in Releases},
         \A row \in evidence' : row \in evidence \/ RowOK(row)
  PROVE  GrowInv'
<1>1. /\ extractor'[x] = s /\ extractor' \in [Extractors -> ExtractorState]
      /\ \A y \in Extractors \ {x} : extractor'[y] = extractor[y]
  BY DEF GrowInv, ExtractionTypeOK
<1>2. \A row \in evidence' : RowOK(row)
  BY DEF GrowInv, RowOK, ExtractionTypeOK
<1>3. ExtractionTypeOK'
  BY <1>1, <1>2 DEF GrowInv, RowOK, ExtractionTypeOK
<1>4. \A y \in Extractors : extractor'[y].full => \A K \in extractor'[y].todo : FullCluster(K)
  BY <1>1 DEF GrowInv
<1>5. \A y \in Extractors : extractor'[y].at = "analyse" =>
        extractor'[y].left \subseteq {-c : c \in Releases}
  BY <1>1 DEF GrowInv
<1> QED  BY <1>2, <1>3, <1>4, <1>5 DEF GrowInv, RowOK

\* Every step keeps it; that the workers' states stay well-typed is EInv.
LEMMA GrowNextInv == EInv /\ EInv' /\ GrowInv /\ [ExtractionNext]_extractionVars => GrowInv'
<1> SUFFICES ASSUME EInv, EInv', GrowInv, [ExtractionNext]_extractionVars PROVE GrowInv'
  OBVIOUS
<1>0. /\ pushed \in 0..MaxCommits /\ MaxCommits \in Nat /\ MaxAttempts \in Nat
      /\ extractor \in [Extractors -> ExtractorState]
      /\ extractor' \in [Extractors -> ExtractorState]
      /\ extracted' \in [Sources -> Nat] /\ contested \subseteq Sources
      /\ attempts \in 0..MaxAttempts
  BY ExtractionAssumption DEF GrowInv, EInv, ExtractionTypeOK
<1>1. \A x \in Extractors : \A s : extractor' = [extractor EXCEPT ![x] = s] =>
        s = extractor'[x] /\ s \in ExtractorState
  BY <1>0
\* Steps that neither start anything nor insert a cluster.
<1>2. ASSUME NEW x \in Extractors, NEW s, extractor' = [extractor EXCEPT ![x] = s],
             UNCHANGED <<pushed, attempts>>, contested' \subseteq Sources,
             s.todo \subseteq extractor[x].todo, s.full => extractor[x].full,
             s.at # "analyse", \A row \in evidence' : row \in evidence \/ RowOK(row)
      PROVE  GrowInv'
  BY <1>0, <1>1, <1>2, WorkerGoesOn DEF GrowInv
<1>3. CASE Push
  <2>1. pushed' \in 0..MaxCommits
        /\ UNCHANGED <<evidence, extracted, extractor, contested, attempts>>
    BY <1>0, <1>3 DEF Push
  <2> QED  BY <2>1 DEF GrowInv, ExtractionTypeOK
<1>4. ASSUME NEW x \in Extractors, NEW limit \in Limits, StartImport(x, limit)
      PROVE  GrowInv'
  <2> DEFINE s == [NoImport EXCEPT !.at = "collect", !.full = Window(limit) = 1..pushed,
                                   !.todo = Clusters(Window(limit))]
  <2>1. /\ extractor' = [extractor EXCEPT ![x] = s] /\ UNCHANGED <<pushed, evidence, contested>>
        /\ pushed > 0 /\ attempts' \in 0..MaxAttempts
    BY <1>0, <1>4 DEF StartImport
  <2>2. /\ s.full <=> Window(limit) = 1..pushed
        /\ s.todo = Clusters(Window(limit)) /\ s.at = "collect"
    BY DEF NoImport
  <2> HIDE DEF s
  <2>3. ASSUME s.full, NEW K \in s.todo PROVE FullCluster(K)
    <3>1. pushed \in Commits
      BY <1>0, <2>1 DEF Commits
    <3> QED  BY <2>2, <2>3, <3>1 DEF FullCluster, Clusters
  <2> QED  BY <1>0, <1>1, <2>1, <2>2, <2>3, WorkerGoesOn
<1>5. ASSUME NEW x \in Extractors, NEW K \in extractor[x].todo, Collect(x, K)
      PROVE  GrowInv'
  <2> DEFINE w == extractor[x]
             s == [w EXCEPT !.todo = w.todo \ {K}, !.pending = w.pending \cup {Latest(K)}]
             row0 == [source |-> Latest(K), shas |-> K, full |-> w.full]
  <2>1. /\ extractor' = [extractor EXCEPT ![x] = s] /\ UNCHANGED <<pushed, contested, attempts>>
        /\ w.at = "collect"
        /\ \A row \in evidence' : row \in evidence \/ row = row0
    BY <1>0, <1>5 DEF Collect, ExtractorState
  <2>2. w \in ExtractorState /\ K \in SUBSET Commits /\ K # {}
    BY <1>0 DEF EInv, StateOK, ExtractorState
  <2>3. s.full = w.full /\ s.todo \subseteq w.todo /\ s.at = w.at
    BY <2>2 DEF ExtractorState
  <2>4. RowOK(row0)
    <3>1. Latest(K) \in Sources
      BY <2>2, LatestIn DEF Sources
    <3>2. w.full \in BOOLEAN /\ (w.full => FullCluster(K))
      BY <2>2 DEF ExtractorState, GrowInv
    <3> QED  BY <2>2, <3>1, <3>2 DEF RowOK, EvidenceRow
  <2> HIDE DEF s, row0
  <2> QED  BY <1>0, <1>2, <2>1, <2>3, <2>4
<1>6. ASSUME NEW x \in Extractors, NEW K \in extractor[x].todo, SkipCluster(x, K)
      PROVE  GrowInv'
  <2> DEFINE w == extractor[x]
             s == [w EXCEPT !.todo = w.todo \ {K}]
  <2>1. /\ extractor' = [extractor EXCEPT ![x] = s] /\ w.at = "collect"
        /\ UNCHANGED <<pushed, evidence, contested, attempts>>
    BY <1>0, <1>6 DEF SkipCluster, ExtractorState
  <2>2. s.full = w.full /\ s.todo \subseteq w.todo /\ s.at = w.at
    BY <1>0 DEF ExtractorState
  <2> HIDE DEF s
  <2> QED  BY <1>0, <1>2, <2>1, <2>2
<1>7. ASSUME NEW x \in Extractors, Filter(x) PROVE GrowInv'
  <2> DEFINE w == extractor[x]
             pending == {e \in w.pending : NotYetExtracted(e)}
             s == [w EXCEPT !.at = "extract", !.pending = pending, !.left = pending]
  <2>1. /\ extractor' = [extractor EXCEPT ![x] = s]
        /\ UNCHANGED <<pushed, evidence, attempts>>
        /\ contested' = contested \cup (pending \cap ExtractedByOthers(x))
    BY <1>0, <1>7 DEF Filter, ExtractorState
  <2>2. pending \subseteq Sources
    BY <1>0 DEF ExtractorState
  <2>3. s.full = w.full /\ s.todo = w.todo /\ s.at = "extract"
    BY <1>0 DEF ExtractorState
  <2> HIDE DEF s, pending
  <2> QED  BY <1>0, <1>2, <2>1, <2>2, <2>3
<1>8. ASSUME NEW x \in Extractors, NEW B \in SUBSET extractor[x].left, Batch(x, B)
      PROVE  GrowInv'
  <2> DEFINE w == extractor[x]
  <2>1. PICK r \in Responses(B) :
          /\ extractor' = [extractor EXCEPT ![x].left = @ \ B, ![x].drafts = DraftsFor(B, r)]
          /\ UNCHANGED <<pushed, evidence, contested, attempts>> /\ w.at = "extract"
    BY <1>8 DEF Batch
  <2> DEFINE s == [w EXCEPT !.left = w.left \ B, !.drafts = DraftsFor(B, r)]
  <2>2. extractor' = [extractor EXCEPT ![x] = s]
    BY <1>0, <2>1 DEF ExtractorState
  <2>3. s.full = w.full /\ s.todo = w.todo /\ s.at = w.at
    BY <1>0 DEF ExtractorState
  <2> HIDE DEF s
  <2> QED  BY <1>0, <1>2, <2>1, <2>2, <2>3
<1>9. ASSUME NEW x \in Extractors, StoreDrafts(x) \/ GiveUp(x) \/ StoreAnalysis(x)
      PROVE  GrowInv'
  <2>1. /\ extractor' = [extractor EXCEPT ![x] = NoImport]
        /\ UNCHANGED <<pushed, contested, attempts>>
    BY <1>9 DEF StoreDrafts, GiveUp, StoreAnalysis
  <2>2. NoImport.todo = {} /\ ~NoImport.full /\ NoImport.at = "idle"
    BY DEF NoImport
  <2>3. ASSUME NEW row \in evidence', row \notin evidence PROVE RowOK(row)
    <3>1. PICK e \in extractor[x].left : row = [source |-> e, shas |-> {-e}, full |-> FALSE]
          /\ extractor[x].at = "analyse"
      BY <1>9, <2>3 DEF StoreDrafts, GiveUp, StoreAnalysis
    <3>2. PICK c \in Releases : e = -c
      BY <3>1 DEF GrowInv
    <3>3. c \in Commits /\ e \in Sources /\ -e = c
      BY <3>2, <1>0, ExtractionAssumption DEF Sources, Commits
    <3> QED  BY <3>1, <3>3 DEF RowOK, EvidenceRow
  <2> QED  BY <1>0, <1>2, <2>1, <2>2, <2>3
<1>10. ASSUME NEW x \in Extractors, NEW c \in Releases, StartAnalysis(x, c)
      PROVE  GrowInv'
  <2> DEFINE s == [NoImport EXCEPT !.at = "analyse", !.pending = {-c},
                                   !.left = IF Stored(-c) THEN {} ELSE {-c}]
  <2>1. /\ extractor' = [extractor EXCEPT ![x] = s] /\ UNCHANGED <<pushed, evidence>>
        /\ attempts' \in 0..MaxAttempts
        /\ contested' = contested \cup ({-c} \cap ExtractedByOthers(x))
    BY <1>0, <1>10 DEF StartAnalysis
  <2>2. s.todo = {} /\ ~s.full /\ s.left \subseteq {-c}
    BY DEF NoImport
  <2>3. -c \in Sources /\ -c \in {-d : d \in Releases}
    BY DEF Sources
  <2> HIDE DEF s
  <2>4. s \in ExtractorState
    BY <1>1, <2>1
  <2>5. contested' \subseteq Sources /\ s.left \subseteq {-d : d \in Releases}
    BY <1>0, <2>1, <2>2, <2>3
  <2> QED  BY <1>0, <2>1, <2>2, <2>4, <2>5, WorkerGoesOn
<1>11. CASE UNCHANGED extractionVars
  BY <1>11 DEF extractionVars, GrowInv, ExtractionTypeOK
<1> QED  BY <1>3, <1>4, <1>5, <1>6, <1>7, <1>8, <1>9, <1>10, <1>11 DEF ExtractionNext

\* clusters.py:81: when a history is imported again, an evidence shares commits with
\* another one only if they begin with the same commit and one of them had room.
THEOREM FullClustersStay == ExtractionSpec => [](ExtractionTypeOK /\ OnlyOpenClustersGrow)
<1>1. GrowInv => ExtractionTypeOK /\ OnlyOpenClustersGrow
  <2> SUFFICES ASSUME GrowInv, NEW a \in evidence, NEW b \in evidence,
                      a # b, a.full, b.full, a.shas \cap b.shas # {}
               PROVE  /\ First(a.shas) = First(b.shas)
                      /\ Cardinality(a.shas) < ClusterSize \/ Cardinality(b.shas) < ClusterSize
    BY DEF OnlyOpenClustersGrow, GrowInv
  <2>1. a.shas # b.shas
    BY DEF GrowInv, EvidenceRow, ExtractionTypeOK
  <2> QED  BY <2>1, FullClustersAgree DEF GrowInv
<1> QED  BY <1>1, AlwaysEInv, GrowInitInv, GrowNextInv, PTL DEF ExtractionSpec

-----------------------------------------------------------------------------
(***************************************************************************)
(* Proofs about InitializationSteps, for every set of repositories, every  *)
(* number of stages and of reports: the progress of an initialization never*)
(* goes back, its step rows follow its checkpoint, and a paused one starts *)
(* at most one more stage.                                                 *)
(*                                                                         *)
(* RunOK says what the thread knows of the job it runs: nobody but it      *)
(* writes the checkpoint, so its list of completed stages is that stored.  *)
(* RowsOK says that a repository has step rows for all stages or for none, *)
(* which is why one that succeeded early is taken along by every later     *)
(* stage.                                                                  *)
(***************************************************************************)
RunTypesOK ==
  /\ repos \subseteq Repos
  /\ init_job \in JobRow
  /\ job_steps \in [Repos -> [1..Stages -> StepStatuses]]
  /\ runner \in Runner
  /\ eager \in 0..1 /\ restarts \in 0..MaxRestarts

Busy == runner.at # "idle"
JobLoaded == runner.at \in {"begin", "boundary", "start", "work", "finish"}

RunOK ==
  /\ Busy => init_job.status \in Cancelling \cup {"running", "paused"}
  /\ JobLoaded => runner.done = init_job.completed
  /\ runner.at \in {"start", "work"} => runner.done < Stages
  /\ runner.at = "work" => /\ init_job.current_stage \in {runner.done + 1, Detail}
                           /\ runner.steps = RowsOf(runner.done + 1)

\* A stage about to start was not paused when the thread looked.
PauseOK == runner.at = "start" /\ init_job.status = "paused" => eager = 0

RowsOK == \A r \in Repos : \A s, t \in 1..Stages :
  job_steps[r][s] = "none" => job_steps[r][t] = "none"

SInv == RunTypesOK /\ RunOK /\ PauseOK /\ RowsOK /\ StepsFollowCheckpoint

\* Everything written by an action that leaves the steps alone.
RowsKept == UNCHANGED job_steps /\ init_job'.completed = init_job.completed

\* Progress is counted in parts of a stage, so more stages are more progress.
LEMMA PartsMonotone ==
  ASSUME NEW a \in Nat, NEW b \in Nat, a <= b
  PROVE  /\ a * Parts \in Nat /\ b * Parts \in Nat
         /\ a * Parts <= b * Parts
<1>1. Parts \in Nat
  BY StepsAssumption
<1>2. PICK c \in Nat : b = a + c
  <2>1. b - a \in Nat /\ b = a + (b - a)
    OBVIOUS
  <2> QED  BY <2>1
<1>3. b * Parts = a * Parts + c * Parts
  BY <1>1, <1>2
<1>4. a * Parts \in Nat /\ c * Parts \in Nat
  BY <1>1
<1> QED  BY <1>3, <1>4

\* A whole stage is Parts parts.
LEMMA StageIsParts ==
  ASSUME NEW a \in Nat, NEW f \in 0..Parts, a < Stages
  PROVE  a * Parts + f \in 0..Full
<1>1. Parts \in Nat /\ Stages \in Nat
  BY StepsAssumption
<1>2. (a + 1) * Parts <= Stages * Parts /\ a * Parts \in Nat
  BY <1>1, PartsMonotone
<1>3. (a + 1) * Parts = a * Parts + Parts
  BY <1>1
<1>4. Stages * Parts \in Nat
  BY <1>1
<1> QED  BY <1>1, <1>2, <1>3, <1>4 DEF Full

\* The strengthened invariant contains the type invariant.
LEMMA StepsTyped == SInv => StepsTypeOK
  BY DEF SInv, RunTypesOK, StepsTypeOK

\* InitializationService.create establishes it.
LEMMA InitSInv == StepsInit => SInv
<1> SUFFICES ASSUME StepsInit PROVE SInv
  OBVIOUS
<1>1. Stages \in Nat /\ Parts \in Nat /\ MaxRestarts \in Nat /\ MaxRetries0 \in Nat
  BY StepsAssumption
<1>2. Full \in Nat
  BY <1>1 DEF Full
<1>3. job_steps = [r \in Repos |-> [s \in 1..Stages |->
                     IF r \in repos THEN "queued" ELSE "none"]]
  BY DEF StepsInit, Ensured
<1>4. init_job \in JobRow
  BY <1>1, <1>2 DEF StepsInit, JobRow, Detail
<1>5. runner \in Runner /\ runner.at = "idle"
  BY <1>1 DEF StepsInit, Runner, Resting
<1>6. RunTypesOK
  BY <1>1, <1>3, <1>4, <1>5 DEF StepsInit, RunTypesOK, StepStatuses
<1>7. RunOK /\ PauseOK
  BY <1>5 DEF RunOK, PauseOK, Busy, JobLoaded
<1>8. RowsOK
  BY <1>3 DEF RowsOK
<1>9. StepsFollowCheckpoint
  BY <1>1, <1>3 DEF StepsInit, StepsFollowCheckpoint
<1> QED  BY <1>6, <1>7, <1>8, <1>9 DEF SInv

\* Steps that change neither the rows nor the checkpoint keep what is said of both.
LEMMA RowsKeptKeeps ==
  ASSUME SInv, RowsKept
  PROVE  RowsOK' /\ StepsFollowCheckpoint'
  BY DEF SInv, RowsKept, RowsOK, StepsFollowCheckpoint

\* The thread returns: what is said of it no longer applies.
LEMMA ThreadReturns ==
  ASSUME Idle0
  PROVE  runner' \in Runner /\ RunOK' /\ PauseOK'
<1>1. Resting \in Runner /\ Resting.at = "idle"
  BY StepsAssumption DEF Resting, Runner
<1> QED  BY <1>1 DEF Idle0, RunOK, PauseOK, Busy, JobLoaded

\* A status is all SetStatus changes.
LEMMA StatusSet ==
  ASSUME RunTypesOK, NEW st \in Cancelling \cup {"queued", "running", "paused", "failed"},
         SetStatus(st)
  PROVE  /\ init_job' \in JobRow
         /\ init_job'.status = st
         /\ init_job'.completed = init_job.completed
         /\ init_job'.progress = init_job.progress
         /\ init_job'.current_stage = init_job.current_stage
  BY DEF RunTypesOK, SetStatus, JobRow

\* A confirmed cancellation, which leaves the steps as they are.
LEMMA CancelledKeeps ==
  ASSUME SInv, Cancelled0, UNCHANGED <<repos, job_steps, eager, restarts>>
  PROVE  SInv' /\ init_job'.progress = init_job.progress
<1>1. /\ init_job' \in JobRow
      /\ init_job'.completed = init_job.completed
      /\ init_job'.progress = init_job.progress
  BY StatusSet DEF Cancelled0, Cancelling, SInv
<1>2. runner' \in Runner /\ RunOK' /\ PauseOK'
  BY ThreadReturns DEF Cancelled0
<1>3. RunTypesOK'
  BY <1>1, <1>2 DEF SInv, RunTypesOK
<1> QED  BY <1>1, <1>2, <1>3, RowsKeptKeeps DEF SInv, RowsKept

\* The claim, the load, the boundary and the end.
LEMMA MovesKeep ==
  ASSUME SInv, ClaimRun \/ LoadRun \/ StageBoundary \/ FinishRun
  PROVE  SInv' /\ init_job'.progress >= init_job.progress
<1>0. init_job.progress \in Int /\ init_job.progress <= Full /\ Full \in Nat
  BY StepsAssumption DEF SInv, RunTypesOK, JobRow, Full
<1>1. CASE ClaimRun
  <2>1. /\ init_job' \in JobRow /\ init_job'.status = "running"
        /\ init_job'.completed = init_job.completed
        /\ init_job'.progress = init_job.progress
    BY <1>1, StatusSet DEF ClaimRun, SInv
  <2>2. Resting \in Runner
    BY StepsAssumption DEF Resting, Runner
  <2>3. runner' \in Runner /\ runner'.at = "load"
    BY <1>1, <2>2 DEF ClaimRun, Runner
  <2>4. RunTypesOK' /\ RunOK' /\ PauseOK'
    BY <1>1, <2>1, <2>3 DEF ClaimRun, SInv, RunTypesOK, RunOK, PauseOK, Busy, JobLoaded
  <2> QED  BY <1>0, <1>1, <2>1, <2>4, RowsKeptKeeps DEF ClaimRun, SInv, RowsKept
<1>2. CASE Cancelled0 /\ (LoadRun \/ StageBoundary)
  BY <1>0, <1>2, CancelledKeeps DEF LoadRun, StageBoundary
<1>3. CASE LoadRun /\ ~Cancelled0
  <2>1. /\ init_job' = init_job
        /\ init_job.status \in {"running", "paused"}
        /\ UNCHANGED <<repos, job_steps, eager, restarts>>
    BY <1>3 DEF LoadRun, SInv, RunOK, Busy
  <2>2. Resting \in Runner
    BY StepsAssumption DEF Resting, Runner
  <2>3. /\ runner' \in Runner /\ runner'.at = "begin"
        /\ runner'.done = init_job.completed
    BY <1>3, <2>1, <2>2 DEF LoadRun, SInv, RunTypesOK, JobRow, Runner
  <2>4. RunTypesOK' /\ RunOK' /\ PauseOK'
    BY <2>1, <2>3 DEF SInv, RunTypesOK, RunOK, PauseOK, Busy, JobLoaded
  <2> QED  BY <1>0, <2>1, <2>4, RowsKeptKeeps DEF SInv, RowsKept
<1>4. CASE StageBoundary /\ ~Cancelled0
  <2>1. init_job' = init_job /\ UNCHANGED <<repos, job_steps, eager, restarts>>
    BY <1>4 DEF StageBoundary
  <2>2. RowsOK' /\ StepsFollowCheckpoint'
    BY <2>1, RowsKeptKeeps DEF RowsKept
  <2>3. CASE Idle0
    <3>1. RunTypesOK' /\ RunOK' /\ PauseOK'
      BY <2>1, <2>3, ThreadReturns DEF SInv, RunTypesOK
    <3> QED  BY <1>0, <2>1, <2>2, <3>1 DEF SInv
  <2>4. CASE ~Idle0
    <3> DEFINE at == IF runner.done < Stages THEN "start" ELSE "finish"
    <3>1. /\ runner' = [runner EXCEPT !.at = at]
          /\ init_job.status = "paused" => runner.done = Stages
          /\ runner.at = "boundary"
      BY <1>4, <2>4 DEF StageBoundary
    <3>2. runner' \in Runner /\ runner'.at = at /\ runner'.done = runner.done
      BY <3>1 DEF SInv, RunTypesOK, Runner
    <3>3. runner.done = init_job.completed
      BY <3>1 DEF SInv, RunOK, JobLoaded
    <3>4. init_job.status \in Cancelling \cup {"running", "paused"}
      BY <3>1 DEF SInv, RunOK, Busy
    <3>5. RunOK'
      BY <2>1, <3>2, <3>3, <3>4 DEF RunOK, Busy, JobLoaded
    <3>6. PauseOK'
      <4>1. ASSUME runner.done < Stages, init_job.status = "paused" PROVE FALSE
        BY <3>1, <4>1, StepsAssumption
      <4> QED  BY <2>1, <3>2, <4>1 DEF PauseOK
    <3>7. RunTypesOK'
      BY <2>1, <3>2 DEF SInv, RunTypesOK
    <3> QED  BY <1>0, <2>1, <2>2, <3>5, <3>6, <3>7 DEF SInv
  <2> QED  BY <2>3, <2>4
<1>5. CASE FinishRun
  <2>1. runner.done = init_job.completed /\ runner.done \in 0..Stages
    BY <1>5 DEF FinishRun, SInv, RunOK, JobLoaded, RunTypesOK, Runner
  <2>2. /\ init_job' \in JobRow /\ init_job'.completed = init_job.completed
        /\ init_job'.progress = Full
    <3>1. Stages \in Nat /\ Detail \in 0..Detail /\ Full \in 0..Full
      BY <1>0, StepsAssumption DEF Detail
    <3>2. init_job' = [init_job EXCEPT !.status = "succeeded", !.progress = Full,
                         !.current_stage = Detail, !.completed = runner.done]
      BY <1>5 DEF FinishRun
    <3> QED  BY <2>1, <3>1, <3>2 DEF SInv, RunTypesOK, JobRow
  <2>3. runner' \in Runner /\ RunOK' /\ PauseOK'
    BY <1>5, ThreadReturns DEF FinishRun
  <2>4. RunTypesOK'
    BY <1>5, <2>2, <2>3 DEF FinishRun, SInv, RunTypesOK
  <2> QED  BY <1>0, <1>5, <2>2, <2>3, <2>4, RowsKeptKeeps DEF FinishRun, SInv, RowsKept
<1> QED  BY <1>1, <1>2, <1>3, <1>4, <1>5

\* _ensure_steps gives a repository all its rows at once, all of them queued.
LEMMA BeginKeeps ==
  ASSUME SInv, BeginRun
  PROVE  SInv' /\ init_job'.progress >= init_job.progress
<1>1. \A r \in Repos, s \in 1..Stages : job_steps'[r][s] =
        IF r \in repos /\ job_steps[r][s] = "none" THEN "queued" ELSE job_steps[r][s]
  BY DEF BeginRun, Ensured
<1>2. job_steps' \in [Repos -> [1..Stages -> StepStatuses]]
  BY DEF BeginRun, Ensured, SInv, RunTypesOK, StepStatuses
<1>3. /\ init_job' \in JobRow /\ init_job'.completed = init_job.completed
      /\ init_job'.progress = init_job.progress
      /\ init_job'.status \in {init_job.status, "running"}
  BY StatusSet DEF BeginRun, SInv, RunTypesOK
<1>4. /\ runner' \in Runner /\ runner'.at = "boundary" /\ runner'.done = runner.done
      /\ runner.at = "begin"
  BY DEF BeginRun, SInv, RunTypesOK, Runner
<1>5. RunTypesOK'
  BY <1>2, <1>3, <1>4 DEF BeginRun, SInv, RunTypesOK
<1>6. RunOK' /\ PauseOK'
  BY <1>3, <1>4 DEF SInv, RunOK, PauseOK, Busy, JobLoaded
<1>7. RowsOK'
  BY <1>1 DEF SInv, RowsOK
<1>8. StepsFollowCheckpoint'
  <2>1. \A r \in Repos, s \in 1..Stages :
           /\ job_steps'[r][s] = "succeeded" <=> job_steps[r][s] = "succeeded"
           /\ job_steps[r][s] \in {"queued", "none"} => job_steps'[r][s] \in {"queued", "none"}
    BY <1>1
  <2>2. \A s \in 1..Stages : \A t \in 1..s : t \in 1..Stages
    BY StepsAssumption
  <2>3. ASSUME NEW r \in Repos, NEW s \in 1..Stages
        PROVE  /\ job_steps'[r][s] = "succeeded" => s <= init_job.completed
               /\ s <= init_job.completed => job_steps'[r][s] \in {"succeeded", "queued", "none"}
               /\ s <= init_job.completed => \A t \in 1..s :
                    job_steps'[r][t] = "succeeded" => job_steps'[r][s] = "succeeded"
    BY <2>1, <2>2 DEF SInv, StepsFollowCheckpoint
  <2> QED  BY <1>3, <2>3 DEF StepsFollowCheckpoint
<1>9. init_job.progress \in Int
  BY DEF SInv, RunTypesOK, JobRow
<1> QED  BY <1>3, <1>5, <1>6, <1>7, <1>8, <1>9 DEF SInv

\* The rows Moved touches and leaves alone.
LEMMA MovedRows ==
  ASSUME RunTypesOK, NEW R, NEW S, NEW from, NEW to \in StepStatuses
  PROVE  /\ Moved(R, S, from, to) \in [Repos -> [1..Stages -> StepStatuses]]
         /\ \A r \in Repos, s \in 1..Stages : Moved(R, S, from, to)[r][s] =
              IF r \in R /\ s \in S /\ job_steps[r][s] \in from THEN to ELSE job_steps[r][s]
  BY DEF RunTypesOK, Moved

\* Moving steps that exist and are not in the checkpoint to some unfinished status.
LEMMA UnfinishedKeeps ==
  ASSUME SInv, NEW R, NEW S, NEW from, NEW to \in {"queued", "running", "failed"},
         \A r \in R : \A s \in S \cap (1..Stages) :
            r \in Repos /\ job_steps[r][s] \in from =>
              s > init_job.completed /\ job_steps[r][s] # "none",
         job_steps' = Moved(R, S, from, to),
         init_job'.completed = init_job.completed
  PROVE  /\ job_steps' \in [Repos -> [1..Stages -> StepStatuses]]
         /\ RowsOK' /\ StepsFollowCheckpoint'
<1> DEFINE hit(r, s) == r \in R /\ s \in S /\ job_steps[r][s] \in from
<1>1. to \in StepStatuses /\ to \notin {"none", "succeeded"}
  BY DEF StepStatuses
<1>2. /\ job_steps' \in [Repos -> [1..Stages -> StepStatuses]]
      /\ \A r \in Repos, s \in 1..Stages : job_steps'[r][s] =
           IF hit(r, s) THEN to ELSE job_steps[r][s]
  BY <1>1, MovedRows DEF SInv
<1>3. \A r \in Repos, s \in 1..Stages : hit(r, s) =>
         ~(s <= init_job.completed) /\ job_steps[r][s] # "none"
  BY StepsAssumption DEF SInv, RunTypesOK, JobRow
<1> HIDE DEF hit
<1>4. RowsOK'
  BY <1>1, <1>2, <1>3 DEF SInv, RowsOK
<1>5. StepsFollowCheckpoint'
  <2>1. ASSUME NEW r \in Repos, NEW s \in 1..Stages
        PROVE  /\ job_steps'[r][s] = "succeeded" <=>
                    job_steps[r][s] = "succeeded" /\ ~hit(r, s)
               /\ s <= init_job.completed => job_steps'[r][s] = job_steps[r][s]
    BY <1>1, <1>2, <1>3
  <2>2. ASSUME NEW r \in Repos, NEW s \in 1..Stages
        PROVE  /\ job_steps'[r][s] = "succeeded" => s <= init_job.completed
               /\ s <= init_job.completed => job_steps'[r][s] \in {"succeeded", "queued", "none"}
               /\ s <= init_job.completed => \A t \in 1..s :
                    job_steps'[r][t] = "succeeded" => job_steps'[r][s] = "succeeded"
    <3>1. \A t \in 1..s : t \in 1..Stages
      BY StepsAssumption
    <3> QED  BY <2>1, <3>1 DEF SInv, StepsFollowCheckpoint
  <2> QED  BY <2>2 DEF StepsFollowCheckpoint
<1> QED  BY <1>2, <1>4, <1>5

\* The next stage begins with every row there is of it.
LEMMA StartKeeps ==
  ASSUME SInv, StartStage
  PROVE  SInv' /\ init_job'.progress >= init_job.progress
<1> DEFINE stage == runner.done + 1
           p == runner.done * Parts
<1>1. /\ runner.at = "start" /\ runner.done \in Nat /\ runner.done < Stages
      /\ init_job.completed = runner.done /\ Stages \in Nat
  BY StepsAssumption DEF StartStage, SInv, RunTypesOK, RunOK, JobLoaded, Runner
<1>2. stage \in 1..Stages /\ stage > init_job.completed
  BY <1>1
<1>3. p \in 0..Full
  BY <1>1, StageIsParts, StepsAssumption
<1>4. init_job.progress \in 0..Full
  BY DEF SInv, RunTypesOK, JobRow
<1>5. Larger(init_job.progress, p) \in 0..Full /\ Larger(init_job.progress, p) >= init_job.progress
  BY <1>3, <1>4 DEF Larger
<1>6. init_job' = [init_job EXCEPT !.current_stage = stage,
                                   !.progress = Larger(init_job.progress, p)]
  BY DEF StartStage, SInv, RunTypesOK, JobRow
<1>7. /\ init_job' \in JobRow /\ init_job'.completed = init_job.completed
      /\ init_job'.status = init_job.status /\ init_job'.current_stage = stage
      /\ init_job'.progress >= init_job.progress
  <2>1. stage \in 0..Detail
    BY <1>1 DEF Detail
  <2> HIDE DEF stage
  <2> QED  BY <1>5, <1>6, <2>1 DEF SInv, RunTypesOK, JobRow
<1>8. /\ job_steps' \in [Repos -> [1..Stages -> StepStatuses]]
      /\ RowsOK' /\ StepsFollowCheckpoint'
  <2>1. \A r \in RowsOf(stage) : \A s \in {stage} \cap (1..Stages) :
           r \in Repos /\ job_steps[r][s] \in StepStatuses =>
             s > init_job.completed /\ job_steps[r][s] # "none"
    BY <1>2 DEF RowsOf
  <2>2. job_steps' = Moved(RowsOf(stage), {stage}, StepStatuses, "running")
    BY DEF StartStage
  <2> QED  BY <1>7, <2>1, <2>2, UnfinishedKeeps
<1>9. RowsOf(stage)' = RowsOf(stage)
  <2>1. \A r \in Repos : job_steps'[r][stage] =
           IF r \in RowsOf(stage) /\ job_steps[r][stage] \in StepStatuses
           THEN "running" ELSE job_steps[r][stage]
    <3>1. "running" \in StepStatuses
      BY DEF StepStatuses
    <3> QED  BY <1>2, <3>1, MovedRows DEF StartStage, SInv
  <2>2. \A r \in Repos : job_steps'[r][stage] = "none" <=> job_steps[r][stage] = "none"
    <3>1. \A r \in Repos : job_steps[r][stage] \in StepStatuses
      BY <1>2 DEF SInv, RunTypesOK
    <3> QED  BY <2>1, <3>1 DEF RowsOf
  <2>3. stage' = stage
    BY DEF StartStage, SInv, RunTypesOK, Runner
  <2>4. RowsOf(stage)' = {r \in Repos : job_steps'[r][stage] # "none"}
    BY <2>3 DEF RowsOf
  <2> QED  BY <2>2, <2>4 DEF RowsOf
<1>10. /\ runner' \in Runner /\ runner'.at = "work" /\ runner'.done = runner.done
       /\ runner'.steps = RowsOf(stage)
  BY DEF StartStage, SInv, RunTypesOK, Runner, RowsOf
<1>11. eager' \in 0..1
  BY <1>1 DEF StartStage, SInv, PauseOK
<1>12. RunTypesOK'
  BY <1>7, <1>8, <1>10, <1>11 DEF StartStage, SInv, RunTypesOK
<1>13. RunOK' /\ PauseOK'
  BY <1>1, <1>7, <1>9, <1>10 DEF SInv, RunOK, PauseOK, Busy, JobLoaded
<1> QED  BY <1>7, <1>8, <1>12, <1>13 DEF SInv

\* A report only moves the progress on.
LEMMA ReportKeeps ==
  ASSUME SInv, NEW f \in 0..Parts, Report(f)
  PROVE  SInv' /\ init_job'.progress >= init_job.progress
<1> DEFINE p == init_job.completed * Parts + f
<1>1. init_job.progress \in 0..Full /\ Full \in Nat
  BY StepsAssumption DEF SInv, RunTypesOK, JobRow, Full
<1>2. CASE Cancelled0
  BY <1>1, <1>2, CancelledKeeps DEF Report
<1>3. CASE ~Cancelled0
  <2>1. /\ runner.at = "work" /\ init_job.completed \in Nat
        /\ init_job.completed < Stages
    BY DEF Report, SInv, RunOK, JobLoaded, RunTypesOK, JobRow
  <2>2. Larger(init_job.progress, p) \in 0..Full /\ Larger(init_job.progress, p) >= init_job.progress
    BY <1>1, <2>1, StageIsParts DEF Larger
  <2>3. init_job' = [init_job EXCEPT !.current_stage = Detail,
                                     !.progress = Larger(init_job.progress, p)]
    BY <1>3 DEF Report, SInv, RunTypesOK, JobRow
  <2>4. Detail \in 0..Detail
    BY StepsAssumption DEF Detail
  <2>5. /\ init_job' \in JobRow /\ init_job'.completed = init_job.completed
        /\ init_job'.status = init_job.status /\ init_job'.current_stage = Detail
        /\ init_job'.progress >= init_job.progress
    BY <2>2, <2>3, <2>4 DEF SInv, RunTypesOK, JobRow
  <2>6. UNCHANGED <<repos, job_steps, runner, eager, restarts>>
    BY <1>3 DEF Report
  <2>7. RunTypesOK' /\ RunOK' /\ PauseOK'
    BY <2>5, <2>6 DEF SInv, RunTypesOK, RunOK, PauseOK, Busy, JobLoaded, RowsOf
  <2> QED  BY <2>5, <2>6, <2>7, RowsKeptKeeps DEF SInv, RowsKept
<1> QED  BY <1>2, <1>3

\* The stage joins the checkpoint together with every row it took along.
LEMMA CheckpointKeeps ==
  ASSUME SInv, CheckpointStage
  PROVE  SInv' /\ init_job'.progress >= init_job.progress
<1> DEFINE done == runner.done + 1
           p == done * Parts
<1>1. init_job.progress \in 0..Full /\ Full \in Nat
  BY StepsAssumption DEF SInv, RunTypesOK, JobRow, Full
<1>2. CASE Cancelled0
  <2>1. UNCHANGED <<repos, job_steps, eager, restarts>>
    BY <1>2 DEF CheckpointStage, Cancelled0
  <2> QED  BY <1>1, <1>2, <2>1, CancelledKeeps
<1>3. CASE ~Cancelled0
  <2>1. /\ runner.at = "work" /\ runner.done \in Nat /\ runner.done < Stages
        /\ init_job.completed = runner.done /\ Stages \in Nat
        /\ runner.steps = RowsOf(done)
        /\ init_job.status \in Cancelling \cup {"running", "paused"}
    BY StepsAssumption DEF CheckpointStage, SInv, RunTypesOK, RunOK, Busy, JobLoaded, Runner
  <2>2. done \in 1..Stages /\ done \in Nat
    BY <2>1
  <2>3. p \in 0..Full
    <3>1. p \in Nat /\ p <= Stages * Parts
      BY <2>1, <2>2, PartsMonotone
    <3> QED  BY <1>1, <3>1 DEF Full
  <2>4. Larger(init_job.progress, p) \in 0..Full /\ Larger(init_job.progress, p) >= init_job.progress
    BY <1>1, <2>3 DEF Larger
  <2>5. /\ init_job' = [init_job EXCEPT !.completed = done,
                          !.progress = Larger(init_job.progress, p)]
        /\ job_steps' = Moved(runner.steps, {done}, StepStatuses, "succeeded")
        /\ runner' = [runner EXCEPT !.at = "boundary", !.done = done, !.steps = {}]
        /\ UNCHANGED <<repos, eager, restarts>>
    BY <1>3 DEF CheckpointStage, SInv, RunTypesOK, JobRow
  <2>6. /\ init_job' \in JobRow /\ init_job'.completed = done
        /\ init_job'.status = init_job.status
        /\ init_job'.progress >= init_job.progress
    <3>1. done \in 0..Stages
      BY <2>2
    <3> HIDE DEF done, p
    <3> QED  BY <2>4, <2>5, <3>1 DEF SInv, RunTypesOK, JobRow
  <2>7. runner' \in Runner /\ runner'.at = "boundary" /\ runner'.done = done
    <3>1. done \in 0..Stages
      BY <2>2
    <3> HIDE DEF done
    <3> QED  BY <2>5, <3>1 DEF SInv, RunTypesOK, Runner
  <2>8. /\ job_steps' \in [Repos -> [1..Stages -> StepStatuses]]
        /\ \A r \in Repos, s \in 1..Stages : job_steps'[r][s] =
             IF s = done /\ job_steps[r][s] # "none" THEN "succeeded" ELSE job_steps[r][s]
    <3>1. "succeeded" \in StepStatuses
      BY DEF StepStatuses
    <3>2. \A r \in Repos, s \in 1..Stages : job_steps[r][s] \in StepStatuses
      BY DEF SInv, RunTypesOK
    <3> QED  BY <2>1, <2>5, <3>1, <3>2, MovedRows DEF SInv, RowsOf
  <2>9. RunTypesOK'
    BY <2>5, <2>6, <2>7, <2>8 DEF SInv, RunTypesOK
  <2>10. RunOK' /\ PauseOK'
    BY <2>1, <2>6, <2>7 DEF RunOK, PauseOK, Busy, JobLoaded
  <2>11. RowsOK'
    BY <2>8 DEF SInv, RowsOK
  <2>12. StepsFollowCheckpoint'
    <3>1. ASSUME NEW r \in Repos, NEW s \in 1..Stages, s <= done,
                 NEW t \in 1..s, job_steps'[r][t] = "succeeded"
          PROVE  job_steps'[r][s] = "succeeded"
      <4>1. t \in 1..Stages /\ (s < done \/ s = done)
        BY <2>1, <2>2, <3>1
      <4>2. CASE s = done
        <5>1. job_steps[r][t] # "none"
          BY <2>8, <3>1, <4>1
        <5>2. job_steps[r][s] # "none"
          BY <4>1, <5>1 DEF SInv, RowsOK
        <5> QED  BY <2>8, <4>2, <5>2
      <4>3. CASE s < done
        <5>1. s # done /\ t # done /\ s <= init_job.completed
          BY <2>1, <4>1, <4>3
        <5> QED  BY <2>8, <3>1, <4>1, <5>1 DEF SInv, StepsFollowCheckpoint
      <4> QED  BY <4>1, <4>2, <4>3
    <3>2. ASSUME NEW r \in Repos, NEW s \in 1..Stages, job_steps'[r][s] = "succeeded"
          PROVE  s <= done
      BY <2>1, <2>8, <3>2 DEF SInv, StepsFollowCheckpoint
    <3>3. ASSUME NEW r \in Repos, NEW s \in 1..Stages, s <= done
          PROVE  job_steps'[r][s] \in {"succeeded", "queued", "none"}
      BY <2>1, <2>8, <3>3 DEF SInv, StepsFollowCheckpoint
    <3> QED  BY <2>6, <3>1, <3>2, <3>3 DEF StepsFollowCheckpoint
  <2> QED  BY <2>6, <2>9, <2>10, <2>11, <2>12 DEF SInv
<1> QED  BY <1>2, <1>3

\* A stage that raises, and the start of a worker that died, fail steps that are
\* not in the checkpoint.
LEMMA FailuresKeep ==
  ASSUME SInv, StageRaises \/ RestartWorker
  PROVE  SInv' /\ init_job'.progress >= init_job.progress
<1>1. init_job.progress \in Int /\ init_job.completed \in Nat /\ Stages \in Nat
  BY StepsAssumption DEF SInv, RunTypesOK, JobRow
<1>2. CASE StageRaises /\ Cancelled0
  <2>1. UNCHANGED <<repos, job_steps, eager, restarts>>
    BY <1>2 DEF StageRaises, Cancelled0
  <2> QED  BY <1>1, <1>2, <2>1, CancelledKeeps
<1>3. CASE StageRaises /\ ~Cancelled0
  <2>1. /\ init_job' \in JobRow /\ init_job'.completed = init_job.completed
        /\ init_job'.progress = init_job.progress
    BY <1>3, StatusSet DEF StageRaises, SInv
  <2>2. runner' \in Runner /\ RunOK' /\ PauseOK'
    BY <1>3, ThreadReturns DEF StageRaises
  <2>3. \A s \in StepsOfCurrentStage : s > init_job.completed
    <3>1. init_job.current_stage \in {init_job.completed + 1, Detail}
      BY <1>3 DEF StageRaises, SInv, RunOK, JobLoaded
    <3> QED  BY <1>1, <3>1 DEF StepsOfCurrentStage, Detail
  <2>4. /\ job_steps' \in [Repos -> [1..Stages -> StepStatuses]]
        /\ RowsOK' /\ StepsFollowCheckpoint'
    BY <1>3, <2>1, <2>3, UnfinishedKeeps DEF StageRaises
  <2>5. RunTypesOK'
    BY <1>3, <2>1, <2>2, <2>4 DEF StageRaises, SInv, RunTypesOK
  <2> QED  BY <1>1, <2>1, <2>2, <2>4, <2>5 DEF SInv
<1>4. CASE RestartWorker
  <2>1. runner' \in Runner /\ RunOK' /\ PauseOK'
    BY <1>4, ThreadReturns DEF RestartWorker
  <2>2. restarts' \in 0..MaxRestarts /\ UNCHANGED <<repos, eager>>
    BY <1>4, StepsAssumption DEF RestartWorker, SInv, RunTypesOK
  <2>3. /\ init_job' \in JobRow /\ init_job'.completed = init_job.completed
        /\ init_job'.progress = init_job.progress
    BY <1>4, StatusSet DEF RestartWorker, SInv, RunTypesOK, Cancelling
  <2>4. CASE UNCHANGED job_steps
    <3>1. RunTypesOK'
      BY <2>1, <2>2, <2>3, <2>4 DEF SInv, RunTypesOK
    <3> QED  BY <1>1, <2>1, <2>3, <2>4, <3>1, RowsKeptKeeps DEF SInv, RowsKept
  <2>5. CASE job_steps' = Moved(Repos, 1..Stages, {"running"}, "failed")
    <3>1. \A r \in Repos, s \in 1..Stages : job_steps[r][s] = "running" =>
            s > init_job.completed
      BY <1>1 DEF SInv, StepsFollowCheckpoint
    <3>2. /\ job_steps' \in [Repos -> [1..Stages -> StepStatuses]]
          /\ RowsOK' /\ StepsFollowCheckpoint'
      BY <2>3, <2>5, <3>1, UnfinishedKeeps
    <3>3. RunTypesOK'
      BY <2>1, <2>2, <2>3, <3>2 DEF SInv, RunTypesOK
    <3> QED  BY <1>1, <2>1, <2>3, <3>2, <3>3 DEF SInv
  <2> QED  BY <1>4, <2>4, <2>5 DEF RestartWorker
<1> QED  BY <1>2, <1>3, <1>4

\* Handlers of the API that write the status alone.
LEMMA StatusKeeps ==
  ASSUME SInv, Pause \/ Resume \/ RequestCancel
  PROVE  SInv' /\ init_job'.progress >= init_job.progress
<1>1. init_job.progress \in Int
  BY DEF SInv, RunTypesOK, JobRow
<1>2. /\ init_job' \in JobRow /\ init_job'.completed = init_job.completed
      /\ init_job'.progress = init_job.progress
      /\ init_job'.current_stage = init_job.current_stage
  BY StatusSet DEF Pause, Resume, RequestCancel, SInv, RunTypesOK, Cancelling
<1>3. UNCHANGED <<repos, job_steps, runner, restarts>>
  BY DEF Pause, Resume, RequestCancel
<1>4. RunTypesOK'
  BY <1>2, <1>3 DEF Pause, Resume, RequestCancel, SInv, RunTypesOK
<1>5. Busy => init_job'.status \in Cancelling \cup {"running", "paused"}
  <2>1. Resting.at = "idle"
    BY DEF Resting
  <2>2. CASE Pause
    BY <2>2, StatusSet DEF Pause, SInv, RunTypesOK
  <2>3. CASE Resume
    BY <2>1, <2>3 DEF Resume, Busy
  <2>4. CASE RequestCancel
    BY <2>4, StatusSet DEF RequestCancel, SInv, RunTypesOK, Cancelling
  <2> QED  BY <2>2, <2>3, <2>4
<1>6. RunOK'
  BY <1>2, <1>3, <1>5 DEF SInv, RunOK, Busy, JobLoaded, RowsOf
<1>7. PauseOK'
  <2>1. Resting.at = "idle"
    BY DEF Resting
  <2>2. CASE Pause
    BY <2>2 DEF Pause, PauseOK
  <2>3. CASE Resume
    BY <2>1, <2>3 DEF Resume, PauseOK
  <2>4. CASE RequestCancel
    BY <2>4, StatusSet DEF RequestCancel, SInv, RunTypesOK, Cancelling, PauseOK
  <2> QED  BY <2>2, <2>3, <2>4
<1> QED  BY <1>1, <1>2, <1>3, <1>4, <1>6, <1>7, RowsKeptKeeps DEF SInv, RowsKept

\* retry() queues the failed steps again, none of them in the checkpoint.
LEMMA RetryKeeps ==
  ASSUME SInv, RetryRun
  PROVE  SInv' /\ init_job'.progress >= init_job.progress
<1>1. init_job.progress \in Int /\ init_job.completed \in Nat /\ Stages \in Nat
  BY StepsAssumption DEF SInv, RunTypesOK, JobRow
<1>2. /\ init_job' \in JobRow /\ init_job'.completed = init_job.completed
      /\ init_job'.progress = init_job.progress
  <2> DEFINE n == init_job.retry_count + 1
  <2>1. n \in 0..MaxRetries0
    BY StepsAssumption DEF RetryRun, SInv, RunTypesOK, JobRow
  <2>2. init_job' = [init_job EXCEPT !.status = "queued", !.retry_count = n]
    BY DEF RetryRun
  <2> HIDE DEF n
  <2> QED  BY <2>1, <2>2 DEF SInv, RunTypesOK, JobRow
<1>3. Resting.at = "idle"
  BY DEF Resting
<1>4. RunOK' /\ PauseOK'
  BY <1>3 DEF RetryRun, RunOK, PauseOK, Busy, JobLoaded
<1>5. \A r \in Repos, s \in 1..Stages : job_steps[r][s] = "failed" =>
        s > init_job.completed
  BY <1>1 DEF SInv, StepsFollowCheckpoint
<1>6. /\ job_steps' \in [Repos -> [1..Stages -> StepStatuses]]
      /\ RowsOK' /\ StepsFollowCheckpoint'
  BY <1>2, <1>5, UnfinishedKeeps DEF RetryRun
<1>7. RunTypesOK'
  BY <1>2, <1>6 DEF RetryRun, SInv, RunTypesOK
<1> QED  BY <1>1, <1>2, <1>4, <1>6, <1>7 DEF SInv

\* A new repository has no rows yet.
LEMMA AddKeeps ==
  ASSUME SInv, NEW r \in Repos, AddRepository(r)
  PROVE  SInv' /\ init_job'.progress >= init_job.progress
<1>1. init_job.progress \in Int
  BY DEF SInv, RunTypesOK, JobRow
<1>2. UNCHANGED <<init_job, job_steps, runner, eager, restarts>>
  BY DEF AddRepository
<1>3. RunTypesOK' /\ RunOK' /\ PauseOK'
  BY <1>2 DEF AddRepository, SInv, RunTypesOK, RunOK, PauseOK, Busy, JobLoaded, RowsOf
<1> QED  BY <1>1, <1>2, <1>3, RowsKeptKeeps DEF SInv, RowsKept

\* The strengthened invariant is inductive, and no step takes progress back.
LEMMA SInvInductive ==
  SInv /\ [StepsNext]_stepVars => SInv' /\ init_job'.progress >= init_job.progress
<1> SUFFICES ASSUME SInv, [StepsNext]_stepVars
             PROVE  SInv' /\ init_job'.progress >= init_job.progress
  OBVIOUS
<1>1. CASE StepsNext
  BY <1>1, MovesKeep, BeginKeeps, StartKeeps, ReportKeeps, CheckpointKeeps, FailuresKeep,
     StatusKeeps, RetryKeeps, AddKeeps DEF StepsNext
<1>2. CASE UNCHANGED stepVars
  <2>1. init_job.progress \in Int
    BY DEF SInv, RunTypesOK, JobRow
  <2> QED
    BY <1>2, <2>1
    DEF stepVars, SInv, RunTypesOK, RunOK, PauseOK, RowsOK, StepsFollowCheckpoint, Busy, JobLoaded, RowsOf
<1> QED  BY <1>1, <1>2

\* The strengthened invariant holds in every reachable state.
THEOREM AlwaysSInv == StepsSpec => []SInv
  BY InitSInv, SInvInductive, PTL DEF StepsSpec

\* service.run: in every order of failures, pauses, retries, restarts and new
\* repositories a step row has succeeded exactly when its stage is in the checkpoint,
\* repositories that joined later excepted.
THEOREM RowsFollowCheckpoint == StepsSpec => []StepsFollowCheckpoint
<1>1. SInv => StepsFollowCheckpoint
  BY DEF SInv
<1> QED  BY <1>1, AlwaysSInv, PTL

\* _report: the progress of an initialization never goes back.
THEOREM ProgressGoesOn == StepsSpec => ProgressNeverBack
<1>1. SInv /\ [StepsNext]_stepVars => [init_job'.progress >= init_job.progress]_stepVars
  BY SInvInductive
<1> QED  BY <1>1, AlwaysSInv, PTL DEF StepsSpec, ProgressNeverBack

\* pause: a paused initialization starts at most one more stage.
THEOREM PausedStops == StepsSpec => []PauseStopsSoon
<1>1. SInv => PauseStopsSoon
  BY DEF SInv, RunTypesOK, PauseStopsSoon
<1> QED  BY <1>1, AlwaysSInv, PTL
=============================================================================
