-------------------------- MODULE EvidenceExtraction --------------------------
(***************************************************************************)
(* From the history of a repository to its first memories.  import_history *)
(* (packages/gitlab/sync.py) puts the commits into clusters, stores one    *)
(* evidence per cluster and has an LLM extract at most one memory from     *)
(* each (packages/evidence/service.py, packages/llm/provider.py); a        *)
(* release change gets an evidence and a memory of its own.  The history   *)
(* job, the initialization and release changes may do so at the same time. *)
(*                                                                         *)
(* Commits are numbered by commit date and pushed in that order.  The      *)
(* source_id of a cluster names its bucket and its last commit, so the     *)
(* last commit identifies it here; -c is the evidence of the release       *)
(* change of commit c.                                                     *)
(***************************************************************************)
EXTENDS FiniteSets, Integers, Sequences

CONSTANTS
  MaxCommits,   \* bound on the commits of the history
  Bucket,       \* function on 1..MaxCommits: month and lane of a commit
  ClusterSize,  \* MAX_CLUSTER_COMMITS
  BatchSize,    \* EXTRACT_BATCH_SIZE
  Limits,       \* the limits an import may be given
  Releases,     \* commits that are also analysed as release changes
  Extractors,   \* worker threads
  MaxAttempts   \* bound on the imports and analyses started

Commits  == 1..MaxCommits
Sources  == Commits \cup {-c : c \in Releases}

ASSUME ExtractionAssumption ==
  /\ {MaxCommits, ClusterSize, BatchSize} \subseteq Nat \ {0}
  /\ Limits \subseteq Nat /\ MaxAttempts \in Nat
  /\ Releases \subseteq Commits
  /\ DOMAIN Bucket = Commits

VARIABLES
  pushed,      \* commits 1..pushed are in the mirror
  evidence,    \* rows of evidence: source, commits and which window they saw
  extracted,   \* number of memories made from each evidence
  extractor,   \* what each worker is doing
  contested,   \* history: evidence two workers were extracting at once
  attempts     \* imports and analyses started so far

extractionVars == <<pushed, evidence, extracted, extractor, contested, attempts>>

EvidenceRow == [source : Sources, shas : SUBSET Commits, full : BOOLEAN]

\* drafts is the last batch's answer: <<e, f>> when e was given what the LLM
\* said of f.  Which drafts are there only decides which of the pending are
\* asked for again, and StoreDrafts may keep any of them.
ExtractorState ==
  [at : {"idle", "collect", "extract", "analyse"}, full : BOOLEAN,
   todo : SUBSET SUBSET Commits, pending : SUBSET Sources,
   left : SUBSET Sources, drafts : SUBSET (Sources \X Sources)]

NoImport == [at |-> "idle", full |-> FALSE, todo |-> {}, pending |-> {},
             left |-> {}, drafts |-> {}]

ExtractionInit ==
  /\ pushed    = 0
  /\ evidence  = {}
  /\ extracted = [e \in Sources |-> 0]
  /\ extractor = [x \in Extractors |-> NoImport]
  /\ contested = {}
  /\ attempts  = 0

Latest(S) == CHOOSE c \in S : \A d \in S : d <= c
First(S)  == CHOOSE c \in S : \A d \in S : c <= d
-----------------------------------------------------------------------------
(***************************************************************************)
(* build_clusters                                                          *)
(***************************************************************************)

\* The commits an import reads: the newest `limit' ones.
Window(limit) == {c \in 1..pushed : c > pushed - limit}

\* Bucket by bucket, oldest first, at most ClusterSize commits each.
RankFromNewest(c, W) == Cardinality({d \in W : d > c /\ Bucket[d] = Bucket[c]})
Rank(c, W) == Cardinality({d \in W : d < c /\ Bucket[d] = Bucket[c]})

ClusterOf(c, W) == {d \in W : /\ Bucket[d] = Bucket[c]
                              /\ Rank(d, W) \div ClusterSize =
                                 Rank(c, W) \div ClusterSize}

Clusters(W) == {ClusterOf(c, W) : c \in W}

Push ==
  /\ pushed < MaxCommits
  /\ pushed' = pushed + 1
  /\ UNCHANGED <<evidence, extracted, extractor, contested, attempts>>

\* import_history up to build_clusters.
StartImport(x, limit) ==
  /\ extractor[x].at = "idle"
  /\ attempts < MaxAttempts
  /\ attempts' = attempts + 1
  /\ pushed > 0
  /\ extractor' = [extractor EXCEPT ![x] =
       [NoImport EXCEPT !.at = "collect", !.full = Window(limit) = 1..pushed,
                        !.todo = Clusters(Window(limit))]]
  /\ UNCHANGED <<pushed, evidence, extracted, contested>>

Stored(e) == \E row \in evidence : row.source = e

\* One cluster: create_external_evidence returns the stored evidence of that
\* source or inserts one; the progress report commits it.
Collect(x, K) ==
  /\ extractor[x].at = "collect"
  /\ K \in extractor[x].todo
  /\ extractor' = [extractor EXCEPT ![x].todo = @ \ {K},
                                    ![x].pending = @ \cup {Latest(K)}]
  /\ evidence' = IF Stored(Latest(K)) THEN evidence
                 ELSE evidence \cup {[source |-> Latest(K), shas |-> K,
                                      full |-> extractor[x].full]}
  /\ UNCHANGED <<pushed, extracted, contested, attempts>>

\* A cluster without files or without a diff.
SkipCluster(x, K) ==
  /\ extractor[x].at = "collect"
  /\ K \in extractor[x].todo
  /\ extractor' = [extractor EXCEPT ![x].todo = @ \ {K}]
  /\ UNCHANGED <<pushed, evidence, extracted, contested, attempts>>

ExtractedByOthers(x) == UNION {extractor[y].pending : y \in
  {y \in Extractors \ {x} : extractor[y].at \in {"extract", "analyse"}}}

AnyEvidence(e) == TRUE
NotYetExtracted(e) == extracted[e] = 0     \* ~_has_memory

\* candidates_from_evidence up to the batches.
Filter(x) ==
  LET pending == {e \in extractor[x].pending : NotYetExtracted(e)}
  IN  /\ extractor[x].at = "collect"
      /\ extractor[x].todo = {}
      /\ extractor' = [extractor EXCEPT ![x].at = "extract",
                         ![x].pending = pending, ![x].left = pending]
      /\ contested' = contested \cup (pending \cap ExtractedByOthers(x))
      /\ UNCHANGED <<pushed, evidence, extracted, attempts>>
-----------------------------------------------------------------------------
(***************************************************************************)
(* The LLM's answer to a batch (extract_signals, and compare_memory_pairs  *)
(* in the same way)                                                        *)
(***************************************************************************)

\* Index of item e in batch B, from 0, and the item with a given index.
IndexIn(B, e) == Cardinality({f \in B : f < e})
ItemAt(B, i)  == CHOOSE e \in B : IndexIn(B, e) = i

\* A response is a sequence of items the model has labelled with an index;
\* what it says under a label is about the item of that label.  Labels may
\* be missing, repeated or out of range.
Responses(B) == UNION {[1..n -> 0..Cardinality(B)] : n \in 0..Cardinality(B)}
Labels(r)    == {r[i] : i \in DOMAIN r}

\* by_index covers the batch; otherwise the batch is given up (a count that
\* does not match, or a KeyError) and every item is asked for alone.
Complete(B, r) == Labels(r) = 0..(Cardinality(B) - 1)

ByPosition(B, r) == {<<e, ItemAt(B, r[IndexIn(B, e) + 1])>> : e \in B}
ByIndex(B, r)    == {<<e, ItemAt(B, IndexIn(B, e))>> : e \in B}

\* What a batch comes to; item by item, an answer is about that item.
DraftsFor(B, r) == IF Complete(B, r) THEN ByIndex(B, r)
                                     ELSE {<<e, e>> : e \in B}

\* One batch of the thread pool.  Batches share nothing and are joined
\* before anything is stored, so they are taken one after the other.
Batch(x, B) ==
  /\ extractor[x].at = "extract"
  /\ B # {}
  /\ Cardinality(B) = BatchSize \/ B = extractor[x].left
  /\ Cardinality(B) <= BatchSize
  /\ \E D \in {DraftsFor(B, r) : r \in Responses(B)} :
       extractor' = [extractor EXCEPT ![x].left = @ \ B, ![x].drafts = D]
  /\ UNCHANGED <<pushed, evidence, extracted, contested, attempts>>

\* The rest: a missing draft is asked for once more; what the LLM does not
\* skip is stored, all of it with the one commit after the loop.
StoreDrafts(x) ==
  /\ extractor[x].at = "extract"
  /\ extractor[x].left = {}
  /\ \E kept \in SUBSET extractor[x].pending :
       extracted' = [e \in Sources |-> IF e \in kept THEN extracted[e] + 1
                                       ELSE extracted[e]]
  /\ extractor' = [extractor EXCEPT ![x] = NoImport]
  /\ UNCHANGED <<pushed, evidence, contested, attempts>>

\* Cancellation, an exception, a unique violation (the same evidence or the
\* same new topic from two workers) or the end of the process: what was not
\* committed is lost.
GiveUp(x) ==
  /\ extractor[x].at # "idle"
  /\ extractor' = [extractor EXCEPT ![x] = NoImport]
  /\ UNCHANGED <<pushed, evidence, extracted, contested, attempts>>
-----------------------------------------------------------------------------
(***************************************************************************)
(* process_release_change: evidence and memory in one transaction          *)
(***************************************************************************)

\* create_release_evidence and the tests of candidate_from_evidence.
StartAnalysis(x, c) ==
  /\ extractor[x].at = "idle"
  /\ attempts < MaxAttempts
  /\ attempts' = attempts + 1
  /\ c <= pushed
  /\ NotYetExtracted(-c)
  /\ extractor' = [extractor EXCEPT ![x] =
       [NoImport EXCEPT !.at = "analyse", !.pending = {-c},
                        !.left = IF Stored(-c) THEN {} ELSE {-c}]]
  /\ contested' = contested \cup ({-c} \cap ExtractedByOthers(x))
  /\ UNCHANGED <<pushed, evidence, extracted>>

\* Its commit, with a memory unless the change is unimportant or the LLM
\* skips it.  An evidence to be inserted must still be missing.
StoreAnalysis(x) ==
  LET s == extractor[x]
  IN  /\ s.at = "analyse"
      /\ \A e \in s.left : ~Stored(e)
      /\ evidence' = evidence \cup
           {[source |-> e, shas |-> {-e}, full |-> FALSE] : e \in s.left}
      /\ \E kept \in SUBSET s.pending :
           extracted' = [e \in Sources |-> IF e \in kept THEN extracted[e] + 1
                                           ELSE extracted[e]]
      /\ extractor' = [extractor EXCEPT ![x] = NoImport]
      /\ UNCHANGED <<pushed, contested, attempts>>

ExtractionNext ==
  \/ Push
  \/ \E x \in Extractors :
       \/ \E limit \in Limits : StartImport(x, limit)
       \/ \E K \in extractor[x].todo : Collect(x, K) \/ SkipCluster(x, K)
       \/ Filter(x)
       \/ \E B \in SUBSET extractor[x].left : Batch(x, B)
       \/ StoreDrafts(x)
       \/ \E c \in Releases : StartAnalysis(x, c)
       \/ StoreAnalysis(x)
       \/ GiveUp(x)

ExtractionSpec == ExtractionInit /\ [][ExtractionNext]_extractionVars
-----------------------------------------------------------------------------
(***************************************************************************)
(* Properties                                                              *)
(***************************************************************************)

\* Type invariant; an extracted evidence is bounded by the workers, each of
\* which can pass the test once before the first memory is seen.
ExtractionTypeOK ==
  /\ pushed    \in 0..MaxCommits
  /\ evidence  \subseteq EvidenceRow
  /\ extracted \in [Sources -> Nat]
  /\ extractor \in [Extractors -> ExtractorState]
  /\ contested \subseteq Sources
  /\ attempts  \in 0..MaxAttempts

\* An evidence yields one memory (evidence/service.py:151 and :174), however
\* often it is imported, retried or analysed again; only two workers that
\* extract it at the same time make two.
OneMemoryPerEvidence ==
  \A e \in Sources : extracted[e] > 1 => e \in contested

\* Nobody is given the answer about somebody else, whatever labels the LLM
\* uses and however many items it returns (provider.py:279).
AnswersMatch ==
  \A x \in Extractors : \A d \in extractor[x].drafts : d[1] = d[2]

\* Importing a history again repeats commits only where a cluster has grown:
\* two evidences of full imports that share a commit begin with the same
\* commit, and one of them was not full yet (clusters.py:81).  A full cluster
\* keeps its source_id for ever.
OnlyOpenClustersGrow ==
  \A a, b \in evidence :
    a # b /\ a.full /\ b.full /\ a.shas \cap b.shas # {} =>
      /\ First(a.shas) = First(b.shas)
      /\ Cardinality(a.shas) < ClusterSize \/ Cardinality(b.shas) < ClusterSize
=============================================================================
