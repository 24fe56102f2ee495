-------------------------------- MODULE Recall --------------------------------
(***************************************************************************)
(* How memory_context (packages/retrieval/service.py) gets from a question *)
(* to the few memories it returns: _infer_scope settles the project and    *)
(* the primary repository, the memories of the project are scored and      *)
(* split into an active and a tentative tier, and each tier is cut down to *)
(* what is relevant, distinct and short.                                   *)
(*                                                                         *)
(* Scores are floating point sums of term overlaps; a candidate is named   *)
(* here by its place in the resulting order, so 1 is the best.  Of the     *)
(* terms only the hits that the relevance gate counts and which titles     *)
(* share two words are kept.  The scope weighs repositories and so only    *)
(* moves candidates about, which the numbering covers: the two halves are  *)
(* stated as one step each, for every question and for every listing.      *)
(***************************************************************************)
EXTENDS FiniteSets, Integers, Sequences, SequencesExt

CONSTANTS
  Projects, Repositories,  \* repositories are numbered, as their ids are
  OwnerOf,        \* project of each repository
  Names, NameOf,  \* name of each repository, unique inside a project
  Affinities,     \* levels of agreement between question and repository name
  HintFloor,      \* recall_hint_affinity_floor
  Candidates,     \* how many memories the project has
  Hits,           \* numbers of question terms a memory may contain
  RatioInverse,   \* 1 / recall_signal_ratio
  MinHits,        \* the fewest hits whose gate score is recall_signal_floor
  PoolSize,       \* recall_pool_size
  TopK            \* recall_top_k

ASSUME RecallAssumption ==
  /\ Repositories \subseteq Nat \ {0} /\ IsFiniteSet(Repositories)
  /\ OwnerOf \in [Repositories -> Projects]
  /\ NameOf \in [Repositories -> Names]
  /\ \A r, s \in Repositories :
       OwnerOf[r] = OwnerOf[s] /\ NameOf[r] = NameOf[s] => r = s
  /\ Affinities \subseteq Nat /\ Hits \subseteq Nat
  /\ {HintFloor, MinHits, Candidates, RatioInverse, PoolSize, TopK} \subseteq Nat \ {0}

None == "none"    \* an argument left out, or a reference nothing matches

VARIABLES
  question,   \* the arguments of memory_context that decide the scope
  scope,      \* what _infer_scope made of them, nothing when it raised
  listing,    \* what the memories of the project look like to the question
  shortlist   \* the memories returned, best first

recallVars == <<question, scope, listing, shortlist>>

\* A reference to a repository is text: digits may be an id, a name or both.
Question ==
  [project    : Projects \cup {None},
   repository : [id : Repositories \cup {0}, name : Names \cup {None}],
   affinity   : [Repositories -> Affinities],  \* words shared with its name
   weight     : [Projects -> Affinities],      \* words shared with any name
   keep       : BOOLEAN]                       \* recall_keep_hint_primary

Scope == [project : Projects, primary : Repositories, switched : BOOLEAN]
-----------------------------------------------------------------------------
(***************************************************************************)
(* _infer_scope                                                            *)
(***************************************************************************)

Of(p) == {r \in Repositories : OwnerOf[r] = p}

\* _repository_candidates: over all projects, by id or by name.
Named(ref) == {r \in Repositories : r = ref.id \/ NameOf[r] = ref.name}

\* _hinted_repository: the reference inside one project, ids before names.
Hinted(p, ref) == IF ref.id \in Of(p) THEN {ref.id} ELSE Named(ref) \cap Of(p)

\* The project whose names share the most words with the question; a draw or
\* no shared word decides nothing.
ClearWinner(q) ==
  {p \in Projects : /\ q.weight[p] > 0
                    /\ \A o \in Projects \ {p} : q.weight[o] < q.weight[p]}

Owners(R) == {OwnerOf[r] : r \in R}

ProjectFirst(q) ==
  IF q.project \in Projects THEN {q.project} ELSE Owners(Named(q.repository))

\* _infer_project as a set: empty when it raises.
InferProject(q) ==
  LET named == Named(q.repository)
  IN  IF Cardinality(named) = 1 THEN Owners(named)
      ELSE IF q.project \in Projects THEN {q.project}
      ELSE IF named # {} THEN {}
      ELSE IF Cardinality(Projects) = 1 THEN Projects
      ELSE ClearWinner(q)

Affinity(q, p, r) ==
  IF r \in Hinted(p, q.repository) /\ q.affinity[r] < HintFloor
  THEN HintFloor ELSE q.affinity[r]

\* The repository whose name fits best; of several the hinted, then the one
\* with the lowest id.
BestFit(q, p) ==
  LET top  == {r \in Of(p) : \A s \in Of(p) : Affinity(q, p, s) <= Affinity(q, p, r)}
      hint == top \cap Hinted(p, q.repository)
      best == IF hint = {} THEN top ELSE hint
  IN  CHOOSE r \in best : \A s \in best : r <= s

Lowest(p) == CHOOSE r \in Of(p) : \A s \in Of(p) : r <= s

Primary(q, p) ==
  LET hint == Hinted(p, q.repository)
  IN  CASE hint # {} /\ (q.keep \/ \A r \in Of(p) : Affinity(q, p, r) = 0)
                                                -> CHOOSE r \in hint : TRUE
        [] hint = {} /\ \A r \in Of(p) : Affinity(q, p, r) = 0 -> Lowest(p)
        [] OTHER                                -> BestFit(q, p)

InferScope(q) ==
  {[project |-> p, primary |-> Primary(q, p),
    switched |-> Hinted(p, q.repository) \notin {{}, {Primary(q, p)}}]
    : p \in {p \in InferProject(q) : Of(p) # {}}}

Ask ==
  /\ question = {} /\ listing = {}
  /\ \E q \in Question : question' = {q} /\ scope' = InferScope(q)
  /\ UNCHANGED <<listing, shortlist>>
-----------------------------------------------------------------------------
(***************************************************************************)
(* The two tiers                                                           *)
(***************************************************************************)

Ranks == 1..Candidates

\* like is symmetric: the two titles share at least two words.
Listing == [status : [Ranks -> {"active", "tentative"}],
            hits   : [Ranks -> Hits],
            like   : SUBSET {S \in SUBSET Ranks : Cardinality(S) = 2}]

Tier(l, status) == {i \in Ranks : l.status[i] = status}

Best(T) == CHOOSE i \in T : \A j \in T : i <= j

\* _select_relevant: a hit, a gate score that is high enough and that is not
\* far below the one of the candidate with the best rank.  Gate scores are
\* hits over one capped number of question terms, so they compare as hits do.
SelectRelevant(l, T) ==
  LET signaled == {i \in T : l.hits[i] > 0}
  IN  {i \in signaled : /\ l.hits[i] >= MinHits
                        /\ l.hits[i] * RatioInverse >= l.hits[Best(signaled)]}

\* _deduplicate: from the best rank to the worst, the first of each family of
\* titles stays.
AddDistinct(l, i, kept) ==
  IF \E j \in kept : {i, j} \in l.like THEN kept ELSE kept \cup {i}
Deduplicate(l, T) ==
  MapThenFoldSet(LAMBDA i, kept : AddDistinct(l, i, kept), {}, LAMBDA i : i, Max, T)

CutTo(T, n) == {i \in T : Cardinality({j \in T : j < i}) < n}

DedupedFirst(l, status) ==
  CutTo(SelectRelevant(l, Deduplicate(l, Tier(l, status))), PoolSize)

Shortlisted(l, status) ==
  CutTo(Deduplicate(l, SelectRelevant(l, Tier(l, status))), PoolSize)

\* _rerank_shortlist adds a bonus for terms no other candidate has: any order.
Reranked(T) == {s \in [1..Cardinality(T) -> T] : IsInjective(s)}

FirstOf(s, n) == SubSeq(s, 1, IF Len(s) < n THEN Len(s) ELSE n)

BothTiers(l) == {FirstOf(s, TopK) : s \in
  Reranked(Shortlisted(l, "active") \cup Shortlisted(l, "tentative"))}

Recalled(l) ==
  LET active == Shortlisted(l, "active")
      tier   == IF active = {} THEN Shortlisted(l, "tentative") ELSE active
  IN  {FirstOf(s, TopK) : s \in Reranked(tier)}

RankMemories ==
  /\ question = {} /\ listing = {}
  /\ \E l \in Listing : listing' = {l} /\ shortlist' \in Recalled(l)
  /\ UNCHANGED <<question, scope>>
-----------------------------------------------------------------------------
RecallInit == question = {} /\ scope = {} /\ listing = {} /\ shortlist = <<>>

RecallNext == Ask \/ RankMemories

RecallSpec == RecallInit /\ [][RecallNext]_recallVars
-----------------------------------------------------------------------------
(***************************************************************************)
(* Properties                                                              *)
(***************************************************************************)

\* The answer is a short list of different memories.
RecallTypeOK ==
  /\ question \subseteq Question /\ scope \subseteq Scope
  /\ listing \subseteq Listing
  /\ shortlist \in Seq(Ranks)
  /\ Len(shortlist) <= TopK
  /\ \A i, j \in DOMAIN shortlist : shortlist[i] = shortlist[j] => i = j

\* memory_context: a repository the caller names without ambiguity decides
\* the project whatever project is passed along, and with keep_hint it is
\* the primary repository however well another name fits; an ambiguous name
\* is never resolved by how well the question fits; and the primary
\* repository is one of the project's, so that the session and the log of
\* the answer never pair a project with a foreign repository.
ScopeFollowsReference ==
  \A q \in question :
    /\ \A s \in scope :
         /\ OwnerOf[s.primary] = s.project
         /\ s.switched => ~q.keep
         /\ Cardinality(Named(q.repository)) = 1 =>
              /\ s.project \in Owners(Named(q.repository))
              /\ q.keep => s.primary \in Named(q.repository)
         /\ Cardinality(Named(q.repository)) > 1 => s.project = q.project
    /\ Cardinality(Named(q.repository)) = 1 => scope # {}

Relevant(l, i) == l.hits[i] >= MinHits

\* The answer never mixes tiers; tentative memories are returned only when
\* no active memory matches at all; and a question some memory matches is
\* not answered with nothing: cut-off, deduplication and the cap on the
\* pool, applied in this order, never empty a tier.
TiersNeverMix ==
  \A l \in listing :
    /\ Cardinality({l.status[i] : i \in ToSet(shortlist)}) <= 1
    /\ (\E i \in ToSet(shortlist) : l.status[i] = "tentative") =>
         \A i \in Ranks : Relevant(l, i) => l.status[i] = "tentative"
    /\ (\E i \in Ranks : Relevant(l, i)) => shortlist # <<>>

\* No two titles of an answer are alike, and a memory of the tier that
\* matches as well as the best-ranked one is left out only for a reason: a
\* better-ranked memory of its tier with a like title, or a full list or pool.
NothingLostToLikeness ==
  \A l \in listing :
    LET R == ToSet(shortlist)
    IN  /\ \A i, j \in R : {i, j} \notin l.like
        /\ R # {} /\ Len(shortlist) < TopK /\ Len(shortlist) < PoolSize =>
             \A i \in Ranks \ R :
               (/\ l.status[i] = l.status[shortlist[1]]
                /\ \A j \in Ranks : l.hits[i] >= l.hits[j])
               /\ Relevant(l, i)
               => \E j \in R : j < i /\ {i, j} \in l.like
=============================================================================
