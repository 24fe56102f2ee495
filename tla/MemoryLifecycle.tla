--------------------------- MODULE MemoryLifecycle ---------------------------
(***************************************************************************)
(* The memories of one project once they have been extracted: the Dream    *)
(* runs and the polish run that rewrite, promote and merge them with the   *)
(* help of an LLM, and the administrator who corrects them and reverts     *)
(* what a run did (packages/dreaming, packages/memory and the endpoints    *)
(* of apps/api/main.py).                                                   *)
(*                                                                         *)
(* A run works for minutes on the objects of its session.  SessionLocal    *)
(* neither expires nor refreshes them (packages/common/db.py:19), so it    *)
(* decides on the row as it was when it was first loaded (`copy') plus its *)
(* own changes, and an UPDATE carries only the columns that differ from    *)
(* that copy.  Audit rows and evidence links are queried each time.        *)
(***************************************************************************)
EXTENDS FiniteSets, Naturals

CONSTANTS
  Memories,     \* ids of the memories table
  Dreamers,     \* worker threads that run dream and polish jobs
  Admins,       \* API request threads of administrators
  DreamTypes,   \* the types of Dream that are run, a subset of AllDreamTypes
  Confidences,  \* values of the column confidence, in percent
  MaxRuns,      \* bound on the runs started
  MaxEdits      \* bound on the corrections, reverts and deletions started

AllDreamTypes == {"incremental", "manual", "genesis", "full_validation"}

ASSUME MemoryAssumption ==
  /\ DreamTypes \subseteq AllDreamTypes
  /\ Confidences \subseteq 0..100 /\ Confidences # {}
  /\ {MaxRuns, MaxEdits} \subseteq Nat

VARIABLES
  memory,     \* rows: status, text (who wrote it) and confidence
  backed,     \* memories with a row in memory_evidence
  corrected,  \* memories with an audit row "memory_corrected"
  changes,    \* rows of dream_changes
  dreamer,    \* the session of each run in progress
  admin,      \* the session of each request in progress
  runs,       \* runs started so far
  edits       \* corrections, reverts and deletions started so far

memoryVars == <<memory, backed, corrected, changes, dreamer, admin, runs, edits>>
-----------------------------------------------------------------------------
\* The column status; "absent" says there is no row.
MemoryStatuses == {"absent", "candidate", "tentative", "active", "deprecated",
                   "archived", "rejected"}

Live       == {"candidate", "tentative", "active"}  \* what a Dream loads
Recallable == {"tentative", "active"}               \* what an agent is given

Row == [status : MemoryStatuses, text : {"extracted", "llm", "human"},
        confidence : Confidences]

\* A memory as extraction leaves it: candidate from a release change,
\* tentative from the imported history.
Fresh == [status : {"candidate", "tentative"}, text : {"extracted"},
          confidence : Confidences]

\* `known' and `proof' are history: what was corrected and what had
\* evidence when the run began.
Dreamer == [at : {"idle", "group", "write", "promote", "compact", "validate",
                  "polish", "draft"},
            type : AllDreamTypes, copy : [Memories -> Row], list : SUBSET Memories,
            todo : SUBSET Memories, pairs : SUBSET SUBSET Memories,
            target : SUBSET Memories, supersede : BOOLEAN,
            removed : SUBSET Memories, used : SUBSET Memories,
            llm : {"unused", "failed", "answered"},
            known : SUBSET Memories, proof : SUBSET Memories]

Change == [memory : Memories, action : {"skip_llm", "propose", "update",
             "supersede", "promote", "compact", "conflict", "validate"},
           keeper : SUBSET Memories, before : Row, reverted : BOOLEAN]

Admin == [at : {"idle", "correct", "revert"}, copy : [Memories -> Row],
          on : SUBSET Memories, status : MemoryStatuses \cup {"keep"},
          text : BOOLEAN, change : SUBSET Change, proof : SUBSET Memories]

\* ALLOWED_TRANSITIONS of packages/memory/service.py.
ReversibleMoves ==
  {<<"candidate", "tentative">>, <<"candidate", "rejected">>,
   <<"candidate", "active">>, <<"tentative", "active">>,
   <<"tentative", "rejected">>, <<"tentative", "candidate">>,
   <<"active", "deprecated">>, <<"deprecated", "archived">>,
   <<"deprecated", "active">>, <<"archived", "deprecated">>,
   <<"rejected", "candidate">>}

AllowedMoves ==
  {<<"candidate", "tentative">>, <<"candidate", "rejected">>,
   <<"candidate", "active">>, <<"tentative", "active">>,
   <<"tentative", "rejected">>, <<"tentative", "candidate">>,
   <<"active", "deprecated">>, <<"deprecated", "archived">>,
   <<"deprecated", "active">>, <<"rejected", "candidate">>}

NoRow == [status |-> "absent", text |-> "extracted",
          confidence |-> CHOOSE c \in Confidences : TRUE]

Unloaded == [m \in Memories |-> NoRow]

AtRest == [at |-> "idle", type |-> "manual", copy |-> Unloaded, list |-> {},
           todo |-> {}, pairs |-> {}, target |-> {}, supersede |-> FALSE,
           removed |-> {}, used |-> {}, llm |-> "unused", known |-> {},
           proof |-> {}]

NoEdit == [at |-> "idle", copy |-> Unloaded, on |-> {}, status |-> "keep",
           text |-> FALSE, change |-> {}, proof |-> {}]

\* Any number of memories extracted; an exploration may begin with part of
\* its bounds spent.
MemoryInit ==
  /\ memory    \in [Memories -> Fresh \cup {NoRow}]
  /\ backed    = {m \in Memories : memory[m] # NoRow}
  /\ corrected = {}
  /\ changes   = {}
  /\ dreamer   = [d \in Dreamers |-> AtRest]
  /\ admin     = [a \in Admins |-> NoEdit]
  /\ runs      \in 0..MaxRuns
  /\ edits     \in 0..MaxEdits

\* The UPDATE a session emits for a row it knows as old and has made new.
Flushed(m, old, new) ==
  [c \in DOMAIN new |-> IF new[c] # old[c] THEN new[c] ELSE memory[m][c]]

\* A row whose text is replaced, and one the LLM's draft is written to.
Reworded(row, text) == [row EXCEPT !.text = text]
Redrafted(row, c)   == [row EXCEPT !.text = "llm", !.confidence = c]

\* The objects of a session that has loaded the rows in S.
Loaded(S) == [m \in Memories |-> IF m \in S THEN memory[m] ELSE Unloaded[m]]

LiveRows == {m \in Memories : memory[m].status \in Live}

\* was_human_corrected and evidence_ids, queried whenever they are asked.
NeverCorrected(m)  == FALSE
HumanCorrected(m)  == m \in corrected
AssumedEvidence(m) == TRUE
HasEvidence(m)     == m \in backed

\* One DreamChange: a row's state before, as the session knows it.
Recorded(m, action, keeper, row) ==
  [memory |-> m, action |-> action, keeper |-> keeper, before |-> row,
   reverted |-> FALSE]

Pairs(S) == {p \in SUBSET S : Cardinality(p) = 2}

\* The status transition() gives a memory that is merged into another one.
Demoted(row) ==
  [row EXCEPT !.status = CASE @ = "active"    -> "deprecated"
                           [] @ = "tentative" -> "candidate"
                           [] OTHER           -> @]
-----------------------------------------------------------------------------
(***************************************************************************)
(* DreamService.run                                                        *)
(***************************************************************************)

\* What _synthesize_topics groups: an incremental Dream leaves active
\* memories alone.
Eligible(type) ==
  {m \in LiveRows : type = "incremental" => memory[m].status # "active"}

\* The DreamRun row and _load_memories.
StartDream(d, type) ==
  /\ dreamer[d].at = "idle"
  /\ runs < MaxRuns
  /\ runs' = runs + 1
  /\ dreamer' = [dreamer EXCEPT ![d] =
       [AtRest EXCEPT
         !.type = type, !.copy = Loaded(LiveRows), !.list = LiveRows,
         !.known = corrected, !.proof = backed,
         !.at   = IF type = "full_validation" THEN "promote" ELSE "group",
         !.todo = IF type = "full_validation"
                    THEN {m \in LiveRows :
                            memory[m].status = "candidate" /\ HasEvidence(m)}
                    ELSE Eligible(type)]]
  /\ UNCHANGED <<memory, backed, corrected, changes, admin, edits>>

\* One topic group for which the LLM gives no draft (skip_llm is recorded),
\* no decision, or NOOP.
SkipGroup(d, G) ==
  /\ dreamer[d].at = "group"
  /\ G # {} /\ G \subseteq dreamer[d].todo
  /\ \/ /\ dreamer' = [dreamer EXCEPT ![d].todo = @ \ G,
                         ![d].llm = IF @ = "answered" THEN @ ELSE "failed"]
        /\ \E m \in G : changes' = changes \cup
             {Recorded(m, "skip_llm", {}, dreamer[d].copy[m])}
     \/ /\ dreamer' = [dreamer EXCEPT ![d].todo = @ \ G, ![d].llm = "answered"]
        /\ UNCHANGED changes
  /\ UNCHANGED <<memory, backed, corrected, admin, runs, edits>>

\* The LLM decides; _apply_reconcile asks the audit log whether a human has
\* corrected the target, and then only records a proposal.
Reconcile(d, G, t, supersede) ==
  /\ dreamer[d].at = "group"
  /\ G \subseteq dreamer[d].todo /\ t \in G
  /\ IF HumanCorrected(t)
       THEN /\ changes' = changes \cup
                 {Recorded(t, "propose", {}, dreamer[d].copy[t])}
            /\ dreamer' = [dreamer EXCEPT ![d].todo = @ \ G,
                             ![d].llm = "answered"]
       ELSE /\ dreamer' = [dreamer EXCEPT ![d].todo = @ \ G,
                 ![d].llm = "answered", ![d].at = "write", ![d].target = {t},
                 ![d].supersede = supersede, ![d].removed = G \ {t}]
            /\ UNCHANGED changes
  /\ UNCHANGED <<memory, backed, corrected, admin, runs, edits>>

\* The rest of _apply_reconcile: the draft replaces the target's text and
\* confidence; SUPERSEDE demotes the other active and tentative members,
\* whoever wrote them and without a DreamChange of their own.
WriteTarget(d, c) ==
  LET s   == dreamer[d]
      new == [m \in Memories |->
                CASE m \in s.target -> Redrafted(s.copy[m], c)
                  [] m \in s.removed \ s.target /\ s.supersede -> Demoted(s.copy[m])
                  [] OTHER -> s.copy[m]]
  IN  /\ s.at = "write"
      /\ memory' = [m \in Memories |->
           IF m \in s.target THEN Reworded(Flushed(m, s.copy[m], new[m]), "llm")
                             ELSE Flushed(m, s.copy[m], new[m])]
      /\ changes' = changes \cup
           {Recorded(t, IF s.supersede THEN "supersede" ELSE "update", {},
                     s.copy[t]) : t \in s.target}
      /\ dreamer' = [dreamer EXCEPT ![d].at = "group", ![d].copy = new,
                       ![d].target = {}, ![d].removed = {},
                       ![d].supersede = FALSE]
      /\ UNCHANGED <<backed, corrected, admin, runs, edits>>

\* Every group is done (RuntimeError when the LLM failed for all of them).
\* _load_memories selects the live rows anew, but rows the session holds
\* keep their old copy; the evidence of candidates is looked up.
Reload(d) ==
  LET s    == dreamer[d]
      copy == [m \in Memories |-> IF m \in s.list THEN s.copy[m]
                                                  ELSE Loaded(LiveRows)[m]]
  IN  /\ s.at = "group" /\ s.todo = {} /\ s.llm # "failed"
      /\ dreamer' = [dreamer EXCEPT ![d].at = "promote", ![d].copy = copy,
           ![d].list = LiveRows,
           ![d].todo = {m \in LiveRows :
                          copy[m].status = "candidate" /\ HasEvidence(m)}]
      /\ UNCHANGED <<memory, backed, corrected, changes, admin, runs, edits>>

\* Candidates with evidence become tentative, and active if they are
\* trusted enough; Genesis only tidies up.
Promote(d) ==
  LET s   == dreamer[d]
      active(m) == s.type # "genesis" /\ s.copy[m].confidence >= 75
      new == [m \in Memories |->
                IF m \notin s.todo THEN s.copy[m]
                ELSE [s.copy[m] EXCEPT !.status =
                        IF active(m) THEN "active" ELSE "tentative"]]
  IN  /\ s.at = "promote"
      /\ memory' = [m \in Memories |-> Flushed(m, s.copy[m], new[m])]
      /\ changes' = changes \cup
           {Recorded(m, IF active(m) THEN "promote" ELSE "validate", {},
                     s.copy[m]) : m \in s.todo}
      /\ dreamer' = [dreamer EXCEPT ![d].at = "compact", ![d].copy = new,
           ![d].todo = {},
           ![d].pairs = {p \in Pairs(s.list) : \E t \in Recallable :
                           \A m \in p : new[m].status = t}]
      /\ UNCHANGED <<backed, corrected, admin, runs, edits>>

\* Two memories are compared again only while both still have one status.
AnyPair(row, other)  == TRUE
SameStatus(row, other) == row.status = other.status

\* One pair of _compact that the LLM does not call the same (or could not
\* compare), or whose status has changed by an earlier pair.
KeepPair(d, p) ==
  /\ dreamer[d].at = "compact" /\ p \in dreamer[d].pairs
  /\ dreamer' = [dreamer EXCEPT ![d].pairs = @ \ {p}]
  /\ UNCHANGED <<memory, backed, corrected, changes, admin, runs, edits>>

\* A pair in conflict: recorded, nothing else (_compact and _mark_conflict).
Conflict(d, p, m) ==
  /\ dreamer[d].at \in {"compact", "polish"} /\ p \in dreamer[d].pairs
  /\ m \in p /\ p \cap dreamer[d].used = {}
  /\ dreamer[d].at = "compact" =>
       \A k \in p : SameStatus(dreamer[d].copy[k], dreamer[d].copy[m])
  /\ dreamer' = [dreamer EXCEPT ![d].pairs = @ \ {p}]
  /\ changes' = changes \cup {Recorded(m, "conflict", {}, dreamer[d].copy[m])}
  /\ UNCHANGED <<memory, backed, corrected, admin, runs, edits>>

\* The same pattern twice: the less trusted one is demoted.
MergePair(d, p, keep) ==
  LET s      == dreamer[d]
      remove == CHOOSE m \in p \ {keep} : TRUE
      new    == Demoted(s.copy[remove])
  IN  /\ s.at = "compact" /\ p \in s.pairs /\ keep \in p
      /\ SameStatus(s.copy[keep], s.copy[remove])
      /\ s.copy[keep].confidence >= s.copy[remove].confidence
      /\ memory' = [memory EXCEPT ![remove] =
                      Flushed(remove, s.copy[remove], new)]
      /\ changes' = changes \cup
           {Recorded(remove, "compact", {keep}, s.copy[remove])}
      /\ dreamer' = [dreamer EXCEPT ![d].pairs = @ \ {p},
                                    ![d].copy[remove] = new]
      /\ UNCHANGED <<backed, corrected, admin, runs, edits>>

\* _validate_active, the last part of a full validation.
Validate(d) ==
  LET s    == dreamer[d]
      bare == {m \in s.list : s.copy[m].status = "active" /\ ~HasEvidence(m)}
      weak == {m \in s.list : s.copy[m].status = "active" /\ HasEvidence(m)
                                /\ s.copy[m].confidence < 30}
      new  == [m \in Memories |->
                 CASE m \in bare -> [s.copy[m] EXCEPT !.status = "deprecated"]
                   [] m \in weak -> [s.copy[m] EXCEPT !.status = "archived"]
                   [] OTHER      -> s.copy[m]]
  IN  /\ s.at = "compact" /\ s.pairs = {} /\ s.type = "full_validation"
      /\ memory' = [m \in Memories |-> Flushed(m, s.copy[m], new[m])]
      /\ changes' = changes \cup
           {Recorded(m, "validate", {}, s.copy[m]) : m \in bare \cup weak}
      /\ dreamer' = [dreamer EXCEPT ![d] = AtRest]
      /\ UNCHANGED <<backed, corrected, admin, runs, edits>>

\* The DreamRun succeeds.
FinishDream(d) ==
  /\ dreamer[d].at \in {"compact", "polish"} /\ dreamer[d].pairs = {}
  /\ dreamer[d].type # "full_validation"
  /\ dreamer' = [dreamer EXCEPT ![d] = AtRest]
  /\ UNCHANGED <<memory, backed, corrected, changes, admin, runs, edits>>

\* A cancellation, an exception or the death of the worker: what the
\* progress reports have committed stays, the DreamRun stays "running".
Abandon(d) ==
  /\ dreamer[d].at # "idle"
  /\ dreamer' = [dreamer EXCEPT ![d] = AtRest]
  /\ UNCHANGED <<memory, backed, corrected, changes, admin, runs, edits>>
-----------------------------------------------------------------------------
(***************************************************************************)
(* MemoryPolishService.run                                                 *)
(***************************************************************************)

\* Which neighbours are compared: recallable and untouched by a human.
StartPolish(d) ==
  LET list == {m \in Memories : memory[m].status \in Recallable}
  IN  /\ dreamer[d].at = "idle"
      /\ runs < MaxRuns
      /\ runs' = runs + 1
      /\ dreamer' = [dreamer EXCEPT ![d] =
           [AtRest EXCEPT !.at = "polish", !.type = "genesis",
              !.copy = Loaded(list), !.list = list, !.known = corrected,
              !.proof = backed,
              !.pairs = Pairs({m \in list : ~HumanCorrected(m)})]]
      /\ UNCHANGED <<memory, backed, corrected, changes, admin, edits>>

\* A pair left alone: no neighbours, different, or no longer eligible.
SkipPair(d, p) ==
  /\ dreamer[d].at = "polish" /\ p \in dreamer[d].pairs
  /\ dreamer' = [dreamer EXCEPT ![d].pairs = @ \ {p}]
  /\ UNCHANGED <<memory, backed, corrected, changes, admin, runs, edits>>

\* The same pattern: the audit log is asked once more, then the LLM writes a
\* draft (for up to minutes), and what happens meanwhile is not looked at.
Draft(d, p, keep) ==
  LET s == dreamer[d]
  IN  /\ s.at = "polish" /\ p \in s.pairs /\ keep \in p
      /\ p \cap s.used = {}
      /\ \A m \in p : s.copy[m].status \in Recallable /\ ~HumanCorrected(m)
      /\ \A m \in p : s.copy[keep].confidence >= s.copy[m].confidence
      /\ dreamer' = [dreamer EXCEPT ![d].at = "draft", ![d].pairs = @ \ {p},
                       ![d].target = {keep}, ![d].removed = p \ {keep}]
      /\ UNCHANGED <<memory, backed, corrected, changes, admin, runs, edits>>

\* Without a draft the pair is skipped, otherwise both rows are written.
DraftFails(d) ==
  /\ dreamer[d].at = "draft"
  /\ dreamer' = [dreamer EXCEPT ![d].at = "polish", ![d].target = {},
                                ![d].removed = {}]
  /\ UNCHANGED <<memory, backed, corrected, changes, admin, runs, edits>>

WritePair(d, c) ==
  LET s   == dreamer[d]
      new == [m \in Memories |->
                CASE m \in s.target  -> Redrafted(s.copy[m],
                       IF c > s.copy[m].confidence THEN c ELSE s.copy[m].confidence)
                  [] m \in s.removed \ s.target -> Demoted(s.copy[m])
                  [] OTHER -> s.copy[m]]
  IN  /\ s.at = "draft"
      /\ memory' = [m \in Memories |->
           IF m \in s.target THEN Reworded(Flushed(m, s.copy[m], new[m]), "llm")
                             ELSE Flushed(m, s.copy[m], new[m])]
      /\ changes' = changes
           \cup {Recorded(m, "update", {}, s.copy[m]) : m \in s.target}
           \cup {Recorded(m, "compact", s.target, s.copy[m]) : m \in s.removed}
      /\ dreamer' = [dreamer EXCEPT ![d].at = "polish", ![d].copy = new,
           ![d].used = @ \cup s.target \cup s.removed,
           ![d].target = {}, ![d].removed = {}]
      /\ UNCHANGED <<backed, corrected, admin, runs, edits>>
-----------------------------------------------------------------------------
(***************************************************************************)
(* PATCH /memories/{id}, POST /memories/batch-correct,                     *)
(* POST /dream-changes/{id}/revert, DELETE /repositories/{id}              *)
(***************************************************************************)

\* transition() accepts the move on the row the request has read.
Acceptable(m, s) ==
  /\ <<memory[m].status, s>> \in AllowedMoves
  /\ s = "active" => HasEvidence(m)

\* correct() or batch_correct() up to the UPDATE: ids whose move is refused
\* fail alone.  A new text is one memory's; a batch carries a status only.
StartCorrection(a, ms, s, text) ==
  LET on == {m \in ms : /\ memory[m] # NoRow
                       /\ \/ s \in {"keep", memory[m].status}
                          \/ Acceptable(m, s)}
  IN  /\ admin[a].at = "idle"
      /\ edits < MaxEdits
      /\ text => Cardinality(ms) = 1
      /\ text \/ s # "keep"
      /\ on # {}
      /\ edits' = edits + 1
      /\ admin' = [admin EXCEPT ![a] =
           [NoEdit EXCEPT !.at = "correct", !.copy = Loaded(on), !.on = on,
              !.status = s, !.text = text, !.proof = backed \cap on]]
      /\ UNCHANGED <<memory, backed, corrected, changes, dreamer, runs>>

\* The commit of the correction with its audit row "memory_corrected"; with
\* the text the confidence may be corrected too.
CommitCorrection(a, c) ==
  LET r == admin[a]
      new(m) == [r.copy[m] EXCEPT
                   !.status = IF r.status = "keep" THEN @ ELSE r.status,
                   !.confidence = IF r.text THEN c ELSE @]
  IN  /\ r.at = "correct"
      /\ memory' = [m \in Memories |->
           CASE m \notin r.on -> memory[m]
             [] m \in r.on /\ r.text -> Reworded(Flushed(m, r.copy[m], new(m)), "human")
             [] OTHER -> Flushed(m, r.copy[m], new(m))]
      /\ corrected' = corrected \cup r.on
      /\ admin' = [admin EXCEPT ![a] = NoEdit]
      /\ UNCHANGED <<backed, changes, dreamer, runs, edits>>

\* revert_change up to the UPDATE: the change and the memory are read.
StartRevert(a, c) ==
  /\ admin[a].at = "idle"
  /\ edits < MaxEdits
  /\ ~c.reverted
  /\ edits' = edits + 1
  /\ admin' = [admin EXCEPT ![a] =
       [NoEdit EXCEPT !.at = "revert", !.copy = Loaded({c.memory}),
                      !.on = {c.memory}, !.change = {c}]]
  /\ UNCHANGED <<memory, backed, corrected, changes, dreamer, runs>>

\* Its commit: the snapshot comes back, the status without transition().
CommitRevert(a) ==
  LET r == admin[a]
  IN  /\ r.at = "revert"
      /\ \E c \in r.change :
           /\ memory' = [memory EXCEPT ![c.memory] =
                           Flushed(c.memory, r.copy[c.memory], c.before)]
           /\ changes' = (changes \ {c}) \cup {[c EXCEPT !.reverted = TRUE]}
      /\ admin' = [admin EXCEPT ![a] = NoEdit]
      /\ UNCHANGED <<backed, corrected, dreamer, runs, edits>>

\* The cascade from the repository through evidence to memory_evidence; the
\* memories stay.
DeleteRepository ==
  /\ backed # {}
  /\ edits < MaxEdits
  /\ edits' = edits + 1
  /\ backed' = {}
  /\ UNCHANGED <<memory, corrected, changes, dreamer, admin, runs>>

DreamStep(d) ==
  \/ \E type \in DreamTypes : StartDream(d, type)
  \/ \E G \in SUBSET dreamer[d].todo :
       \/ SkipGroup(d, G)
       \/ \E t \in G, supersede \in BOOLEAN : Reconcile(d, G, t, supersede)
  \/ \E c \in Confidences : WriteTarget(d, c) \/ WritePair(d, c)
  \/ Reload(d)
  \/ Promote(d)
  \/ \E p \in dreamer[d].pairs :
       \/ KeepPair(d, p) \/ SkipPair(d, p)
       \/ \E m \in p : Conflict(d, p, m) \/ MergePair(d, p, m) \/ Draft(d, p, m)
  \/ Validate(d)
  \/ FinishDream(d)
  \/ Abandon(d)
  \/ StartPolish(d)
  \/ DraftFails(d)

AdminStep(a) ==
  \/ \E ms \in SUBSET Memories, text \in BOOLEAN,
        s \in MemoryStatuses \cup {"keep"} : StartCorrection(a, ms, s, text)
  \/ \E c \in Confidences : CommitCorrection(a, c)
  \/ \E c \in changes : StartRevert(a, c)
  \/ CommitRevert(a)

MemoryNext ==
  \/ \E d \in Dreamers : DreamStep(d)
  \/ \E a \in Admins : AdminStep(a)
  \/ DeleteRepository

MemorySpec == MemoryInit /\ [][MemoryNext]_memoryVars
-----------------------------------------------------------------------------
(***************************************************************************)
(* Properties                                                              *)
(***************************************************************************)

\* Type invariant of the tables and the sessions.
MemoryTypeOK ==
  /\ memory    \in [Memories -> Row]
  /\ backed    \subseteq Memories
  /\ corrected \subseteq Memories
  /\ changes   \subseteq Change
  /\ dreamer   \in [Dreamers -> Dreamer]
  /\ admin     \in [Admins -> Admin]
  /\ runs      \in 0..MaxRuns
  /\ edits     \in 0..MaxEdits

Reverts(m) == \E a \in Admins : admin[a].at = "revert" /\ m \in admin[a].on

\* A text a human wrote before a run began is never replaced by that run
\* (models.py:478, dreaming/service.py:280, polish.py:164): only a run that
\* began before the correction may overwrite it, or the administrator's own
\* revert.
HumanTextOutlivesRuns == [][
  \A m \in Memories :
    memory[m].text = "human" /\ memory'[m].text # "human" =>
      \/ Reverts(m)
      \/ \E d \in Dreamers : dreamer[d].at \in {"write", "draft"}
                               /\ m \in dreamer[d].target \ dreamer[d].known
  ]_memoryVars

\* A run demotes a memory as a duplicate only in favour of one that agents
\* are still given, unless the keeper was changed behind the run's back
\* (dreaming/service.py:451, polish.py:156): a chain of merges never loses
\* its last member.
KeepersLive == [][
  \A c \in changes' \ changes :
    c.action = "compact" /\ ~c.reverted /\ memory'[c.memory].status # memory[c.memory].status =>
      \A k \in c.keeper :
        \/ memory'[k].status \in Recallable
        \/ \E d \in Dreamers : dreamer[d].copy[k].status # memory[k].status
  ]_memoryVars

\* "archived is irreversible" (memory/service.py:23): an archived memory is
\* revived by nobody who knows it is archived, except by a revert.
ArchivedStays == [][
  \A m \in Memories :
    memory[m].status = "archived" /\ memory'[m].status # "archived" =>
      \/ Reverts(m)
      \/ \E d \in Dreamers : dreamer[d].at # "idle"
                               /\ dreamer[d].copy[m].status # "archived"
      \/ \E a \in Admins : admin[a].at = "correct" /\ m \in admin[a].on
                             /\ admin[a].copy[m].status # "archived"
  ]_memoryVars

\* "No memory becomes active without evidence" (memory/service.py:206): the
\* evidence was there when the run or the request began; only a revert
\* restores "active" without asking.
ActivationIsBacked == [][
  \A m \in Memories :
    memory[m].status # "active" /\ memory'[m].status = "active" =>
      \/ Reverts(m)
      \/ \E d \in Dreamers : dreamer[d].at # "idle" /\ m \in dreamer[d].proof
      \/ \E a \in Admins : admin[a].at = "correct" /\ m \in admin[a].on
                             /\ m \in admin[a].proof
  ]_memoryVars
=============================================================================
