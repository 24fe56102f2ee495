-------------------------- MODULE Memories_proofs --------------------------
(***************************************************************************)
(* Proofs about memories and the dreams that revise them: MemoryLifecycle, *)
(* then NightlyDream, which decides when a dream is made.                  *)
(***************************************************************************)
EXTENDS MemoryLifecycle, NightlyDream, FiniteSetTheorems, TLAPS

-----------------------------------------------------------------------------
(***************************************************************************)
(* Proofs about MemoryLifecycle, for every number of memories, runs and    *)
(* administrators: each of the four action properties.                     *)
(*                                                                         *)
(* One invariant carries all of them, MInv: the types, what a run in       *)
(* progress relies on (SessionOK) and what a request in progress relies on *)
(* (RequestOK).  None of the four is about a state, so MInv is not a       *)
(* strengthening of one of them: it is what the steps that write memories  *)
(* need to know of their own session, whatever was committed meanwhile.    *)
(***************************************************************************)
\* What a session in progress relies on.
SessionOK(s) ==
  /\ s.known \subseteq corrected
  /\ s.at # "idle" => backed \subseteq s.proof
  /\ s.at \in {"write", "draft"} => s.target \cap s.known = {}
  /\ s.at = "promote" =>
       \A m \in s.todo : s.copy[m].status = "candidate" /\ m \in s.proof
  /\ s.at = "draft" =>
       /\ s.target \cap s.removed = {}
       /\ \A m \in s.target \cup s.removed : s.copy[m].status \in Recallable
  /\ \A p \in s.pairs : \A x \in p : p \ {x} # {}

\* What a request in progress relies on.
RequestOK(r) ==
  /\ r.at = "correct" => \A m \in r.on :
       /\ r.status \in {"keep", r.copy[m].status} \/ <<r.copy[m].status, r.status>> \in AllowedMoves
       /\ r.status = "active" /\ r.copy[m].status # "active" => m \in r.proof
  /\ \A c \in r.change : c.memory \in r.on

MInv == /\ MemoryTypeOK
        /\ \A d \in Dreamers : SessionOK(dreamer[d])
        /\ \A a \in Admins : RequestOK(admin[a])

\* A row without a row.
LEMMA NoRowIsRow == NoRow \in Row /\ NoRow.status = "absent" /\ Unloaded \in [Memories -> Row]
<1>1. (CHOOSE c \in Confidences : TRUE) \in Confidences
  BY MemoryAssumption
<1> QED  BY <1>1 DEF NoRow, Row, MemoryStatuses, Unloaded

\* A session at rest and no request are values of their types.
LEMMA RestTyped ==
  /\ AtRest \in Dreamer /\ AtRest.at = "idle" /\ AtRest.known = {} /\ AtRest.pairs = {}
  /\ NoEdit \in Admin /\ NoEdit.at = "idle" /\ NoEdit.change = {}
  BY NoRowIsRow DEF AtRest, NoEdit, Dreamer, Admin, AllDreamTypes

\* An UPDATE carries the columns that differ from what the session loaded.
LEMMA RowFlushed ==
  ASSUME MemoryTypeOK, NEW m \in Memories, NEW old \in Row, NEW new \in Row
  PROVE  /\ Flushed(m, old, new) \in Row
         /\ Flushed(m, old, new).status =
              IF new.status # old.status THEN new.status ELSE memory[m].status
         /\ Flushed(m, old, new).text =
              IF new.text # old.text THEN new.text ELSE memory[m].text
<1>1. DOMAIN new = {"status", "text", "confidence"}
  BY DEF Row
<1>2. memory[m] \in Row
  BY DEF MemoryTypeOK
<1>3. Flushed(m, old, new) = [c \in {"status", "text", "confidence"} |->
         IF new[c] # old[c] THEN new[c] ELSE memory[m][c]]
  BY <1>1 DEF Flushed
<1>4. Flushed(m, old, new) =
        [status     |-> IF new.status # old.status THEN new.status ELSE memory[m].status,
         text       |-> IF new.text # old.text THEN new.text ELSE memory[m].text,
         confidence |-> IF new.confidence # old.confidence THEN new.confidence
                                                           ELSE memory[m].confidence]
  BY <1>2, <1>3 DEF Row
<1> QED  BY <1>2, <1>4 DEF Row

\* A demotion never activates, and moves only what agents were given.
LEMMA RowDemoted ==
  ASSUME NEW row \in Row
  PROVE  /\ Demoted(row) \in Row /\ Demoted(row).text = row.text
         /\ Demoted(row).status # "active"
         /\ Demoted(row).status # row.status => row.status \in Recallable
  BY DEF Demoted, Row, MemoryStatuses, Recallable

\* A recorded change is a DreamChange that says what was recorded.
LEMMA RecordedChange ==
  ASSUME NEW m \in Memories, NEW keeper \in SUBSET Memories, NEW row \in Row,
         NEW action \in {"skip_llm", "propose", "update", "supersede", "promote",
                         "compact", "conflict", "validate"}
  PROVE  /\ Recorded(m, action, keeper, row) \in Change
         /\ Recorded(m, action, keeper, row).action = action
         /\ Recorded(m, action, keeper, row).memory = m
         /\ Recorded(m, action, keeper, row).keeper = keeper
  BY DEF Recorded, Change

\* What a session loads are rows, those of the table where it asked for them.
LEMMA LoadedRows ==
  ASSUME MemoryTypeOK, NEW S
  PROVE  /\ Loaded(S) \in [Memories -> Row]
         /\ \A m \in Memories : m \in S => Loaded(S)[m] = memory[m]
  BY NoRowIsRow DEF MemoryTypeOK, Loaded

\* Two memories are never one.
LEMMA PairHasTwo ==
  ASSUME NEW S, NEW p \in Pairs(S)
  PROVE  p \subseteq S /\ \A x \in p : p \ {x} # {}
<1>1. ASSUME NEW x \in p, p \ {x} = {} PROVE FALSE
  <2>1. p = {x}
    BY <1>1
  <2>2. Cardinality({x}) = 1
    BY FS_Singleton
  <2> QED  BY <2>1, <2>2 DEF Pairs
<1> QED  BY <1>1 DEF Pairs

\* A step of one run changes one session.
LEMMA SessionReplaced ==
  ASSUME MInv, NEW d \in Dreamers, NEW e \in Dreamer, SessionOK(e),
         dreamer' = [dreamer EXCEPT ![d] = e], UNCHANGED <<corrected, backed>>
  PROVE  dreamer' \in [Dreamers -> Dreamer] /\ \A x \in Dreamers : SessionOK(dreamer[x])'
  BY DEF MInv, MemoryTypeOK, SessionOK

\* A step of a run that leaves the tables alone but for the changes.
LEMMA RunKeeps ==
  ASSUME MInv, NEW d \in Dreamers, NEW e \in Dreamer, SessionOK(e),
         dreamer' = [dreamer EXCEPT ![d] = e], memory' \in [Memories -> Row],
         changes' \subseteq Change, UNCHANGED <<corrected, backed, admin, edits>>,
         runs' \in 0..MaxRuns
  PROVE  MInv'
<1>1. /\ dreamer' \in [Dreamers -> Dreamer]
      /\ \A x \in Dreamers : SessionOK(dreamer[x])'
  BY SessionReplaced
<1>2. \A a \in Admins : RequestOK(admin[a])'
  BY DEF MInv, RequestOK
<1>3. MemoryTypeOK'
  BY <1>1 DEF MInv, MemoryTypeOK
<1> QED  BY <1>1, <1>2, <1>3 DEF MInv

\* What a Dream loads are memories.
LEMMA LiveTyped ==
  ASSUME MemoryTypeOK
  PROVE  /\ LiveRows \in SUBSET Memories
         /\ \A type : Eligible(type) \in SUBSET Memories
  BY DEF LiveRows, Eligible

\* A run that starts knows what is corrected and what has evidence.
LEMMA StartsKeep ==
  ASSUME MInv, NEW d \in Dreamers,
         (\E type \in DreamTypes : StartDream(d, type)) \/ StartPolish(d)
  PROVE  MInv' /\ memory' = memory /\ changes' = changes
<1>0. /\ MemoryTypeOK /\ corrected \in SUBSET Memories /\ backed \in SUBSET Memories
      /\ runs \in 0..MaxRuns /\ MaxRuns \in Nat
  BY MemoryAssumption DEF MInv, MemoryTypeOK
<1>1. CASE \E type \in DreamTypes : StartDream(d, type)
  <2>1. PICK type \in DreamTypes : StartDream(d, type)
    BY <1>1
  <2> DEFINE todo == IF type = "full_validation"
                     THEN {m \in LiveRows : memory[m].status = "candidate" /\ HasEvidence(m)}
                     ELSE Eligible(type)
             at == IF type = "full_validation" THEN "promote" ELSE "group"
             copy == Loaded(LiveRows)
             e == [AtRest EXCEPT !.type = type, !.copy = copy, !.list = LiveRows,
                     !.known = corrected, !.proof = backed, !.at = at, !.todo = todo]
  <2>2. /\ dreamer' = [dreamer EXCEPT ![d] = e]
        /\ runs' = runs + 1 /\ runs < MaxRuns
        /\ UNCHANGED <<memory, backed, corrected, changes, admin, edits>>
    BY <2>1 DEF StartDream
  <2>3. /\ todo \in SUBSET Memories /\ LiveRows \in SUBSET Memories
        /\ at \in {"promote", "group"} /\ copy \in [Memories -> Row]
        /\ type \in AllDreamTypes
        /\ \A m \in LiveRows : copy[m] = memory[m]
    BY <1>0, LiveTyped, LoadedRows, MemoryAssumption
  <2>4. at = "promote" => \A m \in todo : copy[m].status = "candidate" /\ m \in backed
    BY <2>3 DEF HasEvidence
  <2> HIDE DEF todo, at, copy
  <2>5. /\ e \in Dreamer /\ e.at = at /\ e.known = corrected /\ e.proof = backed
        /\ e.todo = todo /\ e.copy = copy /\ e.pairs = {}
    BY <1>0, <2>3, RestTyped DEF Dreamer
  <2> HIDE DEF e
  <2>6. SessionOK(e)
    BY <2>3, <2>4, <2>5 DEF SessionOK
  <2>7. runs' \in 0..MaxRuns /\ memory' \in [Memories -> Row] /\ changes' \subseteq Change
    BY <1>0, <2>2 DEF MemoryTypeOK
  <2> QED  BY <2>2, <2>5, <2>6, <2>7, RunKeeps
<1>2. CASE StartPolish(d)
  <2> DEFINE list == {m \in Memories : memory[m].status \in Recallable}
             copy == Loaded(list)
             pairs == Pairs({m \in list : ~HumanCorrected(m)})
             e == [AtRest EXCEPT !.at = "polish", !.type = "genesis", !.copy = copy,
                     !.list = list, !.known = corrected, !.proof = backed, !.pairs = pairs]
  <2>2. /\ dreamer' = [dreamer EXCEPT ![d] = e]
        /\ runs' = runs + 1 /\ runs < MaxRuns
        /\ UNCHANGED <<memory, backed, corrected, changes, admin, edits>>
    BY <1>2 DEF StartPolish
  <2>3. list \in SUBSET Memories /\ copy \in [Memories -> Row]
    BY <1>0, LoadedRows
  <2>4. pairs \in SUBSET SUBSET Memories /\ \A p \in pairs : \A x \in p : p \ {x} # {}
    BY <2>3, PairHasTwo DEF Pairs
  <2> HIDE DEF list, copy, pairs
  <2>5. /\ e \in Dreamer /\ e.at = "polish" /\ e.known = corrected /\ e.proof = backed
        /\ e.pairs = pairs
    BY <1>0, <2>3, <2>4, RestTyped DEF Dreamer, AllDreamTypes
  <2> HIDE DEF e
  <2>6. SessionOK(e)
    BY <2>4, <2>5 DEF SessionOK
  <2>7. runs' \in 0..MaxRuns /\ memory' \in [Memories -> Row] /\ changes' \subseteq Change
    BY <1>0, <2>2 DEF MemoryTypeOK
  <2> QED  BY <2>2, <2>5, <2>6, <2>7, RunKeeps
<1> QED  BY <1>1, <1>2

\* Steps of a run that write no memory.
LEMMA QuietKeeps ==
  ASSUME MInv, NEW d \in Dreamers,
         \/ \E G \in SUBSET dreamer[d].todo :
              SkipGroup(d, G) \/ \E t \in G, b \in BOOLEAN : Reconcile(d, G, t, b)
         \/ Reload(d) \/ DraftFails(d) \/ FinishDream(d) \/ Abandon(d)
         \/ \E p \in dreamer[d].pairs :
              KeepPair(d, p) \/ SkipPair(d, p) \/ \E m \in p : Conflict(d, p, m) \/ Draft(d, p, m)
  PROVE  MInv' /\ memory' = memory
<1> DEFINE s == dreamer[d]
<1>0. /\ MemoryTypeOK /\ s \in Dreamer /\ SessionOK(s) /\ runs \in 0..MaxRuns
      /\ memory \in [Memories -> Row] /\ changes \subseteq Change
      /\ dreamer \in [Dreamers -> Dreamer]
  BY DEF MInv, MemoryTypeOK
<1>1. CASE \E G \in SUBSET s.todo : SkipGroup(d, G)
  <2>1. PICK G \in SUBSET s.todo : SkipGroup(d, G)
    BY <1>1
  <2>2. PICK llm \in {"unused", "failed", "answered"} :
          dreamer' = [dreamer EXCEPT ![d] = [s EXCEPT !.todo = s.todo \ G, !.llm = llm]]
    <3>1. s.llm \in {"unused", "failed", "answered"}
      BY <1>0 DEF Dreamer
    <3> QED  BY <1>0, <2>1, <3>1 DEF SkipGroup, Dreamer
  <2>3. changes' \subseteq Change
    <3>1. \A m \in G : m \in Memories /\ s.copy[m] \in Row
      BY <1>0 DEF Dreamer
    <3> QED  BY <1>0, <2>1, <3>1, RecordedChange DEF SkipGroup
  <2> DEFINE e == [s EXCEPT !.todo = s.todo \ G, !.llm = llm]
  <2>4. e \in Dreamer
    BY <1>0 DEF Dreamer
  <2>5. SessionOK(e)
    BY <1>0, <2>1 DEF SessionOK, SkipGroup, Dreamer
  <2> HIDE DEF e
  <2>6. UNCHANGED <<memory, backed, corrected, admin, runs, edits>>
    BY <2>1 DEF SkipGroup
  <2> QED  BY <1>0, <2>2, <2>3, <2>4, <2>5, <2>6, RunKeeps DEF e
<1>2. CASE \E G \in SUBSET s.todo : \E t \in G, b \in BOOLEAN : Reconcile(d, G, t, b)
  <2>a. PICK G \in SUBSET s.todo : \E t \in G, b \in BOOLEAN : Reconcile(d, G, t, b)
    BY <1>2
  <2>1. PICK t \in G, b \in BOOLEAN : Reconcile(d, G, t, b)
    BY <2>a
  <2>2. /\ UNCHANGED <<memory, backed, corrected, admin, runs, edits>>
        /\ s.at = "group" /\ t \in Memories /\ G \subseteq Memories
    BY <1>0, <2>1 DEF Reconcile, Dreamer
  <2>3. CASE HumanCorrected(t)
    <3> DEFINE e == [s EXCEPT !.todo = s.todo \ G, !.llm = "answered"]
    <3>1. dreamer' = [dreamer EXCEPT ![d] = e]
      BY <1>0, <2>1, <2>3 DEF Reconcile, Dreamer
    <3>2. e \in Dreamer
      BY <1>0 DEF Dreamer
    <3>3. SessionOK(e)
      BY <1>0, <2>2 DEF SessionOK, Dreamer
    <3>4. changes' \subseteq Change
      <4>1. s.copy[t] \in Row
        BY <1>0, <2>2 DEF Dreamer
      <4>2. Recorded(t, "propose", {}, s.copy[t]) \in Change
        BY <2>2, <4>1, RecordedChange
      <4> QED  BY <1>0, <2>1, <2>3, <4>2 DEF Reconcile
    <3> HIDE DEF e
    <3> QED  BY <1>0, <2>2, <3>1, <3>2, <3>3, <3>4, RunKeeps
  <2>4. CASE ~HumanCorrected(t)
    <3> DEFINE e == [s EXCEPT !.todo = s.todo \ G, !.llm = "answered", !.at = "write",
                       !.target = {t}, !.supersede = b, !.removed = G \ {t}]
    <3>1. dreamer' = [dreamer EXCEPT ![d] = e] /\ changes' = changes
      BY <1>0, <2>1, <2>4 DEF Reconcile, Dreamer
    <3>2. e \in Dreamer
      BY <1>0, <2>2 DEF Dreamer
    <3>3. SessionOK(e)
      BY <1>0, <2>2, <2>4 DEF SessionOK, Dreamer, HumanCorrected
    <3> HIDE DEF e
    <3> QED  BY <1>0, <2>2, <3>1, <3>2, <3>3, RunKeeps
  <2> QED  BY <2>3, <2>4
<1>3. CASE Reload(d)
  <2> DEFINE copy == [m \in Memories |-> IF m \in s.list THEN s.copy[m] ELSE Loaded(LiveRows)[m]]
             todo == {m \in LiveRows : copy[m].status = "candidate" /\ HasEvidence(m)}
             e == [s EXCEPT !.at = "promote", !.copy = copy, !.list = LiveRows, !.todo = todo]
  <2>1. /\ UNCHANGED <<memory, backed, corrected, changes, admin, runs, edits>>
        /\ s.at = "group"
    BY <1>3 DEF Reload
  <2>2. dreamer' = [dreamer EXCEPT ![d] = e]
    BY <1>0, <1>3 DEF Reload, Dreamer
  <2>3. copy \in [Memories -> Row] /\ LiveRows \in SUBSET Memories /\ todo \in SUBSET Memories
    <3>1. Loaded(LiveRows) \in [Memories -> Row] /\ s.copy \in [Memories -> Row]
      BY <1>0, LoadedRows DEF Dreamer
    <3> QED  BY <1>0, <3>1, LiveTyped
  <2>4. \A m \in todo : copy[m].status = "candidate" /\ m \in backed
    BY DEF HasEvidence
  <2> HIDE DEF copy, todo
  <2>5. e \in Dreamer
    BY <1>0, <2>3 DEF Dreamer
  <2>6. SessionOK(e)
    BY <1>0, <2>1, <2>4 DEF SessionOK, Dreamer
  <2> HIDE DEF e
  <2> QED  BY <1>0, <2>1, <2>2, <2>5, <2>6, RunKeeps
<1>4. CASE DraftFails(d)
  <2> DEFINE e == [s EXCEPT !.at = "polish", !.target = {}, !.removed = {}]
  <2>1. /\ UNCHANGED <<memory, backed, corrected, changes, admin, runs, edits>>
        /\ s.at = "draft" /\ dreamer' = [dreamer EXCEPT ![d] = e]
    BY <1>0, <1>4 DEF DraftFails, Dreamer
  <2>2. e \in Dreamer /\ SessionOK(e)
    BY <1>0, <2>1 DEF SessionOK, Dreamer
  <2> HIDE DEF e
  <2> QED  BY <1>0, <2>1, <2>2, RunKeeps
<1>5. CASE FinishDream(d) \/ Abandon(d)
  <2>1. SessionOK(AtRest)
    BY RestTyped DEF SessionOK
  <2>2. /\ UNCHANGED <<memory, backed, corrected, changes, admin, runs, edits>>
        /\ dreamer' = [dreamer EXCEPT ![d] = AtRest]
    BY <1>5 DEF FinishDream, Abandon
  <2> QED  BY <1>0, <2>1, <2>2, RestTyped, RunKeeps
<1>6. ASSUME NEW p \in s.pairs, KeepPair(d, p) \/ SkipPair(d, p) \/ \E m \in p : Conflict(d, p, m)
      PROVE  MInv' /\ memory' = memory
  <2> DEFINE e == [s EXCEPT !.pairs = s.pairs \ {p}]
  <2>1. /\ UNCHANGED <<memory, backed, corrected, admin, runs, edits>>
        /\ dreamer' = [dreamer EXCEPT ![d] = e]
    BY <1>0, <1>6 DEF KeepPair, SkipPair, Conflict, Dreamer
  <2>2. e \in Dreamer /\ SessionOK(e)
    BY <1>0 DEF SessionOK, Dreamer
  <2>3. changes' \subseteq Change
    <3>1. \A m \in p : m \in Memories /\ s.copy[m] \in Row
      BY <1>0 DEF Dreamer
    <3> QED  BY <1>0, <1>6, <3>1, RecordedChange DEF KeepPair, SkipPair, Conflict
  <2> HIDE DEF e
  <2> QED  BY <1>0, <2>1, <2>2, <2>3, RunKeeps
<1>7. ASSUME NEW p \in s.pairs, NEW keep \in p, Draft(d, p, keep)
      PROVE  MInv' /\ memory' = memory
  <2> DEFINE e == [s EXCEPT !.at = "draft", !.pairs = s.pairs \ {p},
                     !.target = {keep}, !.removed = p \ {keep}]
  <2>1. /\ UNCHANGED <<memory, backed, corrected, changes, admin, runs, edits>>
        /\ dreamer' = [dreamer EXCEPT ![d] = e]
        /\ \A m \in p : s.copy[m].status \in Recallable /\ ~HumanCorrected(m)
        /\ s.at = "polish"
    BY <1>0, <1>7 DEF Draft, Dreamer
  <2>2. p \subseteq Memories
    BY <1>0 DEF Dreamer
  <2>3. e \in Dreamer
    <3>1. {keep} \in SUBSET Memories /\ p \ {keep} \in SUBSET Memories
      BY <2>2
    <3>2. s.pairs \ {p} \in SUBSET SUBSET Memories
      BY <1>0 DEF Dreamer
    <3> QED  BY <1>0, <3>1, <3>2 DEF Dreamer
  <2>4. /\ e.at = "draft" /\ e.known = s.known /\ e.proof = s.proof /\ e.copy = s.copy
        /\ e.target = {keep} /\ e.removed = p \ {keep} /\ e.pairs \subseteq s.pairs
    BY <1>0 DEF Dreamer
  <2> HIDE DEF e
  <2>5. SessionOK(e)
    BY <1>0, <2>1, <2>4 DEF SessionOK, HumanCorrected
  <2> QED  BY <1>0, <2>1, <2>3, <2>5, RunKeeps
<1> QED  BY <1>1, <1>2, <1>3, <1>4, <1>5, <1>6, <1>7

-----------------------------------------------------------------------------
(***************************************************************************)
(* What one step does to a memory, property by property                    *)
(***************************************************************************)
HumanStep == \A m \in Memories :
  memory[m].text = "human" /\ memory'[m].text # "human" =>
    \/ Reverts(m)
    \/ \E d \in Dreamers : dreamer[d].at \in {"write", "draft"}
                             /\ m \in dreamer[d].target \ dreamer[d].known

KeeperStep == \A c \in changes' \ changes :
  c.action = "compact" /\ ~c.reverted /\ memory'[c.memory].status # memory[c.memory].status =>
    \A k \in c.keeper :
      \/ memory'[k].status \in Recallable
      \/ \E d \in Dreamers : dreamer[d].copy[k].status # memory[k].status

ArchivedStep == \A m \in Memories :
  memory[m].status = "archived" /\ memory'[m].status # "archived" =>
    \/ Reverts(m)
    \/ \E d \in Dreamers : dreamer[d].at # "idle" /\ dreamer[d].copy[m].status # "archived"
    \/ \E a \in Admins : admin[a].at = "correct" /\ m \in admin[a].on
                           /\ admin[a].copy[m].status # "archived"

ActivationStep == \A m \in Memories :
  memory[m].status # "active" /\ memory'[m].status = "active" =>
    \/ Reverts(m)
    \/ \E d \in Dreamers : dreamer[d].at # "idle" /\ m \in dreamer[d].proof
    \/ \E a \in Admins : admin[a].at = "correct" /\ m \in admin[a].on /\ m \in admin[a].proof

StepOK == HumanStep /\ KeeperStep /\ ArchivedStep /\ ActivationStep

\* A step that writes no memory and records the removal of none, or the same
\* rows with more changes.
LEMMA QuietSteps ==
  ASSUME MInv, memory' = memory, changes' \subseteq Change
  PROVE  StepOK
<1>1. \A c \in changes' : c.memory \in Memories
  BY DEF Change
<1> QED  BY <1>1 DEF StepOK, HumanStep, KeeperStep, ArchivedStep, ActivationStep

\* A step of a run that writes statuses: it moves none that it knows as
\* archived, makes active only what has evidence, and writes a text only over
\* its target.
LEMMA WriterSteps ==
  ASSUME MInv, NEW d \in Dreamers, dreamer[d].at # "idle", NEW new,
         \A m \in Memories :
           /\ \/ memory'[m].status = memory[m].status
              \/ /\ memory'[m].status = new[m].status
                 /\ new[m].status # dreamer[d].copy[m].status
                 /\ dreamer[d].copy[m].status # "archived"
                 /\ new[m].status = "active" => m \in dreamer[d].proof
           /\ \/ memory'[m].text = memory[m].text
              \/ /\ dreamer[d].at \in {"write", "draft"}
                 /\ m \in dreamer[d].target
  PROVE  HumanStep /\ ArchivedStep /\ ActivationStep
<1>1. dreamer[d].at \in {"write", "draft"} =>
        \A m \in dreamer[d].target : m \notin dreamer[d].known
  BY DEF MInv, SessionOK
<1> QED  BY <1>1 DEF HumanStep, ArchivedStep, ActivationStep

\* Promotion moves candidates that had evidence.
LEMMA PromoteKeeps ==
  ASSUME MInv, NEW d \in Dreamers, Promote(d)
  PROVE  MInv' /\ StepOK
<1> DEFINE s == dreamer[d]
           active(m) == s.type # "genesis" /\ s.copy[m].confidence >= 75
           new == [m \in Memories |->
                     IF m \notin s.todo THEN s.copy[m]
                     ELSE [s.copy[m] EXCEPT !.status = IF active(m) THEN "active" ELSE "tentative"]]
           pairs == {p \in Pairs(s.list) : \E t \in Recallable : \A m \in p : new[m].status = t}
           e == [s EXCEPT !.at = "compact", !.copy = new, !.todo = {}, !.pairs = pairs]
<1>0. /\ MemoryTypeOK /\ s \in Dreamer /\ SessionOK(s) /\ runs \in 0..MaxRuns
      /\ memory \in [Memories -> Row] /\ changes \subseteq Change
      /\ dreamer \in [Dreamers -> Dreamer] /\ s.copy \in [Memories -> Row]
      /\ s.todo \subseteq Memories /\ s.list \subseteq Memories
  BY DEF MInv, MemoryTypeOK, Dreamer
<1>1. /\ s.at = "promote" /\ UNCHANGED <<backed, corrected, admin, runs, edits>>
      /\ memory' = [m \in Memories |-> Flushed(m, s.copy[m], new[m])]
      /\ dreamer' = [dreamer EXCEPT ![d] = e]
      /\ changes' = changes \cup {Recorded(m, IF active(m) THEN "promote" ELSE "validate", {},
                                          s.copy[m]) : m \in s.todo}
  BY <1>0 DEF Promote, Dreamer
<1>2. ASSUME NEW m \in Memories
      PROVE  /\ new[m] \in Row /\ new[m].text = s.copy[m].text
             /\ m \notin s.todo => new[m] = s.copy[m]
  <2>1. s.copy[m] \in Row
    BY <1>0
  <2> QED  BY <2>1 DEF Row, MemoryStatuses
<1>3. new \in [Memories -> Row]
  BY <1>2
<1>4. pairs \in SUBSET SUBSET Memories /\ \A p \in pairs : \A x \in p : p \ {x} # {}
  BY <1>0, PairHasTwo DEF Pairs
<1>5. changes' \subseteq Change /\ \A c \in changes' \ changes : c.action # "compact"
  <2>1. ASSUME NEW m \in s.todo
        PROVE  /\ Recorded(m, IF active(m) THEN "promote" ELSE "validate", {}, s.copy[m]) \in Change
               /\ Recorded(m, IF active(m) THEN "promote" ELSE "validate", {}, s.copy[m]).action # "compact"
    <3>1. m \in Memories /\ s.copy[m] \in Row
      BY <1>0
    <3> HIDE DEF active
    <3>2. CASE active(m)
      BY <3>1, <3>2, RecordedChange
    <3>3. CASE ~active(m)
      BY <3>1, <3>3, RecordedChange
    <3> QED  BY <3>2, <3>3
  <2> HIDE DEF active
  <2> QED  BY <1>0, <1>1, <2>1
<1>6. \A m \in s.todo : s.copy[m].status = "candidate" /\ m \in s.proof
  BY <1>0, <1>1 DEF SessionOK
<1> HIDE DEF new, pairs
<1>7. ASSUME NEW m \in Memories
      PROVE  /\ memory'[m] \in Row /\ memory'[m].text = memory[m].text
             /\ \/ memory'[m].status = memory[m].status
                \/ /\ memory'[m].status = new[m].status
                   /\ new[m].status # s.copy[m].status
  BY <1>0, <1>1, <1>2, <1>3, RowFlushed
<1>8. memory' \in [Memories -> Row]
  BY <1>1, <1>7
<1>9. /\ e \in Dreamer /\ e.at = "compact" /\ e.known = s.known /\ e.proof = s.proof
      /\ e.pairs = pairs
  BY <1>0, <1>3, <1>4 DEF Dreamer
<1> HIDE DEF e
<1>10. SessionOK(e)
  BY <1>0, <1>1, <1>4, <1>9 DEF SessionOK
<1>11. MInv'
  BY <1>0, <1>1, <1>5, <1>8, <1>9, <1>10, RunKeeps
<1>12. HumanStep /\ ArchivedStep /\ ActivationStep
  <2>1. ASSUME NEW m \in Memories
        PROVE  /\ \/ memory'[m].status = memory[m].status
                  \/ /\ memory'[m].status = new[m].status
                     /\ new[m].status # s.copy[m].status
                     /\ s.copy[m].status # "archived"
                     /\ new[m].status = "active" => m \in s.proof
               /\ memory'[m].text = memory[m].text
    BY <1>2, <1>6, <1>7
  <2> QED  BY <1>1, <2>1, WriterSteps
<1> QED  BY <1>5, <1>11, <1>12 DEF StepOK, KeeperStep

\* Validation takes active memories out of use.
LEMMA ValidateKeeps ==
  ASSUME MInv, NEW d \in Dreamers, Validate(d)
  PROVE  MInv' /\ StepOK
<1> DEFINE s == dreamer[d]
           bare == {m \in s.list : s.copy[m].status = "active" /\ ~HasEvidence(m)}
           weak == {m \in s.list : s.copy[m].status = "active" /\ HasEvidence(m)
                                     /\ s.copy[m].confidence < 30}
           new == [m \in Memories |->
                     CASE m \in bare -> [s.copy[m] EXCEPT !.status = "deprecated"]
                       [] m \in weak -> [s.copy[m] EXCEPT !.status = "archived"]
                       [] OTHER      -> s.copy[m]]
<1>0. /\ MemoryTypeOK /\ s \in Dreamer /\ SessionOK(s) /\ runs \in 0..MaxRuns
      /\ memory \in [Memories -> Row] /\ changes \subseteq Change
      /\ s.copy \in [Memories -> Row] /\ s.list \subseteq Memories
  BY DEF MInv, MemoryTypeOK, Dreamer
<1>1. /\ s.at = "compact" /\ UNCHANGED <<backed, corrected, admin, runs, edits>>
      /\ memory' = [m \in Memories |-> Flushed(m, s.copy[m], new[m])]
      /\ dreamer' = [dreamer EXCEPT ![d] = AtRest]
      /\ changes' = changes \cup {Recorded(m, "validate", {}, s.copy[m]) : m \in bare \cup weak}
  BY DEF Validate
<1>2. ASSUME NEW m \in Memories
      PROVE  /\ new[m] \in Row /\ new[m].text = s.copy[m].text
             /\ new[m].status # s.copy[m].status =>
                  s.copy[m].status = "active" /\ new[m].status # "active"
  <2>1. s.copy[m] \in Row
    BY <1>0
  <2>2. m \in bare \cup weak => s.copy[m].status = "active"
    OBVIOUS
  <2>3. new[m] \in {s.copy[m], [s.copy[m] EXCEPT !.status = "deprecated"],
                    [s.copy[m] EXCEPT !.status = "archived"]}
    BY <2>1
  <2>4. m \notin bare \cup weak => new[m] = s.copy[m]
    OBVIOUS
  <2> HIDE DEF new, bare, weak
  <2> QED  BY <2>1, <2>2, <2>3, <2>4 DEF Row, MemoryStatuses
<1>3. changes' \subseteq Change /\ \A c \in changes' \ changes : c.action # "compact"
  <2>1. ASSUME NEW m \in bare \cup weak
        PROVE  /\ Recorded(m, "validate", {}, s.copy[m]) \in Change
               /\ Recorded(m, "validate", {}, s.copy[m]).action # "compact"
    <3>1. m \in Memories /\ s.copy[m] \in Row
      BY <1>0
    <3> QED  BY <3>1, RecordedChange
  <2> HIDE DEF bare, weak
  <2> QED  BY <1>0, <1>1, <2>1
<1> HIDE DEF new, bare, weak
<1>4. ASSUME NEW m \in Memories
      PROVE  /\ memory'[m] \in Row /\ memory'[m].text = memory[m].text
             /\ \/ memory'[m].status = memory[m].status
                \/ /\ memory'[m].status = new[m].status
                   /\ new[m].status # s.copy[m].status
                   /\ s.copy[m].status # "archived"
                   /\ new[m].status = "active" => m \in s.proof
  <2>1. s.copy[m] \in Row /\ memory'[m] = Flushed(m, s.copy[m], new[m])
    BY <1>0, <1>1
  <2> QED  BY <1>0, <1>2, <2>1, RowFlushed
<1>5. memory' \in [Memories -> Row]
  BY <1>1, <1>4
<1>6. SessionOK(AtRest)
  BY RestTyped DEF SessionOK
<1>7. MInv'
  BY <1>0, <1>1, <1>3, <1>5, <1>6, RestTyped, RunKeeps
<1>8. HumanStep /\ ArchivedStep /\ ActivationStep
  BY <1>1, <1>4, WriterSteps
<1> QED  BY <1>3, <1>7, <1>8 DEF StepOK, KeeperStep

\* A merge of compaction has a keeper of the same, recallable status.
LEMMA MergePairKeeps ==
  ASSUME MInv, NEW d \in Dreamers, NEW p \in dreamer[d].pairs, NEW keep \in p,
         MergePair(d, p, keep)
  PROVE  MInv' /\ StepOK
<1> DEFINE s == dreamer[d]
           remove == CHOOSE m \in p \ {keep} : TRUE
           row == Demoted(s.copy[remove])
           new == [s.copy EXCEPT ![remove] = row]
           e == [s EXCEPT !.pairs = s.pairs \ {p}, !.copy = new]
           change == Recorded(remove, "compact", {keep}, s.copy[remove])
<1>0. /\ MemoryTypeOK /\ s \in Dreamer /\ SessionOK(s) /\ runs \in 0..MaxRuns
      /\ memory \in [Memories -> Row] /\ changes \subseteq Change
      /\ dreamer \in [Dreamers -> Dreamer] /\ s.copy \in [Memories -> Row]
      /\ p \subseteq Memories
  BY DEF MInv, MemoryTypeOK, Dreamer
<1>1. remove \in Memories /\ remove # keep /\ keep \in Memories
  <2>1. p \ {keep} # {}
    BY <1>0 DEF SessionOK
  <2> QED  BY <1>0, <2>1
<1>2. /\ s.at = "compact" /\ UNCHANGED <<backed, corrected, admin, runs, edits>>
      /\ memory' = [memory EXCEPT ![remove] = Flushed(remove, s.copy[remove], row)]
      /\ s.copy[keep].status = s.copy[remove].status
      /\ changes' = changes \cup {change}
      /\ dreamer' = [dreamer EXCEPT ![d].pairs = @ \ {p}, ![d].copy[remove] = row]
  BY DEF MergePair, SameStatus
<1> HIDE DEF remove
<1>3. dreamer' = [dreamer EXCEPT ![d] = e]
  <2> HIDE DEF row
  <2> QED  BY <1>0, <1>1, <1>2 DEF Dreamer
<1>4. s.copy[remove] \in Row /\ row \in Row /\ row.text = s.copy[remove].text
  BY <1>0, <1>1, RowDemoted
<1>5. new \in [Memories -> Row] /\ new[remove] = row
  BY <1>0, <1>1, <1>4
<1>6. change \in Change /\ change.memory = remove /\ change.keeper = {keep}
  BY <1>0, <1>1, <1>4, RecordedChange
<1>7. /\ row.status # "active"
      /\ row.status # s.copy[remove].status => s.copy[remove].status \in Recallable
  BY <1>4, RowDemoted
<1> HIDE DEF row, new, change
<1>8. /\ memory'[remove] \in Row /\ memory'[remove].text = memory[remove].text
      /\ \/ memory'[remove].status = memory[remove].status
         \/ /\ memory'[remove].status = row.status
            /\ row.status # s.copy[remove].status
      /\ \A m \in Memories \ {remove} : memory'[m] = memory[m]
  BY <1>0, <1>1, <1>2, <1>4, RowFlushed
<1>9. memory' \in [Memories -> Row]
  BY <1>0, <1>1, <1>2, <1>8
<1>10. /\ e \in Dreamer /\ e.at = "compact" /\ e.known = s.known /\ e.proof = s.proof
       /\ e.pairs = s.pairs \ {p}
  BY <1>0, <1>2, <1>5 DEF Dreamer
<1> HIDE DEF e
<1>11. SessionOK(e)
  BY <1>0, <1>2, <1>10 DEF SessionOK
<1>12. MInv'
  <2>1. changes' \subseteq Change /\ UNCHANGED <<corrected, backed, admin, edits>>
        /\ runs' \in 0..MaxRuns
    BY <1>0, <1>2, <1>6
  <2>2. e \in Dreamer
    BY <1>10
  <2> QED  BY <1>3, <1>9, <1>11, <2>1, <2>2, RunKeeps
<1>13. HumanStep /\ ArchivedStep /\ ActivationStep
  <2>1. ASSUME NEW m \in Memories
        PROVE  /\ \/ memory'[m].status = memory[m].status
                  \/ /\ memory'[m].status = new[m].status
                     /\ new[m].status # s.copy[m].status
                     /\ s.copy[m].status # "archived"
                     /\ new[m].status = "active" => m \in s.proof
               /\ memory'[m].text = memory[m].text
    BY <1>5, <1>7, <1>8 DEF Recallable
  <2> QED  BY <1>2, <2>1, WriterSteps
<1>14. KeeperStep
  <2>1. ASSUME memory'[remove].status # memory[remove].status,
               s.copy[keep].status = memory[keep].status
        PROVE  memory'[keep].status \in Recallable
    BY <1>1, <1>2, <1>7, <1>8, <2>1
  <2> QED  BY <1>2, <1>6, <2>1 DEF KeeperStep
<1> QED  BY <1>12, <1>13, <1>14 DEF StepOK

\* A new text, and a draft.
LEMMA RowRewritten ==
  ASSUME NEW row \in Row
  PROVE  /\ \A text \in {"extracted", "llm", "human"} :
              /\ Reworded(row, text) \in Row /\ Reworded(row, text).text = text
              /\ Reworded(row, text).status = row.status
         /\ \A c \in Confidences :
              Redrafted(row, c) \in Row /\ Redrafted(row, c).status = row.status
  BY DEF Reworded, Redrafted, Row

\* The write of a reconciliation touches texts of its target alone.
LEMMA WriteTargetKeeps ==
  ASSUME MInv, NEW d \in Dreamers, NEW c \in Confidences, WriteTarget(d, c)
  PROVE  MInv' /\ StepOK
<1> DEFINE s == dreamer[d]
           new == [m \in Memories |->
                     CASE m \in s.target -> Redrafted(s.copy[m], c)
                       [] m \in s.removed \ s.target /\ s.supersede -> Demoted(s.copy[m])
                       [] OTHER -> s.copy[m]]
           e == [s EXCEPT !.at = "group", !.copy = new, !.target = {}, !.removed = {},
                          !.supersede = FALSE]
           action == IF s.supersede THEN "supersede" ELSE "update"
<1>0. /\ MemoryTypeOK /\ s \in Dreamer /\ SessionOK(s) /\ runs \in 0..MaxRuns
      /\ memory \in [Memories -> Row] /\ changes \subseteq Change
      /\ dreamer \in [Dreamers -> Dreamer] /\ s.copy \in [Memories -> Row]
      /\ s.target \subseteq Memories
  BY DEF MInv, MemoryTypeOK, Dreamer
<1>1. /\ s.at = "write" /\ UNCHANGED <<backed, corrected, admin, runs, edits>>
      /\ memory' = [m \in Memories |->
           IF m \in s.target THEN Reworded(Flushed(m, s.copy[m], new[m]), "llm")
                             ELSE Flushed(m, s.copy[m], new[m])]
      /\ changes' = changes \cup {Recorded(t, action, {}, s.copy[t]) : t \in s.target}
  BY DEF WriteTarget
<1>2. dreamer' = [dreamer EXCEPT ![d].at = "group", ![d].copy = new, ![d].target = {},
                     ![d].removed = {}, ![d].supersede = FALSE]
  BY DEF WriteTarget
<1>3. ASSUME NEW m \in Memories
      PROVE  /\ new[m] \in Row
             /\ m \notin s.target => new[m].text = s.copy[m].text
             /\ new[m].status # s.copy[m].status =>
                  s.copy[m].status # "archived" /\ new[m].status # "active"
  <2>1. s.copy[m] \in Row
    BY <1>0
  <2>2. m \in s.target => new[m] \in Row /\ new[m].status = s.copy[m].status
    BY <2>1, RowRewritten
  <2>3. m \notin s.target => new[m] \in {Demoted(s.copy[m]), s.copy[m]}
    OBVIOUS
  <2> HIDE DEF new
  <2>4. CASE m \in s.target
    BY <2>1, <2>2, <2>3, <2>4
  <2>5. CASE m \notin s.target
    BY <2>1, <2>3, <2>5, RowDemoted DEF Recallable
  <2> QED  BY <2>4, <2>5
<1>4. changes' \subseteq Change /\ \A x \in changes' \ changes : x.action # "compact"
  <2>1. action \in {"supersede", "update"}
    OBVIOUS
  <2> HIDE DEF action
  <2>2. ASSUME NEW t \in s.target
        PROVE  /\ Recorded(t, action, {}, s.copy[t]) \in Change
               /\ Recorded(t, action, {}, s.copy[t]).action # "compact"
    <3>1. t \in Memories /\ s.copy[t] \in Row
      BY <1>0
    <3> QED  BY <2>1, <3>1, RecordedChange
  <2> QED  BY <1>0, <1>1, <2>2
<1> HIDE DEF new
<1>5. ASSUME NEW m \in Memories
      PROVE  /\ memory'[m] \in Row
             /\ m \notin s.target => memory'[m].text = memory[m].text
             /\ \/ memory'[m].status = memory[m].status
                \/ /\ memory'[m].status = new[m].status
                   /\ new[m].status # s.copy[m].status
  <2>1. s.copy[m] \in Row /\ memory[m] \in Row
    BY <1>0
  <2> DEFINE row == Flushed(m, s.copy[m], new[m])
  <2>2. row \in Row /\ Reworded(row, "llm") \in Row /\ Reworded(row, "llm").status = row.status
    BY <1>0, <1>3, <2>1, RowFlushed, RowRewritten
  <2>3. memory'[m] = IF m \in s.target THEN Reworded(row, "llm") ELSE row
    BY <1>1
  <2>4. /\ row.status = IF new[m].status # s.copy[m].status THEN new[m].status
                                                          ELSE memory[m].status
        /\ row.text = IF new[m].text # s.copy[m].text THEN new[m].text ELSE memory[m].text
    BY <1>0, <1>3, <2>1, RowFlushed
  <2> HIDE DEF row
  <2> QED  BY <1>3, <2>2, <2>3, <2>4
<1>6. memory' \in [Memories -> Row]
  BY <1>1, <1>5
<1>7. new \in [Memories -> Row]
  BY <1>3 DEF new
<1>8. /\ dreamer' = [dreamer EXCEPT ![d] = e]
      /\ e \in Dreamer /\ e.at = "group" /\ e.known = s.known /\ e.proof = s.proof
      /\ e.pairs = s.pairs
  BY <1>0, <1>2, <1>7 DEF Dreamer
<1> HIDE DEF e
<1>9. SessionOK(e)
  BY <1>0, <1>1, <1>8 DEF SessionOK
<1>10. MInv'
  <2>1. /\ changes' \subseteq Change /\ UNCHANGED <<corrected, backed, admin, edits>>
        /\ runs' \in 0..MaxRuns
    BY <1>0, <1>1, <1>4
  <2> QED  BY <1>6, <1>8, <1>9, <2>1, RunKeeps
<1>11. HumanStep /\ ArchivedStep /\ ActivationStep
  <2>1. ASSUME NEW m \in Memories
        PROVE  /\ \/ memory'[m].status = memory[m].status
                  \/ /\ memory'[m].status = new[m].status
                     /\ new[m].status # s.copy[m].status
                     /\ s.copy[m].status # "archived"
                     /\ new[m].status = "active" => m \in s.proof
               /\ memory'[m].text = memory[m].text \/ m \in s.target
    BY <1>3, <1>5
  <2> QED  BY <1>1, <2>1, WriterSteps
<1> QED  BY <1>4, <1>10, <1>11 DEF StepOK, KeeperStep

\* The write of a polish keeps a recallable memory of the pair.
LEMMA WritePairKeeps ==
  ASSUME MInv, NEW d \in Dreamers, NEW c \in Confidences, WritePair(d, c)
  PROVE  MInv' /\ StepOK
<1> DEFINE s == dreamer[d]
           higher(m) == IF c > s.copy[m].confidence THEN c ELSE s.copy[m].confidence
           new == [m \in Memories |->
                     CASE m \in s.target  -> Redrafted(s.copy[m], higher(m))
                       [] m \in s.removed \ s.target -> Demoted(s.copy[m])
                       [] OTHER -> s.copy[m]]
           e == [s EXCEPT !.at = "polish", !.copy = new,
                   !.used = s.used \cup s.target \cup s.removed,
                   !.target = {}, !.removed = {}]
<1>0. /\ MemoryTypeOK /\ s \in Dreamer /\ SessionOK(s) /\ runs \in 0..MaxRuns
      /\ memory \in [Memories -> Row] /\ changes \subseteq Change
      /\ dreamer \in [Dreamers -> Dreamer] /\ s.copy \in [Memories -> Row]
      /\ s.target \subseteq Memories /\ s.removed \subseteq Memories /\ s.used \subseteq Memories
  BY DEF MInv, MemoryTypeOK, Dreamer
<1>1. /\ s.at = "draft" /\ UNCHANGED <<backed, corrected, admin, runs, edits>>
      /\ memory' = [m \in Memories |->
           IF m \in s.target THEN Reworded(Flushed(m, s.copy[m], new[m]), "llm")
                             ELSE Flushed(m, s.copy[m], new[m])]
      /\ changes' = changes
           \cup {Recorded(m, "update", {}, s.copy[m]) : m \in s.target}
           \cup {Recorded(m, "compact", s.target, s.copy[m]) : m \in s.removed}
  BY DEF WritePair
<1>2. dreamer' = [dreamer EXCEPT ![d].at = "polish", ![d].copy = new,
                    ![d].used = @ \cup s.target \cup s.removed,
                    ![d].target = {}, ![d].removed = {}]
  BY DEF WritePair
<1>3. ASSUME NEW m \in Memories
      PROVE  /\ new[m] \in Row
             /\ m \in s.target => new[m].status = s.copy[m].status
             /\ m \notin s.target => new[m].text = s.copy[m].text
             /\ new[m].status # s.copy[m].status =>
                  s.copy[m].status # "archived" /\ new[m].status # "active"
  <2>1. s.copy[m] \in Row /\ s.copy[m].confidence \in Confidences
    BY <1>0 DEF Row
  <2>a. higher(m) \in Confidences
    BY <2>1
  <2> HIDE DEF higher
  <2>2. m \in s.target => new[m] \in Row /\ new[m].status = s.copy[m].status
    BY <2>1, <2>a, RowRewritten
  <2>3. m \notin s.target => new[m] \in {Demoted(s.copy[m]), s.copy[m]}
    OBVIOUS
  <2> HIDE DEF new
  <2>4. CASE m \in s.target
    BY <2>1, <2>2, <2>3, <2>4
  <2>5. CASE m \notin s.target
    BY <2>1, <2>3, <2>5, RowDemoted DEF Recallable
  <2> QED  BY <2>4, <2>5
<1>4. /\ changes' \subseteq Change
      /\ \A x \in changes' \ changes : x.action = "compact" =>
           x.memory \in s.removed /\ x.keeper = s.target
  <2>1. ASSUME NEW t \in s.target
        PROVE  /\ Recorded(t, "update", {}, s.copy[t]) \in Change
               /\ Recorded(t, "update", {}, s.copy[t]).action # "compact"
    <3>1. t \in Memories /\ s.copy[t] \in Row
      BY <1>0
    <3> QED  BY <3>1, RecordedChange
  <2>2. ASSUME NEW t \in s.removed
        PROVE  /\ Recorded(t, "compact", s.target, s.copy[t]) \in Change
               /\ Recorded(t, "compact", s.target, s.copy[t]).memory = t
               /\ Recorded(t, "compact", s.target, s.copy[t]).keeper = s.target
    <3>1. t \in Memories /\ s.copy[t] \in Row /\ s.target \in SUBSET Memories
      BY <1>0
    <3> QED  BY <3>1, RecordedChange
  <2>3. ASSUME NEW x \in changes', x \notin changes
        PROVE  \/ \E t \in s.target : x = Recorded(t, "update", {}, s.copy[t])
               \/ \E t \in s.removed : x = Recorded(t, "compact", s.target, s.copy[t])
    BY <1>1, <2>3
  <2> QED  BY <1>0, <2>1, <2>2, <2>3
<1> HIDE DEF new
<1>5. ASSUME NEW m \in Memories
      PROVE  /\ memory'[m] \in Row
             /\ m \notin s.target => memory'[m].text = memory[m].text
             /\ m \in s.target => memory'[m].status = memory[m].status
             /\ \/ memory'[m].status = memory[m].status
                \/ /\ memory'[m].status = new[m].status
                   /\ new[m].status # s.copy[m].status
  <2>1. s.copy[m] \in Row /\ memory[m] \in Row
    BY <1>0
  <2> DEFINE row == Flushed(m, s.copy[m], new[m])
  <2>2. row \in Row /\ Reworded(row, "llm") \in Row /\ Reworded(row, "llm").status = row.status
    BY <1>0, <1>3, <2>1, RowFlushed, RowRewritten
  <2>3. memory'[m] = IF m \in s.target THEN Reworded(row, "llm") ELSE row
    BY <1>1
  <2>4. /\ row.status = IF new[m].status # s.copy[m].status THEN new[m].status
                                                          ELSE memory[m].status
        /\ row.text = IF new[m].text # s.copy[m].text THEN new[m].text ELSE memory[m].text
    BY <1>0, <1>3, <2>1, RowFlushed
  <2> HIDE DEF row
  <2> QED  BY <1>3, <2>2, <2>3, <2>4
<1>6. memory' \in [Memories -> Row]
  BY <1>1, <1>5
<1>7. new \in [Memories -> Row]
  BY <1>3 DEF new
<1>8. /\ dreamer' = [dreamer EXCEPT ![d] = e]
      /\ e \in Dreamer /\ e.at = "polish" /\ e.known = s.known /\ e.proof = s.proof
      /\ e.pairs = s.pairs
  BY <1>0, <1>2, <1>7 DEF Dreamer
<1> HIDE DEF e
<1>9. SessionOK(e)
  BY <1>0, <1>1, <1>8 DEF SessionOK
<1>10. MInv'
  <2>1. /\ changes' \subseteq Change /\ UNCHANGED <<corrected, backed, admin, edits>>
        /\ runs' \in 0..MaxRuns
    BY <1>0, <1>1, <1>4
  <2> QED  BY <1>6, <1>8, <1>9, <2>1, RunKeeps
<1>11. HumanStep /\ ArchivedStep /\ ActivationStep
  <2>1. ASSUME NEW m \in Memories
        PROVE  /\ \/ memory'[m].status = memory[m].status
                  \/ /\ memory'[m].status = new[m].status
                     /\ new[m].status # s.copy[m].status
                     /\ s.copy[m].status # "archived"
                     /\ new[m].status = "active" => m \in s.proof
               /\ memory'[m].text = memory[m].text \/ m \in s.target
    BY <1>3, <1>5
  <2> QED  BY <1>1, <2>1, WriterSteps
<1>12. KeeperStep
  <2>1. \A k \in s.target : /\ s.copy[k].status \in Recallable
                             /\ memory'[k].status = memory[k].status
    BY <1>0, <1>1, <1>5 DEF SessionOK
  <2> QED  BY <1>4, <2>1 DEF KeeperStep
<1> QED  BY <1>10, <1>11, <1>12 DEF StepOK

-----------------------------------------------------------------------------
(***************************************************************************)
(* The administrator                                                       *)
(***************************************************************************)

\* A request that is read or written leaves the runs alone; a correction
\* adds to what is known to be corrected.
LEMMA RequestKeeps ==
  ASSUME MInv, NEW a \in Admins, NEW e \in Admin, RequestOK(e),
         admin' = [admin EXCEPT ![a] = e], memory' \in [Memories -> Row],
         changes' \subseteq Change, corrected \subseteq corrected',
         corrected' \subseteq Memories, UNCHANGED <<backed, dreamer, runs>>,
         edits' \in 0..MaxEdits
  PROVE  MInv'
<1>1. \A d \in Dreamers : SessionOK(dreamer[d])'
  <2>1. ASSUME NEW d \in Dreamers PROVE SessionOK(dreamer[d])'
    <3>1. SessionOK(dreamer[d])
      BY DEF MInv
    <3> QED  BY <3>1 DEF SessionOK
  <2> QED  BY <2>1
<1>2. /\ admin' \in [Admins -> Admin]
      /\ \A x \in Admins : RequestOK(admin'[x])
  BY DEF MInv, MemoryTypeOK
<1>3. \A x \in Admins : RequestOK(admin[x])'
  BY <1>2 DEF RequestOK
<1>4. MemoryTypeOK'
  BY <1>2 DEF MInv, MemoryTypeOK
<1> QED  BY <1>1, <1>3, <1>4 DEF MInv

\* A correction is checked against ALLOWED_TRANSITIONS when it is read.
LEMMA StartCorrectionKeeps ==
  ASSUME MInv, NEW a \in Admins, NEW ms \in SUBSET Memories, NEW text \in BOOLEAN,
         NEW st \in MemoryStatuses \cup {"keep"}, StartCorrection(a, ms, st, text)
  PROVE  MInv' /\ StepOK
<1> DEFINE on == {m \in ms : /\ memory[m] # NoRow
                             /\ \/ st \in {"keep", memory[m].status}
                                \/ Acceptable(m, st)}
           copy == Loaded(on)
           proof == backed \cap on
           e == [NoEdit EXCEPT !.at = "correct", !.copy = copy, !.on = on,
                               !.status = st, !.text = text, !.proof = proof]
<1>0. MemoryTypeOK /\ edits \in 0..MaxEdits /\ MaxEdits \in Nat
  BY MemoryAssumption DEF MInv, MemoryTypeOK
<1>1. /\ UNCHANGED <<memory, backed, corrected, changes, dreamer, runs>>
      /\ edits < MaxEdits /\ edits' = edits + 1
      /\ admin' = [admin EXCEPT ![a] = e]
  BY DEF StartCorrection
<1>2. /\ on \in SUBSET Memories /\ copy \in [Memories -> Row]
      /\ \A m \in on : copy[m] = memory[m]
      /\ proof \in SUBSET Memories
  BY <1>0, LoadedRows
<1>3. \A m \in on :
        /\ st \in {"keep", memory[m].status} \/ <<memory[m].status, st>> \in AllowedMoves
        /\ st = "active" /\ memory[m].status # "active" => m \in proof
  BY DEF Acceptable, HasEvidence
<1> HIDE DEF on, copy, proof
<1>4. /\ e \in Admin /\ e.at = "correct" /\ e.copy = copy /\ e.on = on /\ e.status = st
      /\ e.proof = proof /\ e.change = {}
  BY <1>2, RestTyped DEF Admin
<1> HIDE DEF e
<1>5. RequestOK(e)
  BY <1>2, <1>3, <1>4 DEF RequestOK
<1>6. /\ memory' \in [Memories -> Row] /\ changes' \subseteq Change
      /\ corrected \subseteq corrected' /\ corrected' \subseteq Memories
      /\ edits' \in 0..MaxEdits
  BY <1>0, <1>1 DEF MemoryTypeOK
<1>7. MInv'
  BY <1>1, <1>4, <1>5, <1>6, RequestKeeps
<1> QED  BY <1>1, <1>6, <1>7, QuietSteps

\* Its commit makes the checked move or none.
LEMMA CommitCorrectionKeeps ==
  ASSUME MInv, NEW a \in Admins, NEW c \in Confidences, CommitCorrection(a, c)
  PROVE  MInv' /\ StepOK
<1> DEFINE r == admin[a]
           new(m) == [r.copy[m] EXCEPT !.status = IF r.status = "keep" THEN @ ELSE r.status,
                                       !.confidence = IF r.text THEN c ELSE @]
<1>0. /\ MemoryTypeOK /\ r \in Admin /\ RequestOK(r) /\ edits \in 0..MaxEdits
      /\ memory \in [Memories -> Row] /\ corrected \subseteq Memories
      /\ r.copy \in [Memories -> Row] /\ r.on \subseteq Memories
      /\ r.status \in MemoryStatuses \cup {"keep"}
  BY DEF MInv, MemoryTypeOK, Admin
<1>1. /\ r.at = "correct" /\ UNCHANGED <<backed, changes, dreamer, runs, edits>>
      /\ corrected' = corrected \cup r.on /\ admin' = [admin EXCEPT ![a] = NoEdit]
      /\ memory' = [m \in Memories |->
           CASE m \notin r.on -> memory[m]
             [] m \in r.on /\ r.text -> Reworded(Flushed(m, r.copy[m], new(m)), "human")
             [] OTHER -> Flushed(m, r.copy[m], new(m))]
  BY DEF CommitCorrection
<1>2. ASSUME NEW m \in Memories
      PROVE  /\ memory'[m] \in Row
             /\ memory'[m].text \in {memory[m].text, "human"}
             /\ \/ memory'[m].status = memory[m].status
                \/ /\ m \in r.on /\ r.status # "keep" /\ r.status # r.copy[m].status
                   /\ memory'[m].status = r.status
  <2> DEFINE row == Flushed(m, r.copy[m], new(m))
  <2>1. r.copy[m] \in Row /\ memory[m] \in Row
    BY <1>0
  <2>2. /\ new(m) \in Row /\ new(m).text = r.copy[m].text
        /\ new(m).status = IF r.status = "keep" THEN r.copy[m].status ELSE r.status
    BY <1>0, <2>1 DEF Row
  <2>3. memory'[m] = CASE m \notin r.on -> memory[m]
                       [] m \in r.on /\ r.text -> Reworded(row, "human")
                       [] OTHER -> row
    BY <1>1
  <2> HIDE DEF new
  <2>4. /\ row \in Row
        /\ row.status = IF new(m).status # r.copy[m].status THEN new(m).status
                                                            ELSE memory[m].status
        /\ row.text = IF new(m).text # r.copy[m].text THEN new(m).text ELSE memory[m].text
    BY <1>0, <2>1, <2>2, RowFlushed
  <2>5. /\ Reworded(row, "human") \in Row /\ Reworded(row, "human").text = "human"
        /\ Reworded(row, "human").status = row.status
    BY <2>4, RowRewritten
  <2> HIDE DEF row
  <2>6. CASE m \notin r.on
    BY <2>1, <2>3, <2>6
  <2>7. CASE m \in r.on
    <3>1. memory'[m] = Reworded(row, "human") \/ memory'[m] = row
      BY <2>3, <2>7
    <3> QED  BY <2>2, <2>4, <2>5, <2>7, <3>1
  <2> QED  BY <2>6, <2>7
<1>3. memory' \in [Memories -> Row]
  BY <1>1, <1>2
<1>4. RequestOK(NoEdit)
  BY RestTyped DEF RequestOK
<1>5. MInv'
  <2>1. changes' \subseteq Change /\ edits' \in 0..MaxEdits
    BY <1>0, <1>1 DEF MemoryTypeOK
  <2>2. corrected \subseteq corrected' /\ corrected' \subseteq Memories
    BY <1>0, <1>1
  <2> QED  BY <1>1, <1>3, <1>4, <2>1, <2>2, RestTyped, RequestKeeps
<1>6. HumanStep /\ KeeperStep
  BY <1>1, <1>2 DEF HumanStep, KeeperStep
<1>7. \A m \in r.on : /\ \/ r.status \in {"keep", r.copy[m].status}
                         \/ <<r.copy[m].status, r.status>> \in AllowedMoves
                      /\ r.status = "active" /\ r.copy[m].status # "active" => m \in r.proof
  BY <1>0, <1>1 DEF RequestOK
<1>8. ArchivedStep
  <2>1. ASSUME NEW m \in r.on, r.status # "keep", r.status # r.copy[m].status
        PROVE  r.copy[m].status # "archived"
    BY <1>7, <2>1 DEF AllowedMoves
  <2> QED  BY <1>1, <1>2, <2>1 DEF ArchivedStep
<1>9. ActivationStep
  <2>1. ASSUME NEW m \in Memories, memory[m].status # "active", memory'[m].status = "active"
        PROVE  m \in r.on /\ m \in r.proof
    BY <1>2, <1>7, <2>1
  <2> QED  BY <1>1, <2>1 DEF ActivationStep
<1> QED  BY <1>5, <1>6, <1>8, <1>9 DEF StepOK

\* A revert is about the memory of its change.
LEMMA StartRevertKeeps ==
  ASSUME MInv, NEW a \in Admins, NEW c \in changes, StartRevert(a, c)
  PROVE  MInv' /\ StepOK
<1> DEFINE copy == Loaded({c.memory})
           e == [NoEdit EXCEPT !.at = "revert", !.copy = copy, !.on = {c.memory}, !.change = {c}]
<1>0. /\ MemoryTypeOK /\ edits \in 0..MaxEdits /\ MaxEdits \in Nat
      /\ c \in Change /\ c.memory \in Memories
  BY MemoryAssumption DEF MInv, MemoryTypeOK, Change
<1>1. /\ UNCHANGED <<memory, backed, corrected, changes, dreamer, runs>>
      /\ edits < MaxEdits /\ edits' = edits + 1
      /\ admin' = [admin EXCEPT ![a] = e]
  BY DEF StartRevert
<1>2. copy \in [Memories -> Row]
  BY <1>0, LoadedRows
<1> HIDE DEF copy
<1>3. e \in Admin /\ e.at = "revert" /\ e.on = {c.memory} /\ e.change = {c}
  BY <1>0, <1>2, RestTyped DEF Admin
<1> HIDE DEF e
<1>4. RequestOK(e)
  BY <1>3 DEF RequestOK
<1>5. /\ memory' \in [Memories -> Row] /\ changes' \subseteq Change
      /\ corrected \subseteq corrected' /\ corrected' \subseteq Memories
      /\ edits' \in 0..MaxEdits
  BY <1>0, <1>1 DEF MemoryTypeOK
<1>6. MInv'
  BY <1>1, <1>3, <1>4, <1>5, RequestKeeps
<1> QED  BY <1>1, <1>5, <1>6, QuietSteps

\* Its commit writes that memory and marks the change.
LEMMA CommitRevertKeeps ==
  ASSUME MInv, NEW a \in Admins, CommitRevert(a)
  PROVE  MInv' /\ StepOK
<1> DEFINE r == admin[a]
<1>0. /\ MemoryTypeOK /\ r \in Admin /\ RequestOK(r) /\ edits \in 0..MaxEdits
      /\ memory \in [Memories -> Row] /\ corrected \subseteq Memories
      /\ changes \subseteq Change /\ r.change \subseteq Change
      /\ r.copy \in [Memories -> Row]
  BY DEF MInv, MemoryTypeOK, Admin
<1>1. PICK c \in r.change :
        /\ memory' = [memory EXCEPT ![c.memory] = Flushed(c.memory, r.copy[c.memory], c.before)]
        /\ changes' = (changes \ {c}) \cup {[c EXCEPT !.reverted = TRUE]}
  BY DEF CommitRevert
<1>2. /\ r.at = "revert" /\ UNCHANGED <<backed, corrected, dreamer, runs, edits>>
      /\ admin' = [admin EXCEPT ![a] = NoEdit]
  BY DEF CommitRevert
<1>3. c \in Change /\ c.memory \in Memories /\ c.before \in Row /\ c.memory \in r.on
  BY <1>0 DEF Change, RequestOK
<1>4. memory' \in [Memories -> Row]
  <2>1. r.copy[c.memory] \in Row
    BY <1>0, <1>3
  <2>2. Flushed(c.memory, r.copy[c.memory], c.before) \in Row
    BY <1>0, <1>3, <2>1, RowFlushed
  <2> QED  BY <1>0, <1>1, <1>3, <2>2
<1>5. changes' \subseteq Change /\ \A x \in changes' \ changes : x.reverted
  <2>1. [c EXCEPT !.reverted = TRUE] \in Change /\ [c EXCEPT !.reverted = TRUE].reverted
    BY <1>3 DEF Change
  <2> QED  BY <1>0, <1>1, <2>1
<1>6. RequestOK(NoEdit)
  BY RestTyped DEF RequestOK
<1>7. MInv'
  BY <1>0, <1>2, <1>4, <1>5, <1>6, RestTyped, RequestKeeps
<1>8. \A m \in Memories : memory'[m] = memory[m] \/ Reverts(m)
  BY <1>0, <1>1, <1>2, <1>3 DEF Reverts
<1> QED  BY <1>5, <1>7, <1>8 DEF StepOK, HumanStep, KeeperStep, ArchivedStep, ActivationStep

\* The end of a repository only takes evidence away.
LEMMA DeleteKeeps ==
  ASSUME MInv, DeleteRepository
  PROVE  MInv' /\ StepOK
<1>1. /\ UNCHANGED <<memory, corrected, changes, dreamer, admin, runs>>
      /\ backed' = {} /\ edits' \in 0..MaxEdits
  BY MemoryAssumption DEF DeleteRepository, MInv, MemoryTypeOK
<1>2. MemoryTypeOK'
  BY <1>1 DEF MInv, MemoryTypeOK
<1>3. \A d \in Dreamers : SessionOK(dreamer[d])'
  BY <1>1 DEF MInv, SessionOK
<1>4. \A a \in Admins : RequestOK(admin[a])'
  BY <1>1 DEF MInv, RequestOK
<1>5. memory' = memory /\ changes' \subseteq Change
  BY <1>1 DEF MInv, MemoryTypeOK
<1> QED  BY <1>2, <1>3, <1>4, <1>5, QuietSteps DEF MInv

-----------------------------------------------------------------------------
(***************************************************************************)
(* The theorems                                                            *)
(***************************************************************************)
\* Nothing is in progress at first.
LEMMA InitMInv == MemoryInit => MInv
<1> SUFFICES ASSUME MemoryInit PROVE MInv
  OBVIOUS
<1>1. Fresh \cup {NoRow} \subseteq Row
  BY NoRowIsRow DEF Fresh, Row, MemoryStatuses
<1>2. MemoryTypeOK
  BY <1>1, RestTyped DEF MemoryInit, MemoryTypeOK
<1>3. SessionOK(AtRest) /\ RequestOK(NoEdit)
  BY RestTyped DEF SessionOK, RequestOK
<1> QED  BY <1>2, <1>3 DEF MemoryInit, MInv

\* Every step keeps the invariant and does to the memories only what the four
\* properties allow.
LEMMA MInvInductive ==
  ASSUME MInv, [MemoryNext]_memoryVars
  PROVE  MInv' /\ StepOK
<1>0. changes \subseteq Change
  BY DEF MInv, MemoryTypeOK
<1>1. ASSUME NEW d \in Dreamers, DreamStep(d) PROVE MInv' /\ StepOK
  <2>1. CASE (\E type \in DreamTypes : StartDream(d, type)) \/ StartPolish(d)
    BY <1>0, <2>1, StartsKeep, QuietSteps
  <2>2. CASE \/ \E G \in SUBSET dreamer[d].todo :
                  SkipGroup(d, G) \/ \E t \in G, b \in BOOLEAN : Reconcile(d, G, t, b)
             \/ Reload(d) \/ DraftFails(d) \/ FinishDream(d) \/ Abandon(d)
             \/ \E p \in dreamer[d].pairs :
                  KeepPair(d, p) \/ SkipPair(d, p)
                    \/ \E m \in p : Conflict(d, p, m) \/ Draft(d, p, m)
    <3>1. MInv' /\ memory' = memory
      BY <2>2, QuietKeeps
    <3>2. changes' \subseteq Change
      BY <3>1 DEF MInv, MemoryTypeOK
    <3> QED  BY <3>1, <3>2, QuietSteps
  <2>3. CASE Promote(d)
    BY <2>3, PromoteKeeps
  <2>4. CASE Validate(d)
    BY <2>4, ValidateKeeps
  <2>5. CASE \E c \in Confidences : WriteTarget(d, c) \/ WritePair(d, c)
    BY <2>5, WriteTargetKeeps, WritePairKeeps
  <2>6. CASE \E p \in dreamer[d].pairs : \E m \in p : MergePair(d, p, m)
    BY <2>6, MergePairKeeps
  <2> QED  BY <1>1, <2>1, <2>2, <2>3, <2>4, <2>5, <2>6 DEF DreamStep
<1>2. ASSUME NEW a \in Admins, AdminStep(a) PROVE MInv' /\ StepOK
  BY <1>2, StartCorrectionKeeps, CommitCorrectionKeeps, StartRevertKeeps, CommitRevertKeeps
     DEF AdminStep
<1>3. CASE UNCHANGED memoryVars
  <2>1. MInv'
    BY <1>3 DEF memoryVars, MInv, MemoryTypeOK, SessionOK, RequestOK
  <2> QED  BY <1>0, <1>3, <2>1, QuietSteps DEF memoryVars
<1> QED  BY <1>1, <1>2, <1>3, DeleteKeeps DEF MemoryNext

\* The invariant of all sessions, whose first part is the type invariant.
THEOREM AlwaysMInv == MemorySpec => []MInv
<1>1. MInv /\ [MemoryNext]_memoryVars => MInv'
  BY MInvInductive
<1> QED  BY <1>1, InitMInv, PTL DEF MemorySpec

\* models.py:478, dreaming/service.py:280, polish.py:164: a human text written before a
\* run began survives the run.
THEOREM HumanTextStays == MemorySpec => HumanTextOutlivesRuns
<1>1. MInv /\ [MemoryNext]_memoryVars => [HumanStep]_memoryVars
  BY MInvInductive DEF StepOK
<1>2. HumanTextOutlivesRuns <=> [][HumanStep]_memoryVars
  BY PTL DEF HumanTextOutlivesRuns, HumanStep
<1> QED  BY <1>1, <1>2, AlwaysMInv, PTL DEF MemorySpec

\* dreaming/service.py:451, polish.py:156: a duplicate gives way only to a memory that
\* agents are still given, unless that one was changed behind the run's back.
THEOREM MergesKeepOne == MemorySpec => KeepersLive
<1>1. MInv /\ [MemoryNext]_memoryVars => [KeeperStep]_memoryVars
  BY MInvInductive DEF StepOK
<1>2. KeepersLive <=> [][KeeperStep]_memoryVars
  BY PTL DEF KeepersLive, KeeperStep
<1> QED  BY <1>1, <1>2, AlwaysMInv, PTL DEF MemorySpec

\* memory/service.py:23: nobody who knows that a memory is archived revives it, except by
\* a revert.
THEOREM ArchiveIsFinal == MemorySpec => ArchivedStays
<1>1. MInv /\ [MemoryNext]_memoryVars => [ArchivedStep]_memoryVars
  BY MInvInductive DEF StepOK
<1>2. ArchivedStays <=> [][ArchivedStep]_memoryVars
  BY PTL DEF ArchivedStays, ArchivedStep
<1> QED  BY <1>1, <1>2, AlwaysMInv, PTL DEF MemorySpec

\* memory/service.py:206: a memory becomes active only with evidence that was there when
\* the run or the request began, or by a revert.
THEOREM ActiveHasEvidence == MemorySpec => ActivationIsBacked
<1>1. MInv /\ [MemoryNext]_memoryVars => [ActivationStep]_memoryVars
  BY MInvInductive DEF StepOK
<1>2. ActivationIsBacked <=> [][ActivationStep]_memoryVars
  BY PTL DEF ActivationIsBacked, ActivationStep
<1> QED  BY <1>1, <1>2, AlwaysMInv, PTL DEF MemorySpec

-----------------------------------------------------------------------------
(***************************************************************************)
(* Proofs about NightlyDream, for every set of projects and of worker      *)
(* processes and every number of days: the row lock belongs to the thread  *)
(* looking at the project, and a project gets one automatic dream a day.   *)
(*                                                                         *)
(* A thread that has found no dream inserts one later, and what it found   *)
(* must still be so: it holds the row, every other automatic dream of the  *)
(* project needs that row, and no dream is dated before the night its      *)
(* thread woke up in (Decided and Dated below).                            *)
(***************************************************************************)
\* The types, with finitely many rows.
TypesOK ==
  /\ day \in 1..MaxDays /\ night \in BOOLEAN
  /\ ripe \subseteq DreamProjects
  /\ dreams \subseteq Dream0 /\ IsFiniteSet(dreams)
  /\ rowlock \in [DreamProjects -> Schedulers \cup {Nobody}]
  /\ scheduler \in [Schedulers -> Scheduler]

\* A row is locked by exactly the thread that looks at its project.
LocksOK ==
  /\ \A p \in DreamProjects, s \in Schedulers : rowlock[p] = s =>
       scheduler[s].at \in {"search", "insert"} /\ scheduler[s].project = p
  /\ \A s \in Schedulers : scheduler[s].at \in {"search", "insert"} =>
       scheduler[s].project \in DreamProjects /\ rowlock[scheduler[s].project] = s

\* Nothing is dated ahead, and a dream is made in the night it is for or later.
Dated ==
  /\ \A s \in Schedulers : scheduler[s].at # "idle" => scheduler[s].since \in 1..day
  /\ \A s \in Schedulers : scheduler[s].at = "send" =>
       scheduler[s].project \in DreamProjects
  /\ \A d \in dreams : d.created <= day /\ d.schedule <= d.created

Automatic == {d \in dreams : d.schedule > 0}

\* A thread about to insert has no automatic dream of its day before it.
Decided ==
  \A s \in Schedulers : scheduler[s].at = "insert" =>
    \A d \in Automatic : d.project = scheduler[s].project =>
      d.created < scheduler[s].since

NInv == TypesOK /\ LocksOK /\ Dated /\ Decided /\ OneNightlyPerDay

\* The strengthened invariant contains the type invariant.
LEMMA NightlyTyped == NInv => NightlyTypeOK
  BY DEF NInv, TypesOK, LocksOK, NightlyTypeOK

\* It holds before the first night.
LEMMA InitNInv == NightlyInit => NInv
<1> SUFFICES ASSUME NightlyInit PROVE NInv
  OBVIOUS
<1>1. Asleep \in Scheduler /\ Asleep.at = "idle"
  BY NightlyAssumption DEF Asleep, Scheduler
<1>2. dreams = {} /\ \A s \in Schedulers : scheduler[s] = Asleep
  BY DEF NightlyInit
<1>6. IsFiniteSet(dreams)
  BY <1>2, FS_EmptySet
<1>7. 1 \in 1..MaxDays
  BY NightlyAssumption
<1>3. TypesOK
  BY <1>1, <1>6, <1>7 DEF NightlyInit, TypesOK
<1>4. LocksOK
  BY <1>1, <1>2, NightlyAssumption DEF NightlyInit, LocksOK, Nobody
<1>5. Dated /\ Decided /\ OneNightlyPerDay
  BY <1>1, <1>2 DEF Dated, Decided, OneNightlyPerDay
<1> QED  BY <1>3, <1>4, <1>5 DEF NInv

\* A thread that moves on keeps the types, whatever it moves on to.
LEMMA ThreadTyped ==
  ASSUME TypesOK, NEW s \in Schedulers, NEW t \in Scheduler,
         scheduler' = [scheduler EXCEPT ![s] = t]
  PROVE  /\ scheduler' \in [Schedulers -> Scheduler]
         /\ scheduler'[s] = t
         /\ \A r \in Schedulers \ {s} : scheduler'[r] = scheduler[r]
  BY DEF TypesOK

\* The record a thread becomes when it has dealt with a project.
Through(s) ==
  [scheduler[s] EXCEPT !.at = "scan", !.todo = @ \ {scheduler[s].project},
                       !.project = NoProject]

\* Next0 and Step as records.
LEMMA ThreadMoves ==
  ASSUME TypesOK, NEW s \in Schedulers
  PROVE  /\ Next0(s) => scheduler' = [scheduler EXCEPT ![s] = Through(s)]
         /\ Through(s) \in Scheduler
         /\ Through(s).at = "scan" /\ Through(s).since = scheduler[s].since
         /\ \A at \in {"insert", "send"} :
              /\ Step(s, at) => scheduler' = [scheduler EXCEPT ![s] =
                                                [scheduler[s] EXCEPT !.at = at]]
              /\ [scheduler[s] EXCEPT !.at = at] \in Scheduler
  BY DEF TypesOK, Scheduler, Next0, Step, Through

\* A thread that holds no row and takes none, and writes none.
LEMMA IdleMoveKeeps ==
  ASSUME NInv, NEW s \in Schedulers, NEW t \in Scheduler,
         scheduler' = [scheduler EXCEPT ![s] = t],
         t.at \in {"idle", "scan"}, t.at # "idle" => t.since \in 1..day,
         rowlock' = Unlocked(s), UNCHANGED <<day, night, ripe, dreams>>
  PROVE  NInv'
<1>1. /\ scheduler' \in [Schedulers -> Scheduler]
      /\ scheduler'[s] = t
      /\ \A r \in Schedulers \ {s} : scheduler'[r] = scheduler[r]
  BY ThreadTyped DEF NInv
<1>2. rowlock' \in [DreamProjects -> Schedulers \cup {Nobody}]
  BY DEF NInv, TypesOK, Unlocked
<1>3. TypesOK'
  BY <1>1, <1>2 DEF NInv, TypesOK
<1>4. LocksOK'
  BY <1>1, NightlyAssumption DEF NInv, LocksOK, Unlocked, Nobody, TypesOK
<1>5. Dated' /\ Decided' /\ OneNightlyPerDay'
  BY <1>1 DEF NInv, Dated, Decided, Automatic, OneNightlyPerDay
<1> QED  BY <1>3, <1>4, <1>5 DEF NInv

\* Waking up, going to sleep and dying.
LEMMA RestKeeps ==
  ASSUME NInv, NEW s \in Schedulers, Wake(s) \/ Sleep(s) \/ CrashScheduler(s)
  PROVE  NInv'
<1>1. Asleep \in Scheduler /\ Asleep.at = "idle"
  BY NightlyAssumption DEF Asleep, Scheduler
<1>2. CASE Sleep(s)
  <2>1. Unlocked(s) = rowlock
    BY <1>2 DEF Sleep, Unlocked, NInv, TypesOK, LocksOK
  <2> QED  BY <1>1, <1>2, <2>1, IdleMoveKeeps DEF Sleep
<1>3. CASE CrashScheduler(s)
  BY <1>1, <1>3, IdleMoveKeeps DEF CrashScheduler
<1>4. CASE Wake(s)
  <2> DEFINE t == [Asleep EXCEPT !.at = "scan", !.since = day, !.todo = ripe]
  <2>1. t \in Scheduler /\ t.at = "scan" /\ t.since = day
    <3>1. day \in 0..MaxDays /\ ripe \subseteq DreamProjects
      BY NightlyAssumption DEF NInv, TypesOK
    <3> QED  BY <1>1, <3>1 DEF Scheduler
  <2>2. Unlocked(s) = rowlock
    BY <1>4 DEF Wake, Unlocked, NInv, TypesOK, LocksOK
  <2>3. day \in 1..day
    BY NightlyAssumption DEF NInv, TypesOK
  <2> QED  BY <1>4, <2>1, <2>2, <2>3, IdleMoveKeeps DEF Wake
<1> QED  BY <1>2, <1>3, <1>4

\* SELECT ... FOR UPDATE.
LEMMA LockKeeps ==
  ASSUME NInv, NEW s \in Schedulers, NEW p \in DreamProjects, LockProject(s, p)
  PROVE  NInv'
<1> DEFINE t == [scheduler[s] EXCEPT !.at = "search", !.project = p]
<1>1. t \in Scheduler /\ t.at = "search" /\ t.project = p /\ t.since = scheduler[s].since
  BY DEF NInv, TypesOK, Scheduler
<1>2. scheduler' = [scheduler EXCEPT ![s] = t]
  BY DEF LockProject, NInv, TypesOK, Scheduler
<1>3. /\ scheduler' \in [Schedulers -> Scheduler]
      /\ scheduler'[s] = t
      /\ \A r \in Schedulers \ {s} : scheduler'[r] = scheduler[r]
  BY <1>1, <1>2, ThreadTyped DEF NInv
<1>4. TypesOK'
  BY <1>3 DEF NInv, TypesOK, LockProject
<1>5. LocksOK'
  BY <1>1, <1>3, NightlyAssumption DEF NInv, TypesOK, LocksOK, LockProject, Free, Nobody
<1>6. Dated' /\ Decided' /\ OneNightlyPerDay'
  BY <1>1, <1>3 DEF NInv, Dated, Decided, Automatic, OneNightlyPerDay, LockProject
<1> QED  BY <1>4, <1>5, <1>6 DEF NInv

\* The look at the day's dreams decides about every automatic one.
LEMMA SearchKeeps == ASSUME NInv, NEW s \in Schedulers, Search(s) PROVE NInv'
<1>1. CASE TakenToday(s)
  <2>1. scheduler[s].since \in 1..day
    BY DEF Search, NInv, Dated
  <2>2. TypesOK
    BY DEF NInv
  <2> QED  BY <1>1, <2>1, <2>2, ThreadMoves, IdleMoveKeeps DEF Search
<1>2. CASE ~TakenToday(s)
  <2> DEFINE t == [scheduler[s] EXCEPT !.at = "insert"]
  <2>1. t \in Scheduler /\ scheduler' = [scheduler EXCEPT ![s] = t]
    BY <1>2, ThreadMoves DEF NInv, Search
  <2>2. t.at = "insert" /\ t.project = scheduler[s].project /\ t.since = scheduler[s].since
    BY DEF NInv, TypesOK, Scheduler
  <2>3. /\ scheduler' \in [Schedulers -> Scheduler]
        /\ scheduler'[s] = t
        /\ \A r \in Schedulers \ {s} : scheduler'[r] = scheduler[r]
    BY <2>1, ThreadTyped DEF NInv
  <2>4. UNCHANGED <<day, night, ripe, dreams, rowlock>>
    BY <1>2 DEF Search
  <2>9. scheduler[s].at = "search"
    BY DEF Search
  <2>10. TypesOK'
    BY <2>3, <2>4 DEF NInv, TypesOK
  <2>11. /\ scheduler'[s].at = "insert"
         /\ scheduler'[s].project = scheduler[s].project
         /\ rowlock' = rowlock
    BY <2>2, <2>3, <2>4
  <2>5. LocksOK'
    <3> HIDE DEF t
    <3>1. ASSUME NEW p \in DreamProjects, NEW r \in Schedulers, rowlock'[p] = r
          PROVE  scheduler'[r].at \in {"search", "insert"} /\ scheduler'[r].project = p
      BY <2>3, <2>9, <2>11, <3>1 DEF NInv, LocksOK
    <3>2. ASSUME NEW r \in Schedulers, scheduler'[r].at \in {"search", "insert"}
          PROVE  scheduler'[r].project \in DreamProjects /\ rowlock'[scheduler'[r].project] = r
      BY <2>3, <2>9, <2>11, <3>2 DEF NInv, LocksOK
    <3> QED  BY <3>1, <3>2 DEF LocksOK
  <2>6. Dated' /\ OneNightlyPerDay'
    BY <2>2, <2>3, <2>4 DEF NInv, Dated, OneNightlyPerDay, Search
  <2>7. ASSUME NEW d \in dreams, d.project = scheduler[s].project
        PROVE  d.created < scheduler[s].since
    <3>1. d.created \in Int /\ scheduler[s].since \in Int
      BY DEF NInv, TypesOK, Dream0, Scheduler
    <3> QED  BY <1>2, <2>7, <3>1 DEF TakenToday
  <2>8. Decided'
    BY <2>2, <2>3, <2>4, <2>7 DEF NInv, Decided, Automatic
  <2> QED  BY <2>5, <2>6, <2>8, <2>10 DEF NInv
<1> QED  BY <1>1, <1>2

\* A row of today.
LEMMA NewRow ==
  ASSUME NInv, NEW p \in DreamProjects, NEW n \in 0..day,
         NEW st \in {"queued", "sent", "failed"},
         dreams' = dreams \cup {NewDream(p, n, st)}
  PROVE  dreams' \subseteq Dream0 /\ IsFiniteSet(dreams')
<1>1. Cardinality(dreams) \in Nat
  BY FS_CardinalityType DEF NInv, TypesOK
<1>2. NewDream(p, n, st) \in Dream0
  BY <1>1, NightlyAssumption DEF NInv, TypesOK, NewDream, Dream0
<1> QED  BY <1>2, FS_AddElement DEF NInv, TypesOK

\* The insert.  The row is of a later day than every automatic one of its project.
LEMMA InsertKeeps == ASSUME NInv, NEW s \in Schedulers, InsertDream(s) PROVE NInv'
<1> DEFINE p == scheduler[s].project
           since == scheduler[s].since
           t == [scheduler[s] EXCEPT !.at = "send"]
           new == NewDream(p, since, "queued")
<1>1. /\ p \in DreamProjects /\ since \in 1..day /\ day \in Nat
      /\ rowlock[p] = s
  BY DEF InsertDream, NInv, LocksOK, Dated, TypesOK
<1>2. t \in Scheduler /\ scheduler' = [scheduler EXCEPT ![s] = t]
  BY ThreadMoves DEF NInv, InsertDream
<1>3. t.at = "send" /\ t.project = p /\ t.since = since
  BY DEF NInv, TypesOK, Scheduler
<1>4. /\ scheduler' \in [Schedulers -> Scheduler]
      /\ scheduler'[s] = t
      /\ \A r \in Schedulers \ {s} : scheduler'[r] = scheduler[r]
  BY <1>2, ThreadTyped DEF NInv
<1>5. /\ dreams' = dreams \cup {new} /\ rowlock' = Unlocked(s)
      /\ UNCHANGED <<day, night, ripe>>
  BY DEF InsertDream
<1>6. rowlock' \in [DreamProjects -> Schedulers \cup {Nobody}]
  BY <1>5 DEF NInv, TypesOK, Unlocked
<1>7. since \in 0..day
  BY <1>1
<1>8. dreams' \subseteq Dream0 /\ IsFiniteSet(dreams')
  BY <1>1, <1>5, <1>7, NewRow
<1>9. TypesOK'
  BY <1>4, <1>5, <1>6, <1>8 DEF NInv, TypesOK
<1>17. \A q \in DreamProjects : rowlock'[q] = IF rowlock[q] = s THEN Nobody ELSE rowlock[q]
  BY <1>5 DEF Unlocked
<1>18. s # Nobody
  BY NightlyAssumption DEF Nobody
<1>10. LocksOK'
  <2>1. ASSUME NEW q \in DreamProjects, NEW r \in Schedulers, rowlock'[q] = r
        PROVE  scheduler'[r].at \in {"search", "insert"} /\ scheduler'[r].project = q
    <3>1. r # Nobody
      BY NightlyAssumption DEF Nobody
    <3>2. r # s /\ rowlock[q] = r
      BY <1>17, <2>1, <3>1
    <3> QED  BY <1>4, <3>2 DEF NInv, LocksOK
  <2>2. ASSUME NEW r \in Schedulers, scheduler'[r].at \in {"search", "insert"}
        PROVE  scheduler'[r].project \in DreamProjects /\ rowlock'[scheduler'[r].project] = r
    <3>1. r # s /\ scheduler'[r] = scheduler[r]
      BY <1>3, <1>4, <2>2
    <3>2. scheduler[r].project \in DreamProjects /\ rowlock[scheduler[r].project] = r
      BY <2>2, <3>1 DEF NInv, LocksOK
    <3> QED  BY <1>17, <3>1, <3>2
  <2> QED  BY <2>1, <2>2 DEF LocksOK
<1>11. new.created = day /\ new.schedule = since /\ new.project = p
  BY DEF NewDream
<1>12. Dated'
  <2>1. \A d \in dreams' : d.created <= day' /\ d.schedule <= d.created
    BY <1>1, <1>5, <1>11 DEF NInv, Dated
  <2>2. \A r \in Schedulers : scheduler'[r].at # "idle" => scheduler'[r].since \in 1..day'
    BY <1>1, <1>3, <1>4, <1>5 DEF NInv, Dated
  <2>3. \A r \in Schedulers : scheduler'[r].at = "send" =>
          scheduler'[r].project \in DreamProjects
    BY <1>1, <1>3, <1>4 DEF NInv, Dated
  <2> QED  BY <2>1, <2>2, <2>3 DEF Dated
<1>13. \A d \in Automatic : d.project = p =>
          d.created < since /\ d.schedule <= d.created
  BY DEF NInv, Decided, Dated, Automatic, InsertDream
<1>14. \A d \in dreams : d.created \in Int /\ d.schedule \in Int
  BY DEF NInv, TypesOK, Dream0
<1>15. Decided'
  <2>1. ASSUME NEW r \in Schedulers, scheduler'[r].at = "insert" PROVE scheduler'[r].project # p
    <3>1. r # s
      BY <1>3, <1>4, <2>1
    <3> QED  BY <1>1, <1>4, <2>1, <3>1 DEF NInv, LocksOK
  <2>2. \A r \in Schedulers \ {s} : scheduler'[r] = scheduler[r]
    BY <1>4
  <2>3. \A d \in Automatic' : d \in Automatic \/ d = new
    BY <1>5 DEF Automatic
  <2> QED  BY <1>3, <1>4, <1>11, <2>1, <2>2, <2>3 DEF NInv, Decided
<1>16. OneNightlyPerDay'
  <2>1. ASSUME NEW d \in dreams, d.project = p, d.schedule > 0
        PROVE  d.schedule # since /\ d.created # day
    BY <1>1, <1>13, <1>14, <2>1 DEF Automatic
  <2>2. ASSUME NEW d \in dreams', NEW e \in dreams', d # e, d.project = e.project,
               d.schedule > 0, e.schedule > 0
        PROVE  d.schedule # e.schedule /\ d.created # e.created
    <3>1. CASE d \in dreams /\ e \in dreams
      BY <2>2, <3>1 DEF NInv, OneNightlyPerDay
    <3>2. CASE d = new /\ e \in dreams
      BY <1>11, <2>1, <2>2, <3>2
    <3>3. CASE e = new /\ d \in dreams
      BY <1>11, <2>1, <2>2, <3>3
    <3> QED  BY <1>5, <2>2, <3>1, <3>2, <3>3
  <2> QED  BY <2>2 DEF OneNightlyPerDay
<1> QED  BY <1>9, <1>10, <1>12, <1>15, <1>16 DEF NInv

\* What is written of a row after it was inserted is its status.
SameDream(d, e) ==
  d.project = e.project /\ d.created = e.created /\ d.schedule = e.schedule

\* The send changes the status of rows, of no two in the same way.
LEMMA SendKeeps ==
  ASSUME NInv, NEW s \in Schedulers, NEW ok \in BOOLEAN, SendDream(s, ok)
  PROVE  NInv'
<1> DEFINE st == IF ok THEN "sent" ELSE "failed"
           mine == {d \in dreams : /\ d.project = scheduler[s].project
                                   /\ d.schedule = scheduler[s].since
                                   /\ d.status = "queued"}
           f == [d \in mine |-> [d EXCEPT !.status = st]]
           sent == {[d EXCEPT !.status = st] : d \in mine}
<1>1. dreams' = (dreams \ mine) \cup sent
  BY DEF SendDream
<1>2. \A d \in dreams : [d EXCEPT !.status = st] \in Dream0 /\ SameDream(d, [d EXCEPT !.status = st])
  BY DEF NInv, TypesOK, Dream0, SameDream
<1>3. IsFiniteSet(dreams')
  <2>1. IsFiniteSet(mine) /\ IsFiniteSet(dreams \ mine)
    BY FS_Subset DEF NInv, TypesOK
  <2>2. f \in Surjection(mine, sent)
    BY DEF Surjection
  <2>3. IsFiniteSet(sent)
    BY <2>1, <2>2, FS_Surjection
  <2> QED  BY <1>1, <2>1, <2>3, FS_Union
<1>4. dreams' \subseteq Dream0
  BY <1>1, <1>2 DEF NInv, TypesOK
<1>15. ASSUME NEW d \in dreams'
       PROVE  \/ d \in dreams \ mine
              \/ \E e \in mine : d = [e EXCEPT !.status = st]
  BY <1>1
<1>16. \A d : SameDream(d, d)
  BY DEF SameDream
<1>5. ASSUME NEW d \in dreams' PROVE \E e \in dreams : SameDream(e, d)
  <2>1. CASE d \in dreams
    BY <1>16, <2>1
  <2>2. ASSUME NEW e \in mine, d = [e EXCEPT !.status = st] PROVE SameDream(e, d)
    BY <1>2, <2>2
  <2> QED  BY <1>15, <2>1, <2>2
<1>6. ASSUME NEW d \in dreams', NEW e \in dreams', d # e
      PROVE  \E a, b \in dreams : a # b /\ SameDream(a, d) /\ SameDream(b, e)
  <2>1. CASE d \in dreams \ mine /\ e \in dreams \ mine
    BY <1>6, <1>16, <2>1
  <2>2. ASSUME d \in dreams \ mine, NEW b \in mine, e = [b EXCEPT !.status = st]
        PROVE  d # b /\ SameDream(d, d) /\ SameDream(b, e)
    BY <1>2, <1>16, <2>2
  <2>3. ASSUME e \in dreams \ mine, NEW a \in mine, d = [a EXCEPT !.status = st]
        PROVE  a # e /\ SameDream(a, d) /\ SameDream(e, e)
    BY <1>2, <1>16, <2>3
  <2>4. ASSUME NEW a \in mine, d = [a EXCEPT !.status = st],
               NEW b \in mine, e = [b EXCEPT !.status = st]
        PROVE  a # b /\ SameDream(a, d) /\ SameDream(b, e)
    BY <1>2, <1>6, <2>4
  <2>5. \A x \in mine : x \in dreams
    OBVIOUS
  <2>6. CASE d \in dreams \ mine
    BY <1>15, <2>1, <2>2, <2>5, <2>6
  <2>7. CASE d \notin dreams \ mine
    BY <1>15, <2>3, <2>4, <2>5, <2>7
  <2> QED  BY <2>6, <2>7
<1>7. OneNightlyPerDay'
  BY <1>6 DEF NInv, OneNightlyPerDay, SameDream
<1>8. scheduler[s].at = "send" /\ scheduler[s].since \in 1..day /\ TypesOK
  BY DEF SendDream, NInv, Dated
<1>9. /\ scheduler' \in [Schedulers -> Scheduler]
      /\ scheduler'[s].at = "scan" /\ scheduler'[s].since \in 1..day
      /\ \A r \in Schedulers \ {s} : scheduler'[r] = scheduler[r]
  BY <1>8, ThreadMoves, ThreadTyped DEF SendDream
<1>10. UNCHANGED <<day, night, ripe, rowlock>>
  BY DEF SendDream
<1>11. TypesOK'
  BY <1>3, <1>4, <1>9, <1>10 DEF NInv, TypesOK
<1>12. LocksOK'
  BY <1>8, <1>9, <1>10 DEF NInv, LocksOK
<1>13. Dated'
  BY <1>5, <1>9, <1>10 DEF NInv, Dated, SameDream
<1>14. Decided'
  BY <1>5, <1>9, <1>10 DEF NInv, Decided, Automatic, SameDream
<1> QED  BY <1>7, <1>11, <1>12, <1>13, <1>14 DEF NInv

\* A dream made by hand is nobody's nightly dream.
LEMMA ByHandKeeps ==
  ASSUME NInv, NEW p \in DreamProjects, NEW ok \in BOOLEAN, CreateDream(p, ok)
  PROVE  NInv'
<1> DEFINE st == IF ok THEN "sent" ELSE "failed"
           new == NewDream(p, 0, st)
<1>1. dreams' = dreams \cup {new} /\ UNCHANGED <<day, night, ripe, rowlock, scheduler>>
  BY DEF CreateDream
<1>2. new.schedule = 0 /\ new.created = day /\ day \in Nat
  BY DEF NewDream, NInv, TypesOK
<1>3. dreams' \subseteq Dream0 /\ IsFiniteSet(dreams')
  BY <1>1, <1>2, NewRow
<1>4. TypesOK' /\ LocksOK'
  BY <1>1, <1>3 DEF NInv, TypesOK, LocksOK
<1>5. Dated' /\ Decided'
  BY <1>1, <1>2 DEF NInv, Dated, Decided, Automatic
<1>6. OneNightlyPerDay'
  BY <1>1, <1>2 DEF NInv, OneNightlyPerDay
<1> QED  BY <1>4, <1>5, <1>6 DEF NInv

\* The clock only goes on.
LEMMA ClockKeeps == ASSUME NInv, Clock PROVE NInv'
<1>1. day' \in 1..MaxDays /\ day <= day' /\ night' \in BOOLEAN
  BY NightlyAssumption DEF Clock, NInv, TypesOK
<1>2. UNCHANGED <<ripe, dreams, rowlock, scheduler>>
  BY DEF Clock
<1>3. day \in Int /\ \A d \in dreams : d.created \in Int
  BY DEF NInv, TypesOK, Dream0
<1>4. TypesOK' /\ LocksOK' /\ Decided' /\ OneNightlyPerDay'
  BY <1>1, <1>2 DEF NInv, TypesOK, LocksOK, Decided, Automatic, OneNightlyPerDay
<1>5. Dated'
  BY <1>1, <1>2, <1>3 DEF NInv, Dated
<1> QED  BY <1>4, <1>5 DEF NInv

\* The strengthened invariant is inductive.
LEMMA NInvInductive == NInv /\ [NightlyNext]_nightlyVars => NInv'
<1> SUFFICES ASSUME NInv, [NightlyNext]_nightlyVars PROVE NInv'
  OBVIOUS
<1>1. ASSUME NEW p \in DreamProjects, Ripen(p) PROVE NInv'
  BY <1>1
  DEF Ripen, NInv, TypesOK, LocksOK, Dated, Decided, Automatic, OneNightlyPerDay
<1>2. CASE NightlyNext
  BY <1>1, <1>2, RestKeeps, LockKeeps, SearchKeeps, InsertKeeps, SendKeeps, ByHandKeeps,
     ClockKeeps DEF NightlyNext
<1>3. CASE UNCHANGED nightlyVars
  BY <1>3
  DEF nightlyVars, NInv, TypesOK, LocksOK, Dated, Decided, Automatic, OneNightlyPerDay
<1> QED  BY <1>2, <1>3

\* The row of a project is locked only by the thread looking at the project, and
\* every table and thread keeps its type.
THEOREM RowLockIsHeld == NightlySpec => []NightlyTypeOK
  BY InitNInv, NInvInductive, NightlyTyped, PTL DEF NightlySpec

\* enqueue_nightly_dreams: however many processes run the scheduler and wherever
\* they crash, a project gets at most one automatic dream for a day and on a day.
THEOREM OneDreamANight == NightlySpec => []OneNightlyPerDay
<1>1. NInv => OneNightlyPerDay
  BY DEF NInv
<1> QED  BY <1>1, InitNInv, NInvInductive, PTL DEF NightlySpec
=============================================================================
