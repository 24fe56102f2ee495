--------------------------- MODULE RetrievalSessions ---------------------------
(***************************************************************************)
(* What an agent session remembers.  Every memory_context call             *)
(* (packages/retrieval/service.py) finds or creates the agent_sessions row *)
(* of its key, gives each memory in full, shortened because the session    *)
(* has seen it, or shortened for the token budget, adds what it returned   *)
(* to the row's seen_memories and commits with a query log.  Calls of one  *)
(* session may overlap: the row is read without a lock, seen_memories is   *)
(* one JSON column, and two calls may both find no row and insert one.     *)
(*                                                                         *)
(* Which memories a call shortlists is the subject of Recall; here it is   *)
(* any short list of memories of the call's project.                       *)
(***************************************************************************)
EXTENDS FiniteSets, Integers, Sequences, SequencesExt

CONSTANTS
  Callers,       \* requests of agents in progress
  Places,        \* the pairs of project and primary repository
  ProjectOf,     \* project of each place
  Notes,         \* the memories that may be recalled
  HomeOf,        \* project of each memory
  Known,         \* session ids agents pass, "anonymous" if they pass none
  Budgets,       \* token budgets
  FullSize,      \* tokens of a memory given in full
  BriefSize,     \* tokens of a shortened one
  SeenLimit,     \* 500, the length seen_memories is cut to
  ListLimit,     \* recall_top_k
  MaxCalls       \* bound on memory_context calls

ASSUME SessionsAssumption ==
  /\ ProjectOf \in [Places -> {HomeOf[n] : n \in Notes}]
  /\ DOMAIN HomeOf = Notes
  /\ Budgets \subseteq Nat
  /\ {FullSize, BriefSize, SeenLimit, ListLimit, MaxCalls} \subseteq Nat \ {0}

\* _session_key: a call without a session id is kept to its project and
\* primary repository; a named session is shared by all of them.
SessionKey(id, place) == IF id = "anonymous" THEN <<id, place>> ELSE <<id>>
SessionKeys == {SessionKey(id, place) : id \in Known, place \in Places}

VARIABLES
  agent_sessions,  \* committed rows: has the key one, and its seen_memories
  caller,          \* what each call is doing
  returned,        \* history: memories in committed answers of each session
  calls            \* calls started so far

sessionVars == <<agent_sessions, caller, returned, calls>>

Session == [made : BOOLEAN, seen : Seq(Notes)]
NoSession == [made |-> FALSE, seen |-> <<>>]

\* at: reading the row, having found none, or holding the row with the copy
\* of seen_memories the call goes on with.
Caller == [at : {"idle", "find", "insert", "compile"},
           key : SessionKeys \cup {<<>>}, list : Seq(Notes),
           seen : Seq(Notes), owns : BOOLEAN]
NoCall == [at |-> "idle", key |-> <<>>, list |-> <<>>, seen |-> <<>>,
           owns |-> FALSE]

SessionsInit ==
  /\ agent_sessions = [k \in SessionKeys |-> NoSession]
  /\ caller = [c \in Callers |-> NoCall]
  /\ returned = [k \in SessionKeys |-> {}]
  /\ calls = 0
-----------------------------------------------------------------------------
Shortlists(place) ==
  {s \in UNION {[1..n -> Notes] : n \in 0..ListLimit} :
    /\ IsInjective(s)
    /\ \A i \in DOMAIN s : HomeOf[s[i]] = ProjectOf[place]}

\* memory_context up to the shortlist.
StartCall(c, id, place) ==
  /\ caller[c].at = "idle"
  /\ calls < MaxCalls
  /\ \E s \in Shortlists(place) :
       caller' = [caller EXCEPT ![c] = [NoCall EXCEPT
                    !.at = "find", !.key = SessionKey(id, place), !.list = s]]
  /\ calls' = calls + 1
  /\ UNCHANGED <<agent_sessions, returned>>

Exists(k) == agent_sessions[k].made

Hold(c, seen, owns) ==
  caller' = [caller EXCEPT ![c].at = "compile", ![c].seen = seen, ![c].owns = owns]

\* _get_or_create_session: the first look.
FindSession(c) ==
  LET k == caller[c].key
  IN  /\ caller[c].at = "find"
      /\ IF Exists(k) THEN Hold(c, agent_sessions[k].seen, FALSE)
         ELSE caller' = [caller EXCEPT ![c].at = "insert"]
      /\ UNCHANGED <<agent_sessions, returned, calls>>

\* The insert under a savepoint.  It waits for another transaction that has
\* inserted the key; if the row is there by then the savepoint is rolled
\* back and the row read after all.
InsertSession(c) ==
  LET k == caller[c].key
  IN  /\ caller[c].at = "insert"
      /\ ~\E d \in Callers : caller[d].owns /\ caller[d].key = k
      /\ IF Exists(k) THEN Hold(c, agent_sessions[k].seen, FALSE)
         ELSE Hold(c, <<>>, TRUE)
      /\ UNCHANGED <<agent_sessions, returned, calls>>
-----------------------------------------------------------------------------
(***************************************************************************)
(* Compiling the answer                                                    *)
(***************************************************************************)

Size(form) == IF form = "full" THEN FullSize ELSE BriefSize

LastOf(s) == SubSeq(s, IF Len(s) > SeenLimit THEN Len(s) - SeenLimit + 1 ELSE 1, Len(s))

Remember(seen, n) == IF n \in ToSet(seen) THEN seen ELSE LastOf(Append(seen, n))

StartAnswer(seen) == [items |-> <<>>, tokens |-> 0, capped |-> FALSE, seen |-> seen]

\* A session that remembers what it could not return.
SeenAtOnce(a, n, budget) ==
  LET form  == IF n \in ToSet(a.seen) THEN "seen" ELSE "full"
      fits(f) == a.tokens + Size(f) <= budget
      shown == IF ~fits(form) /\ a.items # <<>> THEN "capped" ELSE form
  IN  IF a.capped \/ ~fits(shown)
      THEN [a EXCEPT !.capped = TRUE, !.seen = Remember(a.seen, n)]
      ELSE [a EXCEPT !.items = Append(@, [note |-> n, form |-> shown]),
                     !.tokens = @ + Size(shown),
                     !.seen = Remember(@, n)]

\* One memory of the shortlist: full if new; shortened if it does not fit
\* any more, but not the first one; and the end of the list if even that
\* is too long.
AddItem(a, n, budget) ==
  LET form  == IF n \in ToSet(a.seen) THEN "seen" ELSE "full"
      fits(f) == a.tokens + Size(f) <= budget
      shown == IF ~fits(form) /\ a.items # <<>> THEN "capped" ELSE form
  IN  IF a.capped \/ ~fits(shown) THEN [a EXCEPT !.capped = TRUE]
      ELSE [a EXCEPT !.items = Append(@, [note |-> n, form |-> shown]),
                     !.tokens = @ + Size(shown),
                     !.seen = Remember(@, n)]

Compiled(seen, list, budget) ==
  FoldLeft(LAMBDA a, n : AddItem(a, n, budget), StartAnswer(seen), list)

\* The rest of memory_context: the answer, the query log and the commit.
\* An unchanged seen_memories is not written.
Answer(c, budget) ==
  LET k == caller[c].key
      a == Compiled(caller[c].seen, caller[c].list, budget)
  IN  /\ caller[c].at = "compile"
      /\ agent_sessions' = IF caller[c].owns \/ a.seen # caller[c].seen
                           THEN [agent_sessions EXCEPT ![k] = [made |-> TRUE, seen |-> a.seen]]
                           ELSE agent_sessions
      /\ returned' = [returned EXCEPT ![k] = @ \cup {i.note : i \in ToSet(a.items)}]
      /\ caller' = [caller EXCEPT ![c] = NoCall]
      /\ UNCHANGED calls

\* The request fails before its commit and its transaction is rolled back.
FailCall(c) ==
  /\ caller[c].at \in {"find", "insert", "compile"}
  /\ caller' = [caller EXCEPT ![c] = NoCall]
  /\ UNCHANGED <<agent_sessions, returned, calls>>

SessionsNext == \E c \in Callers :
  \/ \E id \in Known, place \in Places : StartCall(c, id, place)
  \/ FindSession(c) \/ InsertSession(c) \/ FailCall(c)
  \/ \E budget \in Budgets : Answer(c, budget)

SessionsSpec == SessionsInit /\ [][SessionsNext]_sessionVars
-----------------------------------------------------------------------------
(***************************************************************************)
(* Properties                                                              *)
(***************************************************************************)

\* Type invariant: no row remembers more than SeenLimit memories.
SessionsTypeOK ==
  /\ agent_sessions \in [SessionKeys -> Session]
  /\ \A k \in SessionKeys : Len(agent_sessions[k].seen) <= SeenLimit
  /\ caller \in [Callers -> Caller]
  /\ returned \in [SessionKeys -> SUBSET Notes]
  /\ calls \in 0..MaxCalls

\* memory_context, "already seen in this session": whatever calls of the
\* session overlap, are rolled back or overwrite each other's column, a
\* memory in seen_memories was part of an answer the session got.  (Not the
\* converse: of two overlapping answers one may be forgotten, and then a
\* memory is given in full again.)
SeenWasReturned ==
  \A k \in SessionKeys :
    /\ Exists(k) => ToSet(agent_sessions[k].seen) \subseteq returned[k]
    /\ \A c \in Callers : caller[c].key = k => ToSet(caller[c].seen) \subseteq returned[k]
=============================================================================
