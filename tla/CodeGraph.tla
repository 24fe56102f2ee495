------------------------------- MODULE CodeGraph -------------------------------
(***************************************************************************)
(* The code graph of one repository: code_files, code_symbols and          *)
(* code_relations, as packages/code_intelligence/service.py keeps them     *)
(* when the mirror moves on.  index_snapshot rebuilds everything;          *)
(* incremental_update rebuilds the changed files one after the other, and  *)
(* what it resolves for one file may be undone when the next is rebuilt.   *)
(*                                                                         *)
(* Each of the two is one transaction.  Which commits they are run for, and*)
(* in which order, is the subject of ReleaseChanges.                       *)
(***************************************************************************)
EXTENDS FiniteSets, Integers, Sequences, SequencesExt

CONSTANTS
  Paths,       \* paths of the repository, numbered in the order of git diff
  Ignored,     \* those an ignore rule matches
  SymNames,    \* names of symbols
  Texts,       \* contents a file may have
  MaxUpdates,  \* bound on changes of the repository
  MaxRenames,  \* bound on renamed files in one git diff
  MaxLost,     \* bound on files git cannot read in one update
  MaxDepth     \* max_depth of a trace

NoText == [defines |-> {}, uses |-> {}, exists |-> FALSE]

\* What parse_source finds: the symbols defined, and which uses which name.
Text == [defines : SUBSET SymNames, uses : SUBSET (SymNames \X SymNames),
         exists : {TRUE}]

ASSUME CodeGraphAssumption ==
  /\ Paths \subseteq Nat \ {0} /\ IsFiniteSet(Paths) /\ Ignored \subseteq Paths
  /\ Texts \subseteq Text
  /\ \A t \in Texts : \A u \in t.uses : u[1] \in t.defines
  /\ {MaxUpdates, MaxRenames, MaxLost, MaxDepth} \subseteq Nat

VARIABLES
  tree,        \* the release branch in the mirror
  base,        \* history: what the tree was at the last update of the index
  graph,       \* the three tables
  unread,      \* history: files git could not read when they were indexed
  fresh,       \* history: the last update was an index_snapshot
  updates      \* changes so far

codeGraphVars == <<tree, base, graph, unread, fresh, updates>>

Unresolved == [file |-> 0, name |-> "none", since |-> 0]

\* A symbol is known by where it is and when it was inserted.
Symbol == [file : Paths, name : SymNames, since : 0..MaxUpdates]
Relation == [source : Symbol, name : SymNames, target : Symbol \cup {Unresolved}]
Graph == [files : [Paths -> Texts \cup {NoText}],
          symbols : SUBSET Symbol, relations : SUBSET Relation]
EmptyGraph == [files |-> [p \in Paths |-> NoText], symbols |-> {}, relations |-> {}]

CodeGraphInit ==
  /\ tree = [p \in Paths |-> NoText]
  /\ base = tree
  /\ graph = EmptyGraph
  /\ unread = {} /\ fresh = FALSE /\ updates = 0
-----------------------------------------------------------------------------
(***************************************************************************)
(* Building blocks                                                         *)
(***************************************************************************)
SymbolsNamed(g, n) == {s \in g.symbols : s.name = n}
SymbolsOf(g, p) == {s \in g.symbols : s.file = p}
Own(g, p, n) == SymbolsNamed(g, n) \cap SymbolsOf(g, p)

\* Where a name leads: into the same file, else to some symbol of that name
\* (which one, the order of an unordered SELECT decides), else nowhere.
Targets(g, p, n) ==
  IF Own(g, p, n) # {} THEN Own(g, p, n)
  ELSE IF SymbolsNamed(g, n) # {} THEN SymbolsNamed(g, n) ELSE {Unresolved}

\* Rows of the files P and every relation from or to their symbols.
ClearKeepingCallers(g, P) ==
  LET old == UNION {SymbolsOf(g, p) : p \in P}
  IN  [files |-> [p \in Paths |-> IF p \in P THEN NoText ELSE g.files[p]],
       symbols |-> g.symbols \ old,
       relations |-> {r \in g.relations : r.source \notin old}]

Clear(g, P) ==
  LET old == UNION {SymbolsOf(g, p) : p \in P}
  IN  [files |-> [p \in Paths |-> IF p \in P THEN NoText ELSE g.files[p]],
       symbols |-> g.symbols \ old,
       relations |-> {r \in g.relations : {r.source, r.target} \cap old = {}}]

\* _save_symbols and _save_relations of file p with text t, as the set of
\* graphs that may result.
Inserted(p, n) == [file |-> p, name |-> n, since |-> updates]
WithSymbols(g, p, t) ==
  [files |-> [g.files EXCEPT ![p] = t],
   symbols |-> g.symbols \cup {Inserted(p, n) : n \in t.defines},
   relations |-> g.relations]

Save(g, p, t) ==
  LET h == WithSymbols(g, p, t)
      ways == {f \in [t.uses -> h.symbols \cup {Unresolved}] :
                 \A u \in t.uses : f[u] \in Targets(h, p, u[2])}
  IN  {[h EXCEPT !.relations = @ \cup
          {[source |-> Inserted(p, u[1]), name |-> u[2], target |-> f[u]] : u \in t.uses}]
        : f \in ways}

\* _resolve_relations
Resolve(g) ==
  LET open == {r \in g.relations : r.target = Unresolved}
      ways == {f \in [open -> g.symbols \cup {Unresolved}] : \A r \in open :
                 f[r] \in (IF SymbolsNamed(g, r.name) = {} THEN {Unresolved}
                           ELSE SymbolsNamed(g, r.name))}
  IN  {[g EXCEPT !.relations = (@ \ open) \cup
          {[r EXCEPT !.target = f[r]] : r \in open}] : f \in ways}
-----------------------------------------------------------------------------
(***************************************************************************)
(* The repository changes                                                  *)
(***************************************************************************)
ChangeFile(p, t) ==
  /\ updates < MaxUpdates
  /\ t # tree[p]
  /\ tree' = [tree EXCEPT ![p] = t]
  /\ updates' = updates + 1
  /\ UNCHANGED <<base, graph, unread, fresh>>

\* The entries of git diff: paths that differ, in order; a file that went
\* away and one that came may be reported as one renamed file.
Differs(p) == base[p] # tree[p]
Renames == {q \in Paths \X Paths : /\ base[q[1]].exists /\ ~tree[q[1]].exists
                                   /\ ~base[q[2]].exists /\ tree[q[2]].exists}
Entries(R) == {p \in Paths : Differs(p) /\ \A q \in R : q[1] # p}
OldPaths(R, p) == {q[1] : q \in {q \in R : q[2] = p}}

\* One entry of an incremental update: the rows of the old and the new path
\* go; the file comes back if it is there, not ignored and git can read it.
OnlyNewPath(R, p) == {p}
PathsOf(R, p) == {p} \cup OldPaths(R, p)

Indexed(p, lost) == tree[p].exists /\ p \notin Ignored \cup lost

UpdateEntry(R, lost, p, G) ==
  UNION {LET h == Clear(g, PathsOf(R, p))
         IN  IF Indexed(p, lost) THEN Save(h, p, tree[p]) ELSE {h} : g \in G}

\* The graphs the entries, taken in order, may leave.
Updated(R, lost) ==
  MapThenFoldSet(LAMBDA p, G : UpdateEntry(R, lost, p, G),
                 {graph}, LAMBDA p : p, Max, Entries(R))

IncrementalUpdate(R, lost) ==
  LET seen == UNION {PathsOf(R, p) : p \in Entries(R)}
  IN  /\ graph # EmptyGraph /\ Entries(R) # {}
      /\ lost \subseteq {p \in seen : tree[p].exists}
      /\ graph' \in UNION {Resolve(g) : g \in Updated(R, lost)}
      /\ unread' = (unread \ seen) \cup lost
      /\ base' = tree /\ fresh' = FALSE
      /\ UNCHANGED <<tree, updates>>

SaveFile(p, G) == UNION {Save(g, p, tree[p]) : g \in G}

Snapshot(lost) ==
  MapThenFoldSet(SaveFile, {EmptyGraph}, LAMBDA p : p, Max,
                 {p \in Paths : Indexed(p, lost)})

IndexSnapshot(lost) ==
  /\ lost \subseteq {p \in Paths : tree[p].exists}
  /\ graph' \in UNION {Resolve(g) : g \in Snapshot(lost)}
  /\ unread' = lost
  /\ base' = tree /\ fresh' = TRUE
  /\ UNCHANGED <<tree, updates>>

Lost == {S \in SUBSET Paths : Cardinality(S) <= MaxLost}

CodeGraphNext ==
  \/ \E p \in Paths, t \in Texts \cup {NoText} : ChangeFile(p, t)
  \/ \E R \in {S \in SUBSET Renames : Cardinality(S) <= MaxRenames}, lost \in Lost :
       IncrementalUpdate(R, lost)
  \/ \E lost \in Lost : IndexSnapshot(lost)

CodeGraphSpec == CodeGraphInit /\ [][CodeGraphNext]_codeGraphVars
-----------------------------------------------------------------------------
(***************************************************************************)
(* trace                                                                   *)
(***************************************************************************)
After(S) == {r.target : r \in {r \in graph.relations :
               r.source \in S /\ r.target # Unresolved}}

\* Symbols at the head of the queue at each depth; a path that has arrived
\* is not followed any further.
Frontier(n, m) ==
  LET F[d \in 0..MaxDepth] ==
        IF d = 0 THEN SymbolsNamed(graph, n)
        ELSE After(F[d - 1]) \ SymbolsNamed(graph, m)
  IN  F

TraceTooFar(n, m) == \E d \in 0..MaxDepth :
  After(Frontier(n, m)[d]) \cap SymbolsNamed(graph, m) # {}

Trace(n, m) == \E d \in 0..(MaxDepth - 1) :
  After(Frontier(n, m)[d]) \cap SymbolsNamed(graph, m) # {}
-----------------------------------------------------------------------------
(***************************************************************************)
(* GraphService.code_file (packages/graph/service.py): one file with its   *)
(* symbols, whatever they are related to, and the relations                *)
(***************************************************************************)
SymbolsIn(p) == SymbolsOf(graph, p)
Touching(p) == {r \in graph.relations : {r.source, r.target} \cap SymbolsIn(p) # {}}

OutgoingNeighbours(p) == {r.target : r \in Touching(p)} \ {Unresolved}
Neighbours(p) ==
  {s \in UNION {{r.source, r.target} : r \in Touching(p)} :
    s \notin SymbolsIn(p) \cup {Unresolved}}

NodeOf(s) == <<"symbol", s>>
EndOf(r) == IF r.target = Unresolved THEN <<"unresolved", r.name>> ELSE NodeOf(r.target)

FileNodes(p) ==
  {<<"file", p>>} \cup {NodeOf(s) : s \in SymbolsIn(p) \cup Neighbours(p)}
  \cup {EndOf(r) : r \in {r \in Touching(p) : r.target = Unresolved}}

FileEdges(p) ==
  {[from |-> <<"file", p>>, to |-> NodeOf(s)] : s \in SymbolsIn(p)}
  \cup {[from |-> NodeOf(r.source), to |-> EndOf(r)] : r \in Touching(p)}
-----------------------------------------------------------------------------
(***************************************************************************)
(* Properties                                                              *)
(***************************************************************************)
\* Types, and one symbol per name and file.
CodeGraphTypeOK ==
  /\ {tree, base} \subseteq [Paths -> Texts \cup {NoText}]
  /\ graph \in Graph
  /\ \A s, t \in graph.symbols : s.file = t.file /\ s.name = t.name => s = t
  /\ unread \subseteq Paths /\ fresh \in BOOLEAN /\ updates \in 0..MaxUpdates

\* incremental_update, "deletions and renames leave no old symbols": files
\* and symbols are those of the commit the index was last updated to, up to
\* ignored files and files git could not read then, which are missing (also
\* when an older version of them had been indexed).
IndexFollowsTree ==
  \A p \in Paths :
    /\ graph.files[p] = IF p \in Ignored \cup unread THEN NoText ELSE base[p]
    /\ {s.name : s \in SymbolsOf(graph, p)} = graph.files[p].defines

\* Whatever is rebuilt in whatever order, a relation stands for a use in the
\* indexed text of its source, it ends at a symbol that is there and has the
\* name used, in the same file if possible, and it is left open only while
\* no symbol has the name; and after a rebuild of everything no use is
\* without its relation.  (Not after an incremental update, which deletes the
\* relations other files have to the symbols it rebuilds and does not save
\* them again.)
RelationsSound ==
  /\ \A r \in graph.relations :
       /\ r.source \in graph.symbols
       /\ <<r.source.name, r.name>> \in graph.files[r.source.file].uses
       /\ r.target \in Targets(graph, r.source.file, r.name)
  /\ fresh => \A p \in Paths : \A u \in graph.files[p].uses :
       \E r \in graph.relations :
         r.source.file = p /\ r.source.name = u[1] /\ r.name = u[2]

\* trace finds a way exactly when there is one of at most max_depth relations.
TraceIsReachability ==
  \A n, m \in SymNames :
    Trace(n, m) <=>
      \E k \in 1..MaxDepth : \E w \in [1..k -> graph.relations] :
        /\ w[1].source.name = n
        /\ \A i \in 1..(k - 1) : w[i].target = w[i + 1].source
        /\ w[k].target.name = m /\ w[k].target # Unresolved

\* code_file: after any sequence of updates the picture of a file is closed:
\* every edge joins two of its nodes, and every node but the file has an edge.
FileViewClosed ==
  \A p \in Paths : graph.files[p].exists =>
    LET ends == UNION {{e.from, e.to} : e \in FileEdges(p)}
    IN  ends \cup {<<"file", p>>} = FileNodes(p)
=============================================================================
