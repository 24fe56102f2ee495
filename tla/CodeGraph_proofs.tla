--------------------------- MODULE CodeGraph_proofs ---------------------------
(***************************************************************************)
(* What the code index keeps, for every repository, every content of its   *)
(* files, every order of entries git may report and every number of files  *)
(* git cannot read: CodeGraph.  And what the two pictures of GraphViews     *)
(* promise, for every tree of paths and every content of the tables.       *)
(*                                                                         *)
(* The updates of the index are folds over sets of paths, and a trace and  *)
(* the opening of directories go level by level; both kinds of recursion   *)
(* are reasoned about with the lemmas of FoldLemmas.                       *)
(***************************************************************************)
EXTENDS CodeGraph, GraphViews, FoldLemmas, SequenceTheorems


\* Facts about the constants and the small records.
LEMMA Records ==
  /\ \A s \in Symbol : s # Unresolved /\ s.file \in Paths /\ s.name \in SymNames
  /\ NoText.defines = {} /\ NoText.uses = {} /\ ~NoText.exists
  /\ \A t \in Texts : /\ t.exists /\ t.defines \subseteq SymNames
                      /\ t.uses \subseteq SymNames \X SymNames
                      /\ \A u \in t.uses : u[1] \in t.defines /\ u[2] \in SymNames
<1>1. 0 \notin Paths /\ Texts \subseteq Text
      /\ \A t \in Texts : \A u \in t.uses : u[1] \in t.defines
  BY CodeGraphAssumption
<1>2. \A s \in Symbol : s # Unresolved /\ s.file \in Paths /\ s.name \in SymNames
  BY <1>1 DEF Symbol, Unresolved
<1>3. NoText.defines = {} /\ NoText.uses = {} /\ ~NoText.exists
  BY DEF NoText
<1>4. \A t \in Texts : /\ t.exists /\ t.defines \subseteq SymNames
                       /\ t.uses \subseteq SymNames \X SymNames
  BY <1>1 DEF Text
<1> QED  BY <1>1, <1>2, <1>3, <1>4

\* A relation while files are being rebuilt: one that was left open may stay
\* open although a symbol of its name has come, but not in its own file.
Loose(g, r) ==
  /\ r.source \in g.symbols
  /\ <<r.source.name, r.name>> \in g.files[r.source.file].uses
  /\ r.target \in Targets(g, r.source.file, r.name) \cup {Unresolved}
  /\ r.target = Unresolved => Own(g, r.source.file, r.name) = {}

\* A graph while files are being rebuilt.
GraphOK(g) ==
  /\ g \in Graph
  /\ \A s, t \in g.symbols : s.file = t.file /\ s.name = t.name => s = t
  /\ \A p \in Paths : {s.name : s \in SymbolsOf(g, p)} = g.files[p].defines
  /\ \A r \in g.relations : Loose(g, r)

\* A name leads nowhere exactly when no symbol has it.
LEMMA TargetsOf ==
  ASSUME NEW g \in Graph, NEW p, NEW n
  PROVE  /\ Targets(g, p, n) \subseteq SymbolsNamed(g, n) \cup {Unresolved}
         /\ Unresolved \in Targets(g, p, n) <=> SymbolsNamed(g, n) = {}
         /\ Unresolved \notin g.symbols
<1>1. Unresolved \notin g.symbols
  BY Records DEF Graph
<1> QED  BY <1>1 DEF Targets, Own, SymbolsNamed

\* The rows of some files go: what is left is as sound as it was.
LEMMA ClearOK ==
  ASSUME NEW g, GraphOK(g), NEW P \in SUBSET Paths
  PROVE  LET h == Clear(g, P)
         IN  /\ GraphOK(h)
             /\ \A p \in Paths : h.files[p] = IF p \in P THEN NoText ELSE g.files[p]
             /\ \A p \in P : SymbolsOf(h, p) = {}
<1> DEFINE old == UNION {SymbolsOf(g, p) : p \in P}
           h == Clear(g, P)
<1>1. /\ h.files = [p \in Paths |-> IF p \in P THEN NoText ELSE g.files[p]]
      /\ h.symbols = g.symbols \ old
      /\ h.relations = {r \in g.relations : {r.source, r.target} \cap old = {}}
      /\ h = [files |-> h.files, symbols |-> h.symbols, relations |-> h.relations]
  BY DEF Clear
<1>2. g \in Graph /\ g.files \in [Paths -> Texts \cup {NoText}]
      /\ g.symbols \subseteq Symbol /\ g.relations \subseteq Relation
  BY DEF GraphOK, Graph
<1>3. old = {s \in g.symbols : s.file \in P}
  BY DEF SymbolsOf
<1> HIDE DEF h, old
<1>4. h \in Graph
  <2>1. h.files \in [Paths -> Texts \cup {NoText}]
    BY <1>1, <1>2
  <2>2. h.symbols \in SUBSET Symbol /\ h.relations \in SUBSET Relation
    BY <1>1, <1>2
  <2> QED  BY <1>1, <2>1, <2>2 DEF Graph
<1>5. \A p \in Paths : h.files[p] = IF p \in P THEN NoText ELSE g.files[p]
  BY <1>1
<1>6. \A p \in Paths : SymbolsOf(h, p) = IF p \in P THEN {} ELSE SymbolsOf(g, p)
  BY <1>1, <1>3 DEF SymbolsOf
<1>7. \A p \in Paths : {s.name : s \in SymbolsOf(h, p)} = h.files[p].defines
  BY <1>5, <1>6, Records DEF GraphOK
<1>8. ASSUME NEW r \in h.relations PROVE Loose(h, r)
  <2> DEFINE f == r.source.file
             n == r.name
  <2>1. r \in g.relations /\ r.source \notin old /\ r.target \notin old /\ Loose(g, r)
    BY <1>1, <1>8 DEF GraphOK
  <2>2. r.source \in g.symbols /\ r.source \in h.symbols /\ f \in Paths /\ f \notin P
    BY <1>1, <1>2, <1>3, <2>1, Records DEF Loose
  <2>3. h.files[f] = g.files[f] /\ SymbolsOf(h, f) = SymbolsOf(g, f)
    BY <1>5, <1>6, <2>2
  <2>4. Own(h, f, n) = Own(g, f, n)
    BY <1>1, <1>3, <2>2 DEF Own, SymbolsNamed, SymbolsOf
  <2>5. SymbolsNamed(h, n) = SymbolsNamed(g, n) \ old
    BY <1>1 DEF SymbolsNamed
  <2>6. r.target \in Targets(h, f, n) \cup {Unresolved}
    BY <2>1, <2>4, <2>5 DEF Loose, Targets
  <2> QED  BY <2>1, <2>2, <2>3, <2>4, <2>6 DEF Loose
<1>9. \A s, t \in h.symbols : s.file = t.file /\ s.name = t.name => s = t
  BY <1>1 DEF GraphOK
<1>10. GraphOK(h)
  BY <1>4, <1>7, <1>8, <1>9 DEF GraphOK
<1>11. \A p \in P : SymbolsOf(h, p) = {}
  BY <1>6
<1> QED  BY <1>5, <1>10, <1>11 DEF h

\* What _save_symbols and _save_relations write.
LEMMA SaveFacts ==
  ASSUME updates \in 0..MaxUpdates, NEW g \in Graph, NEW p \in Paths, NEW t \in Texts,
         NEW h \in Save(g, p, t)
  PROVE  /\ h \in Graph
         /\ h.files = [g.files EXCEPT ![p] = t]
         /\ h.symbols = g.symbols \cup {Inserted(p, n) : n \in t.defines}
         /\ g.relations \subseteq h.relations
         /\ \A r \in h.relations : r \in g.relations \/
              \E u \in t.uses : /\ r.source = Inserted(p, u[1]) /\ r.name = u[2]
                                /\ r.target \in Targets(h, p, u[2])
         /\ \A u \in t.uses : \E r \in h.relations :
              r.source = Inserted(p, u[1]) /\ r.name = u[2]
<1> DEFINE k == WithSymbols(g, p, t)
           new(f) == {[source |-> Inserted(p, u[1]), name |-> u[2], target |-> f[u]]
                        : u \in t.uses}
<1>1. /\ k.files = [g.files EXCEPT ![p] = t]
      /\ k.symbols = g.symbols \cup {Inserted(p, n) : n \in t.defines}
      /\ k.relations = g.relations
      /\ k = [files |-> k.files, symbols |-> k.symbols, relations |-> k.relations]
  BY DEF WithSymbols
<1>2. \A n \in t.defines : Inserted(p, n) \in Symbol
  BY Records DEF Inserted, Symbol
<1>3. k \in Graph
  <2>1. k.files \in [Paths -> Texts \cup {NoText}]
    BY <1>1 DEF Graph
  <2>2. k.symbols \in SUBSET Symbol
    BY <1>1, <1>2 DEF Graph
  <2>3. k.relations \in SUBSET Relation
    BY <1>1 DEF Graph
  <2> QED  BY <1>1, <2>1, <2>2, <2>3 DEF Graph
<1>4. PICK f \in [t.uses -> k.symbols \cup {Unresolved}] :
        /\ \A u \in t.uses : f[u] \in Targets(k, p, u[2])
        /\ h = [k EXCEPT !.relations = @ \cup new(f)]
  BY DEF Save
<1> HIDE DEF k
<1>5. new(f) \subseteq Relation
  <2> SUFFICES ASSUME NEW u \in t.uses
               PROVE  [source |-> Inserted(p, u[1]), name |-> u[2], target |-> f[u]] \in Relation
    OBVIOUS
  <2>1. u[1] \in t.defines /\ u[2] \in SymNames
    BY Records
  <2>2. f[u] \in Symbol \cup {Unresolved}
    BY <1>3 DEF Graph
  <2> QED  BY <1>2, <2>1, <2>2 DEF Relation
<1>6. /\ h.files = k.files /\ h.symbols = k.symbols
      /\ h.relations = k.relations \cup new(f) /\ h \in Graph
  BY <1>3, <1>4, <1>5 DEF Graph
<1>7. \A n : Targets(h, p, n) = Targets(k, p, n)
  BY <1>6 DEF Targets, Own, SymbolsNamed, SymbolsOf
<1>8. ASSUME NEW u \in t.uses
      PROVE  LET r == [source |-> Inserted(p, u[1]), name |-> u[2], target |-> f[u]]
             IN  /\ r \in new(f) /\ r.source = Inserted(p, u[1]) /\ r.name = u[2]
                 /\ r.target \in Targets(h, p, u[2])
  BY <1>4, <1>7
<1>9. \A r \in new(f) : \E u \in t.uses :
        r = [source |-> Inserted(p, u[1]), name |-> u[2], target |-> f[u]]
  OBVIOUS
<1> HIDE DEF new
<1>10. \A r \in new(f) : \E u \in t.uses :
         /\ r.source = Inserted(p, u[1]) /\ r.name = u[2]
         /\ r.target \in Targets(h, p, u[2])
  BY <1>8, <1>9
<1>11. \A u \in t.uses : \E r \in new(f) : r.source = Inserted(p, u[1]) /\ r.name = u[2]
  BY <1>8
<1> QED  BY <1>1, <1>6, <1>10, <1>11

\* A file is saved that has no rows: the graph stays as sound as it was.
LEMMA SaveOK ==
  ASSUME updates \in 0..MaxUpdates, NEW g, GraphOK(g), NEW p \in Paths, NEW t \in Texts,
         SymbolsOf(g, p) = {}, NEW h \in Save(g, p, t)
  PROVE  GraphOK(h)
<1> DEFINE added == {Inserted(p, n) : n \in t.defines}
<1>1. g \in Graph
  BY DEF GraphOK
<1>2. /\ h \in Graph
      /\ h.files = [g.files EXCEPT ![p] = t]
      /\ h.symbols = g.symbols \cup added
      /\ \A r \in h.relations : r \in g.relations \/
           \E u \in t.uses : /\ r.source = Inserted(p, u[1]) /\ r.name = u[2]
                             /\ r.target \in Targets(h, p, u[2])
  BY <1>1, SaveFacts
<1>3. \A s \in added : s.file = p /\ s.name \in t.defines /\ s = Inserted(p, s.name)
  BY DEF Inserted
<1>4. \A n \in t.defines : Inserted(p, n) \in added /\ Inserted(p, n).name = n
                           /\ Inserted(p, n).file = p
  BY DEF Inserted
<1> HIDE DEF added
<1>5. \A s \in g.symbols : s.file # p
  BY DEF SymbolsOf
<1>6. /\ \A q \in Paths \ {p} : SymbolsOf(h, q) = SymbolsOf(g, q)
      /\ SymbolsOf(h, p) = added
  BY <1>2, <1>3, <1>5 DEF SymbolsOf
<1>7. h.files[p] = t /\ \A q \in Paths \ {p} : h.files[q] = g.files[q]
  BY <1>1, <1>2 DEF Graph
<1>8. \A s, u \in h.symbols : s.file = u.file /\ s.name = u.name => s = u
  BY <1>2, <1>3, <1>5 DEF GraphOK
<1>9. \A q \in Paths : {s.name : s \in SymbolsOf(h, q)} = h.files[q].defines
  <2>1. {s.name : s \in added} = t.defines
    BY <1>3, <1>4
  <2> QED  BY <1>6, <1>7, <2>1 DEF GraphOK
<1>10. ASSUME NEW r \in g.relations PROVE Loose(h, r)
  <2> DEFINE f == r.source.file
             n == r.name
  <2>1. Loose(g, r) /\ r.source \in g.symbols
    BY <1>10 DEF GraphOK, Loose
  <2>2. f \in Paths \ {p}
    BY <1>1, <1>5, <2>1, Records DEF Graph
  <2>3. r.source \in h.symbols /\ h.files[f] = g.files[f]
    BY <1>2, <1>7, <2>1, <2>2
  <2>4. Own(h, f, n) = Own(g, f, n)
    BY <1>2, <1>3, <2>2 DEF Own, SymbolsNamed, SymbolsOf
  <2>5. SymbolsNamed(g, n) \subseteq SymbolsNamed(h, n)
    BY <1>2 DEF SymbolsNamed
  <2>6. r.target \in Targets(h, f, n) \cup {Unresolved}
    BY <2>1, <2>4, <2>5 DEF Loose, Targets
  <2> QED  BY <2>1, <2>3, <2>4, <2>6 DEF Loose
<1>11. ASSUME NEW r \in h.relations, NEW u \in t.uses,
              r.source = Inserted(p, u[1]), r.name = u[2], r.target \in Targets(h, p, u[2])
       PROVE  Loose(h, r)
  <2>1. u[1] \in t.defines /\ u = <<u[1], u[2]>>
    BY Records
  <2>2. r.source \in h.symbols /\ r.source.file = p /\ r.source.name = u[1]
    BY <1>2, <1>4, <1>11, <2>1
  <2>3. <<r.source.name, r.name>> \in h.files[p].uses
    BY <1>7, <1>11, <2>1, <2>2
  <2>4. r.target = Unresolved => Own(h, p, r.name) = {}
    BY <1>2, <1>11, TargetsOf DEF Own
  <2> QED  BY <1>11, <2>2, <2>3, <2>4 DEF Loose
<1> QED  BY <1>2, <1>8, <1>9, <1>10, <1>11 DEF GraphOK

\* _resolve_relations closes what can be closed and touches nothing else.
LEMMA ResolveOK ==
  ASSUME NEW g, GraphOK(g), NEW h \in Resolve(g)
  PROVE  /\ GraphOK(h) /\ h.files = g.files /\ h.symbols = g.symbols
         /\ \A r \in h.relations : r.target \in Targets(h, r.source.file, r.name)
         /\ \A r \in g.relations : \E k \in h.relations :
              k.source = r.source /\ k.name = r.name
<1> DEFINE open == {r \in g.relations : r.target = Unresolved}
           found(r) == IF SymbolsNamed(g, r.name) = {} THEN {Unresolved}
                       ELSE SymbolsNamed(g, r.name)
           closed(f) == {[r EXCEPT !.target = f[r]] : r \in open}
<1>1. g \in Graph /\ g.symbols \subseteq Symbol /\ g.relations \subseteq Relation
  BY DEF GraphOK, Graph
<1>2. PICK f \in [open -> g.symbols \cup {Unresolved}] :
        /\ \A r \in open : f[r] \in found(r)
        /\ h = [g EXCEPT !.relations = (@ \ open) \cup closed(f)]
  BY DEF Resolve
<1>3. ASSUME NEW r \in open
      PROVE  LET k == [r EXCEPT !.target = f[r]]
             IN  k \in Relation /\ k.source = r.source /\ k.name = r.name /\ k.target = f[r]
  <2>1. r \in Relation /\ f[r] \in Symbol \cup {Unresolved}
    BY <1>1, <1>2
  <2> QED  BY <2>1 DEF Relation
<1>4. \A k \in closed(f) : k \in Relation /\ \E r \in open :
        k.source = r.source /\ k.name = r.name /\ k.target = f[r]
  BY <1>3
<1>5. \A r \in open : \E k \in closed(f) : k.source = r.source /\ k.name = r.name
  BY <1>3
<1> HIDE DEF closed
<1>6. /\ h.files = g.files /\ h.symbols = g.symbols
      /\ h.relations = (g.relations \ open) \cup closed(f) /\ h \in Graph
  BY <1>1, <1>2, <1>4 DEF Graph
<1>7. \A p, n : /\ Targets(h, p, n) = Targets(g, p, n) /\ Own(h, p, n) = Own(g, p, n)
                /\ SymbolsNamed(h, n) = SymbolsNamed(g, n) /\ SymbolsOf(h, p) = SymbolsOf(g, p)
  BY <1>6 DEF Targets, Own, SymbolsNamed, SymbolsOf
<1>8. ASSUME NEW r \in g.relations \ open
      PROVE  Loose(h, r) /\ r.target \in Targets(h, r.source.file, r.name)
  <2>1. Loose(g, r) /\ r.target # Unresolved
    BY DEF GraphOK
  <2> QED  BY <1>6, <1>7, <2>1 DEF Loose
<1>9. ASSUME NEW k \in closed(f)
      PROVE  Loose(h, k) /\ k.target \in Targets(h, k.source.file, k.name)
  <2>1. PICK r \in open : k.source = r.source /\ k.name = r.name /\ k.target = f[r]
    BY <1>4
  <2>2. Loose(g, r) /\ Own(g, r.source.file, r.name) = {}
    BY DEF GraphOK, Loose
  <2>3. k.target \in Targets(g, k.source.file, k.name)
    BY <1>2, <2>1, <2>2 DEF Targets
  <2> QED  BY <1>6, <1>7, <2>1, <2>2, <2>3 DEF Loose
<1>10. GraphOK(h)
  BY <1>6, <1>7, <1>8, <1>9 DEF GraphOK
<1>11. \A r \in h.relations : r.target \in Targets(h, r.source.file, r.name)
  BY <1>6, <1>8, <1>9
<1>12. \A r \in g.relations : \E k \in h.relations : k.source = r.source /\ k.name = r.name
  BY <1>5, <1>6
<1> QED  BY <1>6, <1>10, <1>11, <1>12

-----------------------------------------------------------------------------
Good == {g \in Graph : GraphOK(g)}
TreeOK == tree \in [Paths -> Texts \cup {NoText}]

\* What one file is in the index once its entry was processed.
Rebuilt(p, lost) == IF Indexed(p, lost) THEN tree[p] ELSE NoText

\* What processing the entry p makes of the files of g.
Processed(R, lost, p, g, h) ==
  \A q \in Paths : h.files[q] = IF q = p THEN Rebuilt(p, lost)
                               ELSE IF q \in PathsOf(R, p) THEN NoText ELSE g.files[q]

\* One turn of the loop of incremental_update, for every graph it may find.
LEMMA UpdateEntryOK ==
  ASSUME updates \in 0..MaxUpdates, TreeOK,
         NEW R \in SUBSET Renames, NEW lost, NEW p \in Paths,
         NEW G \in SUBSET Good, NEW h \in UpdateEntry(R, lost, p, G)
  PROVE  /\ h \in Good
         /\ \E g \in G : Processed(R, lost, p, g, h)
<1> DEFINE P == PathsOf(R, p)
<1>1. PICK g \in G : h \in IF Indexed(p, lost) THEN Save(Clear(g, P), p, tree[p])
                         ELSE {Clear(g, P)}
  BY DEF UpdateEntry
<1> DEFINE k == Clear(g, P)
<1>2. P \in SUBSET Paths /\ p \in P
  BY DEF PathsOf, OldPaths, Renames
<1>3. GraphOK(g)
  BY DEF Good
<1> HIDE DEF P
<1>4. /\ GraphOK(k) /\ SymbolsOf(k, p) = {}
      /\ \A q \in Paths : k.files[q] = IF q \in P THEN NoText ELSE g.files[q]
  BY <1>2, <1>3, ClearOK
<1> HIDE DEF k
<1>5. CASE Indexed(p, lost)
  <2>1. tree[p] \in Texts
    BY <1>5, Records DEF Indexed, TreeOK
  <2>2. h \in Save(k, p, tree[p]) /\ k \in Graph
    BY <1>1, <1>4, <1>5 DEF k, GraphOK
  <2>3. GraphOK(h)
    BY <1>4, <2>1, <2>2, SaveOK
  <2>4. h.files = [k.files EXCEPT ![p] = tree[p]] /\ h \in Graph
    BY <2>1, <2>2, SaveFacts
  <2>5. \A q \in Paths : h.files[q] = IF q = p THEN tree[p] ELSE k.files[q]
    BY <2>2, <2>4 DEF Graph
  <2>6. Rebuilt(p, lost) = tree[p]
    BY <1>5 DEF Rebuilt
  <2> QED  BY <1>4, <2>3, <2>4, <2>5, <2>6 DEF Good, P, Processed
<1>6. CASE ~Indexed(p, lost)
  <2>1. h = k
    BY <1>1, <1>6 DEF k
  <2>2. Rebuilt(p, lost) = NoText
    BY <1>6 DEF Rebuilt
  <2> QED  BY <1>2, <1>4, <2>1, <2>2 DEF Good, GraphOK, P, Processed
<1> QED  BY <1>5, <1>6

Seen(R, s) == UNION {PathsOf(R, p) : p \in s}

\* What incremental_update makes of the files.
HasUpdated(R, lost, g) ==
  \A q \in Paths : g.files[q] = IF q \in Seen(R, Entries(R)) THEN Rebuilt(q, lost)
                               ELSE graph.files[q]

\* incremental_update before _resolve_relations: by induction over the entries,
\* every path seen so far is as in the tree, and every other as it was.  No
\* entry undoes another: the old path of a rename is not itself an entry.
LEMMA UpdateOK ==
  ASSUME updates \in 0..MaxUpdates, TreeOK,
         GraphOK(graph), NEW R \in SUBSET Renames, NEW lost,
         NEW g \in Updated(R, lost)
  PROVE  GraphOK(g) /\ HasUpdated(R, lost, g)
<1> DEFINE E == Entries(R)
           Eq(k) == k = [s \in SUBSET E |->
                           IF s = {} THEN {graph}
                           ELSE UpdateEntry(R, lost, Max(s), k[s \ {Max(s)}])]
           iter == CHOOSE k : Eq(k)
           step == [p \in E |-> [G \in SUBSET Good |-> UpdateEntry(R, lost, p, G)]]
<1>1. E \in SUBSET Nat /\ E \in SUBSET Paths /\ IsFiniteSet(E)
  <2>1. Paths \subseteq Nat \ {0} /\ IsFiniteSet(Paths)
    BY CodeGraphAssumption
  <2>2. E \in SUBSET Paths
    BY DEF Entries
  <2> QED  BY <2>1, <2>2, FS_Subset
<1>2. \A p \in E, q \in E : p \in PathsOf(R, q) => p = q
  BY DEF Entries, PathsOf, OldPaths
<1>3. \A p \in E : \A q \in PathsOf(R, p) \ {p} : Rebuilt(q, lost) = NoText
  BY DEF PathsOf, OldPaths, Renames, Rebuilt, Indexed
<1> HIDE DEF E
<1>4. step \in StepFunctions(E, SUBSET Good)
  BY <1>1, UpdateEntryOK DEF StepFunctions
<1>5. {graph} \in SUBSET Good
  BY DEF Good, GraphOK
<1>6. \A s \in SUBSET E : s # {} => Max(s) \in s
  BY <1>1, FS_Subset, HasMax
<1> HIDE DEF step
<1>7. PICK k : Folds(k, E, SUBSET Good, {graph}, step)
  BY <1>1, <1>4, <1>5, FoldExists
<1>8. Eq(k)
  <2>1. ASSUME NEW s \in SUBSET E
        PROVE  k[s] = IF s = {} THEN {graph}
                      ELSE UpdateEntry(R, lost, Max(s), k[s \ {Max(s)}])
    BY <1>6, <1>7 DEF Folds, step
  <2> QED  BY <1>7, <2>1 DEF Folds
<1>9. Eq(iter)
  <2> HIDE DEF Eq
  <2> QED  BY <1>8
<1>10. g \in iter[E]
  BY DEF Updated, MapThenFoldSet, E
<1> HIDE DEF iter
<1> DEFINE Half(s, h) ==
             /\ h \in Good
             /\ \A q \in Paths : h.files[q] = IF q \in Seen(R, s) THEN Rebuilt(q, lost)
                                             ELSE graph.files[q]
           P == {s \in SUBSET E : \A h \in iter[s] : Half(s, h)}
<1>11. {} \in P
  <2>1. iter[{}] = {graph} /\ Seen(R, {}) = {}
    BY <1>9 DEF Seen
  <2> QED  BY <1>5, <2>1
<1>12. ASSUME NEW s \in SUBSET E, s # {}, s \ {Max(s)} \in P PROVE s \in P
  <2> DEFINE p == Max(s)
             r == s \ {p}
  <2>1. p \in s /\ p \in E /\ p \in Paths /\ s = r \cup {p}
    BY <1>1, <1>6, <1>12
  <2>2. iter[s] = UpdateEntry(R, lost, p, iter[r])
    BY <1>9, <1>12
  <2> HIDE DEF p
  <2>3. \A h \in iter[r] : Half(r, h)
    BY <1>12 DEF p
  <2>4. iter[r] \in SUBSET Good
    BY <2>3
  <2>5. Seen(R, s) = Seen(R, r) \cup PathsOf(R, p)
    BY <2>1 DEF Seen
  <2>6. p \notin Seen(R, r) /\ p \in PathsOf(R, p)
    BY <1>2, <2>1 DEF Seen, PathsOf
  <2>7. ASSUME NEW h \in iter[s] PROVE Half(s, h)
    <3> DEFINE G == iter[r]
    <3>0. h \in UpdateEntry(R, lost, p, G) /\ G \in SUBSET Good /\ p \in Paths
      BY <2>1, <2>2, <2>4, <2>7
    <3> HIDE DEF G
    <3>1. h \in Good /\ \E k2 \in G : Processed(R, lost, p, k2, h)
      BY <3>0, UpdateEntryOK
    <3>2. PICK k2 \in iter[r] : Processed(R, lost, p, k2, h)
      BY <3>1 DEF G
    <3>3. Half(r, k2)
      BY <2>3
    <3> QED  BY <1>3, <2>1, <2>5, <2>6, <3>1, <3>2, <3>3 DEF Processed
  <2> HIDE DEF Half
  <2> QED  BY <2>7
<1> HIDE DEF P
<1>13. \A s \in SUBSET E : s # {} /\ s \ {Max(s)} \in P => s \in P
  BY <1>12
<1>14. \A s \in SUBSET E : s \in P
  BY <1>1, <1>11, <1>13, SubsetInduction
<1>15. Half(E, g)
  BY <1>10, <1>14 DEF P
<1> QED  BY <1>15 DEF Good, E, HasUpdated

\* index_snapshot before _resolve_relations, likewise.
LEMMA SnapshotOK ==
  ASSUME updates \in 0..MaxUpdates, TreeOK, NEW lost,
         NEW g \in Snapshot(lost)
  PROVE  /\ GraphOK(g)
         /\ \A p \in Paths : g.files[p] = Rebuilt(p, lost)
         /\ \A p \in Paths : \A u \in g.files[p].uses : \E r \in g.relations :
              r.source.file = p /\ r.source.name = u[1] /\ r.name = u[2]
<1> DEFINE E == {p \in Paths : Indexed(p, lost)}
           Eq(k) == k = [s \in SUBSET E |->
                           IF s = {} THEN {EmptyGraph}
                           ELSE SaveFile(Max(s), k[s \ {Max(s)}])]
           iter == CHOOSE k : Eq(k)
           step == [p \in E |-> [G \in SUBSET Graph |-> SaveFile(p, G)]]
<1>1. E \in SUBSET Nat /\ E \in SUBSET Paths /\ IsFiniteSet(E)
  <2>1. Paths \subseteq Nat \ {0} /\ IsFiniteSet(Paths)
    BY CodeGraphAssumption
  <2>2. E \in SUBSET Paths
    OBVIOUS
  <2> QED  BY <2>1, <2>2, FS_Subset
<1>2. \A p \in E : tree[p] \in Texts
  BY Records DEF Indexed, TreeOK
<1>3. \A p \in Paths : Rebuilt(p, lost) = IF p \in E THEN tree[p] ELSE NoText
  BY DEF Rebuilt
<1> HIDE DEF E
<1>4. step \in StepFunctions(E, SUBSET Graph)
  <2> SUFFICES ASSUME NEW p \in E, NEW G \in SUBSET Graph
               PROVE  SaveFile(p, G) \in SUBSET Graph
    BY DEF StepFunctions
  <2>1. p \in Paths /\ tree[p] \in Texts
    BY <1>1, <1>2
  <2>2. ASSUME NEW h \in SaveFile(p, G) PROVE h \in Graph
    <3>1. PICK k \in G : h \in Save(k, p, tree[p])
      BY <2>2 DEF SaveFile
    <3>2. k \in Graph
      OBVIOUS
    <3> QED  BY <2>1, <3>1, <3>2, SaveFacts
  <2> QED  BY <2>2
<1>5. EmptyGraph \in Graph /\ GraphOK(EmptyGraph)
      /\ \A p \in Paths : EmptyGraph.files[p] = NoText /\ SymbolsOf(EmptyGraph, p) = {}
  BY Records DEF EmptyGraph, Graph, GraphOK, SymbolsOf
<1>6. \A s \in SUBSET E : s # {} => Max(s) \in s
  BY <1>1, FS_Subset, HasMax
<1> HIDE DEF step
<1>7. PICK k : Folds(k, E, SUBSET Graph, {EmptyGraph}, step)
  <2>1. {EmptyGraph} \in SUBSET Graph
    BY <1>5
  <2> QED  BY <1>1, <1>4, <2>1, FoldExists
<1>8. Eq(k)
  <2>1. ASSUME NEW s \in SUBSET E
        PROVE  k[s] = IF s = {} THEN {EmptyGraph} ELSE SaveFile(Max(s), k[s \ {Max(s)}])
    BY <1>6, <1>7 DEF Folds, step
  <2> QED  BY <1>7, <2>1 DEF Folds
<1>9. Eq(iter)
  <2> HIDE DEF Eq
  <2> QED  BY <1>8
<1>10. g \in iter[E]
  BY DEF Snapshot, MapThenFoldSet, E
<1> HIDE DEF iter
<1> DEFINE Stands(h, p, u) == \E r \in h.relations :
             r.source.file = p /\ r.source.name = u[1] /\ r.name = u[2]
           Half(s, h) ==
             /\ GraphOK(h)
             /\ \A p \in Paths : h.files[p] = IF p \in s THEN tree[p] ELSE NoText
             /\ \A p \in Paths \ s : SymbolsOf(h, p) = {}
             /\ \A p \in s : \A u \in tree[p].uses : Stands(h, p, u)
           P == {s \in SUBSET E : \A h \in iter[s] : Half(s, h)}
<1>11. {} \in P
  <2>1. iter[{}] = {EmptyGraph}
    BY <1>9
  <2> QED  BY <1>5, <2>1
<1>12. ASSUME NEW s \in SUBSET E, s # {}, s \ {Max(s)} \in P PROVE s \in P
  <2> DEFINE p == Max(s)
             r == s \ {p}
  <2>1. p \in s /\ p \in E /\ p \in Paths /\ s = r \cup {p}
    BY <1>1, <1>6, <1>12
  <2>2. iter[s] = SaveFile(p, iter[r])
    BY <1>9, <1>12
  <2> HIDE DEF p
  <2>3. \A h \in iter[r] : Half(r, h)
    BY <1>12 DEF p
  <2>4. ASSUME NEW h \in iter[s] PROVE Half(s, h)
    <3>1. PICK k2 \in iter[r] : h \in Save(k2, p, tree[p])
      BY <2>2, <2>4 DEF SaveFile
    <3>2. Half(r, k2) /\ k2 \in Graph
      BY <2>3 DEF GraphOK
    <3>3. SymbolsOf(k2, p) = {} /\ tree[p] \in Texts
      BY <1>2, <2>1, <3>2
    <3>4. GraphOK(h)
      BY <2>1, <3>1, <3>2, <3>3, SaveOK
    <3>5. /\ h.files = [k2.files EXCEPT ![p] = tree[p]]
          /\ h.symbols = k2.symbols \cup {Inserted(p, n) : n \in tree[p].defines}
          /\ k2.relations \subseteq h.relations
          /\ \A u \in tree[p].uses : \E x \in h.relations :
               x.source = Inserted(p, u[1]) /\ x.name = u[2]
      <4>1. p \in Paths /\ tree[p] \in Texts /\ k2 \in Graph
        BY <2>1, <3>2, <3>3
      <4> HIDE DEF Half
      <4> QED  BY <3>1, <4>1, SaveFacts
    <3>6. \A q \in Paths : h.files[q] = IF q \in s THEN tree[q] ELSE NoText
      BY <2>1, <3>2, <3>5 DEF Graph
    <3>7. \A q \in Paths \ s : SymbolsOf(h, q) = {}
      BY <2>1, <3>2, <3>5 DEF SymbolsOf, Inserted
    <3>8. \A u \in tree[p].uses : Stands(h, p, u)
      <4>1. \A n : Inserted(p, n).file = p /\ Inserted(p, n).name = n
        BY DEF Inserted
      <4> QED  BY <3>5, <4>1
    <3>9. \A q \in r : \A u \in tree[q].uses : Stands(h, q, u)
      BY <3>2, <3>5
    <3> HIDE DEF Stands
    <3> QED  BY <2>1, <3>4, <3>6, <3>7, <3>8, <3>9
  <2> HIDE DEF Half
  <2> QED  BY <2>4
<1> HIDE DEF P
<1>13. E \in P
  BY <1>1, <1>11, <1>12, SubsetInduction
<1>14. Half(E, g)
  BY <1>10, <1>13 DEF P
<1>15. \A p \in Paths : \A u \in g.files[p].uses : Stands(g, p, u)
  BY <1>14, Records
<1> QED  BY <1>3, <1>14, <1>15

-----------------------------------------------------------------------------
(***************************************************************************)
(* trace                                                                   *)
(***************************************************************************)
\* The recursion of Frontier defines a function.
LEMMA FrontierSteps ==
  ASSUME NEW n, NEW m
  PROVE  LET F == Frontier(n, m)
         IN  /\ F[0] = SymbolsNamed(graph, n)
             /\ \A d \in 1..MaxDepth : F[d] = After(F[d - 1]) \ SymbolsNamed(graph, m)
<1> DEFINE next(A) == After(A) \ SymbolsNamed(graph, m)
           Eq(g) == g = [d \in 0..MaxDepth |-> IF d = 0 THEN SymbolsNamed(graph, n)
                                                  ELSE next(g[d - 1])]
           F == CHOOSE g : Eq(g)
           S == SUBSET (SymbolsNamed(graph, n) \cup {r.target : r \in graph.relations})
           step == [d \in Nat |-> [A \in S |-> next(A)]]
           b == SymbolsNamed(graph, n)
<1>1. F = Frontier(n, m)
  BY DEF Frontier
<1>2. step \in StepFunctions(Nat, S) /\ b \in S
  BY DEF StepFunctions, After
<1> HIDE DEF step, S, next, b
<1>3. PICK f : Iterates(f, S, b, step)
  BY <1>2, RecursionExists
<1> DEFINE g == [d \in 0..MaxDepth |-> f[d]]
<1>4. Eq(g)
  <2>1. ASSUME NEW d \in 0..MaxDepth, d # 0 PROVE f[d] = next(f[d - 1])
    <3>1. d - 1 \in Nat /\ (d - 1) + 1 = d
      BY <2>1
    <3>2. f[(d - 1) + 1] = step[d - 1][f[d - 1]] /\ f[d - 1] \in S
      BY <1>3, <3>1 DEF Iterates
    <3>3. step[d - 1][f[d - 1]] = next(f[d - 1])
      BY <3>1, <3>2 DEF step
    <3> QED  BY <3>1, <3>2, <3>3
  <2>2. \A d \in 0..MaxDepth : d # 0 => d - 1 \in 0..MaxDepth
    BY CodeGraphAssumption
  <2>3. f[0] = SymbolsNamed(graph, n)
    BY <1>3 DEF Iterates, b
  <2> QED  BY <2>1, <2>2, <2>3
<1> HIDE DEF g
<1>5. Eq(F)
  <2> HIDE DEF Eq
  <2> QED  BY <1>4
<1> HIDE DEF F
<1>6. F[0] = SymbolsNamed(graph, n)
  <2>1. 0 \in 0..MaxDepth
    BY CodeGraphAssumption
  <2> QED  BY <1>5, <2>1
<1>7. ASSUME NEW d \in 1..MaxDepth PROVE F[d] = next(F[d - 1])
  <2>1. d \in 0..MaxDepth /\ d # 0
    BY CodeGraphAssumption
  <2> QED  BY <1>5, <2>1
<1> QED  BY <1>1, <1>6, <1>7 DEF next

\* w is a way of k relations that starts at a symbol named n and ends with r.
Way(k, w, n, r) ==
  /\ w \in [1..k -> graph.relations]
  /\ w[1].source.name = n
  /\ \A i \in 1..(k - 1) : w[i].target = w[i + 1].source
  /\ w[k] = r

\* What trace reaches at a depth is at the end of a way, by induction over
\* the depth.
LEMMA FrontierIsReached ==
  ASSUME NEW n, NEW m, NEW d \in 0..MaxDepth,
         NEW r \in graph.relations, r.source \in Frontier(n, m)[d]
  PROVE  \E w : Way(d + 1, w, n, r)
<1> DEFINE F == Frontier(n, m)
           P == {e \in Nat : e \in 0..MaxDepth => \A q \in graph.relations :
                   q.source \in F[e] => \E w : Way(e + 1, w, n, q)}
<1>0. /\ F[0] = SymbolsNamed(graph, n)
      /\ \A e \in 1..MaxDepth : F[e] = After(F[e - 1]) \ SymbolsNamed(graph, m)
  BY FrontierSteps
<1> HIDE DEF F
<1>1. 0 \in P
  <2>1. ASSUME NEW q \in graph.relations, q.source \in F[0]
        PROVE  Way(1, [i \in 1..1 |-> q], n, q)
    BY <1>0, <2>1 DEF Way, SymbolsNamed
  <2> QED  BY <2>1
<1>2. ASSUME NEW e \in Nat, e \in P PROVE e + 1 \in P
  <2> SUFFICES ASSUME e + 1 \in 0..MaxDepth,
                      NEW q \in graph.relations, q.source \in F[e + 1]
               PROVE  \E w : Way(e + 2, w, n, q)
    OBVIOUS
  <2>1. MaxDepth \in Nat /\ e \in 0..MaxDepth /\ e + 1 \in 1..MaxDepth /\ (e + 1) - 1 = e
    BY CodeGraphAssumption
  <2>2. F[e + 1] = After(F[e]) \ SymbolsNamed(graph, m)
    BY <1>0, <2>1
  <2>3. PICK p \in graph.relations : p.source \in F[e] /\ p.target = q.source
    BY <2>2 DEF After
  <2>4. PICK w : Way(e + 1, w, n, p)
    BY <1>2, <2>1, <2>3
  <2> DEFINE v == [i \in 1..(e + 2) |-> IF i = e + 2 THEN q ELSE w[i]]
  <2>5. v \in [1..(e + 2) -> graph.relations]
    BY <2>4 DEF Way
  <2>6. v[1].source.name = n /\ v[e + 2] = q
    BY <2>4 DEF Way
  <2>7. ASSUME NEW i \in 1..((e + 2) - 1) PROVE v[i].target = v[i + 1].source
    <3>1. CASE i = e + 1
      <4>1. v[i] = p /\ v[i + 1] = q
        BY <2>4, <3>1 DEF Way
      <4> QED  BY <2>3, <4>1
    <3>2. CASE i # e + 1
      <4>1. i \in 1..((e + 1) - 1) /\ v[i] = w[i] /\ v[i + 1] = w[i + 1]
        BY <3>2
      <4> QED  BY <2>4, <4>1 DEF Way
    <3> QED  BY <3>1, <3>2
  <2> HIDE DEF v
  <2>8. Way(e + 2, v, n, q)
    BY <2>5, <2>6, <2>7 DEF Way
  <2> QED  BY <2>8
<1> HIDE DEF P
<1>3. d \in P
  BY <1>1, <1>2, Induction
<1> QED  BY <1>3 DEF P, F

\* trace, for every graph whose relations join symbols: a way that is found
\* is one, and of the ways there are the shortest is found (a longer one may
\* be cut off where it first arrives).
LEMMA TraceReaches ==
  ASSUME graph \in Graph,
         \A r \in graph.relations : /\ r.source \in graph.symbols
                                    /\ r.target \in graph.symbols \cup {Unresolved}
  PROVE  TraceIsReachability
<1> SUFFICES ASSUME NEW n \in SymNames, NEW m \in SymNames
             PROVE  Trace(n, m) <=>
                      \E k \in 1..MaxDepth : \E w \in [1..k -> graph.relations] :
                        /\ w[1].source.name = n
                        /\ \A i \in 1..(k - 1) : w[i].target = w[i + 1].source
                        /\ w[k].target.name = m /\ w[k].target # Unresolved
  BY DEF TraceIsReachability
<1> DEFINE F == Frontier(n, m)
           Ends(r) == r.target.name = m /\ r.target # Unresolved
<1>0. MaxDepth \in Nat /\ \A s \in graph.symbols : s # Unresolved
  BY Records, CodeGraphAssumption DEF Graph
<1>1. ASSUME Trace(n, m)
      PROVE  \E k \in 1..MaxDepth : \E r \in graph.relations : \E w :
               Way(k, w, n, r) /\ Ends(r)
  <2>1. PICK d \in 0..(MaxDepth - 1) : After(F[d]) \cap SymbolsNamed(graph, m) # {}
    BY <1>1 DEF Trace
  <2> HIDE DEF F
  <2>2. PICK r \in graph.relations : r.source \in F[d] /\ Ends(r)
    BY <2>1 DEF After, SymbolsNamed
  <2>3. d + 1 \in 1..MaxDepth /\ d \in 0..MaxDepth
    BY <1>0
  <2>4. \E w : Way(d + 1, w, n, r)
    BY <2>2, <2>3, FrontierIsReached DEF F
  <2> QED  BY <2>2, <2>3, <2>4
<1>2. ASSUME NEW l \in 1..MaxDepth, NEW v, NEW x \in graph.relations, Way(l, v, n, x),
             Ends(x)
      PROVE  Trace(n, m)
  <2> DEFINE K == {k \in 1..MaxDepth : \E w : \E r \in graph.relations :
                     Way(k, w, n, r) /\ Ends(r)}
  <2>1. K \in SUBSET Nat /\ l \in K
    BY <1>2
  <2> HIDE DEF K
  <2>2. PICK k \in K : \A j \in K : k <= j
    BY <2>1, Least
  <2>3. PICK w : \E r \in graph.relations : Way(k, w, n, r) /\ Ends(r)
    BY DEF K
  <2>4. k \in 1..MaxDepth /\ w \in [1..k -> graph.relations] /\ Ends(w[k])
    BY <2>3 DEF K, Way
  <2>5. /\ w[1].source.name = n
        /\ \A i \in 1..(k - 1) : w[i].target = w[i + 1].source
    BY <2>3 DEF Way
  <2>6. /\ F[0] = SymbolsNamed(graph, n)
        /\ \A e \in 1..MaxDepth : F[e] = After(F[e - 1]) \ SymbolsNamed(graph, m)
    BY FrontierSteps
  <2> HIDE DEF F
  <2> DEFINE P == {i \in Nat : i \in 1..k => w[i].source \in F[i - 1]}
  <2>7. 0 \in P
    OBVIOUS
  <2>8. ASSUME NEW i \in Nat, i \in P PROVE i + 1 \in P
    <3> SUFFICES ASSUME i + 1 \in 1..k PROVE w[i + 1].source \in F[(i + 1) - 1]
      OBVIOUS
    <3>1. (i + 1) - 1 = i /\ w[i + 1].source \in graph.symbols
      BY <2>4
    <3>2. CASE i = 0
      BY <2>5, <2>6, <3>1, <3>2 DEF SymbolsNamed
    <3>3. CASE i # 0
      <4>1. i \in 1..(k - 1) /\ i \in 1..k /\ i \in 1..MaxDepth /\ ~(k <= i)
        BY <1>0, <2>4, <3>3
      <4>2. w[i].source \in F[i - 1] /\ w[i] \in graph.relations
        BY <2>4, <2>8, <4>1
      <4>3. w[i].target = w[i + 1].source /\ w[i].target # Unresolved
        BY <1>0, <2>5, <3>1, <4>1
      <4>4. w[i].target \in After(F[i - 1])
        BY <4>2, <4>3 DEF After
      <4>5. w[i].target.name # m
        <5> SUFFICES ASSUME w[i].target.name = m PROVE FALSE
          OBVIOUS
        <5> DEFINE u == [j \in 1..i |-> w[j]]
        <5>1. u \in [1..i -> graph.relations] /\ u[1] = w[1] /\ u[i] = w[i]
          BY <2>4, <4>1
        <5>2. \A j \in 1..(i - 1) : u[j].target = u[j + 1].source
          <6> SUFFICES ASSUME NEW j \in 1..(i - 1) PROVE u[j].target = u[j + 1].source
            OBVIOUS
          <6>1. j \in 1..i /\ j + 1 \in 1..i /\ j \in 1..(k - 1)
            BY <2>4, <4>1
          <6>2. u[j] = w[j] /\ u[j + 1] = w[j + 1]
            BY <6>1
          <6> QED  BY <2>5, <6>1, <6>2
        <5> HIDE DEF u
        <5>3. Way(i, u, n, w[i]) /\ Ends(w[i])
          BY <2>5, <4>3, <5>1, <5>2 DEF Way
        <5>4. i \in K
          BY <4>1, <4>2, <5>3 DEF K
        <5> QED  BY <2>2, <4>1, <5>4
      <4> QED  BY <2>6, <3>1, <4>1, <4>3, <4>4, <4>5 DEF SymbolsNamed
    <3> QED  BY <3>2, <3>3
  <2> HIDE DEF P
  <2>9. k \in P
    BY <2>4, <2>7, <2>8, Induction
  <2>10. w[k].source \in F[k - 1] /\ w[k] \in graph.relations
    BY <2>4, <2>9 DEF P
  <2>11. w[k].target \in After(F[k - 1]) \cap SymbolsNamed(graph, m)
    BY <1>2, <2>4, <2>10 DEF After, SymbolsNamed
  <2>12. k - 1 \in 0..(MaxDepth - 1)
    BY <1>0, <2>4
  <2> QED  BY <2>11, <2>12 DEF Trace, F
<1>3. ASSUME NEW k \in 1..MaxDepth, NEW w \in [1..k -> graph.relations],
             w[1].source.name = n, \A i \in 1..(k - 1) : w[i].target = w[i + 1].source,
             Ends(w[k])
      PROVE  Trace(n, m)
  <2>1. w[k] \in graph.relations /\ Way(k, w, n, w[k])
    BY <1>0, <1>3 DEF Way
  <2> QED  BY <1>2, <1>3, <2>1
<1>4. ASSUME Trace(n, m)
      PROVE  \E k \in 1..MaxDepth : \E w \in [1..k -> graph.relations] :
               /\ w[1].source.name = n
               /\ \A i \in 1..(k - 1) : w[i].target = w[i + 1].source
               /\ w[k].target.name = m /\ w[k].target # Unresolved
  BY <1>1, <1>4 DEF Way
<1> QED  BY <1>3, <1>4

-----------------------------------------------------------------------------
(***************************************************************************)
(* code_file, and the invariant                                            *)
(***************************************************************************)
LEMMA FileViewIsClosed == graph \in Graph => FileViewClosed
<1> SUFFICES ASSUME graph \in Graph, NEW p \in Paths
             PROVE  LET ends == UNION {{e.from, e.to} : e \in FileEdges(p)}
                    IN  ends \cup {<<"file", p>>} = FileNodes(p)
  BY DEF FileViewClosed
<1> DEFINE ends == UNION {{e.from, e.to} : e \in FileEdges(p)}
           own == {NodeOf(s) : s \in SymbolsIn(p)}
           touched == UNION {{NodeOf(r.source), EndOf(r)} : r \in Touching(p)}
<1>1. ends \cup {<<"file", p>>} = {<<"file", p>>} \cup own \cup touched
  <2>1. \A e \in FileEdges(p) : {e.from, e.to} \subseteq {<<"file", p>>} \cup own \cup touched
    BY DEF FileEdges
  <2>2. ASSUME NEW s \in SymbolsIn(p) PROVE NodeOf(s) \in ends
    <3> DEFINE e == [from |-> <<"file", p>>, to |-> NodeOf(s)]
    <3>1. e \in FileEdges(p) /\ e.to = NodeOf(s)
      BY DEF FileEdges
    <3> HIDE DEF e
    <3> QED  BY <3>1
  <2>3. ASSUME NEW r \in Touching(p) PROVE NodeOf(r.source) \in ends /\ EndOf(r) \in ends
    <3> DEFINE e == [from |-> NodeOf(r.source), to |-> EndOf(r)]
    <3>1. e \in FileEdges(p) /\ e.from = NodeOf(r.source) /\ e.to = EndOf(r)
      BY DEF FileEdges
    <3> HIDE DEF e
    <3> QED  BY <3>1
  <2> QED  BY <2>1, <2>2, <2>3
<1>2. \A r \in Touching(p) : r.source # Unresolved
  BY Records DEF Touching, Graph, Relation
<1>3. \A r \in Touching(p) : NodeOf(r.source) \in FileNodes(p) /\ EndOf(r) \in FileNodes(p)
  <2> SUFFICES ASSUME NEW r \in Touching(p)
               PROVE  NodeOf(r.source) \in FileNodes(p) /\ EndOf(r) \in FileNodes(p)
    OBVIOUS
  <2>1. \A s \in {r.source, r.target} : s = Unresolved \/ s \in SymbolsIn(p) \cup Neighbours(p)
    BY DEF Neighbours
  <2>2. \A s \in SymbolsIn(p) \cup Neighbours(p) : NodeOf(s) \in FileNodes(p)
    BY DEF FileNodes
  <2>3. r.target = Unresolved => EndOf(r) \in FileNodes(p)
    BY DEF FileNodes
  <2>4. r.target # Unresolved => EndOf(r) = NodeOf(r.target)
    BY DEF EndOf
  <2> QED  BY <1>2, <2>1, <2>2, <2>3, <2>4
<1>4. own \subseteq FileNodes(p) /\ <<"file", p>> \in FileNodes(p)
  BY DEF FileNodes
<1>5. ASSUME NEW x \in FileNodes(p), x # <<"file", p>> PROVE x \in own \cup touched
  <2>1. CASE \E s \in SymbolsIn(p) \cup Neighbours(p) : x = NodeOf(s)
    <3>1. PICK s \in SymbolsIn(p) \cup Neighbours(p) : x = NodeOf(s)
      BY <2>1
    <3>2. CASE s \in SymbolsIn(p)
      BY <3>1, <3>2
    <3>3. CASE s \in Neighbours(p)
      <4>1. PICK r \in Touching(p) : s \in {r.source, r.target} /\ s # Unresolved
        BY <3>3 DEF Neighbours
      <4>2. x \in {NodeOf(r.source), EndOf(r)}
        BY <3>1, <4>1 DEF EndOf
      <4> QED  BY <4>2
    <3> QED  BY <3>1, <3>2, <3>3
  <2>2. CASE \E r \in Touching(p) : x = EndOf(r)
    BY <2>2
  <2> QED  BY <1>5, <2>1, <2>2 DEF FileNodes
<1> QED  BY <1>1, <1>3, <1>4, <1>5

CodeGraphInv == CodeGraphTypeOK /\ IndexFollowsTree /\ RelationsSound

\* Between two updates the graph is one that updating may start from.
LEMMA InvGraphOK == CodeGraphInv => GraphOK(graph)
<1> SUFFICES ASSUME CodeGraphInv PROVE GraphOK(graph)
  OBVIOUS
<1>1. graph \in Graph
  BY DEF CodeGraphInv, CodeGraphTypeOK
<1>2. ASSUME NEW r \in graph.relations PROVE Loose(graph, r)
  <2>0. r.target \in Targets(graph, r.source.file, r.name)
    BY DEF CodeGraphInv, RelationsSound
  <2>1. r.target = Unresolved => SymbolsNamed(graph, r.name) = {}
    BY <1>1, <2>0, TargetsOf
  <2> QED  BY <2>1 DEF CodeGraphInv, RelationsSound, Loose, Own
<1> QED  BY <1>1, <1>2 DEF GraphOK, CodeGraphInv, CodeGraphTypeOK, IndexFollowsTree

\* Nothing is indexed at first.
LEMMA CodeGraphInitInv == CodeGraphInit => CodeGraphInv
<1> SUFFICES ASSUME CodeGraphInit PROVE CodeGraphInv
  OBVIOUS
<1>1. graph.symbols = {} /\ graph.relations = {} /\ graph.files = [p \in Paths |-> NoText]
      /\ graph \in Graph /\ 0 \in 0..MaxUpdates
  BY CodeGraphAssumption DEF CodeGraphInit, EmptyGraph, Graph
<1> QED  BY <1>1, Records DEF CodeGraphInit, CodeGraphInv, CodeGraphTypeOK,
                             IndexFollowsTree, RelationsSound, SymbolsOf

\* Relations are sound for as long as the tables stay as they are.
LEMMA RelationsStand ==
  ASSUME RelationsSound, UNCHANGED <<graph, fresh>>
  PROVE  RelationsSound'
<1>1. ASSUME NEW r \in graph'.relations
      PROVE  /\ r.source \in graph'.symbols
             /\ <<r.source.name, r.name>> \in graph'.files[r.source.file].uses
             /\ r.target \in Targets(graph', r.source.file, r.name)
  BY <1>1 DEF RelationsSound
<1>2. ASSUME fresh', NEW p \in Paths, NEW u \in graph'.files[p].uses
      PROVE  \E r \in graph'.relations :
               r.source.file = p /\ r.source.name = u[1] /\ r.name = u[2]
  BY <1>2 DEF RelationsSound
<1> QED  BY <1>1, <1>2 DEF RelationsSound, Targets, Own, SymbolsNamed, SymbolsOf

\* A change of the repository leaves the index alone; either way of updating
\* it establishes the invariant again, whatever entries git reports and
\* whatever files it cannot read.
LEMMA CodeGraphNextInv == CodeGraphInv /\ [CodeGraphNext]_codeGraphVars => CodeGraphInv'
<1> SUFFICES ASSUME CodeGraphInv, [CodeGraphNext]_codeGraphVars PROVE CodeGraphInv'
  OBVIOUS
<1>0. /\ updates \in 0..MaxUpdates /\ TreeOK /\ GraphOK(graph) /\ MaxUpdates \in Nat
      /\ tree \in [Paths -> Texts \cup {NoText}] /\ base \in [Paths -> Texts \cup {NoText}]
      /\ unread \subseteq Paths
  BY InvGraphOK, CodeGraphAssumption DEF CodeGraphInv, CodeGraphTypeOK, TreeOK
<1>1. ASSUME NEW p \in Paths, NEW t \in Texts \cup {NoText}, ChangeFile(p, t)
      PROVE  CodeGraphInv'
  <2>1. /\ tree' \in [Paths -> Texts \cup {NoText}] /\ updates' \in 0..MaxUpdates
        /\ UNCHANGED <<base, graph, unread, fresh>>
    BY <1>0, <1>1 DEF ChangeFile
  <2>2. CodeGraphTypeOK'
    BY <1>0, <2>1 DEF CodeGraphInv, CodeGraphTypeOK
  <2>3. IndexFollowsTree'
    BY <2>1 DEF CodeGraphInv, IndexFollowsTree, SymbolsOf
  <2>4. RelationsSound'
    BY <2>1, RelationsStand DEF CodeGraphInv
  <2> QED  BY <2>2, <2>3, <2>4 DEF CodeGraphInv
\* Either way of updating ends in _resolve_relations.
<1>2. ASSUME NEW g, GraphOK(g), graph' \in Resolve(g), UNCHANGED <<tree, updates>>,
             base' = tree, unread' \subseteq Paths, fresh' \in BOOLEAN,
             \A p \in Paths : g.files[p] = IF p \in Ignored \cup unread' THEN NoText
                                           ELSE tree[p],
             fresh' => \A p \in Paths : \A u \in g.files[p].uses : \E r \in g.relations :
               r.source.file = p /\ r.source.name = u[1] /\ r.name = u[2]
      PROVE  CodeGraphInv'
  <2> DEFINE h == graph'
  <2>1. /\ GraphOK(h) /\ h.files = g.files /\ h.symbols = g.symbols
        /\ \A r \in h.relations : r.target \in Targets(h, r.source.file, r.name)
        /\ \A r \in g.relations : \E k \in h.relations :
              k.source = r.source /\ k.name = r.name
    BY <1>2, ResolveOK
  <2>2. CodeGraphTypeOK'
    BY <1>0, <1>2, <2>1 DEF CodeGraphTypeOK, GraphOK
  <2>3. IndexFollowsTree'
    BY <1>2, <2>1 DEF IndexFollowsTree, GraphOK, SymbolsOf
  <2>4. RelationsSound'
    <3>1. ASSUME NEW r \in h.relations
          PROVE  /\ r.source \in h.symbols
                 /\ <<r.source.name, r.name>> \in h.files[r.source.file].uses
                 /\ r.target \in Targets(h, r.source.file, r.name)
      BY <2>1 DEF GraphOK, Loose
    <3>2. ASSUME fresh', NEW p \in Paths, NEW u \in h.files[p].uses
          PROVE  \E r \in h.relations :
                   r.source.file = p /\ r.source.name = u[1] /\ r.name = u[2]
      BY <1>2, <2>1, <3>2
    <3> QED  BY <3>1, <3>2 DEF RelationsSound, Targets, Own, SymbolsNamed, SymbolsOf
  <2> QED  BY <2>2, <2>3, <2>4 DEF CodeGraphInv
<1>3. ASSUME NEW R \in SUBSET Renames, NEW lost \in Lost, IncrementalUpdate(R, lost)
      PROVE  CodeGraphInv'
  <2> DEFINE seen == Seen(R, Entries(R))
  <2>1. PICK g \in Updated(R, lost) : graph' \in Resolve(g)
    BY <1>3 DEF IncrementalUpdate
  <2>2. /\ lost \subseteq seen /\ unread' = (unread \ seen) \cup lost
        /\ base' = tree /\ fresh' = FALSE /\ UNCHANGED <<tree, updates>>
    BY <1>3 DEF IncrementalUpdate, Seen
  <2>3. GraphOK(g) /\ HasUpdated(R, lost, g)
    BY <1>0, UpdateOK
  <2>4. ASSUME NEW q \in Paths, q \notin seen PROVE base[q] = tree[q]
    <3>1. \A p \in Entries(R) : q \notin PathsOf(R, p)
      BY <2>4 DEF Seen
    <3>2. q \notin Entries(R)
      BY <3>1 DEF PathsOf
    <3>3. ASSUME NEW x \in R, x[1] = q PROVE FALSE
      <4>1. x \in Renames
        OBVIOUS
      <4>2. /\ x[2] \in Paths /\ ~base[x[2]].exists /\ tree[x[2]].exists
            /\ \A y \in R : base[y[1]].exists
        BY <4>1 DEF Renames
      <4>3. x[2] \in Entries(R)
        BY <4>2 DEF Entries, Differs
      <4>4. q \in PathsOf(R, x[2])
        BY <3>3 DEF PathsOf, OldPaths
      <4> QED  BY <3>1, <4>3, <4>4
    <3> QED  BY <3>2, <3>3 DEF Entries, Differs
  <2>5. \A q \in Paths : ~tree[q].exists => tree[q] = NoText
    BY <1>0, Records
  <2> HIDE DEF seen
  <2>6. \A q \in Paths : g.files[q] = IF q \in Ignored \cup unread' THEN NoText ELSE tree[q]
    BY <2>2, <2>3, <2>4, <2>5 DEF HasUpdated, seen, Rebuilt, Indexed, CodeGraphInv, IndexFollowsTree
  <2>7. unread' \subseteq Paths
    BY <1>0, <2>2 DEF Lost
  <2> QED  BY <1>2, <2>1, <2>2, <2>3, <2>6, <2>7
<1>4. ASSUME NEW lost \in Lost, IndexSnapshot(lost) PROVE CodeGraphInv'
  <2>1. PICK g \in Snapshot(lost) : graph' \in Resolve(g)
    BY <1>4 DEF IndexSnapshot
  <2>2. unread' = lost /\ base' = tree /\ fresh' = TRUE /\ UNCHANGED <<tree, updates>>
    BY <1>4 DEF IndexSnapshot
  <2>3. /\ GraphOK(g)
        /\ \A p \in Paths : g.files[p] = Rebuilt(p, lost)
        /\ \A p \in Paths : \A u \in g.files[p].uses : \E r \in g.relations :
             r.source.file = p /\ r.source.name = u[1] /\ r.name = u[2]
    BY <1>0, SnapshotOK
  <2>4. \A q \in Paths : ~tree[q].exists => tree[q] = NoText
    BY <1>0, Records
  <2>5. \A q \in Paths : g.files[q] = IF q \in Ignored \cup unread' THEN NoText ELSE tree[q]
    BY <2>2, <2>3, <2>4 DEF Rebuilt, Indexed
  <2>6. unread' \subseteq Paths
    BY <2>2 DEF Lost
  <2> QED  BY <1>2, <2>1, <2>2, <2>3, <2>5, <2>6
<1>5. CASE UNCHANGED codeGraphVars
  <2>1. UNCHANGED <<tree, base, graph, unread, fresh, updates>>
    BY <1>5 DEF codeGraphVars
  <2>2. CodeGraphTypeOK'
    BY <2>1 DEF CodeGraphInv, CodeGraphTypeOK
  <2>3. IndexFollowsTree'
    BY <2>1 DEF CodeGraphInv, IndexFollowsTree, SymbolsOf
  <2>4. RelationsSound'
    BY <2>1, RelationsStand DEF CodeGraphInv
  <2> QED  BY <2>2, <2>3, <2>4 DEF CodeGraphInv
<1> QED  BY <1>1, <1>3, <1>4, <1>5 DEF CodeGraphNext

\* What the two readers of the graph promise follows from the invariant.
LEMMA InvImplies == CodeGraphInv => TraceIsReachability /\ FileViewClosed
<1> SUFFICES ASSUME CodeGraphInv PROVE TraceIsReachability /\ FileViewClosed
  OBVIOUS
<1>1. graph \in Graph
  BY DEF CodeGraphInv, CodeGraphTypeOK
<1>2. \A r \in graph.relations : /\ r.source \in graph.symbols
                                 /\ r.target \in graph.symbols \cup {Unresolved}
  BY <1>1, TargetsOf DEF CodeGraphInv, RelationsSound, SymbolsNamed
<1> QED  BY <1>1, <1>2, TraceReaches, FileViewIsClosed

\* packages/code_intelligence/service.py: after any sequence of index_snapshot
\* and incremental_update the rows are those of the commit indexed last, every
\* relation stands for a use and leads where the name leads, trace finds a way
\* exactly when there is one that is short enough, and the picture of a file
\* (GraphService.code_file) is closed.
THEOREM CodeGraphSafe ==
  CodeGraphSpec => [](/\ CodeGraphTypeOK /\ IndexFollowsTree /\ RelationsSound
                      /\ TraceIsReachability /\ FileViewClosed)
<1>1. CodeGraphInv => /\ CodeGraphTypeOK /\ IndexFollowsTree /\ RelationsSound
                      /\ TraceIsReachability /\ FileViewClosed
  BY InvImplies DEF CodeGraphInv
<1> QED  BY <1>1, CodeGraphInitInv, CodeGraphNextInv, PTL DEF CodeGraphSpec

-----------------------------------------------------------------------------
(***************************************************************************)
(* GraphViews: directories, level by level                                 *)
(***************************************************************************)
\* The first k segments of a path.
Cut(f, k) == SubSeq(f, 1, k)

\* A path has a prefix of each length up to its own.
LEMMA CutFacts ==
  ASSUME NEW f \in Locations
  PROVE  /\ f \in Seq(Segments) /\ Len(f) \in Nat \ {0} /\ Len(f) <= Deepest
         /\ Deepest \in Nat
         /\ \A k \in 0..Len(f) : Cut(f, k) \in Seq(Segments) /\ Len(Cut(f, k)) = k
         /\ Cut(f, 0) = <<>>
<1>1. /\ Deepest \in Nat /\ Len(f) <= Deepest /\ f \in Seq(Segments) /\ f # <<>>
  BY ViewsAssumption
<1>2. Len(f) \in Nat \ {0}
  BY <1>1
<1>3. ASSUME NEW k \in 0..Len(f) PROVE Cut(f, k) \in Seq(Segments) /\ Len(Cut(f, k)) = k
  BY <1>1, <1>3 DEF Cut
<1>4. Cut(f, 0) = <<>>
  BY <1>1, SubSeqEmpty DEF Cut
<1> QED  BY <1>1, <1>2, <1>3, <1>4

\* A shorter prefix of a prefix.
LEMMA CutOfCut ==
  ASSUME NEW f \in Locations, NEW k \in 0..Len(f), NEW j \in 0..k
  PROVE  Cut(Cut(f, k), j) = Cut(f, j)
<1>1. f \in Seq(Segments) /\ Len(f) \in Nat
  BY CutFacts
<1>2. CASE j = 0
  <2>1. \A s : Cut(s, 0) = <<>>
    BY SubSeqEmpty DEF Cut
  <2> QED  BY <1>2, <2>1
<1>3. CASE j # 0
  <2>1. /\ 1 \in 1..Len(f) /\ k \in 1..Len(f) /\ 1 \in 1..(k - 1 + 1) /\ j \in 1..(k - 1 + 1)
        /\ 1 + 1 - 1 = 1 /\ 1 + j - 1 = j
    BY <1>1, <1>3
  <2>2. SubSeq(SubSeq(f, 1, k), 1, j) = SubSeq(f, 1 + 1 - 1, 1 + j - 1)
    BY <1>1, <2>1, SubSeqOfSubSeq
  <2> QED  BY <2>1, <2>2 DEF Cut
<1> QED  BY <1>2, <1>3

\* One path lies under another that is a prefix of a path.
LEMMA PrefixOfCut ==
  ASSUME NEW f \in Locations, NEW g \in Locations,
         NEW k \in 0..Len(f), NEW n \in 0..Len(g)
  PROVE  IsPrefix(Cut(f, k), Cut(g, n)) <=> k <= n /\ Cut(f, k) = Cut(g, k)
<1>1. Len(Cut(f, k)) = k /\ Len(Cut(g, n)) = n /\ k \in Nat /\ n \in Nat
  BY CutFacts
<1>2. Cut(Cut(f, k), k) = Cut(f, k)
  BY CutOfCut, <1>1
<1>3. k <= n => Cut(Cut(g, n), k) = Cut(g, k)
  BY CutOfCut, <1>1
<1> QED  BY <1>1, <1>2, <1>3 DEF IsPrefix, Cut

\* A path is a prefix of itself.
LEMMA WholeIsCut == ASSUME NEW f \in Locations PROVE Cut(f, Len(f)) = f
BY CutFacts, SubSeqFull DEF Cut

-----------------------------------------------------------------------------
\* Prefixes of indexed files of a given length, the file itself excluded.
Ancestors(d) == {Cut(f, d) : f \in {f \in indexed : Len(f) > d}}

\* What code() shows at a directory d levels down.
LEMMA DirectoriesOf ==
  ASSUME indexed \subseteq Locations, NEW d \in Nat, NEW p \in Ancestors(d)
  PROVE  /\ Len(p) = d
         /\ \A f \in indexed : f \in Below(p) <=> Len(f) > d + 1 /\ p = Cut(f, d)
         /\ \A f \in indexed : f \in Files(p) <=> Len(f) = d + 1 /\ p = Cut(f, d)
         /\ Directories(p) = {Cut(f, d + 1) : f \in {f \in indexed : Len(f) > d + 1
                                                                  /\ p = Cut(f, d)}}
<1>1. PICK g \in indexed : Len(g) > d /\ p = Cut(g, d)
  BY DEF Ancestors
<1>2. d \in 0..Len(g) /\ Len(p) = d /\ g \in Locations
  BY <1>1, CutFacts
<1>3. ASSUME NEW f \in indexed
      PROVE  Under(p, f) <=> Len(f) > d /\ p = Cut(f, d)
  <2>1. f \in Locations /\ Len(f) \in Nat /\ Len(f) \in 0..Len(f) /\ Cut(f, Len(f)) = f
    BY CutFacts, WholeIsCut
  <2>2. IsPrefix(Cut(g, d), Cut(f, Len(f))) <=> d <= Len(f) /\ Cut(g, d) = Cut(f, d)
    BY <1>2, <2>1, PrefixOfCut
  <2> QED  BY <1>1, <1>2, <2>1, <2>2 DEF Under
<1>4. \A f \in indexed : Len(f) \in Nat
  BY CutFacts
<1>5. \A f \in indexed : f \in Below(p) <=> Len(f) > d + 1 /\ p = Cut(f, d)
  BY <1>2, <1>3, <1>4 DEF Below
<1>6. \A f \in indexed : f \in Files(p) <=> Len(f) = d + 1 /\ p = Cut(f, d)
  BY <1>2, <1>3, <1>4 DEF Files
<1>7. Directories(p) = {Cut(f, d + 1) : f \in {f \in indexed : Len(f) > d + 1
                                                             /\ p = Cut(f, d)}}
  <2>1. Below(p) = {f \in indexed : Len(f) > d + 1 /\ p = Cut(f, d)}
    BY <1>5 DEF Below
  <2> QED  BY <1>2, <2>1 DEF Directories, Cut
<1> QED  BY <1>2, <1>5, <1>6, <1>7

\* Opening directory after directory: at each depth the prefixes of that
\* length of the files that lie deeper, and the root.
LEMMA OpenedFacts ==
  ASSUME indexed \subseteq Locations
  PROVE  /\ OpenedAt[0] = {<<>>}
         /\ \A d \in 1..Deepest : OpenedAt[d] = Ancestors(d)
<1> DEFINE next(A) == UNION {Directories(p) : p \in A}
           Eq(g) == g = [d \in 0..Deepest |-> IF d = 0 THEN {<<>>} ELSE next(g[d - 1])]
           D == CHOOSE g : Eq(g)
           paths == UNION {{Cut(f, k) : k \in 0..Deepest} : f \in indexed} \cup {<<>>}
           S == SUBSET Seq(Segments)
           step == [d \in Nat |-> [A \in S |-> next(A)]]
           b == {<<>>}
<1>0. Deepest \in Nat
  BY ViewsAssumption
<1>1. D = OpenedAt
  BY DEF OpenedAt
<1>2. step \in StepFunctions(Nat, S) /\ b \in S
  <2>1. ASSUME NEW A \in S PROVE next(A) \in S
    <3> SUFFICES ASSUME NEW p \in A, NEW f \in Below(p)
                 PROVE  SubSeq(f, 1, Len(p) + 1) \in Seq(Segments)
      BY DEF Directories
    <3>1. p \in Seq(Segments) /\ Len(p) \in Nat /\ f \in Locations /\ Len(p) + 1 < Len(f)
      BY DEF Below
    <3>2. Len(p) + 1 \in 0..Len(f)
      BY <3>1, CutFacts
    <3> QED  BY <3>1, <3>2, CutFacts DEF Cut
  <2> HIDE DEF next
  <2>2. <<>> \in Seq(Segments)
    OBVIOUS
  <2> QED  BY <2>1, <2>2 DEF StepFunctions
<1> HIDE DEF step, S, next, b
<1>3. PICK f : Iterates(f, S, b, step)
  BY <1>2, RecursionExists
<1> DEFINE g == [d \in 0..Deepest |-> f[d]]
<1>4. Eq(g)
  <2>1. ASSUME NEW d \in 0..Deepest, d # 0 PROVE f[d] = next(f[d - 1])
    <3>1. d - 1 \in Nat /\ (d - 1) + 1 = d
      BY <2>1
    <3>2. f[(d - 1) + 1] = step[d - 1][f[d - 1]] /\ f[d - 1] \in S
      BY <1>3, <3>1 DEF Iterates
    <3>3. step[d - 1][f[d - 1]] = next(f[d - 1])
      BY <3>1, <3>2 DEF step
    <3> QED  BY <3>1, <3>2, <3>3
  <2>2. \A d \in 0..Deepest : d # 0 => d - 1 \in 0..Deepest
    BY <1>0
  <2>3. f[0] = {<<>>}
    BY <1>3 DEF Iterates, b
  <2> QED  BY <2>1, <2>2, <2>3
<1> HIDE DEF g
<1>5. Eq(D)
  <2> HIDE DEF Eq
  <2> QED  BY <1>4
<1> HIDE DEF D
<1>6. D[0] = {<<>>}
  <2>1. 0 \in 0..Deepest
    BY <1>0
  <2> QED  BY <1>5, <2>1
<1>7. ASSUME NEW d \in 1..Deepest PROVE D[d] = next(D[d - 1])
  <2>1. d \in 0..Deepest /\ d # 0
    BY <1>0
  <2> QED  BY <1>5, <2>1
\* The root has no prefix of a file in it when nothing is indexed.
<1>8. ASSUME NEW d \in Nat, NEW A, A = Ancestors(d) \/ (A = {<<>>} /\ d = 0)
      PROVE  next(A) = Ancestors(d + 1)
  <2>1. ASSUME NEW x \in next(A) PROVE x \in Ancestors(d + 1)
    <3>1. PICK p \in A : x \in Directories(p)
      BY <2>1 DEF next
    <3>2. p \in Ancestors(d)
      <4>1. CASE A = {<<>>} /\ d = 0
        <5>1. PICK f2 \in indexed : f2 \in Below(p)
          BY <3>1 DEF Directories, Below
        <5>2. Cut(f2, 0) = <<>> /\ Len(f2) > 0 /\ f2 \in indexed
          BY CutFacts
        <5>3. p = <<>>
          BY <4>1
        <5> QED  BY <4>1, <5>2, <5>3 DEF Ancestors
      <4> QED  BY <1>8, <4>1
    <3>3. x \in {Cut(f2, d + 1) : f2 \in {f2 \in indexed : Len(f2) > d + 1 /\ p = Cut(f2, d)}}
      BY <3>1, <3>2, DirectoriesOf
    <3> QED  BY <3>3 DEF Ancestors
  <2>2. ASSUME NEW x \in Ancestors(d + 1) PROVE x \in next(A)
    <3>1. PICK f2 \in indexed : Len(f2) > d + 1 /\ x = Cut(f2, d + 1)
      BY <2>2 DEF Ancestors
    <3> DEFINE p == Cut(f2, d)
    <3>2. Len(f2) \in Nat /\ f2 \in Locations /\ Cut(f2, 0) = <<>>
      BY CutFacts
    <3>3. p \in Ancestors(d)
      BY <3>1, <3>2 DEF Ancestors
    <3>4. p \in A
      BY <1>8, <3>2, <3>3
    <3>5. Directories(p) = {Cut(f3, d + 1) : f3 \in {f3 \in indexed : Len(f3) > d + 1 /\ p = Cut(f3, d)}}
      BY <3>3, DirectoriesOf
    <3>6. x \in Directories(p)
      BY <3>1, <3>5
    <3> QED  BY <3>4, <3>6 DEF next
  <2> QED  BY <2>1, <2>2
<1> DEFINE P == {d \in Nat : d \in 1..Deepest => D[d] = Ancestors(d)}
<1>9. 0 \in P
  OBVIOUS
<1>10. ASSUME NEW d \in Nat, d \in P PROVE d + 1 \in P
  <2> SUFFICES ASSUME d + 1 \in 1..Deepest PROVE D[d + 1] = Ancestors(d + 1)
    OBVIOUS
  <2>1. D[d + 1] = next(D[d])
    <3>1. (d + 1) - 1 = d
      OBVIOUS
    <3> QED  BY <1>7, <3>1
  <2>2. D[d] = Ancestors(d) \/ (D[d] = {<<>>} /\ d = 0)
    <3>1. d # 0 => d \in 1..Deepest
      BY <1>0
    <3> QED  BY <1>6, <1>10, <3>1
  <2> QED  BY <1>8, <2>1, <2>2
<1> HIDE DEF P
<1>11. Nat \subseteq P
  BY <1>9, <1>10, Induction
<1>12. \A d \in 1..Deepest : D[d] = Ancestors(d)
  <2>1. \A d \in 1..Deepest : d \in Nat
    OBVIOUS
  <2> QED  BY <1>11, <2>1 DEF P
<1> QED  BY <1>1, <1>6, <1>12

\* What is opened: the root, and the prefixes of the indexed files.
LEMMA OpenedAre ==
  ASSUME indexed \subseteq Locations
  PROVE  /\ \A d \in Nat : Ancestors(d) \subseteq Opened
         /\ \A p \in Opened : p = <<>> \/ \E d \in Nat : p \in Ancestors(d)
<1>0. Deepest \in Nat
  BY ViewsAssumption
<1>1. ASSUME NEW d \in Nat, NEW p \in Ancestors(d) PROVE p \in Opened
  <2>1. PICK f \in indexed : Len(f) > d /\ p = Cut(f, d)
    BY <1>1 DEF Ancestors
  <2>2. Len(f) <= Deepest /\ Len(f) \in Nat /\ Cut(f, 0) = <<>>
    BY CutFacts
  <2>3. d \in 0..Deepest
    BY <1>0, <2>1, <2>2
  <2>4. p \in OpenedAt[d]
    <3>1. CASE d = 0
      BY <2>1, <2>2, <3>1, OpenedFacts
    <3>2. CASE d # 0
      BY <1>1, <2>3, <3>2, OpenedFacts
    <3> QED  BY <3>1, <3>2
  <2> QED  BY <2>3, <2>4 DEF Opened
<1>2. ASSUME NEW p \in Opened PROVE p = <<>> \/ \E d \in Nat : p \in Ancestors(d)
  <2>1. PICK d \in 0..Deepest : p \in OpenedAt[d]
    BY DEF Opened
  <2>2. CASE d = 0
    BY <2>1, <2>2, OpenedFacts
  <2>3. CASE d # 0
    <3>1. d \in 1..Deepest /\ d \in Nat
      BY <1>0, <2>3
    <3> QED  BY <2>1, <3>1, OpenedFacts
  <2> QED  BY <2>2, <2>3
<1> QED  BY <1>1, <1>2

\* The one directory a file is shown in is its path without the last segment;
\* and the files counted at a directory are those whose paths begin with it.
LEMMA EachFileIsMet == indexed \subseteq Locations => EveryFileOnce
<1> SUFFICES ASSUME indexed \subseteq Locations PROVE EveryFileOnce
  OBVIOUS
<1>1. ASSUME NEW f \in indexed PROVE Cut(f, Len(f) - 1) \in Ancestors(Len(f) - 1)
                                     /\ Len(f) - 1 \in Nat /\ Len(f) \in Nat
  BY CutFacts DEF Ancestors
\* The files in a directory that is open, the root of an empty tree included.
<1>2. ASSUME NEW f \in indexed, NEW p \in Opened
      PROVE  f \in Files(p) <=> p = Cut(f, Len(f) - 1)
  <2>1. CASE \E d \in Nat : p \in Ancestors(d)
    <3>1. PICK d \in Nat : p \in Ancestors(d)
      BY <2>1
    <3>2. /\ Len(p) = d
          /\ f \in Files(p) <=> Len(f) = d + 1 /\ p = Cut(f, d)
      BY <3>1, DirectoriesOf
    <3>3. Len(Cut(f, Len(f) - 1)) = Len(f) - 1
      BY CutFacts
    <3> QED  BY <1>1, <3>1, <3>2, <3>3
  <2>2. CASE p = <<>>
    <3>1. p \in Ancestors(0)
      BY <2>2, CutFacts DEF Ancestors
    <3> QED  BY <2>1, <3>1
  <2> QED  BY <2>1, <2>2, OpenedAre
<1>3. ASSUME NEW f \in indexed PROVE Cardinality({p \in Opened : f \in Files(p)}) = 1
  <2>1. Cut(f, Len(f) - 1) \in Opened
    BY <1>1, OpenedAre
  <2>2. {p \in Opened : f \in Files(p)} = {Cut(f, Len(f) - 1)}
    BY <1>2, <2>1
  <2>3. Cardinality({Cut(f, Len(f) - 1)}) = 1
    BY FS_Singleton
  <2> QED  BY <2>2, <2>3
<1>4. ASSUME NEW p \in Opened, NEW dir \in Directories(p)
      PROVE  {f \in Below(p) : IsPrefix(dir, f)} =
             {g \in indexed : \E q \in Opened : IsPrefix(dir, q) /\ g \in Files(q)}
  <2>1. PICK d \in Nat : p \in Ancestors(d)
    <3>1. CASE p = <<>>
      <4>1. PICK f \in indexed : TRUE
        BY DEF Directories, Below
      <4>2. p \in Ancestors(0) /\ 0 \in Nat
        BY <3>1, CutFacts DEF Ancestors
      <4> QED  BY <4>2
    <3> QED  BY <3>1, OpenedAre
  <2>2. PICK h \in indexed : Len(h) > d + 1 /\ p = Cut(h, d) /\ dir = Cut(h, d + 1)
    BY <2>1, DirectoriesOf
  <2>3. h \in Locations /\ Len(h) \in Nat /\ d + 1 \in 0..Len(h) /\ d \in 0..(d + 1)
    BY <2>2, CutFacts
  <2>4. ASSUME NEW f \in indexed, NEW n \in 0..Len(f)
        PROVE  IsPrefix(dir, Cut(f, n)) <=> d + 1 <= n /\ dir = Cut(f, d + 1)
    BY <2>2, <2>3, PrefixOfCut
  <2>5. ASSUME NEW f \in indexed
        PROVE  (f \in Below(p) /\ IsPrefix(dir, f))
               <=> (Len(f) > d + 1 /\ dir = Cut(f, d + 1))
    <3>1. Len(f) \in Nat /\ Len(f) \in 0..Len(f) /\ Cut(f, Len(f)) = f /\ f \in Locations
      BY CutFacts, WholeIsCut
    <3>2. IsPrefix(dir, f) <=> d + 1 <= Len(f) /\ dir = Cut(f, d + 1)
      BY <2>4, <3>1
    <3>3. f \in Below(p) <=> Len(f) > d + 1 /\ p = Cut(f, d)
      BY <2>1, DirectoriesOf
    <3>4. Len(f) > d + 1 /\ dir = Cut(f, d + 1) => p = Cut(f, d)
      <4> SUFFICES ASSUME Len(f) > d + 1, dir = Cut(f, d + 1) PROVE p = Cut(f, d)
        OBVIOUS
      <4>1. d + 1 \in 0..Len(f)
        BY <3>1
      <4>2. Cut(Cut(f, d + 1), d) = Cut(f, d) /\ Cut(Cut(h, d + 1), d) = Cut(h, d)
        BY <2>3, <3>1, <4>1, CutOfCut
      <4> QED  BY <2>2, <4>2
    <3> QED  BY <3>1, <3>2, <3>3, <3>4
  <2>6. ASSUME NEW g \in indexed
        PROVE  (\E q \in Opened : IsPrefix(dir, q) /\ g \in Files(q))
               <=> (Len(g) > d + 1 /\ dir = Cut(g, d + 1))
    <3> DEFINE q0 == Cut(g, Len(g) - 1)
    <3>1. q0 \in Opened /\ Len(g) \in Nat /\ Len(g) - 1 \in 0..Len(g)
      BY <1>1, OpenedAre
    <3>2. \A q \in Opened : g \in Files(q) <=> q = q0
      BY <1>2
    <3>3. IsPrefix(dir, q0) <=> d + 1 <= Len(g) - 1 /\ dir = Cut(g, d + 1)
      BY <2>4, <3>1
    <3>4. d + 1 <= Len(g) - 1 <=> Len(g) > d + 1
      BY <3>1
    <3> HIDE DEF q0
    <3> QED  BY <3>1, <3>2, <3>3, <3>4
  <2>7. \A f \in Below(p) : f \in indexed
    BY DEF Below
  <2> QED  BY <2>5, <2>6, <2>7
<1> QED  BY <1>3, <1>4 DEF EveryFileOnce, CountOf

-----------------------------------------------------------------------------
\* combined(): what one picture promises, for every content of the tables.
LEMMA DrawnIsClosed ==
  ASSUME indexed \subseteq Locations, NEW M, NEW code \in Fetched(TouchedPaths(M)),
         picture' = Draw(M, code), UNCHANGED indexed
  PROVE  MissingIsGone'
<1> DEFINE pic == Draw(M, code)
           paths == TouchedPaths(M)
           links == {l \in database.links : l[1] \in M}
           E == {l[2] : l \in links}
           about == {m \in M : database.topic[m] # NoTopic}
           S == IF paths = {} THEN indexed ELSE indexed \cap paths
<1>1. FileLimit \in Nat /\ IsFiniteSet(Locations)
  BY ViewsAssumption
<1>2. /\ S \subseteq indexed /\ IsFiniteSet(S) /\ Cardinality(S) \in Nat
      /\ code \in SUBSET S
      /\ Cardinality(code) = IF Cardinality(S) < FileLimit THEN Cardinality(S) ELSE FileLimit
  <2>1. S \subseteq indexed /\ S \in SUBSET Locations
    OBVIOUS
  <2>2. IsFiniteSet(S) /\ Cardinality(S) \in Nat
    BY <1>1, <2>1, FS_Subset, FS_CardinalityType
  <2> QED  BY <2>1, <2>2 DEF Fetched, Limited
<1>3. pic.nodes = {<<"topic", database.topic[m]>> : m \in about}
                 \cup {<<"memory", m>> : m \in M} \cup {<<"evidence", e>> : e \in E}
                 \cup {<<"code", f>> : f \in code} \cup Missing(M, code)
  BY DEF Draw
<1>4. \A n \in Missing(M, code) : n[1] = "missing" /\ n[2] \in paths /\ n[2] \notin code
  BY DEF Missing, FileNode
<1>5. \A f : <<"code", f>> \in pic.nodes <=> f \in code
  <2>1. \A f : <<"code", f>> \notin Missing(M, code)
    BY <1>4
  <2> QED  BY <1>3, <2>1
<1>6. ASSUME NEW n \in pic.nodes, n[1] = "missing"
      PROVE  n[2] \notin indexed
             \/ Cardinality({f \in indexed : <<"code", f>> \in pic.nodes}) = FileLimit
  <2>1. n \in Missing(M, code)
    BY <1>3, <1>6
  <2>2. n[2] \in paths /\ n[2] \notin code
    BY <1>4, <2>1
  <2>3. {f \in indexed : <<"code", f>> \in pic.nodes} = code
    BY <1>2, <1>5
  <2>4. ASSUME n[2] \in indexed PROVE Cardinality(code) = FileLimit
    <3>1. n[2] \in S
      BY <2>2, <2>4
    <3>2. code # S
      BY <2>2, <3>1
    <3> HIDE DEF S
    <3>3. Cardinality(code) # Cardinality(S)
      BY <1>2, <3>2, FS_Subset
    <3> QED  BY <1>2, <3>3
  <2> QED  BY <2>3, <2>4
<1>7. ASSUME NEW e \in pic.edges PROVE {e[1], e[2]} \subseteq pic.nodes
  <2>1. pic.edges = {<< <<"memory", m>>, <<"topic", database.topic[m]>> >> : m \in about}
                 \cup {<< <<"memory", l[1]>>, <<"evidence", l[2]>> >> : l \in links}
                 \cup {<< <<"evidence", t[1]>>, FileNode(code, t[2]) >> : t \in Touches(E)}
    BY DEF Draw
  <2>2. CASE \E m \in about : e = << <<"memory", m>>, <<"topic", database.topic[m]>> >>
    BY <1>3, <2>2
  <2>3. CASE \E l \in links : e = << <<"memory", l[1]>>, <<"evidence", l[2]>> >>
    <3>1. PICK l \in links : e = << <<"memory", l[1]>>, <<"evidence", l[2]>> >>
      BY <2>3
    <3>2. l[1] \in M /\ l[2] \in E
      OBVIOUS
    <3> QED  BY <1>3, <3>1, <3>2
  <2>4. CASE \E t \in Touches(E) : e = << <<"evidence", t[1]>>, FileNode(code, t[2]) >>
    <3>1. PICK t \in Touches(E) : e = << <<"evidence", t[1]>>, FileNode(code, t[2]) >>
      BY <2>4
    <3>2. t[1] \in E /\ t[2] \in paths
      BY DEF Touches, TouchedPaths
    <3>3. FileNode(code, t[2]) \in pic.nodes
      <4>1. CASE t[2] \in code
        BY <1>5, <4>1 DEF FileNode
      <4>2. CASE t[2] \notin code
        <5>1. FileNode(code, t[2]) \in Missing(M, code)
          BY <3>2, <4>2 DEF Missing
        <5> QED  BY <1>3, <5>1
      <4> QED  BY <4>1, <4>2
    <3>4. <<"evidence", t[1]>> \in pic.nodes
      BY <1>3, <3>2
    <3> QED  BY <3>1, <3>3, <3>4
  <2> QED  BY <2>1, <2>2, <2>3, <2>4
<1> HIDE DEF pic
<1> QED  BY <1>6, <1>7 DEF MissingIsGone, pic

ViewsInv == indexed \subseteq Locations /\ MissingIsGone

\* Nothing is drawn at first.
LEMMA ViewsInitInv == ViewsInit => ViewsInv
BY DEF ViewsInit, ViewsInv, MissingIsGone, NoPicture

\* The tables change before anything is drawn; a picture drawn is closed.
LEMMA ViewsNextInv == ViewsInv /\ [ViewsNext]_viewVars => ViewsInv'
<1> SUFFICES ASSUME ViewsInv, [ViewsNext]_viewVars PROVE ViewsInv'
  OBVIOUS
<1>1. CASE Browse \/ LookAt
  BY <1>1 DEF Browse, LookAt, ViewsInv, MissingIsGone, NoPicture
<1>2. CASE Combine
  BY <1>2, DrawnIsClosed DEF Combine, ViewsInv
<1>3. CASE UNCHANGED viewVars
  BY <1>3 DEF viewVars, ViewsInv, MissingIsGone
<1> QED  BY <1>1, <1>2, <1>3 DEF ViewsNext

\* packages/graph/service.py: opening directories from the root, code() shows
\* every indexed file exactly once, under directories that count their files
\* right; combined() calls a touched file missing only if it is not indexed or
\* the limit was reached, and all its edges join nodes it returns.
THEOREM ViewsAreComplete == ViewsSpec => [](EveryFileOnce /\ MissingIsGone)
<1>1. ViewsInv => EveryFileOnce /\ MissingIsGone
  BY EachFileIsMet DEF ViewsInv
<1> QED  BY <1>1, ViewsInitInv, ViewsNextInv, PTL DEF ViewsSpec
===============================================================================
