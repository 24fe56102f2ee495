------------------------------ MODULE GraphViews ------------------------------
(***************************************************************************)
(* Two pictures GraphService (packages/graph/service.py) draws for the web *)
(* front end: code() shows the indexed files directory by directory, and   *)
(* combined() shows memories with their topics, evidence and the files the *)
(* evidence touched.  Both are computed from the tables in one request;    *)
(* here they are asked of every small content of the tables.               *)
(***************************************************************************)
EXTENDS FiniteSets, Integers, Sequences, SequencesExt

CONSTANTS
  Segments,      \* names of directories and files, "" for none
  Locations,     \* the paths files may have: sequences of segments
  Deepest,       \* bound on their length
  Shown,         \* memories
  Topics,        \* topics
  Proofs,        \* evidence
  FileLimit      \* how many files combined() fetches, 40

ASSUME ViewsAssumption ==
  /\ Locations \subseteq Seq(Segments) \ {<<>>} /\ IsFiniteSet(Locations)
  /\ \A f \in Locations : Len(f) <= Deepest
  /\ {Deepest, FileLimit} \subseteq Nat

VARIABLES
  indexed,    \* paths in code_files, in the order of the paths
  database,   \* what combined() reads
  focus,      \* its argument
  picture     \* nodes and edges returned

viewVars == <<indexed, database, focus, picture>>

NoTopic == "none"
Database == [topic : [Shown -> Topics \cup {NoTopic}],
             links : SUBSET (Shown \X Proofs),
             touched : SUBSET (Proofs \X Locations)]
NothingStored == [topic |-> [m \in Shown |-> NoTopic], links |-> {}, touched |-> {}]
NoPicture == [nodes |-> {}, edges |-> {}]
-----------------------------------------------------------------------------
(***************************************************************************)
(* code(): the directory at a prefix.  (The limit of 200 on the files      *)
(* shown of one directory is left out: one that has more is answered as    *)
(* truncated, with the number of its files.)                               *)
(***************************************************************************)
Under(prefix, path) == IsPrefix(prefix, path) /\ Len(path) > Len(prefix)

FilesByDepth(prefix) == {f \in indexed : Len(f) = Len(prefix) + 1}
Files(prefix) == {f \in indexed : Under(prefix, f) /\ Len(f) = Len(prefix) + 1}

Below(prefix) == {f \in indexed : Under(prefix, f) /\ Len(f) > Len(prefix) + 1}
Directories(prefix) == {SubSeq(f, 1, Len(prefix) + 1) : f \in Below(prefix)}

CountOf(prefix, directory) ==
  Cardinality({f \in Below(prefix) : IsPrefix(directory, f)})

\* Opening every directory, from the root down.
OpenedAt ==
  LET D[d \in 0..Deepest] == IF d = 0 THEN {<<>>}
                             ELSE UNION {Directories(p) : p \in D[d - 1]}
  IN  D

Opened == UNION {OpenedAt[d] : d \in 0..Deepest}
-----------------------------------------------------------------------------
(***************************************************************************)
(* combined()                                                              *)
(***************************************************************************)
Focused == IF focus \in Shown THEN {focus}
           ELSE {m \in Shown : database.topic[m] = focus}

\* A focus that finds nothing shows the memory changed last, here any.
MemorySets == IF focus = NoTopic THEN {Shown}
           ELSE IF Focused # {} THEN {Focused} ELSE {{m} : m \in Shown}

Touches(E) == {t \in database.touched : t[1] \in E}

\* The files fetched: those with a touched path, or any if there is none, up
\* to a limit.  (Paths are ordered as text, an order of which the model knows
\* nothing: any of them may come first.)
Limited(S) == {T \in SUBSET S : Cardinality(T) =
  IF Cardinality(S) < FileLimit THEN Cardinality(S) ELSE FileLimit}
LimitedFirst(paths) == {IF paths = {} THEN T ELSE T \cap paths : T \in Limited(indexed)}
Fetched(paths) == Limited(IF paths = {} THEN indexed ELSE indexed \cap paths)

TouchedPaths(M) ==
  {t[2] : t \in Touches({l[2] : l \in {l \in database.links : l[1] \in M}})}

FileNode(code, path) == IF path \in code THEN <<"code", path>> ELSE <<"missing", path>>

Missing(M, code) == {FileNode(code, p) : p \in TouchedPaths(M) \ code}

Draw(M, code) ==
  LET links == {l \in database.links : l[1] \in M}
      E == {l[2] : l \in links}
      about == {m \in M : database.topic[m] # NoTopic}
  IN  [nodes |-> {<<"topic", database.topic[m]>> : m \in about}
                 \cup {<<"memory", m>> : m \in M} \cup {<<"evidence", e>> : e \in E}
                 \cup {<<"code", f>> : f \in code}
                 \cup Missing(M, code),
       edges |-> {<< <<"memory", m>>, <<"topic", database.topic[m]>> >> : m \in about}
                 \cup {<< <<"memory", l[1]>>, <<"evidence", l[2]>> >> : l \in links}
                 \cup {<< <<"evidence", t[1]>>, FileNode(code, t[2]) >> : t \in Touches(E)}]
-----------------------------------------------------------------------------
ViewsInit ==
  /\ indexed = {} /\ focus = NoTopic /\ picture = NoPicture
  /\ database = NothingStored

Browse ==
  /\ indexed = {} /\ database = NothingStored /\ picture = NoPicture
  /\ indexed' \in SUBSET Locations
  /\ UNCHANGED <<database, focus, picture>>

LookAt ==
  /\ database = NothingStored /\ picture = NoPicture
  /\ database' \in Database
  /\ focus' \in Shown \cup Topics \cup {NoTopic, "unknown"}
  /\ UNCHANGED <<indexed, picture>>

Combine ==
  /\ picture = NoPicture
  /\ \E M \in MemorySets : \E code \in Fetched(TouchedPaths(M)) : picture' = Draw(M, code)
  /\ UNCHANGED <<indexed, database, focus>>

ViewsNext == Browse \/ LookAt \/ Combine

ViewsSpec == ViewsInit /\ [][ViewsNext]_viewVars
-----------------------------------------------------------------------------
(***************************************************************************)
(* Properties                                                              *)
(***************************************************************************)

\* code(): opening directory after directory from the root one meets every
\* indexed file exactly once, and the number shown at a directory is the
\* number of files one will meet in it.
EveryFileOnce ==
  LET opened == Opened
  IN  /\ \A f \in indexed : Cardinality({p \in opened : f \in Files(p)}) = 1
      /\ \A p \in opened : \A d \in Directories(p) :
           CountOf(p, d) = Cardinality({g \in indexed : \E q \in opened :
                                         IsPrefix(d, q) /\ g \in Files(q)})

\* combined(), "path has changed": a touched file is drawn as missing only if
\* it is not indexed, or if more files were touched than are fetched; and
\* every edge, those to missing files included, joins two nodes of the
\* picture.
MissingIsGone ==
  /\ \A n \in picture.nodes : n[1] = "missing" =>
       \/ n[2] \notin indexed
       \/ Cardinality({f \in indexed : <<"code", f>> \in picture.nodes}) = FileLimit
  /\ \A e \in picture.edges : {e[1], e[2]} \subseteq picture.nodes
=============================================================================
