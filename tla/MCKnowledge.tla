----------------------------- MODULE MCKnowledge -----------------------------
(***************************************************************************)
(* The components around the job queue, each explored on its own.  They    *)
(* meet in the tables only, at points the modules name, so a behaviour of  *)
(* one of them is followed while the others rest: the first state chooses  *)
(* the scene, and every step is a step of that component.                  *)
(***************************************************************************)
EXTENDS MemoryLifecycle, EvidenceExtraction, Recall, RetrievalSessions,
        InitializationSteps, NightlyDream, CodeGraph, GraphViews, TLC

VARIABLE scene

Scenes == {"memories", "extraction", "recall", "sessions", "steps", "nightly",
           "code", "views"}
-----------------------------------------------------------------------------
\* Values of constants that a cfg cannot write.
OneBucket == <<"a", "a", "a">>

TwoProjects  == 1 :> "p" @@ 2 :> "p" @@ 3 :> "q"
SharedName   == 1 :> "x" @@ 2 :> "y" @@ 3 :> "x"

PlaceProject == "r1" :> "p" @@ "r2" :> "q"
NoteProject  == "n1" :> "p" @@ "n2" :> "p" @@ "n3" :> "q"

SmallFiles ==
  {[defines |-> {"f"}, uses |-> {<<"f", "g">>}, exists |-> TRUE],
   [defines |-> {"g"}, uses |-> {<<"g", "h">>}, exists |-> TRUE],
   [defines |-> {"f", "h"}, uses |-> {<<"f", "g">>, <<"h", "f">>}, exists |-> TRUE]}

SmallTree == {<<"r">>, <<"b", "a">>, <<"c", "a">>, <<"b", "b", "a">>}

\* Threads are interchangeable in whatever role, memories among themselves.
KnowledgeSymmetry == Permutations(Memories) \cup Permutations(Extractors)
-----------------------------------------------------------------------------
\* The more memories, the fewer edits: one memory of either status meets two,
\* two tentative memories meet one, three none.
SmallProject ==
  LET Rows == {m \in Memories : memory[m] # NoRow}
  IN  /\ edits = Cardinality(Rows) - 1
      /\ Cardinality(Rows) > 1 => \A m \in Rows : memory[m].status = "tentative"

KnowledgeInit ==
  /\ scene \in Scenes
  /\ MemoryInit /\ ExtractionInit /\ RecallInit /\ SessionsInit
  /\ StepsInit /\ NightlyInit /\ CodeGraphInit /\ ViewsInit
  /\ IF scene = "memories" THEN runs = 0 /\ SmallProject
     ELSE memory = Unloaded /\ runs = 0 /\ edits = 0
  /\ scene # "steps" => repos = Repos

OthersRest ==
  /\ scene # "memories"   => UNCHANGED memoryVars
  /\ scene # "extraction" => UNCHANGED extractionVars
  /\ scene # "recall"     => UNCHANGED recallVars
  /\ scene # "sessions"   => UNCHANGED sessionVars
  /\ scene # "steps"      => UNCHANGED stepVars
  /\ scene # "nightly"    => UNCHANGED nightlyVars
  /\ scene # "code"       => UNCHANGED codeGraphVars
  /\ scene # "views"      => UNCHANGED viewVars

KnowledgeNext ==
  /\ \/ scene = "memories"   /\ MemoryNext
     \/ scene = "extraction" /\ ExtractionNext
     \/ scene = "recall"     /\ RecallNext
     \/ scene = "sessions"   /\ SessionsNext
     \/ scene = "steps"      /\ StepsNext
     \/ scene = "nightly"    /\ NightlyNext
     \/ scene = "code"       /\ CodeGraphNext
     \/ scene = "views"      /\ ViewsNext
  /\ OthersRest
  /\ UNCHANGED scene

knowledgeVars == <<scene, memoryVars, extractionVars, recallVars, sessionVars,
                   stepVars, nightlyVars, codeGraphVars, viewVars>>

KnowledgeSpec == KnowledgeInit /\ [][KnowledgeNext]_knowledgeVars

\* The type invariants of the components.
KnowledgeTypeOK ==
  /\ MemoryTypeOK /\ ExtractionTypeOK /\ RecallTypeOK /\ SessionsTypeOK
  /\ StepsTypeOK /\ NightlyTypeOK /\ CodeGraphTypeOK
=============================================================================
