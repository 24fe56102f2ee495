--------------------------- MODULE Knowledge_proofs ---------------------------
(***************************************************************************)
(* The components around the job queue side by side.  A behaviour of       *)
(* MCKnowledge is, for each of them, one of its own: the component whose   *)
(* scene it is takes its steps, and the others rest.  So what is proved of *)
(* each component alone holds of what is explored together.                *)
(***************************************************************************)
EXTENDS MCKnowledge, Memories_proofs, Initialization_proofs, Retrieval_proofs,
        CodeGraph_proofs

\* A step with all components in it is a step or a stutter of each.
LEMMA StepsOfComponents ==
  [KnowledgeNext]_knowledgeVars =>
    /\ [MemoryNext]_memoryVars /\ [ExtractionNext]_extractionVars
    /\ [RecallNext]_recallVars /\ [SessionsNext]_sessionVars
    /\ [StepsNext]_stepVars /\ [NightlyNext]_nightlyVars
    /\ [CodeGraphNext]_codeGraphVars /\ [ViewsNext]_viewVars
<1> SUFFICES ASSUME [KnowledgeNext]_knowledgeVars
             PROVE  /\ [MemoryNext]_memoryVars /\ [ExtractionNext]_extractionVars
                    /\ [RecallNext]_recallVars /\ [SessionsNext]_sessionVars
                    /\ [StepsNext]_stepVars /\ [NightlyNext]_nightlyVars
                    /\ [CodeGraphNext]_codeGraphVars /\ [ViewsNext]_viewVars
  OBVIOUS
<1>1. CASE UNCHANGED knowledgeVars
  BY <1>1 DEF knowledgeVars
<1>2. CASE KnowledgeNext
  BY <1>2 DEF KnowledgeNext, OthersRest
<1> QED  BY <1>1, <1>2

\* Each component runs as its own specification says.
LEMMA BehavesLikeEach ==
  KnowledgeSpec => /\ MemorySpec /\ ExtractionSpec /\ RecallSpec /\ SessionsSpec
                   /\ StepsSpec /\ NightlySpec /\ CodeGraphSpec /\ ViewsSpec
<1>1. KnowledgeInit => /\ MemoryInit /\ ExtractionInit /\ RecallInit /\ SessionsInit
                       /\ StepsInit /\ NightlyInit /\ CodeGraphInit /\ ViewsInit
  BY DEF KnowledgeInit
<1> QED  BY <1>1, StepsOfComponents, PTL
         DEF KnowledgeSpec, MemorySpec, ExtractionSpec, RecallSpec, SessionsSpec,
             StepsSpec, NightlySpec, CodeGraphSpec, ViewsSpec

\* Whatever the components do, every table, worker, session and request keeps its type.
THEOREM KnowledgeIsTyped == KnowledgeSpec => []KnowledgeTypeOK
<1>1. MInv => MemoryTypeOK
  BY DEF MInv
<1>2. SInv => StepsTypeOK
  BY StepsTyped
<1>3. MemoryTypeOK /\ ExtractionTypeOK /\ RecallTypeOK /\ SessionsTypeOK
      /\ StepsTypeOK /\ NightlyTypeOK /\ CodeGraphTypeOK => KnowledgeTypeOK
  BY DEF KnowledgeTypeOK
<1> QED  BY <1>1, <1>2, <1>3, BehavesLikeEach, AlwaysMInv, FullClustersStay, RecallAnswers,
         SeenIsReturned, AlwaysSInv, RowLockIsHeld, CodeGraphSafe, PTL
===============================================================================
