--------------------------- MODULE MCPipelineRuns ---------------------------
(* Pipelines of one brief on two companies.  Atlas may find both; Sage of  *)
(* the first may be followed by Relay, and its contact by Echo.  The runs  *)
(* called alone belong to no pipeline.                                     *)
EXTENDS PipelineRuns, TLC

CONSTANTS core, brief, acme, zenith, dana,
          findAll, researchAcme, researchZenith, contactsAcme, draftDana,
          atlas1, atlas2, atlasAlone, sageAcme, sageZenith, sageAlone, relay1, echo1, echoAlone,
          p1, p2

MCCapacity == core :> 3
MCRank == core :> 0

MCAgentOf == findAll :> "ATLAS" @@ researchAcme :> "SAGE" @@ researchZenith :> "SAGE"
             @@ contactsAcme :> "RELAY" @@ draftDana :> "ECHO"
MCRecordOf == findAll :> brief @@ researchAcme :> acme @@ researchZenith :> zenith
              @@ contactsAcme :> acme @@ draftDana :> dana

MCTargetOf == [r \in Runs |->
    CASE r \in {atlas1, atlas2, atlasAlone} -> findAll
      [] r \in {sageAcme, sageAlone} -> researchAcme
      [] r = sageZenith -> researchZenith
      [] r = relay1 -> contactsAcme
      [] r \in {echo1, echoAlone} -> draftDana]

MCPipeOf == [r \in Runs |->
    CASE r \in {atlasAlone, sageAlone, echoAlone} -> NoPipe
      [] r = atlas2 -> p2
      [] OTHER -> p1]

MCBriefOf == [p \in Pipes |-> brief]

\* The regime in which pipelines settle: an active organisation stays so (and, with
\* ProcessesDie FALSE, processes live).
Undisturbed == access = "ACTIVE" => access' = "ACTIVE"

SettlingSpec == PipeInit /\ [][PipeNext /\ Undisturbed]_allVars /\ PipeFairness

=============================================================================
