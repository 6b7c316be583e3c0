--------------------------- MODULE MCAgentEngine ---------------------------
(* AgentEngine on a few runs: Sage, Relay and Echo work on the records of  *)
(* one company, so that their preconditions depend on each other.          *)
EXTENDS AgentEngine, TLC

CONSTANTS core, sage, relay, echo, r1, r2, r3

MCCapacity == core :> 2
MCRank == core :> 0

MCAgentOf == sage :> "SAGE" @@ relay :> "RELAY" @@ echo :> "ECHO"
MCRecordOf == sage :> "company" @@ relay :> "company" @@ echo :> "contact"

\* Two runs for the research of one company.
MCTwoRuns == r1 :> sage @@ r2 :> sage

\* Research of a company, the search for its contacts, and a draft, which costs nothing.
MCChain == r1 :> sage @@ r2 :> relay @@ r3 :> echo

=============================================================================
