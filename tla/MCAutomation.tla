---------------------------- MODULE MCAutomation ----------------------------
(***************************************************************************)
(* The agent engine and the automation cockpit.  The cockpit knows the     *)
(* engine by one run that may fail and by retryRun and startPipeline, the  *)
(* engine knows nothing of the cockpit: each is explored with the other at *)
(* rest.                                                                   *)
(***************************************************************************)
EXTENDS MCAgentEngine, Automation

CONSTANTS i1, p1, p2

MCInit == Init /\ AutomationInit

\* At rest: every conjunct of the initial predicate still holds of the other component.
MCNext ==
    \/ AutomationInit /\ Next /\ UNCHANGED automationVars
    \/ Init /\ AutomationNext /\ UNCHANGED vars

MCFaultSpec == MCInit /\ [][MCNext]_<<vars, automationVars>>

MCSpec == MCFaultSpec /\ WorkerFairness /\ AutomationFairness

\* Every run that is under way ends (EveryRunSettles of AgentEngine), and a failure that stays is
\* put before somebody (IssuesSurface of Automation).
NothingStalls == EveryRunSettles /\ IssuesSurface

=============================================================================
