---------------------------- MODULE MCWorkspace ----------------------------
(***************************************************************************)
(* EmailOutreach as MCEmailOutreach instantiates it, and beside it the     *)
(* setup of a workspace and the seats of its team.  They share no state:   *)
(* each is explored with the others at rest.                               *)
(***************************************************************************)
EXTENDS MCEmailOutreach, FirstRun, Team

CONSTANTS u1, u2, p1, p2

MCMembers == {u1, u2}
MCInvitees == {p1, p2}

MCWorkspaceInit == OutreachInit /\ FirstRunInit /\ TeamInit

\* The briefs are worked with in setups without saves and failures, the pages being closed; and
\* these either have one fact or no failure and at most one save (restrictions of the instance).
BriefsIdle == \A v \in Versions : pipeline[v] = "none" /\ ~brief[v].active
Few == count.facts <= 1 \/ (count.saves <= 1 /\ count.troubles = 0)
Plain ==
    /\ count.saves + count.troubles = 0
    /\ \A u \in Members : page[u].stage = "closed" \/ post[u] # NoWork

MCFirstRunNext == FirstRunNext /\ (Few /\ (BriefsIdle \/ Plain))'

MCWorkspaceNext ==
    \/ OutreachNext /\ FirstRunInit /\ TeamInit /\ UNCHANGED <<firstRunVars, teamVars>>
    \/ OutreachInit /\ MCFirstRunNext /\ TeamInit /\ UNCHANGED <<vars, teamVars>>
    \/ OutreachInit /\ FirstRunInit /\ TeamNext /\ UNCHANGED <<vars, firstRunVars>>

MCWorkspaceVars == <<vars, firstRunVars, teamVars>>

MCWorkspaceSpec == MCWorkspaceInit /\ [][MCWorkspaceNext]_MCWorkspaceVars /\ WF_vars(Pulse)

=============================================================================
