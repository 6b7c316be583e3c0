------------------------------ MODULE MCLaunch ------------------------------
(***************************************************************************)
(* The pipelines, the acceptance lab and the launch control of a release,  *)
(* and the migration of a CRM.  A release takes of the lab that a commit   *)
(* is frozen, and of the pipelines that a newer run ended or was reviewed, *)
(* which BecomesFit and RunMoves stand for; an import meets the others in  *)
(* companies alone, which PersonWorks stands for.  Each is explored with   *)
(* the others at rest.                                                     *)
(***************************************************************************)
EXTENDS MCPipelineRuns, AcceptanceLab, LaunchControl, Migration

CONSTANTS coreDriver, ultraDriver, team1, team2, s1, s2, e1, e2, commit1, commit2, owner,
          export1, export2, acmeCom, acmeDe

MCKindOf ==
    coreDriver :> [organisation |-> team1, persona |-> "NEW_CORE_DRIVER", device |-> "DESKTOP"]
    @@ ultraDriver :> [organisation |-> team2, persona |-> "ULTRA_RENEWAL", device |-> "MOBILE"]

Row(table, name, key, company, contact, flaw) ==
    [table |-> table, name |-> name, key |-> key, company |-> company, contact |-> contact, flaw |-> flaw]

\* The second export has a row without a company before those of the first, and other tables.
MCContent ==
    export1 :> << Row("Companies", "Acme", acmeCom, None, None, "unkeyed"),
                  Row("Contacts", "Dana", None, "Acme", None, "none"),
                  Row("Outreach", "Hello", None, "Acme", "Dana", "none"),
                  Row("Tasks", "Call", None, "Acme", None, "none"),
                  Row("Interactions", "Met", None, "Acme", "Dana", "none"),
                  Row("Discovery Briefs", "Cars", None, None, None, "noTheme") >>
    @@ export2 :> << Row("Companies", "Unnamed", None, None, None, "error"),
                  Row("Companies", "Acme", acmeCom, None, None, "noWebsite"),
                  Row("Companies", "Acme", acmeDe, None, None, "test"),
                  Row("Contacts", "Dana", None, "Acme", None, "stale"),
                  Row("Opportunities", "Deal", None, "Acme", None, "none"),
                  Row("Lead Sources", "Fair", None, None, None, "none") >>

MCInit ==
    /\ PipeInit /\ LabInit
    /\ LaunchInit /\ running = {commit1}        \* the commits are alike
    /\ MigrationInit /\ source = export1

\* The stand-alone run and the second company are taken in different behaviours.
Apart == Unused(atlasAlone) \/ Unused(sageZenith)

MCNext ==
    \/ LabInit /\ LaunchInit /\ MigrationInit /\ PipeNext /\ Apart' /\ UNCHANGED <<labVars, launchVars, migrationVars>>
    \/ PipeInit /\ LaunchInit /\ MigrationInit /\ LabNext /\ UNCHANGED <<allVars, launchVars, migrationVars>>
    \/ PipeInit /\ LabInit /\ MigrationInit /\ LaunchNext /\ UNCHANGED <<allVars, labVars, migrationVars>>
    \/ PipeInit /\ LabInit /\ LaunchInit /\ MigrationNext /\ UNCHANGED <<allVars, labVars, launchVars>>

MCSpec == MCInit /\ [][MCNext]_<<allVars, labVars, launchVars, migrationVars>>

=============================================================================
