---------------------------- MODULE MCEngineDesk ----------------------------
(***************************************************************************)
(* The agent engine and the automation cockpit as MCAutomation composes    *)
(* them, with the faults of workers, and the pages of a meeting, which     *)
(* have nothing of theirs: either is explored with the other at rest.      *)
(***************************************************************************)
EXTENDS MCAutomation, MeetingDesk

CONSTANTS u1, u2

MCRunLimit == [PREP |-> 1, DEBRIEF |-> 2]

\* The stages of a meeting share its time and its pages: they are explored one at a time.
OneStage == work["PREP"] = NoWork \/ work["DEBRIEF"] = NoWork

MCDeskNext ==
    \/ MeetingDeskInit /\ MCNext /\ UNCHANGED meetingDeskVars
    \/ MCInit /\ MeetingDeskNext /\ OneStage' /\ UNCHANGED <<vars, automationVars>>

Symmetric == Permutations(Workers) \cup Permutations(Pages) \cup Permutations(Deciders)

MCDeskSpec == MCInit /\ MeetingDeskInit /\ [][MCDeskNext]_<<vars, automationVars, meetingDeskVars>>

=============================================================================
