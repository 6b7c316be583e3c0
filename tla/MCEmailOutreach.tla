-------------------------- MODULE MCEmailOutreach --------------------------
(***************************************************************************)
(* Small instances of EmailOutreach.                                       *)
(***************************************************************************)
EXTENDS EmailOutreach

CONSTANTS w1, w2, a1

MCPolicy(mode, approvalMode, linkedinFirst, highValue, followUps) ==
    [mode |-> mode, approvalMode |-> approvalMode, linkedinFirst |-> linkedinFirst,
     highValue |-> highValue, followUps |-> followUps,
     stopOnReply |-> TRUE, stopOnOptOut |-> TRUE, stopOnMeeting |-> TRUE]

MCWorkers == {w1}
MCTwoWorkers == {w1, w2}
MCSymmetry == Permutations(MCTwoWorkers)
MCApis == {a1}
MCFirstStep == {"INITIAL"}
MCTwoSteps == {"INITIAL", "FOLLOW_UP_1"}

\* Every message is approved and then sent by itself.
MCAutomatic == {MCPolicy("APPROVED_AUTOMATIC", "EVERY_MESSAGE", FALSE, FALSE, 1)}
MCDrafts == {MCPolicy("DRAFT_ONLY", "INITIAL_ONLY", FALSE, FALSE, 1)}
MCManual == {MCPolicy("MANUAL", "HIGH_VALUE_ONLY", FALSE, TRUE, 1)}
MCDecisions == {"APPROVED"}

=============================================================================
