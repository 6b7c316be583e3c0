---------------------------- MODULE ClientPages ----------------------------
(***************************************************************************)
(* What the pages of Seal, Delivery and Renewals offer, as a function of   *)
(* the records they were loaded with: one operator per panel or button of  *)
(* apps/web, true when a person may use it, and the items the automation   *)
(* inbox lists for them (automation.service.ts directApprovals).           *)
(*                                                                         *)
(* A page is taken as it is right after loading, with its confirmations    *)
(* ticked and its texts filled in; the server decides again on every       *)
(* request, so an older page can only be refused.  What the server asks of *)
(* a request is the guard of its action (Can...), the one condition under  *)
(* which the action takes a step.                                          *)
(***************************************************************************)
EXTENDS Delivery

-----------------------------------------------------------------------------
(* Seal: the cockpit and the workbench.                                    *)

EligibleOpportunity(o) == stage[o] \in {"PROPOSAL_SENT", "VERBAL_AGREEMENT"} /\ Live(o) = {}

CreateForm(k, o) == EligibleOpportunity(o) /\ contract[k] = NoContract

RevisionPanel(k) == contract[k].status \in {"DRAFT", "REJECTED"}
SubmitButton(k) == contract[k].status \in {"DRAFT", "REJECTED"}
\* saveRevision sends the signers and the schedule it was shown along with the new terms.
SaveRevision(k) == CanRevise(k)
ReviewPanel(k) == contract[k].status = "IN_REVIEW"
SentPanel(k) == contract[k].status = "APPROVED"
SignerButtons(k, s) == contract[k].status \in {"SENT_FOR_SIGNATURE", "PARTIALLY_SIGNED"} /\ signer[k][s] # "SIGNED"
ExecutionGate(k) == contract[k].status = "SIGNED"
MarkWon(k) == stage[contract[k].opportunity] = "VERBAL_AGREEMENT"
MilestoneForm(k) == contract[k].status \in {"SIGNED", "ACTIVE", "TERMINATED"} /\ payment[k].status # "PAID"
MilestoneOptions == {"INVOICED", "PARTIALLY_PAID", "PAID", "DISPUTED", "WAIVED"}
TerminationPanel(k) == contract[k].status \in {"SIGNED", "ACTIVE"}

-----------------------------------------------------------------------------
(* Delivery: the card of an obligation, and the programme.                 *)

\* What the requests of a card ask of the server.
Save(k, b, due) == CanUpdateObligation(k, b, due)
Do(k, b, to) == CanTransition(k, b, to)
AddEvidence(k, b) == CanRecordEvidence(k, b)

Shown(k, b) == Effective(obligation[k][b])
Card(k, b) == Shown(k, b) \notin Closed \cup {"NONE"}

StartButton(k, b) == Shown(k, b) \in {"READY", "OVERDUE"}
ResumeButton(k, b) == Shown(k, b) = "BLOCKED"
EvidenceForm(k, b) == Shown(k, b) \in {"IN_PROGRESS", "OVERDUE"}
\* Mutant of DeliveredButton: the page does not ask for evidence.
DeliveredAnyway(k, b) == Shown(k, b) \in {"IN_PROGRESS", "OVERDUE"}

DeliveredButton(k, b) ==
    /\ Shown(k, b) \in {"IN_PROGRESS", "OVERDUE"}
    /\ obligation[k][b].proof => obligation[k][b].evidence # "none"
VerifyButton(k, b) ==
    /\ Shown(k, b) = "DELIVERED"
    /\ obligation[k][b].proof => obligation[k][b].evidence = "verified"
ScheduleForm(k, b) == Card(k, b)
ExceptionForm(k, b) == Card(k, b)
VerifyEvidenceButton(k, b) == obligation[k][b].evidence = "attached"

SetupPanel(k) == programme[k].status = "SETUP"
AddForm(k) == Exists(k)
ReportButton(k) == report[k] \in {"DRAFT", "APPROVED"}
CompleteButton(k) ==
    /\ programme[k].status \in {"ACTIVE", "AT_RISK"} /\ Rows(obligation[k]) # {}
    /\ \A b \in Rows(obligation[k]) : ~ Card(k, b)

-----------------------------------------------------------------------------
(* Renewals: the cockpit and the workbench.                                *)

PrepareButton(k) == programme[k].status \in {"ACTIVE", "AT_RISK", "COMPLETED"} /\ case[k] = NoCase
RefreshButton(k) == case[k].status \notin Final \cup {"NONE"}
BriefForm(k) == case[k].status \in {"DRAFT", "REVIEW_READY", "ON_HOLD"}
DecisionButton(k, status) == case[k].status = status /\ Fresh(k)

-----------------------------------------------------------------------------
\* Approvals the automation cockpit lists: the records of a contract that wait for a person.
Inbox(k) ==
    {item \in {"SEAL", "SEAL_ACTIVATION", "DELIVERY_VERIFY", "DELIVERY_REPORT", "RENEWAL_REVIEW", "RENEWAL_HANDOFF"} :
        CASE item = "SEAL" -> contract[k].status = "IN_REVIEW"
          [] item = "SEAL_ACTIVATION" -> contract[k].status = "SIGNED"
          [] item = "DELIVERY_VERIFY" -> \E b \in Obligations : obligation[k][b].status = "DELIVERED"
          [] item = "DELIVERY_REPORT" -> report[k] = "DRAFT"
          [] item = "RENEWAL_REVIEW" -> case[k].status = "REVIEW_READY"
          [] item = "RENEWAL_HANDOFF" -> case[k].status = "APPROVED"}

\* What the linked page lets a person do about an item, in one step or after asking for the current facts.
Leads(k, item) ==
    CASE item = "SEAL" -> ReviewPanel(k)
      [] item = "SEAL_ACTIVATION" -> ExecutionGate(k)
      [] item = "DELIVERY_VERIFY" ->
             \E b \in Obligations : VerifyButton(k, b) \/ VerifyEvidenceButton(k, b) \/ ScheduleForm(k, b)
      [] item = "DELIVERY_REPORT" -> ReportButton(k)
      [] item = "RENEWAL_REVIEW" -> DecisionButton(k, "REVIEW_READY") \/ RefreshButton(k)
      [] item = "RENEWAL_HANDOFF" -> DecisionButton(k, "APPROVED") \/ RefreshButton(k)

Unused == {o \in Opportunities : stage[o] = "NONE"}

SealOffers(k) ==
    /\ RevisionPanel(k) => SaveRevision(k)
    /\ SubmitButton(k) => CanSubmitReview(k)
    /\ ReviewPanel(k) => CanReview(k)
    /\ SentPanel(k) => CanMarkSent(k)
    /\ \A s \in Signers : SignerButtons(k, s) => CanUpdateSigner(k)
    /\ ExecutionGate(k) => CanActivate(k, MarkWon(k))
    /\ MilestoneForm(k) => \A to \in MilestoneOptions : \E paid \in 0..Price : CanRecordPayment(k, to, paid)
    /\ TerminationPanel(k) => CanTerminate(k)

\* Refused, though shown: an exception for what is delivered, a second block, the resumption of an
\* obligation without a date, a plan with such an obligation, an addition to a completed programme.
CardOffers(k, b) ==
    /\ StartButton(k, b) => Do(k, b, "IN_PROGRESS")
    /\ ResumeButton(k, b) /\ obligation[k][b].due # "none" => Do(k, b, "READY")
    /\ EvidenceForm(k, b) /\ obligation[k][b].evidence = "none" => AddEvidence(k, b)
    /\ DeliveredButton(k, b) => Do(k, b, "DELIVERED")
    /\ VerifyButton(k, b) => Do(k, b, "VERIFIED")
    /\ ScheduleForm(k, b) => Save(k, b, "ahead")
    /\ ExceptionForm(k, b) /\ Shown(k, b) # "DELIVERED" =>
           Do(k, b, "WAIVED") /\ (Shown(k, b) = "BLOCKED" \/ Do(k, b, "BLOCKED"))
    /\ VerifyEvidenceButton(k, b) => CanVerifyEvidence(k, b)
    /\ AddForm(k) /\ obligation[k][b] = NoObligation /\ IsOpen(k) => CanCreateObligation(k, b, "ahead")

DeliveryOffers(k) ==
    /\ \A b \in Obligations : CardOffers(k, b)
    /\ SetupPanel(k) /\ Rows(obligation[k]) # {} /\ (\A b \in Rows(obligation[k]) : obligation[k][b].due # "none") =>
           \A review \in BOOLEAN : CanConfigure(k, review)
    /\ ReportButton(k) => CanReport(k)
    /\ CompleteButton(k) => CanComplete(k)

\* A brief must have been saved before it is submitted, which the page does not ask.
RenewalOffers(k) ==
    /\ PrepareButton(k) \/ RefreshButton(k) => CanPrepare(k, programme[k])
    /\ BriefForm(k) => CanUpdateCase(k)
    /\ DecisionButton(k, "DRAFT") /\ case[k].intent # "NONE" => CanSubmitCase(k)
    /\ DecisionButton(k, "REVIEW_READY") => CanApproveCase(k)
    /\ DecisionButton(k, "APPROVED") => \A o \in Unused : CanHandoff(k, o)

\* What a page offers on the records it shows the server accepts, and every item of the automation
\* inbox leads to a page where something can be done about it: the conditions of seal-workbench.tsx,
\* delivery-workbench.tsx, renewal-workbench.tsx and the cockpits agree with those of the services
\* in every state the records can get into.
OffersAreHonoured ==
    /\ \A k \in Contracts :
         /\ SealOffers(k) /\ DeliveryOffers(k) /\ RenewalOffers(k)
         /\ \A item \in Inbox(k) : Leads(k, item)
    /\ \A o \in Opportunities : \A k \in Contracts : CreateForm(k, o) => CanCreateContract(k, o)

=============================================================================
