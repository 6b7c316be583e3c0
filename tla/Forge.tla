-------------------------------- MODULE Forge --------------------------------
(***************************************************************************)
(* Forge: sponsor proposals for an opportunity that has asked for one      *)
(* (forge.service.ts), drafted by the worker (DraftQueue).                 *)
(*                                                                         *)
(* Left out: the brief and the investment range, versions of the text (a   *)
(* decision is on the current one), the wording of a revision.             *)
(***************************************************************************)
EXTENDS DraftQueue

CONSTANTS Proposals, Opportunity(_), ProposalStages

VARIABLE stage   \* of the opportunity

forgeVars == <<stage>>

Opportunities == {Opportunity(p) : p \in Proposals}

ForgeInit == stage = [o \in Opportunities |-> "PROPOSAL_REQUESTED"]

\* The proposals of an opportunity that a further request would return instead of a new one.
Reused(o) == {p \in Proposals : Opportunity(p) = o /\ status[p] \in Working \cup {"READY", "APPROVED"}}

QueueProposal(p) ==
    /\ status[p] = "NONE" /\ stage[Opportunity(p)] = "PROPOSAL_REQUESTED"
    /\ Reused(Opportunity(p)) = {}
    /\ QueueRun(p, 1)
    /\ UNCHANGED forgeVars

\* APPROVE and EDIT approve a text, REJECT refuses it.
ReviewProposal(p, decision) ==
    /\ decision \in {"APPROVED", "REJECTED"} /\ Settle(p, "READY", decision)
    /\ UNCHANGED forgeVars

Revise(p) ==
    /\ status[p] \in {"READY", "APPROVED", "REJECTED", "SENT"} /\ QueueRun(p, 1)
    /\ UNCHANGED forgeVars

RetryProposal(p) == status[p] = "FAILED" /\ QueueRun(p, 1) /\ UNCHANGED forgeVars

\* A person has sent the approved proposal; the stage follows if they say so.
MarkSent(p, updateOpportunity) ==
    LET o == Opportunity(p) IN
    /\ updateOpportunity => stage[o] \in {"PROPOSAL_REQUESTED", "PROPOSAL_SENT"}
    /\ Settle(p, "APPROVED", "SENT")
    /\ stage' = IF updateOpportunity THEN [stage EXCEPT ![o] = "PROPOSAL_SENT"] ELSE stage

\* Anywhere else in GridFlow the opportunity moves on or back.
OpportunityMoves(o) ==
    /\ active
    /\ \E s \in ProposalStages : stage' = [stage EXCEPT ![o] = s]
    /\ UNCHANGED queueVars

ForgeNext ==
    \/ \E p \in Proposals :
         \/ QueueProposal(p) \/ Revise(p) \/ RetryProposal(p)
         \/ \E decision \in {"APPROVED", "REJECTED"} : ReviewProposal(p, decision)
         \/ \E update \in BOOLEAN : MarkSent(p, update)
         \/ \E w \in Workers : Claim(w, p) /\ UNCHANGED forgeVars
    \/ \E o \in Opportunities : OpportunityMoves(o)
    \/ QueueStep /\ UNCHANGED forgeVars

=============================================================================
