----------------------------- MODULE Contracts -----------------------------
(***************************************************************************)
(* Seal: the agreement on an opportunity, from a draft to the signatures   *)
(* and the activation that hands it to Delivery (seal.service.ts), with    *)
(* the opportunity it is on (opportunities.service.ts) and the stage an    *)
(* approved Orbit debrief writes (orbit.service.ts).                       *)
(*                                                                         *)
(* A request locks the contract and is one step, which is taken whenever   *)
(* what it asks of the records (Can...) holds and refused otherwise.  Of   *)
(* the open stages one of each kind is kept: before, in and at the end of  *)
(* a negotiation.                                                          *)
(*                                                                         *)
(* Left out: terms, dates, documents and the proposal behind the contract; *)
(* signers who need not sign.  A signature that is declined or has expired *)
(* is one that is viewed and not given.  One payment milestone carries the *)
(* whole value, Price, in units that a part of it may be paid in.          *)
(***************************************************************************)
EXTENDS Naturals, FiniteSets

CONSTANTS
    Contracts, Signers, Opportunities, Obligations, Nothing,
    VersionBound    \* bound: versions of a contract

ASSUME ContractConstants ==
    VersionBound \in Nat \ {0} /\ Cardinality(Signers) >= 2 /\ Nothing \notin Opportunities

VARIABLES
    stage,       \* of an opportunity
    contract,    \* status, opportunity, current version, and the version that was approved (history)
    signer,      \* status of the required signers of a contract
    payment,     \* its PaymentMilestone row: status and amount paid
    programme,   \* the DeliveryProgramme of a contract
    obligation   \* its DeliveryObligation rows

sealVars == <<stage, contract, signer, payment, programme, obligation>>

OpenStages == {"INTERESTED", "PROPOSAL_SENT", "VERBAL_AGREEMENT"}
ClosedStages == {"WON", "LOST"}
Stages == OpenStages \cup ClosedStages

NoContract == [status |-> "NONE", opportunity |-> Nothing, version |-> 0, approved |-> 0]
NoProgramme == [status |-> "NONE", version |-> 0, review |-> FALSE, renewal |-> "NOT_STARTED"]
NoObligation == [status |-> "NONE", due |-> "none", proof |-> TRUE, evidence |-> "none"]
Price == 2
Unpaid == [status |-> "DRAFT", paid |-> 0]
Unsigned == [s \in Signers |-> "NOT_REQUESTED"]

SealInit ==
    /\ stage = [o \in Opportunities |-> "NONE"]
    /\ contract = [k \in Contracts |-> NoContract]
    /\ signer = [k \in Contracts |-> Unsigned]
    /\ payment = [k \in Contracts |-> Unpaid]
    /\ programme = [k \in Contracts |-> NoProgramme]
    /\ obligation = [k \in Contracts |-> [b \in Obligations |-> NoObligation]]

CreateOpportunity(o, s) ==
    /\ stage[o] = "NONE"
    /\ stage' = [stage EXCEPT ![o] = s]
    /\ UNCHANGED <<contract, signer, payment, programme, obligation>>

Live(o) == {k \in Contracts : contract[k].opportunity = o /\ contract[k].status \notin {"REJECTED", "TERMINATED"}}

CanCreateContract(k, o) ==
    contract[k] = NoContract /\ stage[o] \in {"PROPOSAL_SENT", "VERBAL_AGREEMENT"} /\ Live(o) = {}

CreateContract(k, o) ==
    /\ CanCreateContract(k, o)
    /\ contract' = [contract EXCEPT ![k] = [status |-> "DRAFT", opportunity |-> o, version |-> 1, approved |-> 0]]
    /\ UNCHANGED <<stage, signer, payment, programme, obligation>>

\* The contract's status moves, and nothing else.
Move(k, to) ==
    /\ contract' = [contract EXCEPT ![k].status = to]
    /\ UNCHANGED <<stage, payment, programme, obligation>>

CanSubmitReview(k) == contract[k].status \in {"DRAFT", "REJECTED"}
SubmitReview(k) == CanSubmitReview(k) /\ Move(k, "IN_REVIEW") /\ UNCHANGED signer

CanReview(k) == contract[k].status = "IN_REVIEW"
Reject(k) == CanReview(k) /\ Move(k, "REJECTED") /\ UNCHANGED signer

Approve(k) ==
    /\ CanReview(k)
    /\ contract' = [contract EXCEPT ![k].status = "APPROVED", ![k].approved = contract[k].version]
    /\ UNCHANGED <<stage, signer, payment, programme, obligation>>

\* Mutant of Revise: a contract under review may be corrected where it stands.
CorrectInPlace(k) ==
    /\ contract[k].status \in {"DRAFT", "REJECTED", "IN_REVIEW", "APPROVED"} /\ contract[k].version < VersionBound
    /\ contract' = [contract EXCEPT ![k].version = @ + 1]
    /\ signer' = [signer EXCEPT ![k] = Unsigned]
    /\ payment' = [payment EXCEPT ![k] = Unpaid]
    /\ UNCHANGED <<stage, programme, obligation>>

\* Mutant of Revise: a contract may be corrected until it is signed by all.
ReviseUntilSigned(k) ==
    /\ contract[k].status \in {"DRAFT", "REJECTED", "PARTIALLY_SIGNED"} /\ contract[k].version < VersionBound
    /\ contract' = [contract EXCEPT ![k].status = "DRAFT", ![k].version = @ + 1]
    /\ signer' = [signer EXCEPT ![k] = Unsigned]
    /\ payment' = [payment EXCEPT ![k] = Unpaid]
    /\ UNCHANGED <<stage, programme, obligation>>

CanRevise(k) == contract[k].status \in {"DRAFT", "REJECTED"}

\* A new version, with signers and a payment schedule of its own: the rows of the last are deleted.
Revise(k) ==
    /\ CanRevise(k) /\ contract[k].version < VersionBound
    /\ contract' = [contract EXCEPT ![k].status = "DRAFT", ![k].version = @ + 1]
    /\ signer' = [signer EXCEPT ![k] = Unsigned]
    /\ payment' = [payment EXCEPT ![k] = Unpaid]
    /\ UNCHANGED <<stage, programme, obligation>>

CanMarkSent(k) == contract[k].status = "APPROVED"

MarkSent(k) ==
    /\ CanMarkSent(k) /\ Move(k, "SENT_FOR_SIGNATURE")
    /\ signer' = [signer EXCEPT ![k] = [s \in Signers |-> "REQUESTED"]]

CanUpdateSigner(k) == contract[k].status \in {"SENT_FOR_SIGNATURE", "PARTIALLY_SIGNED", "SIGNED"}

\* The contract follows its signers, forward and back.
UpdateSigner(k, s, status) ==
    LET now == [signer[k] EXCEPT ![s] = status]
        signed == {x \in Signers : now[x] = "SIGNED"}
    IN  /\ CanUpdateSigner(k)
        /\ signer' = [signer EXCEPT ![k] = now]
        /\ contract' = [contract EXCEPT ![k].status =
               IF signed = Signers THEN "SIGNED"
               ELSE IF signed # {} THEN "PARTIALLY_SIGNED" ELSE "SENT_FOR_SIGNATURE"]
        /\ UNCHANGED <<stage, payment, programme, obligation>>

CanActivate(k, updateOpportunityToWon) ==
    /\ contract[k].status = "SIGNED" /\ \A s \in Signers : signer[k][s] = "SIGNED"
    /\ updateOpportunityToWon => stage[contract[k].opportunity] = "VERBAL_AGREEMENT"

\* The milestone falls due, if nothing was recorded of it yet; the deliverables of the terms become
\* obligations that nobody has dated yet.
Activate(k, deliverables, updateOpportunityToWon) ==
    /\ CanActivate(k, updateOpportunityToWon)
    /\ contract' = [contract EXCEPT ![k].status = "ACTIVE"]
    /\ programme' = [programme EXCEPT ![k] = [NoProgramme EXCEPT !.status = "SETUP", !.version = contract[k].version]]
    /\ obligation' = [obligation EXCEPT ![k] =
           [b \in Obligations |-> [NoObligation EXCEPT !.status = IF b \in deliverables THEN "PLANNED" ELSE "NONE"]]]
    /\ payment' = [payment EXCEPT ![k].status = IF @ = "DRAFT" THEN "DUE" ELSE @]
    /\ stage' = IF updateOpportunityToWon THEN [stage EXCEPT ![contract[k].opportunity] = "WON"] ELSE stage
    /\ UNCHANGED signer

CanRecordPayment(k, status, paid) ==
    /\ contract[k].status \in {"SIGNED", "ACTIVE", "TERMINATED"}
    /\ status = "PAID" => paid = Price
    /\ status = "PARTIALLY_PAID" => paid \in 1..(Price - 1)

\* What a person has checked against the invoice or the bank.
RecordPayment(k, status, paid) ==
    /\ CanRecordPayment(k, status, paid)
    /\ payment' = [payment EXCEPT ![k] = [status |-> status, paid |-> paid]]
    /\ UNCHANGED <<stage, contract, signer, programme, obligation>>

CanTerminate(k) == contract[k].status \in {"SIGNED", "ACTIVE"}
Terminate(k) == CanTerminate(k) /\ Move(k, "TERMINATED") /\ UNCHANGED signer

\* reviewDebrief writes the stage the debrief proposes, from whatever stage.
ApproveDebrief(o, s) ==
    /\ stage[o] # "NONE"
    /\ stage' = [stage EXCEPT ![o] = s]
    /\ UNCHANGED <<contract, signer, payment, programme, obligation>>

SealNext ==
    \/ \E k \in Contracts :
         \/ SubmitReview(k) \/ Reject(k) \/ Approve(k) \/ Revise(k) \/ MarkSent(k) \/ Terminate(k)
         \/ \E o \in Opportunities : CreateContract(k, o)
         \/ \E s \in Signers, status \in {"VIEWED", "SIGNED"} : UpdateSigner(k, s, status)
         \/ \E status \in {"INVOICED", "PARTIALLY_PAID", "PAID", "WAIVED", "DISPUTED"}, paid \in 0..Price : RecordPayment(k, status, paid)
         \/ \E ds \in SUBSET Obligations, won \in BOOLEAN : Activate(k, ds, won)
    \/ \E o \in Opportunities, s \in Stages : CreateOpportunity(o, s) \/ ApproveDebrief(o, s)

-----------------------------------------------------------------------------
\* An active contract is executed on the version that was approved, by every signer of that version,
\* and its delivery is anchored to it, whatever was revised, unsigned or rejected on the way
\* (seal.service.ts revise, updateSigner, activate).
ActiveIsExecuted ==
    \A k \in Contracts :
        contract[k].status = "ACTIVE" =>
            /\ contract[k].version = contract[k].approved
            /\ \A s \in Signers : signer[k][s] = "SIGNED"
            /\ programme[k].version = contract[k].version

\* What was recorded of a payment is not lost: signatures may be taken back after it, but a contract
\* that was once signed is never revised again, which would delete its schedule (seal.service.ts
\* revise, updateSigner, recordPayment, activate).
RecordedPaymentsStay ==
    [][\A k \in Contracts : payment[k].status \notin {"DRAFT", "DUE"} => payment'[k].status \notin {"DRAFT", "DUE"}]_sealVars

\* "One live contract is allowed per opportunity."
OneLiveContract == \A o \in Opportunities : Cardinality(Live(o)) <= 1

=============================================================================
