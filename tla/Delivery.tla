------------------------------ MODULE Delivery ------------------------------
(***************************************************************************)
(* Delivery and Renewals: the obligations of an active contract, their     *)
(* evidence and reports (delivery.service.ts, and what the automation      *)
(* guard does to them), the renewal case prepared on those facts           *)
(* (renewals.service.ts), and the opportunity it becomes, whose stage      *)
(* carries the outcome back (opportunities.service.ts).                    *)
(*                                                                         *)
(* A request locks the programme or the case and is one step, taken when   *)
(* what it asks of the records (Can...) holds.  Left out: titles,          *)
(* categories, reasons and texts; a second piece of evidence for an        *)
(* obligation and a second report of a programme; the next actions an      *)
(* opportunity is given.  start finds the programme the activation made.   *)
(***************************************************************************)
EXTENDS Contracts

VARIABLES
    report,   \* the DeliveryReport of a programme
    case,     \* its RenewalCase
    unsynced  \* contracts whose renewal's opportunity Seal or a debrief won, lost or reopened since it was last synchronised (history)

deliveryVars == <<report, case>>

Kept == UNCHANGED <<contract, signer, payment, unsynced>>

NoFacts == [none |-> TRUE]
NoCase == [status |-> "NONE", intent |-> "NONE", snapshot |-> NoFacts, approvedOn |-> NoFacts,
           handedOn |-> NoFacts, opportunity |-> Nothing]

DeliveryInit ==
    /\ report = [k \in Contracts |-> "NONE"]
    /\ case = [k \in Contracts |-> NoCase]
    /\ unsynced = {}

Closed == {"VERIFIED", "WAIVED"}

\* The date says that it is late, whatever the status still is.
Effective(b) ==
    IF b.due = "past" /\ b.status \notin Closed \cup {"NONE", "DELIVERED", "BLOCKED"} THEN "OVERDUE" ELSE b.status

Exists(k) == programme[k].status # "NONE"
IsOpen(k) == programme[k].status \in {"SETUP", "ACTIVE", "AT_RISK"}
Rows(obs) == {b \in Obligations : obs[b].status # "NONE"}

-----------------------------------------------------------------------------
(* Obligations.                                                            *)

\* One obligation changes, and nothing else.
Change(k, b, row) ==
    /\ obligation' = [obligation EXCEPT ![k][b] = row]
    /\ UNCHANGED <<stage, programme, deliveryVars>> /\ Kept

Dates == {"none", "ahead", "past"}

CanCreateObligation(k, b, due) ==
    /\ obligation[k][b].status = "NONE" /\ IsOpen(k)
    /\ programme[k].status # "SETUP" => due # "none"

CreateObligation(k, b, due, proof) ==
    /\ CanCreateObligation(k, b, due)
    /\ Change(k, b, [NoObligation EXCEPT !.due = due, !.proof = proof,
                        !.status = IF programme[k].status = "SETUP" THEN "PLANNED" ELSE "READY"])

\* Mutant of Editable: a closed obligation may still be edited.
Known(row) == row.status # "NONE"

Editable(row) == row.status \notin Closed \cup {"NONE"}

CanUpdateObligation(k, b, due) ==
    /\ IsOpen(k) /\ Editable(obligation[k][b])
    /\ programme[k].status # "SETUP" => due # "none"

UpdateObligation(k, b, due, proof) ==
    LET row == obligation[k][b] IN
    /\ CanUpdateObligation(k, b, due)
    /\ Change(k, b, [row EXCEPT !.due = due, !.proof = proof,
                        !.status = IF @ = "OVERDUE" /\ due # "past" THEN "READY" ELSE @])

CanRecordEvidence(k, b) == IsOpen(k) /\ Editable(obligation[k][b]) /\ obligation[k][b].evidence = "none"

RecordEvidence(k, b) ==
    CanRecordEvidence(k, b) /\ Change(k, b, [obligation[k][b] EXCEPT !.evidence = "attached"])

\* Evidence is verified at any time.
CanVerifyEvidence(k, b) == obligation[k][b].evidence = "attached"

VerifyEvidence(k, b) ==
    CanVerifyEvidence(k, b) /\ Change(k, b, [obligation[k][b] EXCEPT !.evidence = "verified"])

Transitions ==
    [PLANNED |-> {"READY", "BLOCKED", "WAIVED"}, READY |-> {"IN_PROGRESS", "BLOCKED", "WAIVED"},
     IN_PROGRESS |-> {"DELIVERED", "BLOCKED", "WAIVED"}, DELIVERED |-> {"IN_PROGRESS", "VERIFIED"},
     BLOCKED |-> {"READY", "WAIVED"}, OVERDUE |-> {"IN_PROGRESS", "DELIVERED", "BLOCKED", "WAIVED"},
     VERIFIED |-> {}, WAIVED |-> {}]

CanTransition(k, b, to) ==
    LET row == obligation[k][b] IN
    /\ IsOpen(k) /\ row.status # "NONE" /\ to \in Transitions[Effective(row)]
    /\ to = "READY" => row.due # "none"
    /\ row.proof => (to = "DELIVERED" => row.evidence # "none") /\ (to = "VERIFIED" => row.evidence = "verified")

Transition(k, b, to) == CanTransition(k, b, to) /\ Change(k, b, [obligation[k][b] EXCEPT !.status = to])

DeadlinePasses(k, b) ==
    /\ obligation[k][b].due = "ahead"
    /\ Change(k, b, [obligation[k][b] EXCEPT !.due = "past"])

\* The delivery part of the automation guard: late obligations, then the programmes at risk.
Reconcile ==
    /\ obligation' = [k \in Contracts |-> [b \in Obligations |->
           IF Effective(obligation[k][b]) = "OVERDUE" THEN [obligation[k][b] EXCEPT !.status = "OVERDUE"]
           ELSE obligation[k][b]]]
    /\ programme' = [k \in Contracts |->
           IF programme[k].status \notin {"ACTIVE", "AT_RISK"} THEN programme[k]
           ELSE [programme[k] EXCEPT !.status =
                    IF \E b \in Obligations : obligation'[k][b].status \in {"OVERDUE", "BLOCKED"}
                    THEN "AT_RISK" ELSE "ACTIVE"]]
    /\ UNCHANGED <<stage, deliveryVars>> /\ Kept

CanComplete(k) ==
    /\ programme[k].status \in {"ACTIVE", "AT_RISK"}
    /\ \A b \in Rows(obligation[k]) : obligation[k][b].status \in Closed

CompleteProgramme(k) ==
    /\ CanComplete(k)
    /\ programme' = [programme EXCEPT ![k].status = "COMPLETED"]
    /\ UNCHANGED <<stage, obligation, deliveryVars>> /\ Kept

\* A report of a period in which something is due.
CanReport(k) ==
    /\ report[k] = "NONE" => \E b \in Rows(obligation[k]) : obligation[k][b].due # "none" \/ obligation[k][b].evidence # "none"
    /\ report[k] # "SHARED"

\* Generated, approved, shared.
Report(k) ==
    /\ CanReport(k)
    /\ report' = [report EXCEPT ![k] =
           CASE @ = "NONE" -> "DRAFT" [] @ = "DRAFT" -> "APPROVED" [] @ = "APPROVED" -> "SHARED"]
    /\ UNCHANGED <<stage, programme, obligation, case>> /\ Kept

-----------------------------------------------------------------------------
(* Renewal cases.                                                          *)

\* The delivery facts a case rests on: its checksum covers the counts, not what is under way.
Facts(p, obs, r) ==
    LET count(cond(_)) == Cardinality({b \in Rows(obs) : cond(obs[b])})
        as(s) == count(LAMBDA b : Effective(b) = s)
    IN  [programme |-> p.status, review |-> p.review, total |-> Cardinality(Rows(obs)),
         counts |-> [s \in {"VERIFIED", "WAIVED", "DELIVERED", "BLOCKED", "OVERDUE"} |-> as(s)],
         evidence |-> count(LAMBDA b : b.evidence # "none"), checked |-> count(LAMBDA b : b.evidence = "verified"),
         reported |-> r # "NONE", shared |-> r = "SHARED"]

CurrentFacts(k) == Facts(programme[k], obligation[k], report[k])
Fresh(k) == case[k].snapshot = CurrentFacts(k)

Final == {"HANDED_OFF", "RENEWED", "DECLINED"}

\* Mutant of Prepared: new facts under the approval of the old ones.
Refreshed(c, facts) == [c EXCEPT !.status = IF @ = "NONE" THEN "DRAFT" ELSE @, !.snapshot = facts]

\* What was approved is a draft again, on the facts as they are now.
Prepared(c, facts) == [c EXCEPT !.status = "DRAFT", !.snapshot = facts, !.approvedOn = NoFacts]

\* prepareInTransaction, on a programme p that the same transaction may have changed.
CanPrepare(k, p) == case[k].status \notin Final /\ p.status \in {"ACTIVE", "AT_RISK", "COMPLETED"}

Prepare(k, p, obs) ==
    /\ case' = [case EXCEPT ![k] = Prepared(@, Facts(p, obs, report[k]))]
    /\ programme' = [programme EXCEPT ![k] =
           IF p.renewal = "NOT_STARTED" THEN [p EXCEPT !.renewal = "IN_PROGRESS"] ELSE p]

PrepareCase(k) ==
    /\ CanPrepare(k, programme[k]) /\ Prepare(k, programme[k], obligation[k])
    /\ UNCHANGED <<stage, obligation, report>> /\ Kept

Activated(p, review) == [p EXCEPT !.status = "ACTIVE", !.review = review]

\* With a review date the case is prepared too, or nothing happens.
CanConfigure(k, review) ==
    /\ IsOpen(k) /\ Rows(obligation[k]) # {}
    /\ \A b \in Rows(obligation[k]) : obligation[k][b].due # "none"
    /\ review => case[k].status # "APPROVED" /\ CanPrepare(k, Activated(programme[k], review))

Configure(k, review) ==
    LET p == Activated(programme[k], review)
        obs == [b \in Obligations |->
                   IF obligation[k][b].status = "PLANNED" THEN [obligation[k][b] EXCEPT !.status = "READY"]
                   ELSE obligation[k][b]]
    IN  /\ CanConfigure(k, review)
        /\ obligation' = [obligation EXCEPT ![k] = obs]
        /\ IF review THEN Prepare(k, p, obs)
           ELSE programme' = [programme EXCEPT ![k] = p] /\ UNCHANGED case
        /\ UNCHANGED <<stage, report>> /\ Kept

\* A step of the case alone.
CaseMoves(k, row) ==
    /\ case' = [case EXCEPT ![k] = row]
    /\ UNCHANGED <<stage, programme, obligation, report>> /\ Kept

CanUpdateCase(k) == case[k].status \in {"DRAFT", "REVIEW_READY", "ON_HOLD"}

\* The brief, which is complete from then on.
UpdateCase(k, intent) ==
    /\ CanUpdateCase(k)
    /\ CaseMoves(k, [case[k] EXCEPT !.status = "DRAFT", !.intent = intent, !.approvedOn = NoFacts])

CanSubmitCase(k) == case[k].status = "DRAFT" /\ case[k].intent # "NONE" /\ Fresh(k)

SubmitCase(k) ==
    /\ CanSubmitCase(k)
    /\ CaseMoves(k, [case[k] EXCEPT !.status = "REVIEW_READY"])

Decided(intent) == CASE intent = "RENEW" -> "APPROVED" [] intent = "HOLD" -> "ON_HOLD" [] intent = "EXIT" -> "DECLINED"

CanApproveCase(k) == case[k].status = "REVIEW_READY" /\ case[k].intent # "NONE" /\ Fresh(k)

ApproveCase(k) ==
    /\ CanApproveCase(k)
    /\ case' = [case EXCEPT ![k].status = Decided(case[k].intent), ![k].approvedOn = CurrentFacts(k)]
    /\ programme' = [programme EXCEPT ![k].renewal =
           IF case[k].intent = "EXIT" THEN "DECLINED" ELSE "IN_PROGRESS"]
    /\ UNCHANGED <<stage, obligation, report>> /\ Kept

CanHandoff(k, o) ==
    /\ case[k].status = "APPROVED" /\ case[k].intent = "RENEW" /\ case[k].opportunity = Nothing
    /\ Fresh(k) /\ stage[o] = "NONE"

Handoff(k, o) ==
    /\ CanHandoff(k, o)
    /\ stage' = [stage EXCEPT ![o] = "INTERESTED"]
    /\ case' = [case EXCEPT ![k].status = "HANDED_OFF", ![k].opportunity = o, ![k].handedOn = CurrentFacts(k)]
    /\ UNCHANGED <<programme, obligation, report>> /\ Kept

-----------------------------------------------------------------------------
(* The opportunity.                                                        *)

\* What a stage means for the renewal: reopened, won or lost.
Outcome(s) ==
    IF s \in OpenStages THEN [case |-> "HANDED_OFF", renewal |-> "IN_PROGRESS"]
    ELSE IF s = "WON" THEN [case |-> "RENEWED", renewal |-> "RENEWED"]
    ELSE [case |-> "DECLINED", renewal |-> "DECLINED"]

RenewalOf(o) == {k \in Contracts : case[k].opportunity = o}

\* The stage moves, and the cases in linked follow it with their programmes.
StageMoves(o, s, linked) ==
    /\ stage[o] \notin {"NONE", s}
    /\ stage' = [stage EXCEPT ![o] = s]
    /\ case' = [k \in Contracts |->
           IF k \in linked THEN [case[k] EXCEPT !.status = Outcome(s).case] ELSE case[k]]
    /\ programme' = [k \in Contracts |->
           IF k \in linked THEN [programme[k] EXCEPT !.renewal = Outcome(s).renewal] ELSE programme[k]]
    /\ unsynced' = unsynced \ linked
    /\ UNCHANGED <<obligation, report, contract, signer, payment>>

\* Mutant of UpdateOpportunity: one that is opened again leaves the outcome as it was.
SyncWhenClosed(o, s) == StageMoves(o, s, IF s \in ClosedStages THEN RenewalOf(o) ELSE {})

\* The case of the opportunity follows when it is closed or opened again.
UpdateOpportunity(o, s) ==
    StageMoves(o, s, IF stage[o] \in ClosedStages \/ s \in ClosedStages THEN RenewalOf(o) ELSE {})

DeliveryNext ==
    \/ \E k \in Contracts, b \in Obligations :
         \/ \E due \in Dates, proof \in BOOLEAN : CreateObligation(k, b, due, proof) \/ UpdateObligation(k, b, due, proof)
         \/ RecordEvidence(k, b) \/ VerifyEvidence(k, b) \/ DeadlinePasses(k, b)
         \/ \E to \in DOMAIN Transitions : Transition(k, b, to)
    \/ \E k \in Contracts :
         \/ CompleteProgramme(k) \/ Report(k) \/ PrepareCase(k) \/ SubmitCase(k) \/ ApproveCase(k)
         \/ \E review \in BOOLEAN : Configure(k, review)
         \/ \E intent \in {"RENEW", "HOLD", "EXIT"} : UpdateCase(k, intent)
         \/ \E o \in Opportunities : Handoff(k, o)
    \/ \E o \in Opportunities, s \in Stages : UpdateOpportunity(o, s)
    \/ Reconcile

\* The requests of an agreement and the debriefs leave the renewal alone, and the activation and the
\* debrief also when it is its opportunity that they move.
AgreementNext ==
    /\ SealNext /\ UNCHANGED deliveryVars
    /\ unsynced' = unsynced \cup
           {k \in Contracts : \E o \in Opportunities :
                o = case[k].opportunity /\ Outcome(stage'[o]) # Outcome(stage[o])}

\* An agreement and its delivery, in any order of their requests.
ClientNext == AgreementNext \/ DeliveryNext

clientVars == <<sealVars, deliveryVars, unsynced>>

ClientSpec == SealInit /\ DeliveryInit /\ [][ClientNext]_clientVars

-----------------------------------------------------------------------------
(* Properties.                                                             *)

\* A completed programme owes nothing: every obligation is closed, and one that is verified and
\* needs a proof has evidence that a person has verified (delivery.service.ts transition, complete;
\* the dates, the edits and the automation guard may come in between).
CompletedIsProven ==
    \A k \in Contracts :
        programme[k].status = "COMPLETED" =>
            \A b \in Rows(obligation[k]) :
                LET row == obligation[k][b] IN
                /\ row.status \in Closed
                /\ row.status = "VERIFIED" /\ row.proof => row.evidence = "verified"

\* What enters the pipeline as a renewal was approved by a person on the very facts it is handed
\* over on (renewals.service.ts prepareInTransaction, update, approve, handoff).
HandedOverAsApproved ==
    \A k \in Contracts :
        /\ case[k].opportunity # Nothing => case[k].handedOn = case[k].approvedOn
        /\ case[k].status = "APPROVED" => case[k].approvedOn = case[k].snapshot

\* The programme shows what became of its renewal: before there is an opportunity what its case
\* says, and from then on the stage of the opportunity, won, lost or opened again by any number of
\* updates (renewals, delivery and opportunities.service.ts syncRenewalOutcome).  Excepted by name is
\* an opportunity that the activation of a contract or a debrief won, lost or reopened, which
\* synchronise nothing (seal.service.ts activate, orbit.service.ts reviewDebrief), until an update
\* that closes or reopens it.
ProgrammeShowsOutcome ==
    \A k \in Contracts :
        LET c == case[k].status
            o == case[k].opportunity
        IN  /\ programme[k].renewal =
                  CASE c = "NONE" -> "NOT_STARTED" [] c \in {"RENEWED", "DECLINED"} -> c [] OTHER -> "IN_PROGRESS"
            /\ o # Nothing /\ k \notin unsynced =>
                  c = Outcome(stage[o]).case /\ programme[k].renewal = Outcome(stage[o]).renewal

=============================================================================
